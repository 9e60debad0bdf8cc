----------------------------- MODULE StorySource -----------------------------
(***************************************************************************)
(* A1 and A2 of the story pipeline, story/service.py: a source file is     *)
(* ingested as a SourceDocument revision, the current source is planned    *)
(* into chunks, and later stages resolve the current pair of a source and  *)
(* a plan that pins it.  Every call is a sequence of reads and writes of   *)
(* two shared stores, and other processes run between any two of them.     *)
(*                                                                         *)
(* An artifact revision is a number, its content is what the calls tell    *)
(* apart: the text of a source, the source a chunk or a manifest pins.     *)
(* put is the write-once store of ArtifactStore and compare_and_set the    *)
(* register of PointerStore, each one step here; a CURRENT pointer is the  *)
(* sequence of its targets, and a pointer ref is a position in it.  One    *)
(* project, one document and one chunk profile are modelled.  A process    *)
(* may die, and any read or write may raise, between two steps.            *)
(***************************************************************************)
EXTENDS Integers, FiniteSets, SequencesExt

CONSTANTS Procs,     \* processes that call the service
          Roles,     \* the <<process, operation>> pairs that occur
          Texts,     \* contents of the source file
          ChunksOf,  \* ChunksOf[t]: the chunk ids plan_chunks gives for t
          ChunkIds,
          MaxRev,    \* bound on the revisions of sources and of plans
          Rivals,    \* bound on the calls that contend for the last of them
          None

Ops == {"ingest", "plan", "resolve"}
Revs == 1..MaxRev
NoRev == 0

ASSUME RolesAreOps == Roles \subseteq Procs \X Ops
ASSUME BoundsAreNaturals == MaxRev \in Nat
ASSUME NoneIsNothing == None \notin Texts
\* A source has paragraphs, and a plan owns every one of them.
ASSUME PlansAreSequences ==
    ChunksOf \in [Texts -> Seq(ChunkIds)] /\ \A t \in Texts : ChunksOf[t] # <<>>

VARIABLES source,       \* source[r]: the text of SourceDocument r, or None
          sourceReport, \* source revisions with a ValidationReport
          chunk,        \* chunk[r][c]: the source SourceChunk c of r pins, or NoRev
          manifest,     \* manifest[r]: the source ChunkManifest r pins, or NoRev
          planReport,   \* plan revisions with a ValidationReport
          sourceHead,   \* targets of the A1 CURRENT pointer, oldest first
          planHead,     \* targets of the A2 CURRENT pointer, oldest first
          pc,           \* pc[p]: the next step of p's call
          call,         \* call[p]: the local variables of p's call
          result,       \* result[p]: how p's last call ended, or None
          together      \* history: the <<source, plan>> current at the same time

artifacts == <<source, sourceReport, chunk, manifest, planReport>>
heads == <<sourceHead, planHead, together>>
vars == <<artifacts, heads, pc, call, result>>

Steps == {"idle", "read file", "source ref", "source", "recheck source ref",
          "alloc source", "put source", "put source report", "publish source",
          "plan ref", "plan", "reuse source", "reuse plan", "alloc plan", "put chunk",
          "put manifest", "put plan report", "recheck source", "publish plan"}
Call == [op : Ops \union {None}, text : Texts \union {None},
         sourceRef : 0..MaxRev, source : 0..MaxRev,
         planRef : 0..MaxRev, plan : 0..MaxRev,
         rev : 0..MaxRev,           \* the revision this call allocated
         put : Nat]                 \* chunks of it already persisted
NoCall == [op |-> None, text |-> None, sourceRef |-> 0, source |-> NoRev,
           planRef |-> 0, plan |-> NoRev, rev |-> NoRev, put |-> 0]
\* ok, or why the call raised: nothing current, a stale or corrupt plan, a
\* pointer that moved, a revision or pointer another call took, an I/O error.
Statuses == {"ok", "missing", "stale", "corrupt", "moved", "conflict", "failed"}
Result == [status : Statuses, call : Call, reused : BOOLEAN]

TypeOK ==
    /\ source \in [Revs -> Texts \union {None}]
    /\ sourceReport \subseteq Revs
    /\ chunk \in [Revs -> [ChunkIds -> 0..MaxRev]]
    /\ manifest \in [Revs -> 0..MaxRev]
    /\ planReport \subseteq Revs
    /\ sourceHead \in Seq(Revs)
    /\ planHead \in Seq(Revs)
    /\ pc \in [Procs -> Steps]
    /\ call \in [Procs -> Call]
    /\ result \in [Procs -> Result \union {None}]
    /\ together \subseteq Revs \X Revs

Init ==
    /\ source = [r \in Revs |-> None]
    /\ sourceReport = {}
    /\ chunk = [r \in Revs |-> [c \in ChunkIds |-> NoRev]]
    /\ manifest = [r \in Revs |-> NoRev]
    /\ planReport = {}
    /\ sourceHead = <<>>
    /\ planHead = <<>>
    /\ pc = [p \in Procs |-> "idle"]
    /\ call = [p \in Procs |-> NoCall]
    /\ result = [p \in Procs |-> None]
    /\ together = {}

-----------------------------------------------------------------------------
Active == {p \in Procs : pc[p] # "idle"}

Goto(p, s) == pc' = [pc EXCEPT ![p] = s]

\* The call goes on at s with the local variables c.
Continue(p, s, c) ==
    /\ Goto(p, s)
    /\ call' = [call EXCEPT ![p] = c]
    /\ UNCHANGED result

\* The call returns or raises.
Done(p, status, reused, c) ==
    /\ Goto(p, "idle")
    /\ call' = [call EXCEPT ![p] = NoCall]
    /\ result' = [result EXCEPT ![p] = [status |-> status, call |-> c, reused |-> reused]]

Raise(p, status) == Done(p, status, FALSE, call[p])

\* The chunks plan_chunks gives for source revision s.
PlannedChunks(s) == ChunksOf[source[s]]

\* What loading and validating a plan checks: the chunks of the planner for
\* the pinned source, all of this revision, and the plan's report.
Intact(r) ==
    /\ manifest[r] # NoRev
    /\ source[manifest[r]] # None
    /\ \A c \in ToSet(PlannedChunks(manifest[r])) : chunk[r][c] = manifest[r]
    /\ r \in planReport

\* next_source_revision and next_plan_revision: the first free revision after
\* the current one.  A plan needs its manifest and all its chunks free.  Bound:
\* there is no such revision beyond MaxRev, and the call waits (it may fail).
FreeSources == {r \in Revs : source[r] = None}
FreePlans(s) == {r \in Revs : manifest[r] = NoRev
                              /\ \A c \in ToSet(PlannedChunks(s)) : chunk[r][c] = NoRev}
FirstAfter(base, free) ==
    {r \in free : r > base /\ \A q \in free : q > base => r \leq q}

-----------------------------------------------------------------------------
(* Calls.                                                                  *)

\* Bound: a call starts only if the calls under way leave it a revision, or if
\* at most Rivals calls contend for the last one.
RevisionsLeft(o) ==
    LET taken == IF o = "ingest" THEN {r \in Revs : source[r] # None}
                 ELSE {r \in Revs : \E c \in ChunkIds : chunk[r][c] # NoRev}
    IN Cardinality(taken) + Cardinality({p \in Active : call[p].op = o})
           < MaxRev + Rivals

Start(p, o) ==
    /\ pc[p] = "idle"
    /\ <<p, o>> \in Roles
    /\ o = "resolve" \/ RevisionsLeft(o)
    /\ Goto(p, IF o = "ingest" THEN "read file" ELSE "source ref")
    /\ call' = [call EXCEPT ![p] = [NoCall EXCEPT !.op = o]]
    /\ result' = [result EXCEPT ![p] = None]
    /\ UNCHANGED <<artifacts, heads>>

\* ingest_source_project: raw = source_path.read_bytes().  The user may save
\* any text at any time.
ReadFile(p) ==
    /\ pc[p] = "read file"
    /\ \E t \in Texts : Continue(p, "source ref", [call[p] EXCEPT !.text = t])
    /\ UNCHANGED <<artifacts, heads>>

-----------------------------------------------------------------------------
(* Reading the two pointers.  _current_pointer reads the head twice, once  *)
(* for the pointer ref and once for the target.                            *)

ReadSourceRef(p) ==
    /\ pc[p] = "source ref"
    /\ IF sourceHead # <<>>
       THEN Continue(p, "source", [call[p] EXCEPT !.sourceRef = Len(sourceHead)])
       ELSE IF call[p].op = "ingest" THEN Continue(p, "alloc source", call[p])
       ELSE Raise(p, "missing")
    /\ UNCHANGED <<artifacts, heads>>

ReadSource(p) ==
    /\ pc[p] = "source"
    /\ LET s == Last(sourceHead)
           c == [call[p] EXCEPT !.source = s]
       IN IF c.op = "ingest" /\ source[s] # c.text THEN Continue(p, "alloc source", c)
          ELSE IF s \notin sourceReport THEN Done(p, "corrupt", FALSE, c)
          ELSE Continue(p, IF c.op = "ingest" THEN "recheck source ref" ELSE "plan ref", c)
    /\ UNCHANGED <<artifacts, heads>>

ReadPlanRef(p) ==
    /\ pc[p] = "plan ref"
    /\ IF planHead # <<>>
       THEN Continue(p, "plan", [call[p] EXCEPT !.planRef = Len(planHead)])
       ELSE IF call[p].op = "plan" THEN Continue(p, "alloc plan", call[p])
       ELSE Raise(p, "missing")
    /\ UNCHANGED <<artifacts, heads>>

\* Faulty variant, for the check of the properties: the snapshot takes the
\* source head's ref when it is put together.
UsePlanRefLate(p, c) ==
    IF ~Intact(c.plan) THEN Done(p, "corrupt", FALSE, c)
    ELSE IF c.op = "plan"
         THEN Continue(p, IF manifest[c.plan] = c.source THEN "reuse source"
                          ELSE "alloc plan", c)
         ELSE Done(p, IF manifest[c.plan] = c.source THEN "ok" ELSE "stale", FALSE,
                   [c EXCEPT !.sourceRef = Len(sourceHead)])

\* The call has read the current plan: a planner reuses it or plans anew, a
\* resolver accepts it if it pins the source read before.
UsePlan(p, c) ==
    IF ~Intact(c.plan) THEN Done(p, "corrupt", FALSE, c)
    ELSE IF c.op = "plan"
         THEN Continue(p, IF manifest[c.plan] = c.source THEN "reuse source"
                          ELSE "alloc plan", c)
         ELSE Done(p, IF manifest[c.plan] = c.source THEN "ok" ELSE "stale", FALSE, c)

ReadPlan(p) ==
    /\ pc[p] = "plan"
    /\ UsePlan(p, [call[p] EXCEPT !.plan = Last(planHead)])
    /\ UNCHANGED <<artifacts, heads>>

-----------------------------------------------------------------------------
(* Reuse: the pointers must not have moved since they were read.           *)

RecheckSourceRef(p) ==
    /\ pc[p] = "recheck source ref"
    /\ IF Len(sourceHead) = call[p].sourceRef THEN Done(p, "ok", TRUE, call[p])
       ELSE Raise(p, "moved")
    /\ UNCHANGED <<artifacts, heads>>

ReuseSource(p) ==
    /\ pc[p] = "reuse source"
    /\ IF Last(sourceHead) = call[p].source THEN Continue(p, "reuse plan", call[p])
       ELSE Raise(p, "moved")
    /\ UNCHANGED <<artifacts, heads>>

ReusePlan(p) ==
    /\ pc[p] = "reuse plan"
    /\ IF Len(planHead) = call[p].planRef THEN Done(p, "ok", TRUE, call[p])
       ELSE Raise(p, "moved")
    /\ UNCHANGED <<artifacts, heads>>

-----------------------------------------------------------------------------
(* Writing.  A put of other content under a taken revision is a conflict.  *)

AllocSource(p) ==
    /\ pc[p] = "alloc source"
    /\ \E r \in FirstAfter(call[p].source, FreeSources) :
           Continue(p, "put source", [call[p] EXCEPT !.rev = r])
    /\ UNCHANGED <<artifacts, heads>>

PutSource(p) ==
    /\ pc[p] = "put source"
    /\ LET r == call[p].rev
       IN IF source[r] \in {None, call[p].text}
          THEN /\ source' = [source EXCEPT ![r] = call[p].text]
               /\ Continue(p, "put source report", call[p])
          ELSE /\ Raise(p, "conflict")
               /\ UNCHANGED source
    /\ UNCHANGED <<sourceReport, chunk, manifest, planReport, heads>>

\* The report of a revision is a function of the revision: it never conflicts.
PutSourceReport(p) ==
    /\ pc[p] = "put source report"
    /\ sourceReport' = sourceReport \union {call[p].rev}
    /\ Continue(p, "publish source", call[p])
    /\ UNCHANGED <<source, chunk, manifest, planReport, heads>>

\* compare_and_set on a head: exact replacement (nothing to do if the target is
\* current already), or the exact retry of the last one, or a conflict.  The
\* head may be written and the call still raise.
Replaces(head, expected) == Len(head) = expected
Retries(head, expected, target) ==
    Len(head) = expected + 1 /\ Last(head) = target

CompareAndSet(head, expected, target) ==
    IF Replaces(head, expected) /\ (head = <<>> \/ Last(head) # target)
    THEN Append(head, target) ELSE head

Current(sources, plans) ==
    IF sources = <<>> \/ plans = <<>> THEN {} ELSE {<<Last(sources), Last(plans)>>}

PublishSource(p) ==
    /\ pc[p] = "publish source"
    /\ LET c == call[p]
           ref == Len(sourceHead')
       IN /\ sourceHead' = CompareAndSet(sourceHead, c.sourceRef, c.rev)
          /\ IF Replaces(sourceHead, c.sourceRef) \/ Retries(sourceHead, c.sourceRef, c.rev)
             THEN \/ Done(p, "ok", FALSE, [c EXCEPT !.sourceRef = ref, !.source = c.rev])
                  \/ Raise(p, "failed")
             ELSE Raise(p, "conflict")
    /\ together' = together \union Current(sourceHead', planHead)
    /\ UNCHANGED <<artifacts, planHead>>

AllocPlan(p) ==
    /\ pc[p] = "alloc plan"
    /\ \E r \in FirstAfter(call[p].plan, FreePlans(call[p].source)) :
           Continue(p, "put chunk", [call[p] EXCEPT !.rev = r])
    /\ UNCHANGED <<artifacts, heads>>

\* persist_source_chunk, in planner order.
PutChunk(p) ==
    /\ pc[p] = "put chunk"
    /\ LET k == call[p]
           c == PlannedChunks(k.source)[k.put + 1]
           last == k.put + 1 = Len(PlannedChunks(k.source))
       IN IF chunk[k.rev][c] \in {NoRev, k.source}
          THEN /\ chunk' = [chunk EXCEPT ![k.rev][c] = k.source]
               /\ Continue(p, IF last THEN "put manifest" ELSE "put chunk",
                           [k EXCEPT !.put = k.put + 1])
          ELSE /\ Raise(p, "conflict")
               /\ UNCHANGED chunk
    /\ UNCHANGED <<source, sourceReport, manifest, planReport, heads>>

PutManifest(p) ==
    /\ pc[p] = "put manifest"
    /\ LET r == call[p].rev
       IN IF manifest[r] \in {NoRev, call[p].source}
          THEN /\ manifest' = [manifest EXCEPT ![r] = call[p].source]
               /\ Continue(p, "put plan report", call[p])
          ELSE /\ Raise(p, "conflict")
               /\ UNCHANGED manifest
    /\ UNCHANGED <<source, sourceReport, chunk, planReport, heads>>

\* Faulty variant: a report that cannot be written does not stop the planner.
SkipPlanReport(p) ==
    /\ pc[p] = "put plan report"
    /\ \/ planReport' = planReport \union {call[p].rev}
       \/ UNCHANGED planReport
    /\ Continue(p, "recheck source", call[p])
    /\ UNCHANGED <<source, sourceReport, chunk, manifest, heads>>

PutPlanReport(p) ==
    /\ pc[p] = "put plan report"
    /\ planReport' = planReport \union {call[p].rev}
    /\ Continue(p, "recheck source", call[p])
    /\ UNCHANGED <<source, sourceReport, chunk, manifest, heads>>

RecheckSource(p) ==
    /\ pc[p] = "recheck source"
    /\ IF Last(sourceHead) = call[p].source THEN Continue(p, "publish plan", call[p])
       ELSE Raise(p, "moved")
    /\ UNCHANGED <<artifacts, heads>>

\* Faulty variant: the answer names the pointer that was replaced.
PublishPlanOldRef(p) ==
    /\ pc[p] = "publish plan"
    /\ LET c == call[p]
       IN /\ planHead' = CompareAndSet(planHead, c.planRef, c.rev)
          /\ IF Replaces(planHead, c.planRef) \/ Retries(planHead, c.planRef, c.rev)
             THEN \/ Done(p, "ok", FALSE, [c EXCEPT !.plan = c.rev])
                  \/ Raise(p, "failed")
             ELSE Raise(p, "conflict")
    /\ together' = together \union Current(sourceHead, planHead')
    /\ UNCHANGED <<artifacts, sourceHead>>

PublishPlan(p) ==
    /\ pc[p] = "publish plan"
    /\ LET c == call[p]
           ref == Len(planHead')
       IN /\ planHead' = CompareAndSet(planHead, c.planRef, c.rev)
          /\ IF Replaces(planHead, c.planRef) \/ Retries(planHead, c.planRef, c.rev)
             THEN \/ Done(p, "ok", FALSE, [c EXCEPT !.planRef = ref, !.plan = c.rev])
                  \/ Raise(p, "failed")
             ELSE Raise(p, "conflict")
    /\ together' = together \union Current(sourceHead, planHead')
    /\ UNCHANGED <<artifacts, sourceHead>>

\* A read or a write raises, or the process dies: what it wrote stays.
Fails(p) ==
    /\ p \in Active
    /\ Raise(p, "failed")
    /\ UNCHANGED <<artifacts, heads>>

Step(p) ==
    \/ ReadFile(p) \/ ReadSourceRef(p) \/ ReadSource(p) \/ RecheckSourceRef(p)
    \/ AllocSource(p) \/ PutSource(p) \/ PutSourceReport(p) \/ PublishSource(p)
    \/ ReadPlanRef(p) \/ ReadPlan(p) \/ ReuseSource(p) \/ ReusePlan(p)
    \/ AllocPlan(p) \/ PutChunk(p) \/ PutManifest(p) \/ PutPlanReport(p)
    \/ RecheckSource(p) \/ PublishPlan(p)

Next ==
    \E p \in Procs : Step(p) \/ Fails(p) \/ \E o \in Ops : Start(p, o)

Spec == Init /\ [][Next]_vars

-----------------------------------------------------------------------------
(* Properties.                                                             *)

Told(p, op) == result[p] # None /\ result[p].status = "ok" /\ result[p].call.op = op

\* What is current is whole at every moment, whoever died in between: a
\* published source has its report, a published plan its manifest, report and
\* every chunk of the planner, all pinning one source that was published.
CurrentIsComplete ==
    /\ \A i \in DOMAIN sourceHead :
           source[sourceHead[i]] # None /\ sourceHead[i] \in sourceReport
    /\ \A i \in DOMAIN planHead :
           Intact(planHead[i]) /\ manifest[planHead[i]] \in ToSet(sourceHead)

\* A writer that is told ok learns refs that belong together: the pointer ref
\* it gets names the artifact it gets, and ingest published the text it read.
\* A source and a plan that are answered again were both current at one moment,
\* although the planner reads them one after the other.
ResultsAreTrue ==
    \A p \in Procs :
        LET c == result[p].call
        IN /\ Told(p, "ingest") => /\ c.sourceRef \in DOMAIN sourceHead
                                   /\ sourceHead[c.sourceRef] = c.source
                                   /\ source[c.source] = c.text
           /\ Told(p, "plan") => /\ c.planRef \in DOMAIN planHead
                                 /\ planHead[c.planRef] = c.plan
                                 /\ manifest[c.plan] = c.source
                                 /\ result[p].reused => <<c.source, c.plan>> \in together

\* The upstream guard of the later stages: while both heads still equal the
\* refs a snapshot captured, its source and its plan are the current ones.
UnmovedIsCurrent ==
    \A p \in Procs :
        LET c == result[p].call
        IN /\ Told(p, "resolve")
           /\ c.sourceRef = Len(sourceHead)
           /\ c.planRef = Len(planHead)
           => /\ c.source = Last(sourceHead)
              /\ c.plan = Last(planHead)
              /\ manifest[c.plan] = c.source

=============================================================================

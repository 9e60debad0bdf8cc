-------------------------- MODULE StoryPublication --------------------------
(***************************************************************************)
(* The stages A4, A5 and A6 of the story pipeline around their provider    *)
(* work: each resolves the CURRENT output of the stage before it, answers  *)
(* with its own CURRENT output if that was made from the same input under  *)
(* the same configuration, and otherwise makes, writes and publishes a new *)
(* revision.  Calls of several processes share the stores: other steps run *)
(* between any two of a call, and a call may fail or die at each.          *)
(*                                                                         *)
(* A1 to A3 (StorySource, ChunkExtraction) are one counter, the moves of   *)
(* their CURRENT pointers.  A revision of a stage has three parts, written *)
(* in this order: the leaves (five or six artifacts under one revision),   *)
(* the root (EntityMap or manifest) that pins them, and the PASS report.   *)
(* A CURRENT pointer is the sequence of its targets, and a pointer ref a   *)
(* position in it, as in StorySource.  What the provider work yields is a  *)
(* member of Outputs; EntityReconciliation and EvidenceConsolidation model *)
(* how it is made.                                                         *)
(***************************************************************************)
EXTENDS Integers, FiniteSets, SequencesExt

CONSTANTS Procs,    \* processes
          Configs,  \* profiles and prompts: what a semantic identity adds
          Outputs,  \* what provider work may yield
          Calls,    \* the <<process, config, first stage, last stage>> that occur
          MaxInput, \* bound on the moves of the A1-A3 pointers
          MaxRev,   \* bound on the revisions of a stage
          MaxOrphans, \* bound on the orphans when a call fails
          None

Stages == 4..6
Revs == 1..MaxRev
NoRev == 0

ASSUME BoundsAreNaturals == MaxInput \in Nat /\ MaxRev \in Nat
ASSUME CallsAreRanges ==
    \A c \in Calls : /\ c[1] \in Procs /\ c[2] \in Configs
                     /\ c[3] \in 3..6 /\ c[4] \in Stages /\ c[3] \leq c[4]

VARIABLES input,   \* moves of the A1-A3 CURRENT pointers; 0: not complete
          leaves,  \* leaves[s][r]: what the leaves of r hold, or None
          root,    \* root[s][r]: what root r of stage s pins, or None
          report,  \* <<stage, revision>> with a PASS ValidationReport
          head,    \* head[s]: targets of the CURRENT pointer of s, oldest first
          pc,      \* pc[p]: the next step of p's call
          call,    \* call[p]: the local variables of p's call
          result,  \* result[p]: how p's last call ended, or None
          shared,  \* history: others were active during p's last call
          overtaken \* history: revisions whose input moved before the work was done

store == <<leaves, root, report, overtaken>>
vars == <<input, store, head, pc, call, result, shared>>

Steps == {"idle", "inputs", "upstream ref", "upstream", "own ref", "own",
          "reuse upstream", "reuse own", "generate", "stable before", "current ref",
          "current", "alloc", "put leaves", "put root", "put report", "stable",
          "publish"}
Leaves == [up : Nat, out : Outputs]
Root == [up : Nat, out : Outputs, config : Configs]
Answer == [up : Nat, ref : Nat, rev : 0..MaxRev, called : BOOLEAN, reused : BOOLEAN]
Call == [config : Configs, first : 3..6, last : Stages,
         stage : Stages,
         up : Nat, upRef : Nat,          \* upstream revision and pointer ref
         ref : Nat, rev : 0..MaxRev,     \* own pointer ref and revision
         out : Outputs \union {None},
         fresh : BOOLEAN,                \* history: up was current when out was made
         coherent : BOOLEAN,             \* history: Coherent held at the start
         answers : Seq(Answer)]          \* of the stages that returned
\* ok, or why the call raised: nothing current, a corrupt CURRENT, a pointer
\* that moved, a revision or pointer another call took, any other error.
Statuses == {"ok", "missing", "corrupt", "moved", "conflict", "failed"}
Result == [status : Statuses, config : Configs, first : 3..6, answers : Seq(Answer),
           before : BOOLEAN, after : BOOLEAN]  \* history: Coherent, then and at the end

\* None is no record and no output.
ASSUME NoneIsNothing == None \notin Outputs \union Leaves \union Root \union Call \union Result

TypeOK ==
    /\ input \in 0..MaxInput
    /\ leaves \in [Stages -> [Revs -> Leaves \union {None}]]
    /\ root \in [Stages -> [Revs -> Root \union {None}]]
    /\ report \subseteq Stages \X Revs
    /\ head \in [Stages -> Seq(Revs)]
    /\ pc \in [Procs -> Steps]
    /\ call \in [Procs -> Call \union {None}]
    /\ \A p \in Procs : pc[p] = "idle" <=> call[p] = None
    /\ result \in [Procs -> Result \union {None}]
    /\ shared \in [Procs -> BOOLEAN]
    /\ overtaken \subseteq Stages \X Revs

Init ==
    /\ input = 0
    /\ leaves = [s \in Stages |-> [r \in Revs |-> None]]
    /\ root = [s \in Stages |-> [r \in Revs |-> None]]
    /\ report = {}
    /\ head = [s \in Stages |-> <<>>]
    /\ pc = [p \in Procs |-> "idle"]
    /\ call = [p \in Procs |-> None]
    /\ result = [p \in Procs |-> None]
    /\ shared = [p \in Procs |-> FALSE]
    /\ overtaken = {}

-----------------------------------------------------------------------------
(* The chain.                                                              *)

Active == {p \in Procs : pc[p] # "idle"}

\* The position of the pointers stage s reads from, and their target.
UpRef(s) == IF s = 4 THEN input ELSE Len(head[s - 1])
UpIn(s, h) == IF s = 4 THEN input ELSE IF h[s - 1] = <<>> THEN NoRev ELSE Last(h[s - 1])
Up(s) == UpIn(s, head)

\* What verifying a CURRENT root checks: its leaves, under its revision, are
\* what it pins, and its PASS report is there.
Complete(s, r) ==
    /\ root[s][r] # None
    /\ leaves[s][r] = [up |-> root[s][r].up, out |-> root[s][r].out]
    /\ <<s, r>> \in report

\* The identity of a root: its input, its configuration.
Matches(s, r, c) == root[s][r].up = c.up /\ root[s][r].config = c.config

\* With the pointers at h, the CURRENT roots of c's stages are made one from the
\* other, from the input.
Coherent(c, h) ==
    \A s \in Stages \cap (c.first..c.last) :
        /\ h[s] # <<>>
        /\ root[s][Last(h[s])].up = UpIn(s, h)
        /\ root[s][Last(h[s])].config = c.config

\* next_a4_revision, next_a5_revision, next_a6_revision: the first revision
\* after the current one with no artifact.  Bound: MaxRev; a call that finds
\* none waits (it may fail).
Free(s) == {r \in Revs : leaves[s][r] = None /\ root[s][r] = None /\ <<s, r>> \notin report}
FirstAfter(base, free) ==
    {r \in free : r > base /\ \A q \in free : q > base => r \leq q}

-----------------------------------------------------------------------------
(* Calls.                                                                  *)

Goto(p, s) == pc' = [pc EXCEPT ![p] = s]

\* The call goes on at s with the local variables c, or ends with the pointers
\* at h.
Continue(p, s, c) ==
    /\ Goto(p, s)
    /\ call' = [call EXCEPT ![p] = c]
    /\ UNCHANGED <<result, shared>>

End(p, status, c, h) ==
    /\ Goto(p, "idle")
    /\ call' = [call EXCEPT ![p] = None]
    /\ result' = [result EXCEPT ![p] =
                     [status |-> status, config |-> c.config, first |-> c.first,
                      answers |-> IF status = "ok" THEN c.answers ELSE <<>>,
                      before |-> status = "ok" /\ c.coherent,
                      after |-> status = "ok" /\ Coherent(c, h)]]
    /\ UNCHANGED shared

Raise(p, status) == End(p, status, call[p], head)

\* A stage starts from nothing but the stores.
AtStage(c, s) ==
    [c EXCEPT !.stage = s, !.up = 0, !.upRef = 0, !.ref = 0, !.rev = NoRev,
              !.out = None, !.fresh = FALSE]

\* The stage returns: analyze_story_project goes on to the next one.
Return(p, c, reused, h) ==
    LET answer == [up |-> c.up, ref |-> c.ref, rev |-> c.rev,
                   called |-> c.out # None, reused |-> reused]
        done == [c EXCEPT !.answers = Append(@, answer)]
    IN IF c.stage = c.last THEN End(p, "ok", done, h)
       ELSE Continue(p, "upstream ref", AtStage(done, c.stage + 1))

Start(p) ==
    /\ pc[p] = "idle"
    /\ \E c \in Calls :
           /\ c[1] = p
           /\ Goto(p, IF c[3] = 3 THEN "inputs" ELSE "upstream ref")
           /\ call' = [call EXCEPT ![p] =
                  [config |-> c[2], first |-> c[3], last |-> c[4],
                   stage |-> IF c[3] = 3 THEN 4 ELSE c[3],
                   up |-> 0, upRef |-> 0, ref |-> 0, rev |-> NoRev,
                   out |-> None, fresh |-> FALSE, coherent |-> FALSE, answers |-> <<>>]]
    /\ result' = [result EXCEPT ![p] = None]
    /\ shared' = [q \in Procs |-> IF q = p THEN Active # {} ELSE shared[q] \/ q \in Active]
    /\ UNCHANGED <<input, store, head>>

\* analyze_story_project runs A1 to A3 first: they find everything current, or
\* move their pointers.
Inputs(p) ==
    /\ pc[p] = "inputs"
    /\ input' \in {input, input + 1} \cap (1..MaxInput)
    /\ Continue(p, "upstream ref", call[p])
    /\ UNCHANGED <<store, head>>

\* Another process runs A1, A2 or A3 to its end.
MoveInput ==
    /\ input < MaxInput
    /\ input' = input + 1
    /\ shared' = [q \in Procs |-> shared[q] \/ q \in Active]
    /\ UNCHANGED <<store, head, pc, call, result>>

-----------------------------------------------------------------------------
(* Reading.  A pointer is read twice, for the pointer ref and for the      *)
(* target; A4 and A5 compare the ref once more when the root is verified.  *)

\* A call looks at the whole chain when it starts.
Starts(c) == IF c.answers = <<>> THEN [c EXCEPT !.coherent = Coherent(c, head)] ELSE c

\* A4 captures the pointers of A1, A2 and every chunk of A3.
ReadInputs(p) ==
    /\ pc[p] = "upstream ref"
    /\ call[p].stage = 4
    /\ IF input = 0 THEN Raise(p, "missing")
       ELSE Continue(p, "own ref", [Starts(call[p]) EXCEPT !.upRef = input, !.up = input])
    /\ UNCHANGED <<input, store, head>>

ReadUpstreamRef(p) ==
    /\ pc[p] = "upstream ref"
    /\ LET c == call[p]
       IN /\ c.stage > 4
          /\ IF UpRef(c.stage) = 0 THEN Raise(p, "missing")
             ELSE Continue(p, "upstream", [Starts(c) EXCEPT !.upRef = UpRef(c.stage)])
    /\ UNCHANGED <<input, store, head>>

\* The upstream root is verified, and its pointer has not moved since.
ReadUpstream(p) ==
    /\ pc[p] = "upstream"
    /\ LET c == call[p]
       IN IF UpRef(c.stage) # c.upRef THEN Raise(p, "moved")
          ELSE IF ~Complete(c.stage - 1, Up(c.stage)) THEN Raise(p, "corrupt")
          ELSE Continue(p, "own ref", [c EXCEPT !.up = Up(c.stage)])
    /\ UNCHANGED <<input, store, head>>

ReadOwnRef(p) ==
    /\ pc[p] = "own ref"
    /\ LET c == call[p]
       IN IF head[c.stage] = <<>> THEN Continue(p, "generate", c)
          ELSE Continue(p, "own", [c EXCEPT !.ref = Len(head[c.stage])])
    /\ UNCHANGED <<input, store, head>>

\* Faulty variant: what is current under another configuration is good enough.
ReadOwnAnyConfig(p) ==
    /\ pc[p] = "own"
    /\ LET c == call[p]
           r == Last(head[c.stage])
       IN IF c.stage < 6 /\ Len(head[c.stage]) # c.ref THEN Raise(p, "moved")
          ELSE IF ~Complete(c.stage, r) THEN Raise(p, "corrupt")
          ELSE IF root[c.stage][r].up = c.up
               THEN Continue(p, "reuse upstream", [c EXCEPT !.rev = r])
          ELSE Continue(p, "generate", [c EXCEPT !.ref = 0])
    /\ UNCHANGED <<input, store, head>>

\* try_reuse_current: CURRENT is verified before it is compared.
ReadOwn(p) ==
    /\ pc[p] = "own"
    /\ LET c == call[p]
           r == Last(head[c.stage])
       IN IF c.stage < 6 /\ Len(head[c.stage]) # c.ref THEN Raise(p, "moved")
          ELSE IF ~Complete(c.stage, r) THEN Raise(p, "corrupt")
          ELSE IF Matches(c.stage, r, c)
               THEN Continue(p, "reuse upstream", [c EXCEPT !.rev = r])
          ELSE Continue(p, "generate", [c EXCEPT !.ref = 0])
    /\ UNCHANGED <<input, store, head>>

-----------------------------------------------------------------------------
(* Reuse: the upstream must be what was read, and A5 looks at its own      *)
(* pointer again.                                                          *)

UpstreamUnmoved(c) ==
    IF c.stage = 5 THEN Up(5) = c.up /\ Complete(4, c.up) ELSE UpRef(c.stage) = c.upRef

ReuseUpstream(p) ==
    /\ pc[p] = "reuse upstream"
    /\ LET c == call[p]
       IN IF ~UpstreamUnmoved(c) THEN Raise(p, "moved")
          ELSE IF c.stage = 5 THEN Continue(p, "reuse own", c)
          ELSE Return(p, c, TRUE, head)
    /\ UNCHANGED <<input, store, head>>

ReuseOwn(p) ==
    /\ pc[p] = "reuse own"
    /\ IF Len(head[5]) = call[p].ref THEN Return(p, call[p], TRUE, head) ELSE Raise(p, "moved")
    /\ UNCHANGED <<input, store, head>>

-----------------------------------------------------------------------------
(* Making and publishing a revision.                                       *)

\* The provider work and the finalization, all in memory.
Generate(p) ==
    /\ pc[p] = "generate"
    /\ LET c == call[p]
       IN \E o \in Outputs :
              Continue(p, IF c.stage = 4 THEN "stable before" ELSE "current ref",
                       [c EXCEPT !.out = o, !.fresh = UpRef(c.stage) = c.upRef])
    /\ UNCHANGED <<input, store, head>>

\* Faulty variant: A4 does not look at its input again.
SkipStableBefore(p) ==
    /\ pc[p] = "stable before"
    /\ Continue(p, "current ref", call[p])
    /\ UNCHANGED <<input, store, head>>

\* A4 looks at the upstream pointers before it publishes.
StableBefore(p) ==
    /\ pc[p] = "stable before"
    /\ IF UpstreamUnmoved(call[p]) THEN Continue(p, "current ref", call[p])
       ELSE Raise(p, "moved")
    /\ UNCHANGED <<input, store, head>>

ReadCurrentRef(p) ==
    /\ pc[p] = "current ref"
    /\ LET c == call[p]
       IN IF head[c.stage] = <<>> THEN Continue(p, "alloc", c)
          ELSE Continue(p, "current", [c EXCEPT !.ref = Len(head[c.stage])])
    /\ UNCHANGED <<input, store, head>>

\* publish_validated reads and verifies CURRENT again; only A4 answers with it
\* when another call has published the same identity meanwhile.
ReadCurrent(p) ==
    /\ pc[p] = "current"
    /\ LET c == call[p]
           r == Last(head[c.stage])
       IN IF c.stage < 6 /\ Len(head[c.stage]) # c.ref THEN Raise(p, "moved")
          ELSE IF ~Complete(c.stage, r) THEN Raise(p, "corrupt")
          ELSE IF c.stage = 4 /\ Matches(4, r, c) THEN Return(p, [c EXCEPT !.rev = r], TRUE, head)
          ELSE Continue(p, "alloc", [c EXCEPT !.rev = r])
    /\ UNCHANGED <<input, store, head>>

\* Faulty variant: the revision after the current one, free or not.
AllocNext(p) ==
    /\ pc[p] = "alloc"
    /\ call[p].rev < MaxRev
    /\ Continue(p, "put leaves", [call[p] EXCEPT !.rev = @ + 1])
    /\ UNCHANGED <<input, store, head>>

Alloc(p) ==
    /\ pc[p] = "alloc"
    /\ \E r \in FirstAfter(call[p].rev, Free(call[p].stage)) :
           Continue(p, "put leaves", [call[p] EXCEPT !.rev = r])
    /\ UNCHANGED <<input, store, head>>

\* A put of other content under a taken slot is a conflict.
PutLeaves(p) ==
    /\ pc[p] = "put leaves"
    /\ LET c == call[p]
           content == [up |-> c.up, out |-> c.out]
       IN IF leaves[c.stage][c.rev] \in {None, content}
          THEN /\ leaves' = [leaves EXCEPT ![c.stage][c.rev] = content]
               /\ Continue(p, "put root", c)
          ELSE /\ Raise(p, "conflict")
               /\ UNCHANGED leaves
    /\ UNCHANGED <<input, root, report, overtaken, head>>

PutRoot(p) ==
    /\ pc[p] = "put root"
    /\ LET c == call[p]
           content == [up |-> c.up, out |-> c.out, config |-> c.config]
       IN IF root[c.stage][c.rev] \in {None, content}
          THEN /\ root' = [root EXCEPT ![c.stage][c.rev] = content]
               /\ overtaken' = IF c.fresh THEN overtaken
                               ELSE overtaken \union {<<c.stage, c.rev>>}
               /\ Continue(p, "put report", c)
          ELSE /\ Raise(p, "conflict")
               /\ UNCHANGED <<root, overtaken>>
    /\ UNCHANGED <<input, leaves, report, head>>

\* Faulty variant: the report may be missing.
SkipReport(p) ==
    /\ pc[p] = "put report"
    /\ report' \in {report, report \union {<<call[p].stage, call[p].rev>>}}
    /\ Continue(p, IF call[p].stage = 4 THEN "publish" ELSE "stable", call[p])
    /\ UNCHANGED <<input, leaves, root, overtaken, head>>

\* The report is a function of the root: it never conflicts.
PutReport(p) ==
    /\ pc[p] = "put report"
    /\ report' = report \union {<<call[p].stage, call[p].rev>>}
    /\ Continue(p, IF call[p].stage = 4 THEN "publish" ELSE "stable", call[p])
    /\ UNCHANGED <<input, leaves, root, overtaken, head>>

\* A5 and A6 look at the upstream when all is written.
Stable(p) ==
    /\ pc[p] = "stable"
    /\ IF UpstreamUnmoved(call[p]) THEN Continue(p, "publish", call[p])
       ELSE Raise(p, "moved")
    /\ UNCHANGED <<input, store, head>>

\* Faulty variant: the pointer is set whatever it is now.
PublishBlindly(p) ==
    /\ pc[p] = "publish"
    /\ LET c == call[p]
           h == [head EXCEPT ![c.stage] = Append(@, c.rev)]
       IN /\ head' = h
          /\ Return(p, [c EXCEPT !.ref = Len(h[c.stage])], FALSE, h)
    /\ UNCHANGED <<input, store>>

\* compare_and_set: an exact replacement, the exact retry of the last one, or
\* a conflict.  The pointer may be written and the call still raise.
Publish(p) ==
    /\ pc[p] = "publish"
    /\ LET c == call[p]
           own == head[c.stage]
           replaces == Len(own) = c.ref /\ (own = <<>> \/ Last(own) # c.rev)
           retries == Len(own) = c.ref + 1 /\ Last(own) = c.rev
           h == IF replaces THEN [head EXCEPT ![c.stage] = Append(@, c.rev)] ELSE head
       IN /\ head' = h
          /\ IF replaces \/ retries
             THEN \/ Return(p, [c EXCEPT !.ref = Len(h[c.stage])], FALSE, h)
                  \/ End(p, "failed", c, h)
             ELSE Raise(p, "conflict")
    /\ UNCHANGED <<input, store>>

\* A read, a write or the provider fails, or the process dies; nothing is
\* undone, and no later stage starts.  Bound: MaxOrphans revisions with an
\* artifact that were never current.
Orphans == {x \in Stages \X Revs : x[2] \notin ToSet(head[x[1]]) /\ leaves[x[1]][x[2]] # None}

Fails(p) ==
    /\ p \in Active
    /\ Cardinality(Orphans) \leq MaxOrphans
    /\ Raise(p, "failed")
    /\ UNCHANGED <<input, store, head>>

Step(p) ==
    \/ Inputs(p) \/ ReadInputs(p) \/ ReadUpstreamRef(p) \/ ReadUpstream(p) \/ ReadOwnRef(p) \/ ReadOwn(p)
    \/ ReuseUpstream(p) \/ ReuseOwn(p) \/ Generate(p) \/ StableBefore(p)
    \/ ReadCurrentRef(p) \/ ReadCurrent(p) \/ Alloc(p) \/ PutLeaves(p) \/ PutRoot(p)
    \/ PutReport(p) \/ Stable(p) \/ Publish(p)

Next == MoveInput \/ \E p \in Procs : Start(p) \/ Step(p) \/ Fails(p)

Spec == Init /\ [][Next]_vars

-----------------------------------------------------------------------------
(* Properties.                                                             *)

\* The abstract history of CURRENT revisions, and what they were made from.
Chain == INSTANCE Lineage WITH
    current <- head,
    made <- [s \in Stages |-> [i \in DOMAIN head[s] |-> root[s][head[s][i]].up]]

\* Publication is the lineage of Lineage.tla: whatever calls overlap, fail or
\* race for a revision, a stage's CURRENT only goes up, never returns, and is
\* made from upstream revisions that were CURRENT.
ImplementsLineage == Chain!Spec

\* Whatever was CURRENT can be verified at every later moment: leaves, root
\* and report of one revision, made in one call or in calls that agreed.
CurrentIsComplete ==
    \A s \in Stages : \A r \in ToSet(head[s]) : Complete(s, r)

\* "Refusing to publish a stale state": work that was overtaken, whose upstream
\* pointer had moved when the provider answered, never becomes CURRENT.
OvertakenIsNotPublished ==
    \A s \in Stages : \A r \in ToSet(head[s]) : <<s, r>> \notin overtaken

Answers(p) == IF result[p] = None THEN <<>> ELSE result[p].answers
StageOf(p, i) == Max({result[p].first, 4}) + i - 1

\* What a stage answers is a revision that was CURRENT, made from the input
\* the stage resolved under the configuration it was called with; unless A6
\* reuses, the pointer ref it answers is the one that names the revision.
AnswersAreTrue ==
    \A p \in Procs : \A i \in DOMAIN Answers(p) :
        LET a == Answers(p)[i]
            s == StageOf(p, i)
        IN /\ a.rev \in ToSet(head[s])
           /\ root[s][a.rev].up = a.up
           /\ root[s][a.rev].config = result[p].config
           /\ s < 6 \/ ~a.reused => a.ref \in DOMAIN head[s] /\ head[s][a.ref] = a.rev
           /\ ~a.called => a.reused

\* A call that is alone is not refused, whatever orphans others left.  It leaves
\* its stages made one from the other, up to the input, and if they were so
\* before, it calls no provider: a rerun is free.
AloneIsServed ==
    \A p \in Procs : result[p] # None /\ ~shared[p] =>
        /\ result[p].status \notin {"moved", "conflict", "corrupt"}
        /\ result[p].status = "ok" =>
            /\ result[p].after
            /\ result[p].before => \A i \in DOMAIN Answers(p) : ~Answers(p)[i].called

\* What try_reuse_current of A6 says of its answer: an exact, currently
\* published hit, so the pointer ref names the manifest.
ReuseIsExact ==
    \A p \in Procs : \A i \in DOMAIN Answers(p) :
        LET a == Answers(p)[i]
            s == StageOf(p, i)
        IN a.reused => head[s][a.ref] = a.rev
=============================================================================

--------------------------- MODULE ChunkExtraction ---------------------------
(***************************************************************************)
(* A3 of the story pipeline: extract_chunks runs the language model over   *)
(* the chunks of the current snapshot, one after the other, and publishes  *)
(* each validated extraction under the chunk's own CURRENT pointer.  There *)
(* is no journal: a batch that dies is resumed by running it again, when   *)
(* every chunk whose current extraction has exactly the requested identity *)
(* is reused.  A call to the model is retried on transient errors, and a   *)
(* semantically invalid answer is generated anew, both a bounded number of *)
(* times.  A4 resolves the complete set of current extractions.            *)
(*                                                                         *)
(* The snapshot of A1 and A2, a source file and its plan (StoryText), is a *)
(* number that others move forward at any time (StorySource); the identity *)
(* of an extraction is the snapshot and the semantic request it answers.   *)
(* put, compare_and_set and the two reads of a pointer are as in           *)
(* StorySource.  A process may die, and any read or write may raise,       *)
(* between two steps.                                                      *)
(***************************************************************************)
EXTENDS CandidatePayload

CONSTANTS Procs,
          Inputs,       \* studies: roles, files by snapshot, profile, answers
          Requests,     \* semantic requests: prompt, schema, LLM profile
          MaxRounds,    \* StoryExtractionProfile.max_generation_rounds
          MaxAttempts,  \* MaxAttempts[p]: max_attempts of the client p calls with
          MaxRev        \* bound on the revisions of an extraction

Ops == {"extract", "require"}
Revs == 1..MaxRev

ASSUME ExtractionBounds ==
    /\ MaxRounds \in Nat \ {0}
    /\ MaxAttempts \in [Procs -> 1..3]
    /\ MaxRev \in Nat
    /\ \A i \in Inputs : /\ i.roles \subseteq Procs \X Ops \X Requests
                         /\ IsProfile(i.profile)
                         /\ 1 \in DOMAIN i.files

\* What the provider may answer.
ASSUME AnswersArePayloads ==
    /\ None \notin Paragraphs
    /\ \A i \in Inputs : \A raw \in i.answers : IsPayload(raw)

\* What a study is about: who may call what for which request, the plan of every snapshot, what a
\* chunk makes of any answer, and whether the plan reads its text.
Text(file, profile, answers, document, plan) ==
    [plan |-> plan,
     judged |-> [k \in DOMAIN plan |-> {Judge(raw, document, plan[k]) : raw \in answers}],
     readable |-> ReadsTheText(file, profile, document, plan)]

Planned(file, profile, answers, document) ==
    Text(file, profile, answers, document, PlanChunks(document, profile))

Study(i) ==
    [roles |-> i.roles,
     texts |-> [s \in DOMAIN i.files |->
         Planned(i.files[s], i.profile, i.answers, BuildSourceDocument(i.files[s]))]]

\* What extractions there may be.
PayloadsIn(texts) == (UNION {UNION Range(texts[s].judged) : s \in DOMAIN texts}) \ {None}
IdentitiesIn(texts) == [snapshot : DOMAIN texts, request : Requests]
ExtractionsIn(texts) == [identity : IdentitiesIn(texts), payload : PayloadsIn(texts)]

ASSUME NoneIsNothing == \A i \in Inputs : None \notin ExtractionsIn(Study(i).texts)

\* plan_chunks returns a tuple.
ASSUME PlansAreSequences ==
    \A i \in Inputs : \A s \in DOMAIN i.files :
        LET plan == Study(i).texts[s].plan IN plan \in Seq(Range(plan))

VARIABLES study,      \* what the run is about
          snapshot,   \* the current A1/A2 snapshot
          extraction, \* extraction[c][r]: CandidateExtraction r of chunk c, or None
          report,     \* report[c]: its revisions with a PASS ValidationReport
          head,       \* head[c]: targets of the CURRENT pointer, oldest first
          pc,         \* pc[p]: the next step of p's call
          call,       \* call[p]: the local variables of p's call
          result,     \* result[p]: how p's last call ended, or None
          shared,     \* history: p's last call overlapped with another, or the
                      \* snapshot moved meanwhile
          paid,       \* history: paid[p][c] provider calls of p's last call
          found       \* history: found[p] the chunks whose current extraction
                      \* had the requested identity when p's last call began

Chunks == DOMAIN head
Snapshots == DOMAIN study.texts

stores == <<extraction, report, head>>
vars == <<study, snapshot, stores, pc, call, result, shared, paid, found>>

Identity == IdentitiesIn(study.texts)
Payloads == PayloadsIn(study.texts)
Extraction == ExtractionsIn(study.texts)
\* Why a call reads the CURRENT pointer of a chunk: before the model is called,
\* before its answer is published, or for A4.
Uses == {"reuse", "publish", "require"}
Steps == {"idle", "ref", "target", "recheck", "generate", "alloc", "put",
          "report", "swap"}
\* What a chunk contributes to the summary or to A4's input.
Outcome == [ref : 0..MaxRev, target : Revs, reused : BOOLEAN]
Call == [op : Ops \union {None}, identity : Identity \union {None},
         chunk : Nat \ {0}, use : Uses,  \* its place in the plan
         ref : 0..MaxRev, target : 0..MaxRev,
         round : 0..MaxRounds, attempt : 0..3,
         payload : Payloads \union {None}, rev : 0..MaxRev,
         outcome : Seq(Outcome)]    \* of the chunks done so far
NoCall == [op |-> None, identity |-> None, chunk |-> 1, use |-> "require", ref |-> 0, target |-> 0,
           round |-> 0, attempt |-> 0, payload |-> None, rev |-> 0, outcome |-> <<>>]
Statuses == {"ok", "missing", "stale", "corrupt", "moved", "conflict", "invalid",
             "llm_error", "failed"}
Result == [op : Ops, status : Statuses, identity : Identity, outcome : Seq(Outcome)]

PlannedChunks ==
    UNION {{study.texts[s].plan[k].id : k \in DOMAIN study.texts[s].plan} : s \in Snapshots}

TypeOK ==
    /\ study \in {Study(i) : i \in Inputs}
    /\ snapshot \in Snapshots
    /\ extraction \in [Chunks -> [Revs -> Extraction \union {None}]]
    /\ report \in [Chunks -> SUBSET Revs]
    /\ head \in [Chunks -> Seq(Revs)]
    /\ pc \in [Procs -> Steps]
    /\ call \in [Procs -> Call]
    /\ result \in [Procs -> Result \union {None}]
    /\ shared \in [Procs -> BOOLEAN]
    /\ paid \in [Procs -> [Chunks -> Nat]]
    /\ found \in [Procs -> SUBSET Chunks]

Init ==
    /\ \E i \in Inputs : study = Study(i)
    /\ snapshot = 1
    /\ head = [c \in PlannedChunks |-> <<>>]
    /\ extraction = [c \in Chunks |-> [r \in Revs |-> None]]
    /\ report = [c \in Chunks |-> {}]
    /\ pc = [p \in Procs |-> "idle"]
    /\ call = [p \in Procs |-> NoCall]
    /\ result = [p \in Procs |-> None]
    /\ shared = [p \in Procs |-> FALSE]
    /\ paid = [p \in Procs |-> [c \in Chunks |-> 0]]
    /\ found = [p \in Procs |-> {}]

-----------------------------------------------------------------------------
Active == {p \in Procs : pc[p] # "idle"}
history == <<shared, paid, found>>

Goto(p, s) == pc' = [pc EXCEPT ![p] = s]
Continue(p, s, c) ==
    /\ Goto(p, s)
    /\ call' = [call EXCEPT ![p] = c]
    /\ UNCHANGED result

End(p, status, outcome) ==
    /\ Goto(p, "idle")
    /\ call' = [call EXCEPT ![p] = NoCall]
    /\ result' = [result EXCEPT ![p] =
           [op |-> call[p].op, status |-> status, identity |-> call[p].identity,
            outcome |-> outcome]]

\* A failing chunk makes the whole call raise.
Raise(p, status) == End(p, status, <<>>)

First(op) == IF op = "extract" THEN "reuse" ELSE "require"

\* The plan of the snapshot a call works on, and the chunk it is at.
Plan(identity) == study.texts[identity.snapshot].plan
ChunkOf(p) == Plan(call[p].identity)[call[p].chunk].id

\* The chunk is done: the next one, or the summary.
NextChunk(p, o) ==
    LET c == call[p]
        outcome == Append(c.outcome, o)
    IN IF c.chunk = Len(Plan(c.identity)) THEN End(p, "ok", outcome)
       ELSE Continue(p, "ref", [NoCall EXCEPT !.op = c.op, !.identity = c.identity,
                                              !.chunk = c.chunk + 1, !.use = First(c.op),
                                              !.outcome = outcome])

HeadOf(p) == head[ChunkOf(p)]
IdentityOf(c, r) == extraction[c][r].identity

\* _verify_current_extraction: it loads, re-validates and has its report.
Intact(c, r) == extraction[c][r] # None /\ r \in report[c]

\* Faulty variant, for the check of the properties: an extraction of another
\* request is reused.
AcceptsAnyRequest(op, found_, wanted) == found_.snapshot = wanted.snapshot

\* require_current_validated compares sources and extraction profile, not the
\* semantic request.
Accepts(op, found_, wanted) ==
    IF op = "require" THEN found_.snapshot = wanted.snapshot ELSE found_ = wanted

-----------------------------------------------------------------------------
(* The upstream stages, and calls.                                         *)

\* A new text is ingested and planned.
SnapshotMoves ==
    /\ snapshot + 1 \in Snapshots
    /\ study.texts[snapshot + 1].plan # Refused
    /\ snapshot' = snapshot + 1
    /\ shared' = [p \in Procs |-> shared[p] \/ p \in Active]
    /\ UNCHANGED <<study, stores, pc, call, result, paid, found>>

CurrentIs(c, identity) == head[c] # <<>> /\ IdentityOf(c, Last(head[c])) = identity

\* Bound: a batch starts only if a revision of every chunk is left for it.
RevisionsLeft ==
    \A c \in Chunks :
        Cardinality({r \in Revs : extraction[c][r] # None})
        + Cardinality({p \in Active : call[p].op = "extract"}) < MaxRev

\* resolve_current_story_snapshot, then the first chunk.  A text that has no
\* plan is no snapshot.
Start(p, op, q) ==
    LET identity == [snapshot |-> snapshot, request |-> q]
    IN
    /\ pc[p] = "idle"
    /\ <<p, op, q>> \in study.roles
    /\ study.texts[snapshot].plan # Refused
    /\ op = "require" \/ RevisionsLeft
    /\ Goto(p, "ref")
    /\ call' = [call EXCEPT ![p] =
           [NoCall EXCEPT !.op = op, !.identity = identity, !.use = First(op)]]
    /\ result' = [result EXCEPT ![p] = None]
    /\ shared' = [r \in Procs |-> IF r = p THEN Active # {} ELSE shared[r] \/ r \in Active]
    /\ paid' = [paid EXCEPT ![p] = [c \in Chunks |-> 0]]
    /\ found' = [found EXCEPT ![p] = {c \in Chunks : CurrentIs(c, identity)}]
    /\ UNCHANGED <<study, snapshot, stores>>

-----------------------------------------------------------------------------
(* The CURRENT pointer of a chunk, read before the model is called (reuse),*)
(* before the result is published (publish), and by A4 (require).          *)

\* What happens when nothing, or something else, is current.
Miss(p, c) ==
    IF c.use = "reuse" THEN Continue(p, "generate", [c EXCEPT !.round = 1, !.attempt = 1])
    ELSE IF c.use = "publish" THEN Continue(p, "alloc", c)
    ELSE Raise(p, IF c.ref = 0 THEN "missing" ELSE "stale")

ReadRef(p) ==
    /\ pc[p] = "ref"
    /\ LET c == [call[p] EXCEPT !.ref = Len(HeadOf(p)), !.target = 0]
       IN IF c.ref = 0 THEN Miss(p, c) ELSE Continue(p, "target", c)
    /\ UNCHANGED <<study, snapshot, stores, history>>

ReadTarget(p) ==
    /\ pc[p] = "target"
    /\ LET c == [call[p] EXCEPT !.target = Last(HeadOf(p))]
       IN IF ~Intact(ChunkOf(p), c.target) THEN Raise(p, "corrupt")
          ELSE IF Accepts(c.op, IdentityOf(ChunkOf(p), c.target), c.identity)
          THEN Continue(p, "recheck", c)
          ELSE Miss(p, c)
    /\ UNCHANGED <<study, snapshot, stores, history>>

Recheck(p) ==
    /\ pc[p] = "recheck"
    /\ LET c == call[p]
       IN IF Len(HeadOf(p)) = c.ref
          THEN NextChunk(p, [ref |-> c.ref, target |-> c.target, reused |-> TRUE])
          ELSE Raise(p, "moved")
    /\ UNCHANGED <<study, snapshot, stores, history>>

-----------------------------------------------------------------------------
(* Generation: rounds of at most MaxAttempts calls each.                   *)

\* Faulty variant: a retry begins the rounds anew.
TransientRestartsRounds(p) ==
    IF call[p].attempt < MaxAttempts[p]
    THEN Continue(p, "generate", [call[p] EXCEPT !.attempt = @ + 1, !.round = 1])
    ELSE Raise(p, "llm_error")

Transient(p) ==
    IF call[p].attempt < MaxAttempts[p]
    THEN Continue(p, "generate", [call[p] EXCEPT !.attempt = @ + 1])
    ELSE Raise(p, "llm_error")

SemanticallyInvalid(p) ==
    IF call[p].round < MaxRounds
    THEN Continue(p, "generate", [call[p] EXCEPT !.round = @ + 1, !.attempt = 1])
    ELSE Raise(p, "invalid")

\* The provider answers or fails, transiently or for good.  Any answer may be
\* one that is not a payload at all.
Generate(p) ==
    /\ pc[p] = "generate"
    /\ \/ Transient(p)
       \/ Raise(p, "llm_error")
       \/ SemanticallyInvalid(p)
       \/ \E payload \in study.texts[call[p].identity.snapshot].judged[call[p].chunk] :
              IF payload = None THEN SemanticallyInvalid(p)
              ELSE Continue(p, "ref", [call[p] EXCEPT !.payload = payload,
                                                      !.use = "publish"])
    /\ paid' = [paid EXCEPT ![p][ChunkOf(p)] = @ + 1]
    /\ UNCHANGED <<study, snapshot, stores, shared, found>>

-----------------------------------------------------------------------------
(* Publication.                                                            *)

\* next_candidate_extraction_revision.
Alloc(p) ==
    LET c == call[p]
        Free(r) == extraction[ChunkOf(p)][r] = None
    IN
    /\ pc[p] = "alloc"
    /\ \E r \in Revs :
           /\ r > c.target
           /\ Free(r)
           /\ \A q \in (c.target + 1)..(r - 1) : ~Free(q)
           /\ Continue(p, "put", [c EXCEPT !.rev = r])
    /\ UNCHANGED <<study, snapshot, stores, history>>

Put(p) ==
    /\ pc[p] = "put"
    /\ LET c == call[p]
           e == [identity |-> c.identity, payload |-> c.payload]
       IN IF extraction[ChunkOf(p)][c.rev] \in {None, e}
          THEN /\ extraction' = [extraction EXCEPT ![ChunkOf(p)][c.rev] = e]
               /\ Continue(p, "report", c)
          ELSE Raise(p, "conflict") /\ UNCHANGED extraction
    /\ UNCHANGED <<study, snapshot, report, head, history>>

PutReport(p) ==
    /\ pc[p] = "report"
    /\ report' = [report EXCEPT ![ChunkOf(p)] = @ \union {call[p].rev}]
    /\ Continue(p, "swap", call[p])
    /\ UNCHANGED <<study, snapshot, extraction, head, history>>

\* compare_and_set; the head may be written and the call still raise.
Swap(p) ==
    LET c == call[p]
        exact == Len(HeadOf(p)) = c.ref
        retry == Len(HeadOf(p)) = c.ref + 1 /\ Last(HeadOf(p)) = c.rev
    IN
    /\ pc[p] = "swap"
    /\ head' = IF exact THEN [head EXCEPT ![ChunkOf(p)] = Append(@, c.rev)] ELSE head
    /\ IF exact \/ retry
       THEN \/ NextChunk(p, [ref |-> c.ref + 1, target |-> c.rev, reused |-> FALSE])
            \/ Raise(p, "failed")
       ELSE Raise(p, "conflict")
    /\ UNCHANGED <<study, snapshot, extraction, report, history>>

\* A read or a write raises, or the process dies.
Fails(p) ==
    /\ p \in Active
    /\ Raise(p, "failed")
    /\ UNCHANGED <<study, snapshot, stores, history>>

Step(p) ==
    \/ ReadRef(p) \/ ReadTarget(p) \/ Recheck(p)
    \/ Generate(p) \/ Alloc(p) \/ Put(p) \/ PutReport(p) \/ Swap(p)

Next ==
    \/ SnapshotMoves
    \/ \E p \in Procs :
           \/ Step(p) \/ Fails(p)
           \/ \E op \in Ops, q \in Requests : Start(p, op, q)

Spec == Init /\ [][Next]_vars

-----------------------------------------------------------------------------
(* Properties.                                                             *)

\* A summary, or the input of A4, covers every chunk, in order, each with an
\* extraction of the snapshot the call resolved, and with the ref of the very head
\* that named it: as long as A4's guard finds the refs unmoved, its input is what
\* is current.  All a batch answers is of its own request, reused or new, whatever
\* another request's batch publishes meanwhile; A4 takes any request's.
ResultsAreTrue ==
    \A p \in Procs :
        result[p] # None /\ result[p].status = "ok" =>
            /\ Len(result[p].outcome) = Len(Plan(result[p].identity))
            /\ \A k \in DOMAIN result[p].outcome :
                   LET o == result[p].outcome[k]
                       c == Plan(result[p].identity)[k].id
                       of == IdentityOf(c, o.target)
                   IN /\ Intact(c, o.target)
                      /\ of.snapshot = result[p].identity.snapshot
                      /\ result[p].op = "extract" => of.request = result[p].identity.request
                      /\ head[c][o.ref] = o.target

\* What a batch or A4 ends with is grounded in the text it resolved, chunk by
\* chunk: a payload cites only what its chunk shows, every candidate has primary
\* evidence there, no paragraph is primary evidence of two chunks, an excerpt
\* repeats the paragraph it is of, and evidence is in reading order, so that the
\* order the provider answers in is never kept.
ExtractionsAreGrounded ==
    \A p \in Procs :
        result[p] # None /\ result[p].status = "ok" =>
            LET plan == Plan(result[p].identity)
                Found(k) == extraction[plan[k].id][result[p].outcome[k].target].payload
                Evidence(k) == {Found(k)[i].evidence : i \in DOMAIN Found(k)}
                Cited(k) == UNION {{e[i].at : i \in DOMAIN e} : e \in Evidence(k)}
                Primary(e) == {e[i].at : i \in {j \in DOMAIN e : e[j].role = "primary"}}
                Claims(k) == UNION {Primary(e) : e \in Evidence(k)}
            IN \A k \in DOMAIN plan :
                   /\ Cited(k) \subseteq Context(plan[k])
                   /\ \A e \in Evidence(k) :
                          /\ Primary(e) # {}
                          /\ \A i \in DOMAIN e : e[i].quotes \in {None, e[i].at}
                          /\ \A i \in 2..Len(e) : ~EvidenceBefore(e[i], e[i - 1])
                   /\ \A l \in DOMAIN plan : l # k => Claims(k) \cap Claims(l) = {}

\* Resume, and its cost: a batch calls the provider at most MaxRounds *
\* MaxAttempts times for a chunk, technical retries and semantic rounds together,
\* and, running alone, never for a chunk whose current extraction has the
\* requested identity, whoever made it and however the batch that made it ended.
ProviderCallsAreNeeded ==
    \A p \in Procs, c \in Chunks :
        paid[p][c] <= IF ~shared[p] /\ c \in found[p] THEN 0 ELSE MaxRounds * MaxAttempts[p]

\* The plan of every file reads its text (ReadsTheText): every line of prose is
\* owned by one chunk, in reading order and in the paragraphs a reader sees, the
\* chunks are as few as the budget allows, and no text is refused without need.
PlansReadTheText == \A s \in Snapshots : study.texts[s].readable

=============================================================================

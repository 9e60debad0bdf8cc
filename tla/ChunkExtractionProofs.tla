------------------------ MODULE ChunkExtractionProofs ------------------------
(***************************************************************************)
(* A3 keeps its promises for any processes, studies, requests and bounds.  *)
(* The invariant says that the pointers only go up and name extractions    *)
(* that are there with their reports, what a call knows at each step (of   *)
(* the chunks it is done with, of the pointer of the chunk it is at, of    *)
(* what it wrote), what it has paid so far, and what a call that runs      *)
(* alone still finds of what was current when it began; and, last, that a  *)
(* payload is what a chunk made of an answer, which is what grounds it.    *)
(***************************************************************************)
EXTENDS ChunkExtraction, SequenceTheorems, FiniteSetTheorems, TLAPS

\* The study is that of one of the inputs.
StudyOK == study \in {Study(i) : i \in Inputs}

\* The types of the store, of the processes, and of the history.
StoreTypeOK ==
    /\ snapshot \in Snapshots
    /\ Chunks = PlannedChunks
    /\ extraction \in [Chunks -> [Revs -> Extraction \union {None}]]
    /\ report \in [Chunks -> SUBSET Revs]
    /\ head \in [Chunks -> Seq(Revs)]

LocalTypeOK ==
    /\ pc \in [Procs -> Steps]
    /\ call \in [Procs -> Call]
    /\ result \in [Procs -> Result \union {None}]

HistoryTypeOK ==
    /\ shared \in [Procs -> BOOLEAN]
    /\ paid \in [Procs -> [Chunks -> Nat]]
    /\ found \in [Procs -> SUBSET Chunks]

\* A pointer only goes up; no more than MaxRev targets are possible.
GoesUp(h) ==
    \A i \in DOMAIN h : i \leq h[i] /\ \A j \in DOMAIN h : j < i => h[j] < h[i]

HeadsGoUp == \A c \in Chunks : GoesUp(head[c])

\* What is or was current is there, with its report.
HeadsAreIntact == \A c \in Chunks : \A i \in DOMAIN head[c] : Intact(c, head[c][i])

\* Reading a pointer, ref first, gave ref and target: the target was current at
\* ref or later, and still is while the pointer is at ref.
Knows(h, ref, target) ==
    /\ ref \leq Len(h)
    /\ target = 0 \/ target \in ToSet(h)
    /\ ref = Len(h) => target = IF h = <<>> THEN 0 ELSE Last(h)

\* What an operation takes: a batch its own request's, A4 any of the snapshot.
IsOf(op, of, identity) ==
    of.snapshot = identity.snapshot /\ (op = "extract" => of.request = identity.request)

\* The k-th chunk of a plan is done with outcome o.
IsDone(op, identity, k, o) ==
    LET c == Plan(identity)[k].id
    IN /\ Intact(c, o.target)
       /\ IsOf(op, IdentityOf(c, o.target), identity)
       /\ o.ref \in DOMAIN head[c]
       /\ head[c][o.ref] = o.target

Busy(p) == pc[p] # "idle"
Reading == {"ref", "target", "recheck"}
Writing == {"put", "report", "swap"}
Publishing == {"alloc"} \union Writing

\* The chunks p's call is done with, and the one it is at.
PlaceOK(p) ==
    LET c == call[p]
    IN Busy(p) =>
           /\ c.op \in Ops
           /\ c.identity \in Identity
           /\ c.chunk \in DOMAIN Plan(c.identity)
           /\ Len(c.outcome) = c.chunk - 1
           /\ \A k \in 1..(c.chunk - 1) : IsDone(c.op, c.identity, k, c.outcome[k])
           /\ c.use = "require" <=> c.op = "require"

\* What p's call knows of the pointer, and what it has written.
ChunkOK(p) ==
    LET c == call[p]
    IN /\ pc[p] = "generate" => c.use = "reuse"
       /\ pc[p] \in Publishing => c.use = "publish"
       /\ Busy(p) /\ c.use = "publish" => c.payload \in Payloads
       /\ pc[p] = "target" => c.ref \in DOMAIN HeadOf(p)
       /\ pc[p] \in {"recheck"} \union Publishing => Knows(HeadOf(p), c.ref, c.target)
       /\ pc[p] = "recheck" => /\ c.target # 0
                               /\ IsOf(c.op, IdentityOf(ChunkOf(p), c.target), c.identity)
       /\ pc[p] \in Writing => c.rev \in Revs /\ c.rev > c.target
       /\ pc[p] \in {"report", "swap"} =>
              extraction[ChunkOf(p)][c.rev] = [identity |-> c.identity, payload |-> c.payload]
       /\ pc[p] = "swap" => c.rev \in report[ChunkOf(p)]

\* The provider calls p's call has made: all of those it may make, for a chunk
\* it is done with; those of the rounds before and of this one, for the chunk it
\* is at; none for the others.
PaidOK(p) ==
    LET c == call[p]
    IN /\ \A x \in Chunks : paid[p][x] \leq MaxRounds * MaxAttempts[p]
       /\ Busy(p) => \A k \in DOMAIN Plan(c.identity) :
              k > c.chunk => paid[p][Plan(c.identity)[k].id] = 0
       /\ pc[p] \in Reading /\ c.use = "reuse" => paid[p][ChunkOf(p)] = 0
       /\ pc[p] = "generate" => /\ c.round \in 1..MaxRounds
                                /\ c.attempt \in 1..MaxAttempts[p]
                                /\ paid[p][ChunkOf(p)]
                                       \leq (c.round - 1) * MaxAttempts[p] + c.attempt - 1

\* While p's call runs alone, what was current when it began is so until the
\* call is past it, and nothing is paid for it.
AloneOK(p) ==
    LET c == call[p]
    IN ~shared[p] =>
           /\ Busy(p) => \A q \in Procs \ {p} : ~Busy(q)
           /\ \A x \in found[p] : paid[p][x] = 0
           /\ Busy(p) => \A k \in DOMAIN Plan(c.identity) :
                  \/ k > c.chunk
                  \/ k = c.chunk /\ c.use = "reuse" /\ pc[p] \in Reading
                  => (Plan(c.identity)[k].id \in found[p]
                          => CurrentIs(Plan(c.identity)[k].id, c.identity))
           /\ pc[p] = "generate" => ChunkOf(p) \notin found[p]

LocalOK(p) == PlaceOK(p) /\ ChunkOK(p)

\* The answers given.
AnswerOK(p) ==
    result[p] # None /\ result[p].status = "ok" =>
        /\ Len(result[p].outcome) = Len(Plan(result[p].identity))
        /\ \A k \in DOMAIN result[p].outcome :
               IsDone(result[p].op, result[p].identity, k, result[p].outcome[k])

StoresAreSound == StudyOK /\ StoreTypeOK /\ HeadsGoUp /\ HeadsAreIntact
CallsAreSound == LocalTypeOK /\ \A p \in Procs : LocalOK(p) /\ AnswerOK(p)
HistoryIsSound == HistoryTypeOK /\ \A p \in Procs : PaidOK(p) /\ AloneOK(p)

IInv == StoresAreSound /\ CallsAreSound /\ HistoryIsSound

\* What the stores are and what the calls know; the history adds to it.
BaseInv == StoresAreSound /\ CallsAreSound

-----------------------------------------------------------------------------
(* Facts about the bounds, the study and the pointers.                     *)

\* Revisions are positive numbers.
LEMMA RevsAreNaturals ==
    /\ MaxRev \in Nat /\ MaxRounds \in Nat \ {0} /\ \A p \in Procs : MaxAttempts[p] \in 1..3
    /\ \A r \in Revs : r \in Nat /\ r \in 0..MaxRev /\ r > 0
PROOF
    BY ExtractionBounds DEF Revs

\* The study gives every snapshot a plan whose chunks are told apart by their
\* ids, and the answers to every chunk of it.
LEMMA StudyTypes ==
    ASSUME StudyOK
    PROVE  /\ 1 \in Snapshots
           /\ study.roles \subseteq Procs \X Ops \X Requests
           /\ None \notin Extraction
           /\ \A s \in Snapshots :
                  /\ Len(study.texts[s].plan) \in Nat
                  /\ DOMAIN study.texts[s].plan = 1..Len(study.texts[s].plan)
                  /\ study.texts[s].plan # Refused => 1 \in DOMAIN study.texts[s].plan
                  /\ DOMAIN study.texts[s].judged = DOMAIN study.texts[s].plan
                  /\ \A k \in DOMAIN study.texts[s].plan :
                         study.texts[s].plan[k].id \in PlannedChunks
                  /\ \A k, l \in DOMAIN study.texts[s].plan :
                         study.texts[s].plan[k].id = study.texts[s].plan[l].id => k = l
PROOF
<1>1. PICK i \in Inputs : study = Study(i)
    BY DEF StudyOK
<1>2. study.roles = i.roles /\ Snapshots = DOMAIN i.files
    BY <1>1 DEF Study, Snapshots
<1>3. None \notin Extraction
    BY <1>1, NoneIsNothing DEF Extraction
<1>4. ASSUME NEW s \in Snapshots
      PROVE  /\ Len(study.texts[s].plan) \in Nat
             /\ DOMAIN study.texts[s].plan = 1..Len(study.texts[s].plan)
             /\ study.texts[s].plan # Refused => 1 \in DOMAIN study.texts[s].plan
             /\ DOMAIN study.texts[s].judged = DOMAIN study.texts[s].plan
             /\ \A k \in DOMAIN study.texts[s].plan :
                    study.texts[s].plan[k].id \in PlannedChunks
             /\ \A k, l \in DOMAIN study.texts[s].plan :
                    study.texts[s].plan[k].id = study.texts[s].plan[l].id => k = l
  <2>1. PICK document : document = BuildSourceDocument(i.files[s])
    OBVIOUS
  <2>2. study.texts[s] = Planned(i.files[s], i.profile, i.answers, document)
    BY <1>1, <1>2, <2>1 DEF Study
  <2>3. PICK plan : plan = study.texts[s].plan
    OBVIOUS
  <2>4. /\ plan = PlanChunks(document, i.profile)
        /\ DOMAIN study.texts[s].judged = DOMAIN plan
    BY <2>2, <2>3 DEF Planned, Text
  <2>5. plan \in Seq(Range(plan))
    BY <1>1, <1>2, <2>3, PlansAreSequences
  <2>6. /\ Len(plan) \in Nat /\ DOMAIN plan = 1..Len(plan)
        /\ plan # Refused => 1 \in DOMAIN plan
    BY <2>5, EmptySeq DEF Refused
  <2>7. ASSUME NEW k \in DOMAIN plan, NEW l \in DOMAIN plan, plan[k].id = plan[l].id
        PROVE  k = l
    <3>1. plan # Refused
      BY <2>6 DEF Refused
    <3>2. ChunksAreValid(document, i.profile, plan)
      BY <2>4, <3>1 DEF PlanChunks
    <3>3. IsInjective([j \in DOMAIN plan |-> plan[j].id])
      BY <3>2 DEF ChunksAreValid
    <3> QED
      BY <2>7, <3>3 DEF IsInjective
  <2>8. \A k \in DOMAIN plan : plan[k].id \in PlannedChunks
    BY <2>3 DEF PlannedChunks
  <2> QED
    BY <2>3, <2>4, <2>6, <2>7, <2>8
<1> QED
    BY <1>1, <1>2, <1>3, <1>4, ExtractionBounds

\* The plan of a snapshot that a call works on.
LEMMA PlanTypes ==
    ASSUME StudyOK, StoreTypeOK, NEW identity \in Identity
    PROVE  /\ identity.snapshot \in Snapshots /\ identity.request \in Requests
           /\ Len(Plan(identity)) \in Nat
           /\ DOMAIN Plan(identity) = 1..Len(Plan(identity))
           /\ Plan(identity) # Refused => 1 \in DOMAIN Plan(identity)
           /\ \A k \in DOMAIN Plan(identity) : Plan(identity)[k].id \in Chunks
           /\ \A k, l \in DOMAIN Plan(identity) :
                  Plan(identity)[k].id = Plan(identity)[l].id => k = l
PROOF
<1>1. identity.snapshot \in Snapshots /\ identity.request \in Requests
    BY DEF Identity, IdentitiesIn, Snapshots
<1> QED
    BY <1>1, StudyTypes DEF Plan, StoreTypeOK

\* What a pointer that goes up says is a position or a revision, within the bound.
LEMMA HeadTypes ==
    ASSUME NEW h \in Seq(Revs), GoesUp(h)
    PROVE  /\ Len(h) \in 0..MaxRev
           /\ DOMAIN h = 1..Len(h)
           /\ h # <<>> => /\ Last(h) \in Revs
                         /\ Last(h) = h[Len(h)]
                         /\ Len(h) > 0
                         /\ Len(h) \in DOMAIN h
                         /\ Last(h) \in ToSet(h)
           /\ h = <<>> => Len(h) = 0
           /\ \A r : r \in ToSet(h) <=> \E i \in DOMAIN h : h[i] = r
           /\ ToSet(h) \subseteq Revs
PROOF
<1>1. Len(h) \in Nat /\ DOMAIN h = 1..Len(h) /\ \A i \in 1..Len(h) : h[i] \in Revs
    OBVIOUS
<1>2. \A r : r \in ToSet(h) <=> \E i \in DOMAIN h : h[i] = r
    BY <1>1 DEF ToSet
<1>3. h # <<>> => Len(h) > 0 /\ Len(h) \in DOMAIN h
    BY <1>1, EmptySeq
<1>4. h # <<>> => Last(h) = h[Len(h)]
    BY DEF Last
<1>5. h # <<>> => Last(h) \in ToSet(h) /\ Last(h) \in Revs
    BY <1>1, <1>2, <1>3, <1>4
<1>6. Len(h) \in 0..MaxRev
  <2>1. CASE h = <<>>
    BY <2>1, RevsAreNaturals
  <2>2. CASE h # <<>>
    <3>1. Len(h) \leq h[Len(h)] /\ h[Len(h)] \in Revs
      BY <1>1, <1>3, <2>2 DEF GoesUp
    <3> QED
      BY <1>1, <3>1, RevsAreNaturals DEF Revs
  <2> QED
    BY <2>1, <2>2
<1> QED
    BY <1>1, <1>2, <1>3, <1>4, <1>5, <1>6

\* A step adds at most one target to a pointer.
Grows(h, k) == k = h \/ \E x \in Revs : k = Append(h, x)

\* What a call knows of a pointer stays true when the pointer moves on.
LEMMA KnowsLasts ==
    ASSUME NEW h \in Seq(Revs), NEW k, Grows(h, k), NEW ref \in Nat, NEW target,
           Knows(h, ref, target)
    PROVE  Knows(k, ref, target)
PROOF
<1>1. CASE k = h
    BY <1>1
<1>2. CASE k # h
  <2>1. PICK x \in Revs : k = Append(h, x)
    BY <1>2 DEF Grows
  <2>2. Len(k) = Len(h) + 1 /\ Len(h) \in Nat
    BY <2>1
  <2>3. \A i \in DOMAIN h : i \in DOMAIN k /\ k[i] = h[i]
    BY <2>1
  <2>4. target \in ToSet(h) => target \in ToSet(k)
    BY <2>3 DEF ToSet
  <2> QED
    BY <2>2, <2>4 DEF Knows
<1> QED
    BY <1>1, <1>2

\* A target keeps its place.
LEMMA PlacesLast ==
    ASSUME NEW h \in Seq(Revs), NEW k, Grows(h, k), NEW i \in DOMAIN h
    PROVE  i \in DOMAIN k /\ k[i] = h[i]
PROOF
    BY DEF Grows

\* What reading the ref and then the target gives is known.
LEMMA ReadingKnows ==
    ASSUME NEW h \in Seq(Revs), GoesUp(h), NEW ref \in DOMAIN h
    PROVE  /\ Knows(h, ref, Last(h))
           /\ Last(h) \in Revs /\ Last(h) # 0 /\ Last(h) \in 0..MaxRev
           /\ Last(h) \in ToSet(h)
PROOF
<1>1. h # <<>>
    OBVIOUS
<1>2. Last(h) \in ToSet(h) /\ Last(h) \in Revs /\ ref \leq Len(h)
    BY <1>1, HeadTypes
<1> QED
    BY <1>1, <1>2, RevsAreNaturals DEF Knows

-----------------------------------------------------------------------------
(* How a call moves.                                                       *)

\* A call that goes on with typed locals is typed, and no other call moves.
LEMMA ContinueMoves ==
    ASSUME LocalTypeOK, NEW p \in Procs, NEW s \in Steps, NEW c \in Call, Continue(p, s, c),
           study' = study
    PROVE  /\ LocalTypeOK'
           /\ pc'[p] = s /\ call'[p] = c /\ result'[p] = result[p]
           /\ \A q \in Procs \ {p} :
                  pc'[q] = pc[q] /\ call'[q] = call[q] /\ result'[q] = result[q]
PROOF
<1>1. Call' = Call /\ Result' = Result
    BY DEF Call, Result, Identity, Payloads
<1>2. LocalTypeOK'
    BY <1>1 DEF Continue, Goto, LocalTypeOK
<1> QED
    BY <1>2 DEF Continue, Goto, LocalTypeOK

\* The locals of a call that has not begun are typed.
LEMMA NoCallTypes == NoCall \in Call
PROOF
    BY RevsAreNaturals DEF NoCall, Call, Uses

\* The locals of a call that begins a chunk, and their types.
AtChunk(op, identity, k, use, outcome) ==
    [op |-> op, identity |-> identity, chunk |-> k, use |-> use, ref |-> 0, target |-> 0,
     round |-> 0, attempt |-> 0, payload |-> None, rev |-> 0, outcome |-> outcome]

\* They are typed.
LEMMA NextTypes ==
    ASSUME NEW op \in Ops, NEW identity \in Identity, NEW k \in Nat \ {0}, NEW use \in Uses,
           NEW outcome \in Seq(Outcome)
    PROVE  AtChunk(op, identity, k, use, outcome) \in Call
PROOF
<1>1. /\ 0 \in 0..MaxRev /\ 0 \in 0..MaxRounds /\ 0 \in 0..3
      /\ op \in Ops \union {None} /\ identity \in Identity \union {None}
      /\ None \in Payloads \union {None}
    BY RevsAreNaturals
<1> QED
    BY <1>1 DEF Call, AtChunk

\* A call that ends leaves a typed result, and no other call moves.
LEMMA EndMoves ==
    ASSUME LocalTypeOK, NEW p \in Procs, NEW status \in Statuses, NEW outcome \in Seq(Outcome),
           call[p].op \in Ops, call[p].identity \in Identity, End(p, status, outcome),
           study' = study
    PROVE  /\ LocalTypeOK'
           /\ pc'[p] = "idle" /\ call'[p] = NoCall
           /\ result'[p] = [op |-> call[p].op, status |-> status,
                            identity |-> call[p].identity, outcome |-> outcome]
           /\ \A q \in Procs \ {p} :
                  pc'[q] = pc[q] /\ call'[q] = call[q] /\ result'[q] = result[q]
PROOF
<1>1. Call' = Call /\ Result' = Result
    BY DEF Call, Result, Identity, Payloads
<1>2. [op |-> call[p].op, status |-> status, identity |-> call[p].identity,
       outcome |-> outcome] \in Result
    BY DEF Result
<1>3. "idle" \in Steps
    BY DEF Steps
<1>4. LocalTypeOK'
    BY <1>1, <1>2, <1>3, NoCallTypes DEF End, Goto, LocalTypeOK
<1> QED
    BY <1>4 DEF End, Goto, LocalTypeOK

\* Nothing is known of a call that is not under way.
LEMMA IdleIsSound ==
    ASSUME NEW p \in Procs, pc'[p] = "idle"
    PROVE  LocalOK(p)'
PROOF
    BY DEF LocalOK, PlaceOK, ChunkOK, Busy, Publishing, Writing

-----------------------------------------------------------------------------
(* What is written stays written.                                          *)

StoresGrow ==
    /\ study' = study
    /\ Chunks' = Chunks
    /\ \A c \in Chunks, r \in Revs : extraction[c][r] # None => extraction'[c][r] = extraction[c][r]
    /\ \A c \in Chunks : report[c] \subseteq report'[c]
    /\ \A c \in Chunks : Grows(head[c], head'[c])

\* What the invariant says of the stores.
LEMMA StoresAt ==
    ASSUME StoresAreSound
    PROVE  /\ StudyOK /\ StoreTypeOK /\ HeadsGoUp /\ HeadsAreIntact
           /\ \A c \in Chunks : /\ head[c] \in Seq(Revs) /\ GoesUp(head[c])
                                /\ report[c] \subseteq Revs
                                /\ \A r \in Revs : extraction[c][r] \in Extraction \union {None}
PROOF
    BY DEF StoresAreSound, StoreTypeOK, HeadsGoUp

\* What the invariant says of one call.
LEMMA InvariantAt ==
    ASSUME BaseInv, NEW p \in Procs
    PROVE  /\ pc[p] \in Steps /\ call[p] \in Call /\ LocalTypeOK
           /\ PlaceOK(p) /\ ChunkOK(p) /\ AnswerOK(p)
           /\ StoresAreSound
           /\ call[p].ref \in Nat /\ call[p].target \in Nat /\ call[p].rev \in Nat
           /\ call[p].chunk \in Nat /\ call[p].outcome \in Seq(Outcome)
PROOF
<1>1. /\ pc[p] \in Steps /\ call[p] \in Call /\ LocalTypeOK
      /\ PlaceOK(p) /\ ChunkOK(p) /\ AnswerOK(p)
      /\ StoresAreSound
    BY DEF BaseInv, CallsAreSound, LocalTypeOK, LocalOK
<1> QED
    BY <1>1, RevsAreNaturals DEF Call

\* What it says of a call under way: the chunk it is at is one of its plan.
LEMMA BusyAt ==
    ASSUME BaseInv, NEW p \in Procs, Busy(p)
    PROVE  /\ call[p].op \in Ops /\ call[p].identity \in Identity
           /\ call[p].chunk \in DOMAIN Plan(call[p].identity)
           /\ Len(call[p].outcome) = call[p].chunk - 1
           /\ \A k \in 1..(call[p].chunk - 1) :
                  IsDone(call[p].op, call[p].identity, k, call[p].outcome[k])
           /\ call[p].use = "require" <=> call[p].op = "require"
           /\ ChunkOf(p) \in Chunks
           /\ HeadOf(p) = head[ChunkOf(p)] /\ HeadOf(p) \in Seq(Revs) /\ GoesUp(HeadOf(p))
PROOF
<1>1. PlaceOK(p) /\ StoresAreSound
    BY InvariantAt
<1>2. /\ call[p].op \in Ops /\ call[p].identity \in Identity
      /\ call[p].chunk \in DOMAIN Plan(call[p].identity)
      /\ Len(call[p].outcome) = call[p].chunk - 1
      /\ \A k \in 1..(call[p].chunk - 1) :
             IsDone(call[p].op, call[p].identity, k, call[p].outcome[k])
      /\ call[p].use = "require" <=> call[p].op = "require"
    BY <1>1 DEF PlaceOK
<1>3. ChunkOf(p) \in Chunks
    BY <1>1, <1>2, StoresAt, PlanTypes DEF ChunkOf
<1> QED
    BY <1>1, <1>2, <1>3, StoresAt DEF HeadOf

\* What is done stays done.
LEMMA DoneLasts ==
    ASSUME StoresAreSound, StoresGrow, NEW identity \in Identity,
           NEW k \in DOMAIN Plan(identity), NEW o, NEW op, IsDone(op, identity, k, o)
    PROVE  IsDone(op, identity, k, o)'
PROOF
<1>1. PICK c \in Chunks : c = Plan(identity)[k].id
    BY StoresAt, PlanTypes
<1>2. Plan(identity)' = Plan(identity)
    BY DEF Plan, StoresGrow
<1>3. /\ Intact(c, o.target) /\ IsOf(op, IdentityOf(c, o.target), identity)
      /\ o.ref \in DOMAIN head[c] /\ head[c][o.ref] = o.target
    BY <1>1 DEF IsDone
<1>4. o.target \in Revs
    BY <1>3, StoresAt
<1>5. extraction'[c][o.target] = extraction[c][o.target] /\ o.target \in report'[c]
    BY <1>3, <1>4 DEF Intact, StoresGrow
<1>6. o.ref \in DOMAIN head'[c] /\ head'[c][o.ref] = o.target
    BY <1>3, StoresAt, PlacesLast DEF StoresGrow
<1> QED
    BY <1>1, <1>2, <1>3, <1>5, <1>6 DEF IsDone, Intact, IdentityOf

\* What a call knows stays true when the others step.
LEMMA LocalLasts ==
    ASSUME BaseInv, StoresGrow, NEW q \in Procs, pc'[q] = pc[q], call'[q] = call[q]
    PROVE  LocalOK(q)'
PROOF
<1>1. CASE ~Busy(q)
    BY <1>1, IdleIsSound DEF Busy
<1>2. CASE Busy(q)
  <2>1. PICK c : c = call[q]
    OBVIOUS
  <2>2. PICK x \in Chunks : x = ChunkOf(q)
    BY <1>2, BusyAt
  <2>3. /\ StoresAreSound /\ PlaceOK(q) /\ ChunkOK(q)
        /\ c.op \in Ops /\ c.identity \in Identity
        /\ c.chunk \in DOMAIN Plan(c.identity) /\ c.chunk \in Nat
        /\ c.ref \in Nat
        /\ HeadOf(q) = head[x] /\ head[x] \in Seq(Revs) /\ GoesUp(head[x])
    BY <1>2, <2>1, <2>2, InvariantAt, BusyAt
  <2>4. Plan(c.identity)' = Plan(c.identity) /\ ChunkOf(q)' = x
        /\ HeadOf(q)' = head'[x] /\ Payloads' = Payloads /\ Identity' = Identity
    BY <2>1, <2>2 DEF Plan, ChunkOf, HeadOf, StoresGrow, Payloads, Identity
  <2>5. PlaceOK(q)'
    <3>1. \A k \in 1..(c.chunk - 1) : k \in DOMAIN Plan(c.identity)
      BY <2>3, StoresAt, PlanTypes
    <3>2. \A k \in 1..(c.chunk - 1) : IsDone(c.op, c.identity, k, c.outcome[k])'
      BY <1>2, <2>1, <2>3, <3>1, BusyAt, DoneLasts
    <3> QED
      BY <1>2, <2>1, <2>3, <2>4, <3>2 DEF PlaceOK
  <2>6. ChunkOK(q)'
    <3>1. Grows(head[x], head'[x])
      BY DEF StoresGrow
    <3>2. c.ref \in DOMAIN head[x] => c.ref \in DOMAIN head'[x]
      BY <2>3, <3>1, PlacesLast
    <3>3. Knows(head[x], c.ref, c.target) => Knows(head'[x], c.ref, c.target)
      BY <2>3, <3>1, KnowsLasts
    <3>4. pc[q] = "recheck" => IdentityOf(x, c.target)' = IdentityOf(x, c.target)
      <4> SUFFICES ASSUME pc[q] = "recheck"
                   PROVE  extraction'[x][c.target] = extraction[x][c.target]
        BY DEF IdentityOf
      <4>1. c.target \in ToSet(head[x])
        BY <2>1, <2>3 DEF ChunkOK, Knows
      <4>2. PICK i \in DOMAIN head[x] : head[x][i] = c.target
        BY <2>3, <4>1, HeadTypes
      <4>3. c.target \in Revs /\ extraction[x][c.target] # None
        BY <2>3, <4>2, StoresAt DEF HeadsAreIntact, Intact
      <4> QED
        BY <4>3 DEF StoresGrow
    <3>5. pc[q] \in {"report", "swap"} => extraction'[x][c.rev] = extraction[x][c.rev]
      <4> SUFFICES ASSUME pc[q] \in {"report", "swap"}
                   PROVE  extraction'[x][c.rev] = extraction[x][c.rev]
        OBVIOUS
      <4>1. /\ c.rev \in Revs
            /\ extraction[x][c.rev] = [identity |-> c.identity, payload |-> c.payload]
            /\ c.payload \in Payloads
        BY <1>2, <2>1, <2>2, <2>3 DEF ChunkOK, Writing, Publishing
      <4>2. extraction[x][c.rev] \in Extraction
        BY <2>3, <4>1 DEF Extraction, ExtractionsIn, Identity, Payloads
      <4> QED
        BY <2>3, <4>1, <4>2, StoresAt, StudyTypes DEF StoresGrow
    <3>6. pc[q] = "swap" => c.rev \in report'[x]
      BY <2>1, <2>2, <2>3 DEF ChunkOK, StoresGrow
    <3> QED
      BY <1>2, <2>1, <2>2, <2>3, <2>4, <3>2, <3>3, <3>4, <3>5, <3>6 DEF ChunkOK, Busy
  <2> QED
    BY <2>5, <2>6 DEF LocalOK
<1> QED
    BY <1>1, <1>2

\* An answer given stays true.
LEMMA AnswerLasts ==
    ASSUME BaseInv, StoresGrow, NEW q \in Procs, result'[q] = result[q]
    PROVE  AnswerOK(q)'
PROOF
<1> SUFFICES ASSUME result[q] # None, result[q].status = "ok"
             PROVE  (/\ Len(result[q].outcome) = Len(Plan(result[q].identity))
                     /\ \A k \in DOMAIN result[q].outcome :
                            IsDone(result[q].op, result[q].identity, k, result[q].outcome[k]))'
    BY DEF AnswerOK
<1>1. PICK identity : identity = result[q].identity
    OBVIOUS
<1>2. PICK outcome : outcome = result[q].outcome
    OBVIOUS
<1>3. PICK op : op = result[q].op
    OBVIOUS
<1>4. identity \in Identity /\ outcome \in Seq(Outcome)
    BY <1>1, <1>2, InvariantAt DEF LocalTypeOK, Result
<1>5. /\ Len(outcome) = Len(Plan(identity))
      /\ \A k \in DOMAIN outcome : IsDone(op, identity, k, outcome[k])
    BY <1>1, <1>2, <1>3, InvariantAt DEF AnswerOK
<1>6. DOMAIN outcome = DOMAIN Plan(identity)
    BY <1>4, <1>5, InvariantAt, StoresAt, PlanTypes
<1>7. \A k \in DOMAIN outcome : IsDone(op, identity, k, outcome[k])'
    BY <1>4, <1>5, <1>6, InvariantAt, DoneLasts
<1>8. Plan(identity)' = Plan(identity)
    BY DEF Plan, StoresGrow
<1> QED
    BY <1>1, <1>2, <1>3, <1>5, <1>7, <1>8

-----------------------------------------------------------------------------
(* A step of one call keeps the invariant if it keeps the stores sound and *)
(* leaves its own call sound.                                              *)

\* What is current stays there while no pointer moves.
LEMMA StoresStaySound ==
    ASSUME StoresAreSound, StoreTypeOK', StoresGrow, UNCHANGED head
    PROVE  StoresAreSound'
PROOF
<1>1. StudyOK' /\ HeadsGoUp'
    BY StoresAt DEF StudyOK, HeadsGoUp, StoresGrow
<1>2. HeadsAreIntact'
  <2> SUFFICES ASSUME NEW c \in Chunks, NEW i \in DOMAIN head[c]
               PROVE  Intact(c, head[c][i])'
    BY DEF HeadsAreIntact, StoresGrow
  <2>1. head[c][i] \in Revs /\ Intact(c, head[c][i])
    BY StoresAt DEF HeadsAreIntact
  <2> QED
    BY <2>1 DEF Intact, StoresGrow
<1> QED
    BY <1>1, <1>2 DEF StoresAreSound

\* A step that writes nothing keeps the stores.
LEMMA QuietStores ==
    ASSUME StoresAreSound, UNCHANGED <<study, stores>>, snapshot' \in Snapshots
    PROVE  StoresAreSound' /\ StoresGrow
PROOF
<1>1. study' = study /\ extraction' = extraction /\ report' = report /\ head' = head
    BY DEF stores
<1>2. StoresGrow
    BY <1>1 DEF StoresGrow, Grows, Chunks
<1>3. StoreTypeOK'
  <2>1. /\ Snapshots' = Snapshots /\ Chunks' = Chunks /\ PlannedChunks' = PlannedChunks
        /\ Extraction' = Extraction
    BY <1>1 DEF Snapshots, Chunks, PlannedChunks, Extraction
  <2> QED
    BY <1>1, <2>1, StoresAt DEF StoreTypeOK
<1> QED
    BY <1>1, <1>2, <1>3, StoresStaySound

\* Other calls keep what they know, and answers given stay true.
LEMMA OneMoves ==
    ASSUME BaseInv, NEW p \in Procs, StoresAreSound', StoresGrow, LocalTypeOK',
           LocalOK(p)', AnswerOK(p)',
           \A q \in Procs \ {p} :
               pc'[q] = pc[q] /\ call'[q] = call[q] /\ result'[q] = result[q]
    PROVE  BaseInv'
PROOF
<1>1. ASSUME NEW q \in Procs
      PROVE  LocalOK(q)' /\ AnswerOK(q)'
  <2>1. CASE q = p
    BY <2>1
  <2>2. CASE q # p
    BY <2>2, LocalLasts, AnswerLasts
  <2> QED
    BY <2>1, <2>2
<1> QED
    BY <1>1 DEF BaseInv, CallsAreSound

\* The call goes on.
LEMMA GoesOn ==
    ASSUME BaseInv, NEW p \in Procs, StoresAreSound', StoresGrow,
           NEW s \in Steps, NEW c \in Call, Continue(p, s, c),
           pc'[p] = s /\ call'[p] = c => LocalOK(p)'
    PROVE  BaseInv'
PROOF
<1>1. LocalTypeOK /\ study' = study
    BY InvariantAt DEF StoresGrow
<1>2. /\ LocalTypeOK'
      /\ pc'[p] = s /\ call'[p] = c /\ result'[p] = result[p]
      /\ \A q \in Procs \ {p} :
             pc'[q] = pc[q] /\ call'[q] = call[q] /\ result'[q] = result[q]
    BY <1>1, ContinueMoves
<1>3. AnswerOK(p)'
    BY <1>2, AnswerLasts
<1> QED
    BY <1>2, <1>3, OneMoves

\* The call ends, with a true answer or none.
LEMMA Ends ==
    ASSUME BaseInv, NEW p \in Procs, Busy(p), StoresAreSound', StoresGrow,
           NEW status \in Statuses, NEW outcome \in Seq(Outcome), End(p, status, outcome),
           result'[p] = [op |-> call[p].op, status |-> status,
                         identity |-> call[p].identity, outcome |-> outcome] => AnswerOK(p)'
    PROVE  BaseInv'
PROOF
<1>1. /\ LocalTypeOK /\ call[p].op \in Ops /\ call[p].identity \in Identity
      /\ study' = study
    BY InvariantAt, BusyAt DEF StoresGrow
<1>2. /\ LocalTypeOK'
      /\ pc'[p] = "idle" /\ call'[p] = NoCall
      /\ result'[p] = [op |-> call[p].op, status |-> status, identity |-> call[p].identity,
                       outcome |-> outcome]
      /\ \A q \in Procs \ {p} :
             pc'[q] = pc[q] /\ call'[q] = call[q] /\ result'[q] = result[q]
    BY <1>1, EndMoves
<1>3. LocalOK(p)'
    BY <1>2, IdleIsSound
<1> QED
    BY <1>2, <1>3, OneMoves

\* The call raises.
LEMMA Raises ==
    ASSUME BaseInv, NEW p \in Procs, Busy(p), StoresAreSound', StoresGrow,
           NEW status \in Statuses \ {"ok"}, Raise(p, status)
    PROVE  BaseInv'
PROOF
<1>1. End(p, status, <<>>) /\ status \in Statuses /\ <<>> \in Seq(Outcome)
    BY DEF Raise
<1>2. result'[p] = [op |-> call[p].op, status |-> status, identity |-> call[p].identity,
                    outcome |-> <<>>] => AnswerOK(p)'
    BY DEF AnswerOK
<1> QED
    BY <1>1, <1>2, Ends

\* The chunk is done: the call goes on to the next, or ends with the summary.
LEMMA NextChunkSound ==
    ASSUME BaseInv, NEW p \in Procs, Busy(p), StoresAreSound', StoresGrow,
           NEW o \in Outcome, NextChunk(p, o),
           NEW op, op = call[p].op, NEW identity, identity = call[p].identity,
           NEW place, place = call[p].chunk,
           IsDone(op, identity, place, o)'
    PROVE  BaseInv'
PROOF
<1>1. PICK c : c = call[p]
    OBVIOUS
<1>2. PICK outcome : outcome = Append(c.outcome, o)
    OBVIOUS
<1>3. PICK plan : plan = Plan(c.identity)
    OBVIOUS
<1>4. /\ c.op \in Ops /\ c.identity \in Identity /\ c.chunk \in DOMAIN plan
      /\ c.chunk \in Nat
      /\ c.outcome \in Seq(Outcome) /\ Len(c.outcome) = c.chunk - 1
      /\ \A k \in 1..(c.chunk - 1) : IsDone(c.op, c.identity, k, c.outcome[k])
    BY <1>1, <1>3, InvariantAt, BusyAt
<1>5. Len(plan) \in Nat /\ DOMAIN plan = 1..Len(plan)
    BY <1>3, <1>4, InvariantAt, StoresAt, PlanTypes
<1>6. Plan(c.identity)' = plan
    BY <1>3 DEF Plan, StoresGrow
<1>7. /\ outcome \in Seq(Outcome) /\ Len(outcome) = c.chunk /\ DOMAIN outcome = 1..c.chunk
      /\ outcome[c.chunk] = o
      /\ \A k \in 1..(c.chunk - 1) : outcome[k] = c.outcome[k]
    BY <1>2, <1>4
<1>8. \A k \in 1..c.chunk : IsDone(c.op, c.identity, k, outcome[k])'
  <2> SUFFICES ASSUME NEW k \in 1..c.chunk
               PROVE  IsDone(c.op, c.identity, k, outcome[k])'
    OBVIOUS
  <2>1. CASE k = c.chunk
    BY <1>1, <1>7, <2>1
  <2>2. CASE k # c.chunk
    <3>1. k \in 1..(c.chunk - 1) /\ k \in DOMAIN plan
      BY <1>4, <1>5, <2>2
    <3>2. PICK x : x = c.outcome[k]
      OBVIOUS
    <3>3. IsDone(c.op, c.identity, k, x)'
      BY <1>3, <1>4, <3>1, <3>2, InvariantAt, DoneLasts
    <3> QED
      BY <1>7, <3>1, <3>2, <3>3
  <2> QED
    BY <2>1, <2>2
<1>9. CASE c.chunk = Len(plan)
  <2>1. End(p, "ok", outcome) /\ "ok" \in Statuses
    BY <1>1, <1>2, <1>3, <1>9 DEF NextChunk, Statuses
  <2>2. result'[p] = [op |-> c.op, status |-> "ok", identity |-> c.identity,
                      outcome |-> outcome] => AnswerOK(p)'
    <3> SUFFICES ASSUME result'[p] = [op |-> c.op, status |-> "ok", identity |-> c.identity,
                                      outcome |-> outcome]
                 PROVE  AnswerOK(p)'
      OBVIOUS
    <3>1. /\ result'[p].op = c.op /\ result'[p].identity = c.identity
          /\ result'[p].outcome = outcome
      OBVIOUS
    <3> QED
      BY <1>6, <1>7, <1>8, <1>9, <3>1 DEF AnswerOK
  <2> QED
    BY <1>1, <1>7, <2>1, <2>2, Ends
<1>10. CASE c.chunk # Len(plan)
  <2>1. PICK d : d = [NoCall EXCEPT !.op = c.op, !.identity = c.identity,
                                    !.chunk = c.chunk + 1, !.use = First(c.op),
                                    !.outcome = outcome]
    OBVIOUS
  <2>2. Continue(p, "ref", d) /\ "ref" \in Steps
    BY <1>1, <1>2, <1>3, <1>10, <2>1 DEF NextChunk, Steps
  <2>3. c.chunk + 1 \in Nat \ {0} /\ First(c.op) \in Uses /\ c.chunk + 1 \in DOMAIN plan
        /\ (c.chunk + 1) - 1 = c.chunk
    BY <1>4, <1>5, <1>10 DEF First, Uses
  <2>4. /\ d \in Call /\ d.op = c.op /\ d.identity = c.identity /\ d.chunk = c.chunk + 1
        /\ d.use = First(c.op) /\ d.outcome = outcome
    <3>1. d = AtChunk(c.op, c.identity, c.chunk + 1, First(c.op), outcome)
      BY <2>1 DEF NoCall, AtChunk
    <3>2. AtChunk(c.op, c.identity, c.chunk + 1, First(c.op), outcome) \in Call
      BY <1>4, <1>7, <2>3, NextTypes
    <3> QED
      BY <3>1, <3>2 DEF AtChunk
  <2>5. pc'[p] = "ref" /\ call'[p] = d => LocalOK(p)'
    <3> SUFFICES ASSUME pc'[p] = "ref", call'[p] = d
                 PROVE  LocalOK(p)'
      OBVIOUS
    <3>1. Identity' = Identity
      BY DEF Identity, StoresGrow
    <3>2. d.use = "require" <=> d.op = "require"
      BY <1>4, <2>4 DEF First, Ops
    <3>3. PlaceOK(p)'
      BY <1>4, <1>6, <1>7, <1>8, <2>3, <2>4, <3>1, <3>2 DEF PlaceOK
    <3>4. d.use # "publish"
      BY <2>4 DEF First
    <3>5. ChunkOK(p)'
      BY <3>4 DEF ChunkOK, Publishing, Writing
    <3> QED
      BY <3>3, <3>5 DEF LocalOK
  <2> QED
    BY <2>2, <2>4, <2>5, GoesOn
<1> QED
    BY <1>9, <1>10

-----------------------------------------------------------------------------
(* Upstream, and calls.                                                    *)

\* The upstream stages move the snapshot; no call notices.
LEMMA SnapshotMovesSound ==
    ASSUME BaseInv, SnapshotMoves
    PROVE  BaseInv'
PROOF
<1>1. /\ snapshot' \in Snapshots /\ UNCHANGED <<study, stores>>
      /\ study' = study /\ pc' = pc /\ call' = call /\ result' = result
    BY DEF SnapshotMoves
<1>2. StoresAreSound
    BY DEF BaseInv
<1>3. StoresAreSound' /\ StoresGrow
    BY <1>1, <1>2, QuietStores
<1>4. LocalTypeOK'
  <2>1. Call' = Call /\ Result' = Result
    BY <1>1 DEF Call, Result, Identity, Payloads
  <2> QED
    BY <1>1, <2>1 DEF LocalTypeOK, BaseInv, CallsAreSound
<1>5. ASSUME NEW q \in Procs
      PROVE  LocalOK(q)' /\ AnswerOK(q)'
  <2>1. pc'[q] = pc[q] /\ call'[q] = call[q] /\ result'[q] = result[q]
    BY <1>1
  <2> QED
    BY <1>3, <2>1, LocalLasts, AnswerLasts
<1> QED
    BY <1>3, <1>4, <1>5 DEF BaseInv, CallsAreSound

\* A call begins with the first chunk of the current plan.
LEMMA StartSound ==
    ASSUME BaseInv, NEW p \in Procs, NEW op \in Ops, NEW q \in Requests, Start(p, op, q)
    PROVE  BaseInv'
PROOF
<1>1. PICK identity : identity = [snapshot |-> snapshot, request |-> q]
    OBVIOUS
<1>2. PICK d : d = [NoCall EXCEPT !.op = op, !.identity = identity, !.use = First(op)]
    OBVIOUS
<1>3. StoresAreSound /\ LocalTypeOK
    BY InvariantAt
<1>4. StoresAreSound' /\ StoresGrow /\ study' = study
  <2>1. UNCHANGED <<study, stores>> /\ snapshot' = snapshot
    BY DEF Start
  <2>2. snapshot' \in Snapshots
    BY <1>3, <2>1, StoresAt DEF StoreTypeOK
  <2> QED
    BY <1>3, <2>1, <2>2, QuietStores
<1>5. identity \in Identity /\ identity.snapshot = snapshot
    BY <1>1, <1>3, StoresAt DEF StoreTypeOK, Identity, IdentitiesIn, Snapshots
<1>6. 1 \in DOMAIN Plan(identity)
  <2>1. Plan(identity) # Refused
    BY <1>5 DEF Start, Plan
  <2> QED
    BY <1>3, <1>5, <2>1, StoresAt, PlanTypes
<1>7. First(op) \in Uses /\ (First(op) = "require" <=> op = "require")
      /\ First(op) # "publish"
    BY DEF First, Uses, Ops
<1>8. /\ d \in Call /\ d.op = op /\ d.identity = identity /\ d.chunk = 1
      /\ d.use = First(op) /\ d.outcome = <<>>
  <2>1. d = AtChunk(op, identity, 1, First(op), <<>>)
    BY <1>2 DEF NoCall, AtChunk
  <2>2. <<>> \in Seq(Outcome) /\ 1 \in Nat \ {0}
    OBVIOUS
  <2>3. AtChunk(op, identity, 1, First(op), <<>>) \in Call
    BY <1>5, <1>7, <2>2, NextTypes
  <2> QED
    BY <2>1, <2>3 DEF AtChunk
<1>9. /\ pc' = [pc EXCEPT ![p] = "ref"] /\ call' = [call EXCEPT ![p] = d]
      /\ result' = [result EXCEPT ![p] = None]
    BY <1>1, <1>2 DEF Start, Goto
<1>10. /\ LocalTypeOK'
       /\ pc'[p] = "ref" /\ call'[p] = d /\ result'[p] = None
       /\ \A r \in Procs \ {p} :
              pc'[r] = pc[r] /\ call'[r] = call[r] /\ result'[r] = result[r]
  <2>1. Call' = Call /\ Result' = Result
    BY <1>4 DEF Call, Result, Identity, Payloads
  <2>2. "ref" \in Steps
    BY DEF Steps
  <2> QED
    BY <1>3, <1>8, <1>9, <2>1, <2>2 DEF LocalTypeOK
<1>11. LocalOK(p)'
  <2>1. Plan(identity)' = Plan(identity) /\ Identity' = Identity
    BY <1>4 DEF Plan, Identity
  <2>2. PlaceOK(p)'
    BY <1>5, <1>6, <1>7, <1>8, <1>10, <2>1 DEF PlaceOK
  <2>3. ChunkOK(p)'
    BY <1>7, <1>8, <1>10 DEF ChunkOK, Publishing, Writing
  <2> QED
    BY <2>2, <2>3 DEF LocalOK
<1>12. AnswerOK(p)'
    BY <1>10 DEF AnswerOK
<1> QED
    BY <1>4, <1>10, <1>11, <1>12, OneMoves

\* A read or a write fails, or the process dies.
LEMMA FailsSound ==
    ASSUME BaseInv, NEW p \in Procs, Fails(p)
    PROVE  BaseInv'
PROOF
<1>1. StoresAreSound /\ snapshot \in Snapshots
    BY InvariantAt, StoresAt DEF StoreTypeOK
<1>2. StoresAreSound' /\ StoresGrow
    BY <1>1, QuietStores DEF Fails
<1>3. Raise(p, "failed") /\ "failed" \in Statuses \ {"ok"} /\ Busy(p)
    BY DEF Fails, Statuses, Active, Busy
<1> QED
    BY <1>2, <1>3, Raises

-----------------------------------------------------------------------------
(* Reading the pointer of a chunk.                                         *)

\* The call stays at its chunk.
SamePlace(c, d) ==
    /\ d.op = c.op /\ d.identity = c.identity /\ d.chunk = c.chunk /\ d.outcome = c.outcome
    /\ d.use = "require" <=> c.use = "require"

\* Then what it is done with stays as it is.
LEMMA PlaceStays ==
    ASSUME BaseInv, NEW p \in Procs, Busy(p), StoresGrow, NEW d, SamePlace(call[p], d),
           call'[p] = d, NEW x, x = ChunkOf(p)
    PROVE  PlaceOK(p)' /\ ChunkOf(p)' = x /\ HeadOf(p)' = head'[x] /\ Payloads' = Payloads
PROOF
<1>1. PICK c : c = call[p]
    OBVIOUS
<1>2. /\ c.op \in Ops /\ c.identity \in Identity /\ c.chunk \in DOMAIN Plan(c.identity)
      /\ Len(c.outcome) = c.chunk - 1 /\ c.chunk \in Nat
      /\ \A k \in 1..(c.chunk - 1) : IsDone(c.op, c.identity, k, c.outcome[k])
      /\ c.use = "require" <=> c.op = "require"
      /\ StoresAreSound
    BY <1>1, InvariantAt, BusyAt
<1>3. Plan(c.identity)' = Plan(c.identity) /\ Identity' = Identity /\ Payloads' = Payloads
    BY DEF Plan, Identity, Payloads, StoresGrow
<1>4. /\ d.op = c.op /\ d.identity = c.identity /\ d.chunk = c.chunk
      /\ d.outcome = c.outcome /\ (d.use = "require" <=> c.use = "require")
    BY <1>1 DEF SamePlace
<1>5. ChunkOf(p)' = x /\ HeadOf(p)' = head'[x]
    BY <1>1, <1>3, <1>4 DEF ChunkOf, HeadOf
<1>6. \A k \in 1..(c.chunk - 1) : IsDone(c.op, c.identity, k, c.outcome[k])'
  <2>1. \A k \in 1..(c.chunk - 1) : k \in DOMAIN Plan(c.identity)
    BY <1>2, StoresAt, PlanTypes
  <2> QED
    BY <1>2, <2>1, DoneLasts
<1>7. PlaceOK(p)'
    BY <1>2, <1>3, <1>4, <1>6 DEF PlaceOK
<1> QED
    BY <1>3, <1>5, <1>7

\* What a call knows of the pointer is enough to go on without it: to ask the
\* provider, or to publish the answer.
LEMMA MissSound ==
    ASSUME BaseInv, NEW p \in Procs, Busy(p), StoresAreSound', StoresGrow, head' = head,
           NEW c \in Call, SamePlace(call[p], c), c.use = call[p].use,
           c.payload = call[p].payload,
           Knows(HeadOf(p), c.ref, c.target), Miss(p, c)
    PROVE  BaseInv'
PROOF
<1>1. PICK x \in Chunks : x = ChunkOf(p)
    BY BusyAt
<1>2. ChunkOK(p) /\ HeadOf(p) = head[x]
    BY <1>1, InvariantAt, BusyAt
<1>3. CASE c.use = "reuse"
  <2>1. PICK d : d = [c EXCEPT !.round = 1, !.attempt = 1]
    OBVIOUS
  <2>2. Continue(p, "generate", d) /\ "generate" \in Steps
    BY <1>3, <2>1 DEF Miss, Steps
  <2>3. 1 \in 0..MaxRounds /\ 1 \in 0..3
    BY RevsAreNaturals
  <2>4. d \in Call /\ d.use = c.use /\ SamePlace(call[p], d)
    BY <2>1, <2>3 DEF Call, SamePlace
  <2>5. pc'[p] = "generate" /\ call'[p] = d => LocalOK(p)'
    <3> SUFFICES ASSUME pc'[p] = "generate", call'[p] = d
                 PROVE  LocalOK(p)'
      OBVIOUS
    <3>1. PlaceOK(p)'
      BY <1>1, <2>4, PlaceStays
    <3>2. ChunkOK(p)'
      BY <1>3, <2>4 DEF ChunkOK, Publishing, Writing
    <3> QED
      BY <3>1, <3>2 DEF LocalOK
  <2> QED
    BY <2>2, <2>4, <2>5, GoesOn
<1>4. CASE c.use = "publish"
  <2>1. Continue(p, "alloc", c) /\ "alloc" \in Steps
    BY <1>4 DEF Miss, Steps
  <2>2. pc'[p] = "alloc" /\ call'[p] = c => LocalOK(p)'
    <3> SUFFICES ASSUME pc'[p] = "alloc", call'[p] = c
                 PROVE  LocalOK(p)'
      OBVIOUS
    <3>1. PlaceOK(p)' /\ HeadOf(p)' = head[x] /\ Payloads' = Payloads
      BY <1>1, PlaceStays
    <3>2. ChunkOK(p)'
      BY <1>2, <1>4, <3>1 DEF ChunkOK, Publishing, Writing
    <3> QED
      BY <3>1, <3>2 DEF LocalOK
  <2> QED
    BY <2>1, <2>2, GoesOn
<1>5. CASE c.use # "reuse" /\ c.use # "publish"
  <2>1. PICK status : status = IF c.ref = 0 THEN "missing" ELSE "stale"
    OBVIOUS
  <2>2. Raise(p, status) /\ status \in Statuses \ {"ok"}
    BY <1>5, <2>1 DEF Miss, Statuses
  <2> QED
    BY <2>2, Raises
<1> QED
    BY <1>3, <1>4, <1>5

\* A step of a busy call that writes nothing.
LEMMA QuietAt ==
    ASSUME BaseInv, NEW p \in Procs, UNCHANGED <<study, snapshot, stores>>
    PROVE  StoresAreSound' /\ StoresGrow /\ head' = head /\ study' = study
PROOF
<1>1. StoresAreSound /\ snapshot' \in Snapshots
    BY InvariantAt, StoresAt DEF StoreTypeOK
<1>2. StoresAreSound' /\ StoresGrow
    BY <1>1, QuietStores
<1> QED
    BY <1>2 DEF stores

\* The ref of the pointer is read.
LEMMA ReadRefSound ==
    ASSUME BaseInv, NEW p \in Procs, ReadRef(p)
    PROVE  BaseInv'
PROOF
<1>1. pc[p] = "ref" /\ Busy(p) /\ UNCHANGED <<study, snapshot, stores>>
    BY DEF ReadRef, Busy
<1>2. StoresAreSound' /\ StoresGrow /\ head' = head
    BY <1>1, QuietAt
<1>3. PICK x \in Chunks : x = ChunkOf(p)
    BY <1>1, BusyAt
<1>4. PICK c0 : c0 = call[p]
    OBVIOUS
<1>5. PICK h : h = HeadOf(p)
    OBVIOUS
<1>6. /\ h = head[x] /\ h \in Seq(Revs) /\ GoesUp(h) /\ c0 \in Call /\ ChunkOK(p)
    BY <1>1, <1>3, <1>4, <1>5, InvariantAt, BusyAt
<1>7. PICK c : c = [c0 EXCEPT !.ref = Len(h), !.target = 0]
    OBVIOUS
<1>8. Len(h) \in 0..MaxRev /\ 0 \in 0..MaxRev /\ DOMAIN h = 1..Len(h)
    BY <1>6, HeadTypes, RevsAreNaturals
<1>9. /\ c \in Call /\ c.ref = Len(h) /\ c.target = 0 /\ c.use = c0.use
      /\ c.payload = c0.payload /\ SamePlace(c0, c)
    BY <1>6, <1>7, <1>8 DEF Call, SamePlace
<1>10. CASE c.ref = 0
  <2>1. Miss(p, c)
    BY <1>1, <1>4, <1>5, <1>7, <1>10 DEF ReadRef
  <2>2. h = <<>>
    BY <1>6, <1>9, <1>10, EmptySeq
  <2>3. Knows(h, c.ref, c.target)
    BY <1>9, <1>10, <2>2 DEF Knows
  <2> QED
    BY <1>1, <1>2, <1>4, <1>5, <1>9, <2>1, <2>3, MissSound
<1>11. CASE c.ref # 0
  <2>1. Continue(p, "target", c) /\ "target" \in Steps
    BY <1>1, <1>4, <1>5, <1>7, <1>11 DEF ReadRef, Steps
  <2>2. c.ref \in DOMAIN h
    BY <1>8, <1>9, <1>11
  <2>3. pc'[p] = "target" /\ call'[p] = c => LocalOK(p)'
    <3> SUFFICES ASSUME pc'[p] = "target", call'[p] = c
                 PROVE  LocalOK(p)'
      OBVIOUS
    <3>1. PlaceOK(p)' /\ HeadOf(p)' = h /\ Payloads' = Payloads
      BY <1>1, <1>2, <1>3, <1>4, <1>6, <1>9, PlaceStays
    <3>2. c.use = "publish" => c.payload \in Payloads
      BY <1>1, <1>4, <1>6, <1>9 DEF ChunkOK
    <3>3. ChunkOK(p)'
      BY <2>2, <3>1, <3>2 DEF ChunkOK, Publishing, Writing
    <3> QED
      BY <3>1, <3>3 DEF LocalOK
  <2> QED
    BY <1>2, <1>9, <2>1, <2>3, GoesOn
<1> QED
    BY <1>10, <1>11

\* The target of the pointer is read.
LEMMA ReadTargetSound ==
    ASSUME BaseInv, NEW p \in Procs, ReadTarget(p)
    PROVE  BaseInv'
PROOF
<1>1. pc[p] = "target" /\ Busy(p) /\ UNCHANGED <<study, snapshot, stores>>
    BY DEF ReadTarget, Busy
<1>2. StoresAreSound' /\ StoresGrow /\ head' = head /\ extraction' = extraction
    BY <1>1, QuietAt DEF stores
<1>3. PICK x \in Chunks : x = ChunkOf(p)
    BY <1>1, BusyAt
<1>4. PICK c0 : c0 = call[p]
    OBVIOUS
<1>5. PICK h : h = HeadOf(p)
    OBVIOUS
<1>6. /\ h = head[x] /\ h \in Seq(Revs) /\ GoesUp(h) /\ c0 \in Call /\ ChunkOK(p)
      /\ c0.ref \in DOMAIN h
    BY <1>1, <1>3, <1>4, <1>5, InvariantAt, BusyAt DEF ChunkOK
<1>7. PICK t : t = Last(h)
    OBVIOUS
<1>8. PICK c : c = [c0 EXCEPT !.target = t]
    OBVIOUS
<1>9. Knows(h, c0.ref, t) /\ t \in Revs /\ t # 0 /\ t \in 0..MaxRev
    BY <1>6, <1>7, ReadingKnows
<1>10. /\ c \in Call /\ c.ref = c0.ref /\ c.target = t /\ c.use = c0.use
       /\ c.payload = c0.payload /\ SamePlace(c0, c) /\ c.op = c0.op
       /\ c.identity = c0.identity
    BY <1>6, <1>8, <1>9 DEF Call, SamePlace
<1>11. \/ Raise(p, "corrupt")
       \/ Accepts(c.op, IdentityOf(x, t), c.identity) /\ Continue(p, "recheck", c)
       \/ Miss(p, c)
    BY <1>3, <1>4, <1>5, <1>7, <1>8, <1>10 DEF ReadTarget
<1>12. CASE Raise(p, "corrupt")
  <2>1. "corrupt" \in Statuses \ {"ok"}
    BY DEF Statuses
  <2> QED
    BY <1>1, <1>2, <1>12, <2>1, Raises
<1>13. CASE Accepts(c.op, IdentityOf(x, t), c.identity) /\ Continue(p, "recheck", c)
  <2>1. IsOf(c.op, IdentityOf(x, t), c.identity) /\ "recheck" \in Steps
    BY <1>13 DEF Accepts, IsOf, Steps
  <2>2. pc'[p] = "recheck" /\ call'[p] = c => LocalOK(p)'
    <3> SUFFICES ASSUME pc'[p] = "recheck", call'[p] = c
                 PROVE  LocalOK(p)'
      OBVIOUS
    <3>1. PlaceOK(p)' /\ ChunkOf(p)' = x /\ HeadOf(p)' = h /\ Payloads' = Payloads
      BY <1>1, <1>2, <1>3, <1>4, <1>6, <1>10, PlaceStays
    <3>2. c.use = "publish" => c.payload \in Payloads
      BY <1>1, <1>4, <1>6, <1>10 DEF ChunkOK
    <3>3. IdentityOf(x, t)' = IdentityOf(x, t)
      BY <1>2 DEF IdentityOf
    <3>4. ChunkOK(p)'
      BY <1>9, <1>10, <2>1, <3>1, <3>2, <3>3 DEF ChunkOK, Publishing, Writing
    <3> QED
      BY <3>1, <3>4 DEF LocalOK
  <2> QED
    BY <1>2, <1>10, <1>13, <2>1, <2>2, GoesOn
<1>14. CASE Miss(p, c)
  <2>1. Knows(h, c.ref, c.target)
    BY <1>9, <1>10
  <2> QED
    BY <1>1, <1>2, <1>4, <1>5, <1>10, <1>14, <2>1, MissSound
<1> QED
    BY <1>11, <1>12, <1>13, <1>14

\* The pointer has not moved since: what was read is the chunk's outcome.
LEMMA RecheckSound ==
    ASSUME BaseInv, NEW p \in Procs, Recheck(p)
    PROVE  BaseInv'
PROOF
<1>1. pc[p] = "recheck" /\ Busy(p) /\ UNCHANGED <<study, snapshot, stores>>
    BY DEF Recheck, Busy
<1>2. StoresAreSound' /\ StoresGrow
    BY <1>1, QuietAt
<1>3. PICK x \in Chunks : x = ChunkOf(p)
    BY <1>1, BusyAt
<1>4. PICK c : c = call[p]
    OBVIOUS
<1>5. PICK h : h = HeadOf(p)
    OBVIOUS
<1>6. /\ h = head[x] /\ h \in Seq(Revs) /\ GoesUp(h) /\ c \in Call /\ c.ref \in 0..MaxRev
      /\ Knows(h, c.ref, c.target) /\ c.target # 0
      /\ IsOf(c.op, IdentityOf(x, c.target), c.identity)
      /\ c.identity \in Identity /\ c.chunk \in DOMAIN Plan(c.identity)
      /\ x = Plan(c.identity)[c.chunk].id
    BY <1>1, <1>3, <1>4, <1>5, InvariantAt, BusyAt DEF ChunkOK, ChunkOf, Call
<1>7. CASE Len(h) = c.ref
  <2>1. PICK o : o = [ref |-> c.ref, target |-> c.target, reused |-> TRUE]
    OBVIOUS
  <2>2. NextChunk(p, o)
    BY <1>4, <1>5, <1>7, <2>1 DEF Recheck
  <2>3. h # <<>> /\ c.target = Last(h)
    BY <1>6, <1>7 DEF Knows
  <2>4. c.ref \in DOMAIN h /\ h[c.ref] = c.target /\ c.target \in Revs
    BY <1>6, <1>7, <2>3, HeadTypes
  <2>5. o \in Outcome /\ o.ref = c.ref /\ o.target = c.target
    BY <1>6, <2>1, <2>4 DEF Outcome
  <2>6. Intact(x, c.target)
    BY <1>6, <2>4, InvariantAt, StoresAt DEF HeadsAreIntact
  <2>7. IsDone(c.op, c.identity, c.chunk, o)
    BY <1>6, <2>4, <2>5, <2>6 DEF IsDone
  <2>8. IsDone(c.op, c.identity, c.chunk, o)'
    <3>1. PICK op, identity, k : op = c.op /\ identity = c.identity /\ k = c.chunk
      OBVIOUS
    <3>2. IsDone(op, identity, k, o)'
      BY <1>2, <1>6, <2>7, <3>1, InvariantAt, DoneLasts
    <3> QED
      BY <3>1, <3>2
  <2> QED
    BY <1>1, <1>2, <1>4, <2>2, <2>5, <2>8, NextChunkSound
<1>8. CASE Len(h) # c.ref
  <2>1. Raise(p, "moved") /\ "moved" \in Statuses \ {"ok"}
    BY <1>4, <1>5, <1>8 DEF Recheck, Statuses
  <2> QED
    BY <1>1, <1>2, <2>1, Raises
<1> QED
    BY <1>7, <1>8

-----------------------------------------------------------------------------
(* Generation.                                                             *)

\* The provider is asked again.
LEMMA AsksAgainSound ==
    ASSUME BaseInv, NEW p \in Procs, pc[p] = "generate", StoresAreSound', StoresGrow,
           NEW c \in Call, SamePlace(call[p], c), c.use = call[p].use,
           Continue(p, "generate", c)
    PROVE  BaseInv'
PROOF
<1>1. Busy(p) /\ "generate" \in Steps /\ ChunkOK(p)
    BY InvariantAt DEF Busy, Steps
<1>2. PICK x : x = ChunkOf(p)
    OBVIOUS
<1>3. pc'[p] = "generate" /\ call'[p] = c => LocalOK(p)'
  <2> SUFFICES ASSUME pc'[p] = "generate", call'[p] = c
               PROVE  LocalOK(p)'
    OBVIOUS
  <2>1. PlaceOK(p)'
    BY <1>1, <1>2, PlaceStays
  <2>2. ChunkOK(p)'
    BY <1>1 DEF ChunkOK, Publishing, Writing
  <2> QED
    BY <2>1, <2>2 DEF LocalOK
<1> QED
    BY <1>1, <1>3, GoesOn

\* An answer that does not hold up costs a round.
LEMMA SemanticallyInvalidSound ==
    ASSUME BaseInv, NEW p \in Procs, pc[p] = "generate", StoresAreSound', StoresGrow,
           SemanticallyInvalid(p)
    PROVE  BaseInv'
PROOF
<1>1. PICK c0 : c0 = call[p]
    OBVIOUS
<1>2. c0 \in Call /\ Busy(p) /\ c0.round \in 0..MaxRounds /\ 1 \in 0..3
    BY <1>1, InvariantAt, RevsAreNaturals DEF Busy, Call
<1>3. CASE c0.round < MaxRounds
  <2>1. PICK c : c = [c0 EXCEPT !.round = @ + 1, !.attempt = 1]
    OBVIOUS
  <2>2. Continue(p, "generate", c)
    BY <1>1, <1>3, <2>1 DEF SemanticallyInvalid
  <2>3. c0.round + 1 \in 0..MaxRounds
    BY <1>2, <1>3, RevsAreNaturals
  <2>4. c \in Call /\ SamePlace(c0, c) /\ c.use = c0.use
    BY <1>2, <2>1, <2>3 DEF Call, SamePlace
  <2> QED
    BY <1>1, <2>2, <2>4, AsksAgainSound
<1>4. CASE ~(c0.round < MaxRounds)
  <2>1. Raise(p, "invalid") /\ "invalid" \in Statuses \ {"ok"}
    BY <1>1, <1>4 DEF SemanticallyInvalid, Statuses
  <2> QED
    BY <1>2, <2>1, Raises
<1> QED
    BY <1>3, <1>4

\* The provider answers or fails.
LEMMA GenerateSound ==
    ASSUME BaseInv, NEW p \in Procs, Generate(p)
    PROVE  BaseInv'
PROOF
<1>1. pc[p] = "generate" /\ Busy(p) /\ UNCHANGED <<study, snapshot, stores>>
    BY DEF Generate, Busy
<1>2. StoresAreSound' /\ StoresGrow /\ head' = head
    BY <1>1, QuietAt
<1>3. PICK c0 : c0 = call[p]
    OBVIOUS
<1>4. PICK x \in Chunks : x = ChunkOf(p)
    BY <1>1, BusyAt
<1>5. /\ c0 \in Call /\ c0.attempt \in 0..3 /\ c0.use = "reuse"
      /\ c0.op \in Ops /\ (c0.use = "require" <=> c0.op = "require")
      /\ c0.identity \in Identity /\ c0.chunk \in DOMAIN Plan(c0.identity)
    BY <1>1, <1>3, InvariantAt, BusyAt DEF Call, ChunkOK
<1>6. CASE Raise(p, "llm_error")
  <2>1. "llm_error" \in Statuses \ {"ok"}
    BY DEF Statuses
  <2> QED
    BY <1>1, <1>2, <1>6, <2>1, Raises
<1>7. CASE Transient(p)
  <2>1. CASE c0.attempt < MaxAttempts[p]
    <3>1. PICK c : c = [c0 EXCEPT !.attempt = @ + 1]
      OBVIOUS
    <3>2. Continue(p, "generate", c)
      BY <1>3, <1>7, <2>1, <3>1 DEF Transient
    <3>3. c0.attempt + 1 \in 0..3
      BY <1>5, <2>1, RevsAreNaturals
    <3>4. c \in Call /\ SamePlace(c0, c) /\ c.use = c0.use
      BY <1>5, <3>1, <3>3 DEF Call, SamePlace
    <3> QED
      BY <1>1, <1>2, <1>3, <3>2, <3>4, AsksAgainSound
  <2>2. CASE ~(c0.attempt < MaxAttempts[p])
    <3>1. Raise(p, "llm_error")
      BY <1>3, <1>7, <2>2 DEF Transient
    <3> QED
      BY <1>6, <3>1
  <2> QED
    BY <2>1, <2>2
<1>8. CASE SemanticallyInvalid(p)
    BY <1>1, <1>2, <1>8, SemanticallyInvalidSound
<1>9. ASSUME NEW payload \in study.texts[c0.identity.snapshot].judged[c0.chunk],
             payload # None,
             Continue(p, "ref", [c0 EXCEPT !.payload = payload, !.use = "publish"])
      PROVE  BaseInv'
  <2>1. payload \in Payloads
    <3>1. PICK s \in Snapshots : s = c0.identity.snapshot
      BY <1>5, InvariantAt, StoresAt, PlanTypes
    <3>2. c0.chunk \in DOMAIN study.texts[s].judged
      BY <1>5, <3>1, InvariantAt, StoresAt, StudyTypes DEF Plan
    <3>3. payload \in UNION Range(study.texts[s].judged)
      BY <1>9, <3>1, <3>2 DEF Range
    <3>4. payload \in UNION {UNION Range(study.texts[t].judged) : t \in Snapshots}
      BY <3>1, <3>3
    <3> QED
      BY <1>9, <3>4 DEF Payloads, PayloadsIn, Snapshots
  <2>2. PICK c : c = [c0 EXCEPT !.payload = payload, !.use = "publish"]
    OBVIOUS
  <2>3. /\ c \in Call /\ SamePlace(c0, c) /\ c.use = "publish" /\ c.payload = payload
    BY <1>5, <2>1, <2>2 DEF Call, SamePlace, Uses
  <2>4. pc'[p] = "ref" /\ call'[p] = c => LocalOK(p)'
    <3> SUFFICES ASSUME pc'[p] = "ref", call'[p] = c
                 PROVE  LocalOK(p)'
      OBVIOUS
    <3>1. PlaceOK(p)' /\ Payloads' = Payloads
      BY <1>1, <1>2, <1>3, <1>4, <2>3, PlaceStays
    <3>2. ChunkOK(p)'
      BY <2>1, <2>3, <3>1 DEF ChunkOK, Publishing, Writing
    <3> QED
      BY <3>1, <3>2 DEF LocalOK
  <2>5. "ref" \in Steps
    BY DEF Steps
  <2> QED
    BY <1>2, <1>9, <2>2, <2>3, <2>4, <2>5, GoesOn
<1>10. \/ Transient(p) \/ Raise(p, "llm_error") \/ SemanticallyInvalid(p)
       \/ \E payload \in study.texts[c0.identity.snapshot].judged[c0.chunk] :
              /\ payload # None
              /\ Continue(p, "ref", [c0 EXCEPT !.payload = payload, !.use = "publish"])
    BY <1>3 DEF Generate
<1> QED
    BY <1>6, <1>7, <1>8, <1>9, <1>10

-----------------------------------------------------------------------------
(* Publication.                                                            *)

\* What a call that publishes knows.
LEMMA PublishingAt ==
    ASSUME BaseInv, NEW p \in Procs, pc[p] \in Publishing
    PROVE  /\ Busy(p) /\ call[p].use = "publish" /\ call[p].payload \in Payloads
           /\ Knows(HeadOf(p), call[p].ref, call[p].target)
           /\ pc[p] \in Writing => call[p].rev \in Revs /\ call[p].rev > call[p].target
PROOF
<1>1. Busy(p) /\ ChunkOK(p)
    BY InvariantAt DEF Busy, Publishing, Writing
<1> QED
    BY <1>1 DEF ChunkOK

\* A revision is allocated.
LEMMA AllocSound ==
    ASSUME BaseInv, NEW p \in Procs, Alloc(p)
    PROVE  BaseInv'
PROOF
<1>1. pc[p] = "alloc" /\ pc[p] \in Publishing /\ UNCHANGED <<study, snapshot, stores>>
    BY DEF Alloc, Publishing
<1>2. StoresAreSound' /\ StoresGrow /\ head' = head
    BY <1>1, QuietAt
<1>3. PICK c0 : c0 = call[p]
    OBVIOUS
<1>4. /\ Busy(p) /\ c0.use = "publish" /\ c0.payload \in Payloads /\ c0 \in Call
      /\ Knows(HeadOf(p), c0.ref, c0.target)
    BY <1>1, <1>3, InvariantAt, PublishingAt
<1>5. PICK x \in Chunks : x = ChunkOf(p)
    BY <1>4, BusyAt
<1>6. PICK r \in Revs : r > c0.target /\ Continue(p, "put", [c0 EXCEPT !.rev = r])
    BY <1>3 DEF Alloc
<1>7. PICK c : c = [c0 EXCEPT !.rev = r]
    OBVIOUS
<1>8. /\ c \in Call /\ SamePlace(c0, c) /\ c.use = "publish" /\ c.payload = c0.payload
      /\ c.ref = c0.ref /\ c.target = c0.target /\ c.rev = r
  <2>1. r \in 0..MaxRev
    BY RevsAreNaturals
  <2> QED
    BY <1>4, <1>7, <2>1 DEF Call, SamePlace
<1>9. Continue(p, "put", c) /\ "put" \in Steps
    BY <1>6, <1>7 DEF Steps
<1>10. pc'[p] = "put" /\ call'[p] = c => LocalOK(p)'
  <2> SUFFICES ASSUME pc'[p] = "put", call'[p] = c
               PROVE  LocalOK(p)'
    OBVIOUS
  <2>1. PlaceOK(p)' /\ HeadOf(p)' = head[x] /\ Payloads' = Payloads /\ HeadOf(p) = head[x]
    BY <1>2, <1>3, <1>4, <1>5, <1>8, PlaceStays DEF HeadOf
  <2>2. ChunkOK(p)'
    BY <1>4, <1>6, <1>8, <2>1 DEF ChunkOK, Publishing, Writing
  <2> QED
    BY <2>1, <2>2 DEF LocalOK
<1> QED
    BY <1>2, <1>8, <1>9, <1>10, GoesOn

\* The extraction is written, or the revision is another's.
LEMMA PutSound ==
    ASSUME BaseInv, NEW p \in Procs, Put(p)
    PROVE  BaseInv'
PROOF
<1>1. /\ pc[p] = "put" /\ pc[p] \in Publishing /\ pc[p] \in Writing
      /\ study' = study /\ snapshot' = snapshot /\ report' = report /\ head' = head
    BY DEF Put, Publishing, Writing
<1>2. PICK c : c = call[p]
    OBVIOUS
<1>3. /\ Busy(p) /\ c.use = "publish" /\ c.payload \in Payloads /\ c \in Call
      /\ Knows(HeadOf(p), c.ref, c.target)
      /\ c.rev \in Revs /\ c.rev > c.target /\ c.identity \in Identity
      /\ StoresAreSound
    BY <1>1, <1>2, InvariantAt, PublishingAt, BusyAt
<1>4. PICK x \in Chunks : x = ChunkOf(p)
    BY <1>3, BusyAt
<1>5. PICK e : e = [identity |-> c.identity, payload |-> c.payload]
    OBVIOUS
<1>6. e \in Extraction
    BY <1>3, <1>5 DEF Extraction, ExtractionsIn, Identity, Payloads
<1>7. CASE extraction[x][c.rev] \in {None, e}
  <2>1. extraction' = [extraction EXCEPT ![x][c.rev] = e] /\ Continue(p, "report", c)
    BY <1>2, <1>4, <1>5, <1>7 DEF Put
  <2>2. extraction \in [Chunks -> [Revs -> Extraction \union {None}]]
    BY <1>3, StoresAt DEF StoreTypeOK
  <2>3. /\ extraction' \in [Chunks -> [Revs -> Extraction \union {None}]]
        /\ extraction'[x][c.rev] = e
        /\ \A y \in Chunks, r \in Revs :
               extraction[y][r] # None => extraction'[y][r] = extraction[y][r]
    BY <1>3, <1>6, <1>7, <2>1, <2>2
  <2>4. StoresGrow
    BY <1>1, <2>3 DEF StoresGrow, Grows, Chunks
  <2>5. StoreTypeOK'
    <3>1. /\ Snapshots' = Snapshots /\ Chunks' = Chunks /\ PlannedChunks' = PlannedChunks
          /\ Extraction' = Extraction
      BY <1>1 DEF Snapshots, Chunks, PlannedChunks, Extraction
    <3> QED
      BY <1>1, <1>3, <2>3, <3>1, StoresAt DEF StoreTypeOK
  <2>6. StoresAreSound'
    BY <1>1, <1>3, <2>4, <2>5, StoresStaySound
  <2>7. pc'[p] = "report" /\ call'[p] = c => LocalOK(p)'
    <3> SUFFICES ASSUME pc'[p] = "report", call'[p] = c
                 PROVE  LocalOK(p)'
      OBVIOUS
    <3>1. SamePlace(c, c)
      BY DEF SamePlace
    <3>2. /\ PlaceOK(p)' /\ ChunkOf(p)' = x /\ HeadOf(p)' = head[x] /\ HeadOf(p) = head[x]
          /\ Payloads' = Payloads
      BY <1>1, <1>2, <1>3, <1>4, <2>4, <3>1, PlaceStays DEF HeadOf
    <3>3. ChunkOK(p)'
      BY <1>3, <1>5, <2>3, <3>2 DEF ChunkOK, Publishing, Writing
    <3> QED
      BY <3>2, <3>3 DEF LocalOK
  <2>8. "report" \in Steps
    BY DEF Steps
  <2> QED
    BY <1>3, <2>1, <2>4, <2>6, <2>7, <2>8, GoesOn
<1>8. CASE extraction[x][c.rev] \notin {None, e}
  <2>1. Raise(p, "conflict") /\ "conflict" \in Statuses \ {"ok"} /\ extraction' = extraction
    BY <1>2, <1>4, <1>5, <1>8 DEF Put, Statuses
  <2>2. StoresAreSound' /\ StoresGrow
    BY <1>1, <2>1, QuietAt DEF stores
  <2> QED
    BY <1>3, <2>1, <2>2, Raises
<1> QED
    BY <1>7, <1>8

\* The report is written.
LEMMA PutReportSound ==
    ASSUME BaseInv, NEW p \in Procs, PutReport(p)
    PROVE  BaseInv'
PROOF
<1>1. /\ pc[p] = "report" /\ pc[p] \in Publishing /\ pc[p] \in Writing
      /\ study' = study /\ snapshot' = snapshot /\ extraction' = extraction /\ head' = head
    BY DEF PutReport, Publishing, Writing
<1>2. PICK c : c = call[p]
    OBVIOUS
<1>3. PICK x \in Chunks : x = ChunkOf(p)
    BY <1>1, PublishingAt, BusyAt
<1>4. /\ Busy(p) /\ c.use = "publish" /\ c.payload \in Payloads /\ c \in Call
      /\ Knows(HeadOf(p), c.ref, c.target)
      /\ c.rev \in Revs /\ c.rev > c.target
      /\ extraction[x][c.rev] = [identity |-> c.identity, payload |-> c.payload]
      /\ StoresAreSound
    BY <1>1, <1>2, <1>3, InvariantAt, PublishingAt DEF ChunkOK
<1>5. /\ report' = [report EXCEPT ![x] = @ \union {c.rev}]
      /\ Continue(p, "swap", c)
    BY <1>2, <1>3 DEF PutReport
<1>6. report \in [Chunks -> SUBSET Revs]
    BY <1>4, StoresAt DEF StoreTypeOK
<1>7. /\ report' \in [Chunks -> SUBSET Revs] /\ c.rev \in report'[x]
      /\ \A y \in Chunks : report[y] \subseteq report'[y]
    BY <1>4, <1>5, <1>6
<1>8. StoresGrow
    BY <1>1, <1>7 DEF StoresGrow, Grows, Chunks
<1>9. StoreTypeOK'
  <2>1. /\ Snapshots' = Snapshots /\ Chunks' = Chunks /\ PlannedChunks' = PlannedChunks
        /\ Extraction' = Extraction
    BY <1>1 DEF Snapshots, Chunks, PlannedChunks, Extraction
  <2> QED
    BY <1>1, <1>4, <1>7, <2>1, StoresAt DEF StoreTypeOK
<1>10. StoresAreSound'
    BY <1>1, <1>4, <1>8, <1>9, StoresStaySound
<1>11. pc'[p] = "swap" /\ call'[p] = c => LocalOK(p)'
  <2> SUFFICES ASSUME pc'[p] = "swap", call'[p] = c
               PROVE  LocalOK(p)'
    OBVIOUS
  <2>1. SamePlace(c, c)
    BY DEF SamePlace
  <2>2. /\ PlaceOK(p)' /\ ChunkOf(p)' = x /\ HeadOf(p)' = head[x] /\ HeadOf(p) = head[x]
        /\ Payloads' = Payloads
    BY <1>1, <1>2, <1>3, <1>4, <1>8, <2>1, PlaceStays DEF HeadOf
  <2>3. ChunkOK(p)'
    BY <1>1, <1>4, <1>7, <2>2 DEF ChunkOK, Publishing, Writing
  <2> QED
    BY <2>2, <2>3 DEF LocalOK
<1>12. "swap" \in Steps
    BY DEF Steps
<1> QED
    BY <1>4, <1>5, <1>8, <1>10, <1>11, <1>12, GoesOn

\* What compare_and_set makes of a pointer.
Swapped(h, ref, x) == IF Len(h) = ref THEN Append(h, x) ELSE h

\* It goes up, if the target is above what the writer knows of it.
LEMMA SwapGoesUp ==
    ASSUME NEW h \in Seq(Revs), GoesUp(h), NEW ref \in Nat, NEW base \in Nat,
           Knows(h, ref, base), NEW x \in Revs, x > base,
           NEW k, k = Swapped(h, ref, x)
    PROVE  /\ k \in Seq(Revs) /\ GoesUp(k) /\ Grows(h, k)
           /\ k = h \/ k = Append(h, x)
           /\ Len(h) = ref \/ (Len(h) = ref + 1 /\ Last(h) = x) =>
                  Len(k) = ref + 1 /\ Len(k) \in DOMAIN k /\ k[Len(k)] = x
PROOF
<1>1. x \in Nat /\ x > 0 /\ Len(h) \in Nat /\ DOMAIN h = 1..Len(h)
    BY RevsAreNaturals
<1>2. CASE Len(h) # ref
  <2>1. k = h
    BY <1>2 DEF Swapped
  <2>2. (Len(h) = ref + 1 /\ Last(h) = x) => h # <<>> /\ Last(h) = x
    BY <1>1
  <2> QED
    BY <1>2, <2>1, <2>2, HeadTypes DEF Grows
<1>3. CASE Len(h) = ref
  <2>1. base = IF h = <<>> THEN 0 ELSE Last(h)
    BY <1>3 DEF Knows
  <2>3. k = Append(h, x)
    BY <1>3 DEF Swapped
  <2>4. /\ k \in Seq(Revs) /\ Len(k) = Len(h) + 1 /\ DOMAIN k = 1..(Len(h) + 1)
        /\ k[Len(h) + 1] = x
        /\ \A i \in DOMAIN h : k[i] = h[i]
    BY <1>1, <2>3
  <2>5. \A i \in DOMAIN h : h[i] < x
    <3> SUFFICES ASSUME NEW i \in DOMAIN h
                 PROVE  h[i] < x
      OBVIOUS
    <3>1. h # <<>> /\ Last(h) = h[Len(h)] /\ Last(h) = base
      BY <1>1, <2>1 DEF Last
    <3>2. i < Len(h) => h[i] < h[Len(h)]
      BY <1>1 DEF GoesUp
    <3>3. h[i] \in Nat
      BY RevsAreNaturals
    <3>4. i < Len(h) \/ i = Len(h)
      BY <1>1
    <3>5. h[i] \leq base
      <4>1. h[Len(h)] = base
        BY <3>1
      <4>2. CASE i < Len(h)
        BY <3>2, <3>3, <4>1, <4>2
      <4>3. CASE i = Len(h)
        BY <3>3, <4>1, <4>3
      <4> QED
        BY <3>4, <4>2, <4>3
    <3> QED
      BY <1>1, <3>3, <3>5
  <2>6. Len(h) + 1 \leq x
    <3>1. CASE h = <<>>
      BY <1>1, <3>1
    <3>2. CASE h # <<>>
      <4>1. Len(h) \in DOMAIN h /\ Len(h) \leq h[Len(h)]
        BY <1>1, <3>2, EmptySeq DEF GoesUp
      <4>2. h[Len(h)] < x /\ h[Len(h)] \in Nat
        BY <2>5, <4>1, RevsAreNaturals
      <4> QED
        BY <1>1, <4>1, <4>2
    <3> QED
      BY <3>1, <3>2
  <2>7. GoesUp(k)
    <3> SUFFICES ASSUME NEW i \in DOMAIN k
                 PROVE  i \leq k[i] /\ \A j \in DOMAIN k : j < i => k[j] < k[i]
      BY DEF GoesUp
    <3>1. CASE i = Len(h) + 1
      <4>1. \A j \in DOMAIN k : j < i => j \in DOMAIN h
        BY <1>1, <2>4, <3>1
      <4> QED
        BY <2>4, <2>5, <2>6, <3>1, <4>1
    <3>2. CASE i # Len(h) + 1
      <4>1. i \in DOMAIN h /\ \A j \in DOMAIN k : j < i => j \in DOMAIN h
        BY <1>1, <2>4, <3>2
      <4> QED
        BY <2>4, <4>1 DEF GoesUp
    <3> QED
      BY <3>1, <3>2
  <2>8. Len(k) = ref + 1 /\ Len(k) \in DOMAIN k /\ k[Len(k)] = x
    BY <1>1, <1>3, <2>4
  <2> QED
    BY <2>3, <2>4, <2>7, <2>8 DEF Grows
<1> QED
    BY <1>2, <1>3

\* The pointer moves to the extraction, or has moved.
LEMMA SwapSound ==
    ASSUME BaseInv, NEW p \in Procs, Swap(p)
    PROVE  BaseInv'
PROOF
<1>1. /\ pc[p] = "swap" /\ pc[p] \in Publishing /\ pc[p] \in Writing
      /\ study' = study /\ snapshot' = snapshot /\ extraction' = extraction
      /\ report' = report
    BY DEF Swap, Publishing, Writing
<1>2. PICK c : c = call[p]
    OBVIOUS
<1>3. PICK x \in Chunks : x = ChunkOf(p)
    BY <1>1, PublishingAt, BusyAt
<1>4. PICK h : h = head[x]
    OBVIOUS
<1>5. PICK k : k = Swapped(h, c.ref, c.rev)
    OBVIOUS
<1>6. /\ Busy(p) /\ c.use = "publish" /\ c.payload \in Payloads /\ c \in Call
      /\ Knows(h, c.ref, c.target) /\ h \in Seq(Revs) /\ GoesUp(h)
      /\ c.rev \in Revs /\ c.rev > c.target /\ c.ref \in Nat /\ c.target \in Nat
      /\ extraction[x][c.rev] = [identity |-> c.identity, payload |-> c.payload]
      /\ c.rev \in report[x] /\ c.identity \in Identity
      /\ c.chunk \in DOMAIN Plan(c.identity) /\ x = Plan(c.identity)[c.chunk].id
      /\ StoresAreSound
    BY <1>1, <1>2, <1>3, <1>4, InvariantAt, PublishingAt, BusyAt DEF ChunkOK, ChunkOf
<1>7. /\ k \in Seq(Revs) /\ GoesUp(k) /\ Grows(h, k)
      /\ k = h \/ k = Append(h, c.rev)
      /\ Len(h) = c.ref \/ (Len(h) = c.ref + 1 /\ Last(h) = c.rev) =>
             Len(k) = c.ref + 1 /\ Len(k) \in DOMAIN k /\ k[Len(k)] = c.rev
  <2>1. PICK ref \in Nat : ref = c.ref
    BY <1>6
  <2>2. PICK base \in Nat : base = c.target
    BY <1>6
  <2>3. PICK r \in Revs : r = c.rev
    BY <1>6
  <2>4. /\ h \in Seq(Revs) /\ GoesUp(h) /\ Knows(h, ref, base) /\ r > base
        /\ k = Swapped(h, ref, r)
    BY <1>5, <1>6, <2>1, <2>2, <2>3
  <2>5. /\ k \in Seq(Revs) /\ GoesUp(k) /\ Grows(h, k)
        /\ k = h \/ k = Append(h, r)
        /\ Len(h) = ref \/ (Len(h) = ref + 1 /\ Last(h) = r) =>
               Len(k) = ref + 1 /\ Len(k) \in DOMAIN k /\ k[Len(k)] = r
    BY ONLY <2>4, SwapGoesUp
  <2> QED
    BY <2>1, <2>2, <2>3, <2>5
<1>8. head' = IF Len(h) = c.ref THEN [head EXCEPT ![x] = Append(@, c.rev)] ELSE head
    BY <1>2, <1>3, <1>4 DEF Swap, HeadOf
<1>9. head \in [Chunks -> Seq(Revs)]
    BY <1>6, StoresAt DEF StoreTypeOK
<1>10. /\ head' \in [Chunks -> Seq(Revs)] /\ head'[x] = k
       /\ \A y \in Chunks : y # x => head'[y] = head[y]
  <2>1. CASE Len(h) = c.ref
    <3>1. head' = [head EXCEPT ![x] = k]
      BY <1>4, <1>5, <1>8, <2>1 DEF Swapped
    <3> QED
      BY <1>7, <1>9, <3>1
  <2>2. CASE Len(h) # c.ref
    BY <1>4, <1>5, <1>8, <1>9, <2>2 DEF Swapped
  <2> QED
    BY <2>1, <2>2
<1>11. Chunks' = Chunks
    BY <1>9, <1>10 DEF Chunks
<1>12. \A y \in Chunks : Grows(head[y], head'[y])
    BY <1>4, <1>7, <1>10 DEF Grows
<1>13. StoresGrow
    BY <1>1, <1>11, <1>12 DEF StoresGrow
<1>14. Intact(x, c.rev)
  <2>1. extraction[x][c.rev] \in Extraction
    BY <1>6 DEF Extraction, ExtractionsIn, Identity, Payloads
  <2> QED
    BY <1>6, <2>1, StoresAt, StudyTypes DEF Intact
<1>15. StoresAreSound'
  <2>1. StudyOK'
    BY <1>1, <1>6, StoresAt DEF StudyOK
  <2>2. StoreTypeOK'
    <3>1. Snapshots' = Snapshots /\ PlannedChunks' = PlannedChunks /\ Extraction' = Extraction
      BY <1>1 DEF Snapshots, PlannedChunks, Extraction
    <3> QED
      BY <1>1, <1>6, <1>10, <1>11, <3>1, StoresAt DEF StoreTypeOK
  <2>3. HeadsGoUp'
    <3>1. \A y \in Chunks : GoesUp(head'[y])
      BY <1>6, <1>7, <1>10, StoresAt
    <3> QED
      BY <1>11, <3>1 DEF HeadsGoUp
  <2>4. HeadsAreIntact'
    <3> SUFFICES ASSUME NEW y \in Chunks, NEW i \in DOMAIN head'[y]
                 PROVE  Intact(y, head'[y][i])
      BY <1>1, <1>11 DEF HeadsAreIntact, Intact
    <3>1. CASE y # x
      BY <1>6, <1>10, <3>1, StoresAt DEF HeadsAreIntact
    <3>2. CASE y = x
      <4>1. k[i] = c.rev \/ \E j \in DOMAIN h : k[i] = h[j]
        <5>1. i \in DOMAIN k
          BY <1>10, <3>2
        <5>2. CASE k = h
          BY <5>1, <5>2
        <5>3. CASE k = Append(h, c.rev)
          BY <1>6, <5>1, <5>3
        <5> QED
          BY <1>7, <5>2, <5>3
      <4>2. \A j \in DOMAIN h : Intact(x, h[j])
        BY <1>4, <1>6, StoresAt DEF HeadsAreIntact
      <4> QED
        BY <1>10, <1>14, <3>2, <4>1, <4>2
    <3> QED
      BY <3>1, <3>2
  <2> QED
    BY <2>1, <2>2, <2>3, <2>4 DEF StoresAreSound
<1>16. CASE Len(h) = c.ref \/ (Len(h) = c.ref + 1 /\ Last(h) = c.rev)
  <2>1. PICK o : o = [ref |-> c.ref + 1, target |-> c.rev, reused |-> FALSE]
    OBVIOUS
  <2>2. NextChunk(p, o) \/ Raise(p, "failed")
    BY <1>2, <1>3, <1>4, <1>16, <2>1 DEF Swap, HeadOf
  <2>3. c.ref + 1 \in 0..MaxRev /\ c.ref + 1 \in DOMAIN k /\ k[c.ref + 1] = c.rev
    BY <1>7, <1>16, HeadTypes
  <2>4. o \in Outcome /\ o.ref = c.ref + 1 /\ o.target = c.rev
    BY <1>6, <2>1, <2>3 DEF Outcome
  <2>5. IsDone(c.op, c.identity, c.chunk, o)'
    <3>1. PICK op, identity, place : op = c.op /\ identity = c.identity /\ place = c.chunk
      OBVIOUS
    <3>2. Plan(identity)' = Plan(identity)
      BY <1>1 DEF Plan
    <3>3. IsOf(op, IdentityOf(x, c.rev), identity)
      BY <1>6, <3>1 DEF IdentityOf, IsOf
    <3>4. /\ Intact(x, c.rev)' <=> Intact(x, c.rev)
          /\ IdentityOf(x, c.rev)' = IdentityOf(x, c.rev)
      BY <1>1 DEF Intact, IdentityOf
    <3>5. IsDone(op, identity, place, o)'
      BY <1>6, <1>10, <1>14, <2>3, <2>4, <3>1, <3>2, <3>3, <3>4 DEF IsDone
    <3> QED
      BY <3>1, <3>5
  <2>6. CASE NextChunk(p, o)
    BY <1>2, <1>6, <1>13, <1>15, <2>4, <2>5, <2>6, NextChunkSound
  <2>7. CASE Raise(p, "failed")
    <3>1. "failed" \in Statuses \ {"ok"}
      BY DEF Statuses
    <3> QED
      BY <1>6, <1>13, <1>15, <2>7, <3>1, Raises
  <2> QED
    BY <2>2, <2>6, <2>7
<1>17. CASE ~(Len(h) = c.ref \/ (Len(h) = c.ref + 1 /\ Last(h) = c.rev))
  <2>1. Raise(p, "conflict") /\ "conflict" \in Statuses \ {"ok"}
    BY <1>2, <1>3, <1>4, <1>17 DEF Swap, HeadOf, Statuses
  <2> QED
    BY <1>6, <1>13, <1>15, <2>1, Raises
<1> QED
    BY <1>16, <1>17

-----------------------------------------------------------------------------
(* What the stores are and the calls know, at every moment.                *)

\* Nothing is there at first.
LEMMA InitBase == Init => BaseInv
PROOF
<1> SUFFICES ASSUME Init
             PROVE  BaseInv
    OBVIOUS
<1>1. StudyOK
    BY DEF Init, StudyOK
<1>2. Chunks = PlannedChunks /\ \A c \in Chunks : head[c] = <<>>
    BY DEF Init, Chunks
<1>3. StoreTypeOK
  <2>1. head \in [Chunks -> Seq(Revs)]
    BY <1>2 DEF Init
  <2>2. snapshot \in Snapshots
    BY <1>1, StudyTypes DEF Init
  <2>3. extraction \in [Chunks -> [Revs -> Extraction \union {None}]]
    BY DEF Init
  <2>4. report \in [Chunks -> SUBSET Revs]
    BY DEF Init
  <2> QED
    BY <1>2, <2>1, <2>2, <2>3, <2>4 DEF StoreTypeOK
<1>4. HeadsGoUp /\ HeadsAreIntact
    BY <1>2 DEF HeadsGoUp, HeadsAreIntact, GoesUp
<1>5. LocalTypeOK
    BY NoCallTypes DEF Init, LocalTypeOK, Steps
<1>6. ASSUME NEW p \in Procs
      PROVE  LocalOK(p) /\ AnswerOK(p)
  <2>1. pc[p] = "idle" /\ result[p] = None
    BY DEF Init
  <2> QED
    BY <2>1 DEF LocalOK, PlaceOK, ChunkOK, Busy, Publishing, Writing, AnswerOK
<1> QED
    BY <1>1, <1>3, <1>4, <1>5, <1>6 DEF BaseInv, StoresAreSound, CallsAreSound

\* Every step keeps it so.
LEMMA NextBase == BaseInv /\ [Next]_vars => BaseInv'
PROOF
<1> SUFFICES ASSUME BaseInv, [Next]_vars
             PROVE  BaseInv'
    OBVIOUS
<1>1. CASE SnapshotMoves
    BY <1>1, SnapshotMovesSound
<1>2. ASSUME NEW p \in Procs, Step(p) \/ Fails(p) \/ \E op \in Ops, q \in Requests : Start(p, op, q)
      PROVE  BaseInv'
  <2>1. CASE ReadRef(p) \/ ReadTarget(p) \/ Recheck(p) \/ Generate(p)
    BY <2>1, ReadRefSound, ReadTargetSound, RecheckSound, GenerateSound
  <2>2. CASE Alloc(p) \/ Put(p) \/ PutReport(p) \/ Swap(p)
    BY <2>2, AllocSound, PutSound, PutReportSound, SwapSound
  <2>3. CASE Fails(p) \/ \E op \in Ops, q \in Requests : Start(p, op, q)
    BY <2>3, FailsSound, StartSound
  <2> QED
    BY <1>2, <2>1, <2>2, <2>3 DEF Step
<1>3. CASE UNCHANGED vars
  <2>1. /\ UNCHANGED <<study, stores>> /\ snapshot' = snapshot
        /\ study' = study /\ pc' = pc /\ call' = call /\ result' = result
    BY <1>3 DEF vars
  <2>2. StoresAreSound /\ snapshot' \in Snapshots
    BY <2>1, StoresAt DEF BaseInv, StoreTypeOK
  <2>3. StoresAreSound' /\ StoresGrow
    BY <2>1, <2>2, QuietStores
  <2>4. LocalTypeOK'
    <3>1. Call' = Call /\ Result' = Result
      BY <2>1 DEF Call, Result, Identity, Payloads
    <3> QED
      BY <2>1, <3>1 DEF LocalTypeOK, BaseInv, CallsAreSound
  <2>5. ASSUME NEW q \in Procs
        PROVE  LocalOK(q)' /\ AnswerOK(q)'
    <3>1. pc'[q] = pc[q] /\ call'[q] = call[q] /\ result'[q] = result[q]
      BY <2>1
    <3> QED
      BY <2>3, <3>1, LocalLasts, AnswerLasts
  <2> QED
    BY <2>3, <2>4, <2>5 DEF BaseInv, CallsAreSound
<1> QED
    BY <1>1, <1>2, <1>3 DEF Next

-----------------------------------------------------------------------------
(* The history: what a call pays for, and what it finds when it runs       *)
(* alone.  Of a step it matters only where the call goes: it ends, stays   *)
(* at its chunk, goes on to the next, or turns to the provider.            *)

OthersRest(p) == \A q \in Procs \ {p} : pc'[q] = pc[q] /\ call'[q] = call[q]

Stays(p) ==
    /\ call'[p].identity = call[p].identity /\ call'[p].chunk = call[p].chunk
    /\ pc'[p] # "generate"
    /\ pc'[p] \in Reading /\ call'[p].use = "reuse" =>
           pc[p] \in Reading /\ call[p].use = "reuse"

Advances(p) ==
    /\ call'[p].identity = call[p].identity /\ call'[p].chunk = call[p].chunk + 1
    /\ pc'[p] = "ref"

TurnsToProvider(p) ==
    /\ pc[p] \in Reading /\ pc'[p] = "generate"
    /\ call'[p].identity = call[p].identity /\ call'[p].chunk = call[p].chunk
    /\ call[p].use = "reuse" /\ call'[p].round = 1 /\ call'[p].attempt = 1
    /\ ~CurrentIs(ChunkOf(p), call[p].identity)

Moves(p) == OthersRest(p) /\ (pc'[p] = "idle" \/ Stays(p) \/ Advances(p))

\* Where a call that goes on is.
LEMMA ContinueIsAt ==
    ASSUME LocalTypeOK, NEW p \in Procs, NEW s, NEW c, Continue(p, s, c)
    PROVE  pc'[p] = s /\ call'[p] = c /\ OthersRest(p)
PROOF
    BY DEF Continue, Goto, LocalTypeOK, OthersRest

\* A call that ends is nowhere.
LEMMA EndIsAt ==
    ASSUME LocalTypeOK, NEW p \in Procs, NEW status, NEW outcome, End(p, status, outcome)
    PROVE  Moves(p) /\ pc'[p] = "idle"
PROOF
    BY DEF End, Goto, LocalTypeOK, Moves, OthersRest

\* A chunk that is done is left.
LEMMA NextChunkIsAt ==
    ASSUME LocalTypeOK, NEW p \in Procs, NEW o, NextChunk(p, o)
    PROVE  Moves(p)
PROOF
<1>1. PICK c : c = call[p]
    OBVIOUS
<1>2. PICK outcome : outcome = Append(c.outcome, o)
    OBVIOUS
<1>3. CASE End(p, "ok", outcome)
    BY <1>3, EndIsAt
<1>4. ASSUME NEW d, Continue(p, "ref", d),
             d = [NoCall EXCEPT !.op = c.op, !.identity = c.identity,
                                !.chunk = c.chunk + 1, !.use = First(c.op),
                                !.outcome = outcome]
      PROVE  Moves(p)
  <2>1. d.identity = c.identity /\ d.chunk = c.chunk + 1
    BY <1>4 DEF NoCall
  <2>2. pc'[p] = "ref" /\ call'[p] = d /\ OthersRest(p)
    BY <1>4, ContinueIsAt
  <2> QED
    BY <1>1, <2>1, <2>2 DEF Moves, Advances
<1> QED
    BY <1>1, <1>2, <1>3, <1>4 DEF NextChunk

\* Reading a pointer: the call stays at the chunk, or has found that what the
\* batch wants is not current.
LEMMA MissIsAt ==
    ASSUME BaseInv, NEW p \in Procs, Busy(p), pc[p] \in Reading, NEW c \in Call,
           SamePlace(call[p], c), c.use = call[p].use, Miss(p, c),
           c.use = "reuse" => ~CurrentIs(ChunkOf(p), call[p].identity)
    PROVE  Moves(p) \/ (OthersRest(p) /\ TurnsToProvider(p))
PROOF
<1>1. LocalTypeOK
    BY InvariantAt
<1>2. CASE c.use = "reuse"
  <2>1. PICK d : d = [c EXCEPT !.round = 1, !.attempt = 1]
    OBVIOUS
  <2>2. Continue(p, "generate", d)
    BY <1>2, <2>1 DEF Miss
  <2>3. /\ d.identity = c.identity /\ d.chunk = c.chunk /\ d.round = 1 /\ d.attempt = 1
    BY <2>1 DEF Call
  <2>4. pc'[p] = "generate" /\ call'[p] = d /\ OthersRest(p)
    BY <1>1, <2>2, ContinueIsAt
  <2> QED
    BY <1>2, <2>3, <2>4 DEF TurnsToProvider, SamePlace
<1>3. CASE c.use = "publish"
  <2>1. Continue(p, "alloc", c)
    BY <1>3 DEF Miss
  <2>2. pc'[p] = "alloc" /\ call'[p] = c /\ OthersRest(p)
    BY <1>1, <2>1, ContinueIsAt
  <2> QED
    BY <2>2 DEF Moves, Stays, SamePlace, Reading
<1>4. CASE c.use # "reuse" /\ c.use # "publish"
    BY <1>1, <1>4, EndIsAt DEF Miss, Raise
<1> QED
    BY <1>2, <1>3, <1>4

\* So the ref.
LEMMA ReadRefIsAt ==
    ASSUME BaseInv, NEW p \in Procs, ReadRef(p)
    PROVE  Moves(p) \/ (OthersRest(p) /\ TurnsToProvider(p))
PROOF
<1>1. pc[p] = "ref" /\ Busy(p) /\ pc[p] \in Reading /\ LocalTypeOK
    BY InvariantAt DEF ReadRef, Busy, Reading
<1>2. PICK c0 : c0 = call[p]
    OBVIOUS
<1>3. PICK h : h = HeadOf(p)
    OBVIOUS
<1>4. c0 \in Call /\ h \in Seq(Revs) /\ GoesUp(h) /\ Len(h) \in 0..MaxRev /\ 0 \in 0..MaxRev
    BY <1>1, <1>2, <1>3, InvariantAt, BusyAt, HeadTypes, RevsAreNaturals
<1>5. PICK c : c = [c0 EXCEPT !.ref = Len(h), !.target = 0]
    OBVIOUS
<1>6. c \in Call /\ SamePlace(c0, c) /\ c.use = c0.use /\ c.ref = Len(h)
    BY <1>4, <1>5 DEF Call, SamePlace
<1>7. CASE c.ref = 0
  <2>1. Miss(p, c)
    BY <1>2, <1>3, <1>5, <1>7 DEF ReadRef
  <2>2. h = <<>>
    BY <1>4, <1>6, <1>7, EmptySeq
  <2>3. ~CurrentIs(ChunkOf(p), c0.identity)
    BY <1>3, <2>2 DEF CurrentIs, HeadOf
  <2> QED
    BY <1>1, <1>2, <1>6, <2>1, <2>3, MissIsAt
<1>8. CASE c.ref # 0
  <2>1. Continue(p, "target", c)
    BY <1>2, <1>3, <1>5, <1>8 DEF ReadRef
  <2>2. pc'[p] = "target" /\ call'[p] = c /\ OthersRest(p)
    BY <1>1, <2>1, ContinueIsAt
  <2> QED
    BY <1>1, <1>2, <1>6, <2>2 DEF Moves, Stays, SamePlace
<1> QED
    BY <1>7, <1>8

\* And the target.
LEMMA ReadTargetIsAt ==
    ASSUME BaseInv, NEW p \in Procs, ReadTarget(p)
    PROVE  Moves(p) \/ (OthersRest(p) /\ TurnsToProvider(p))
PROOF
<1>1. pc[p] = "target" /\ Busy(p) /\ pc[p] \in Reading /\ LocalTypeOK
    BY InvariantAt DEF ReadTarget, Busy, Reading
<1>2. PICK c0 : c0 = call[p]
    OBVIOUS
<1>3. PICK h : h = HeadOf(p)
    OBVIOUS
<1>4. PICK x : x = ChunkOf(p)
    OBVIOUS
<1>5. PICK t : t = Last(h)
    OBVIOUS
<1>6. /\ c0 \in Call /\ h \in Seq(Revs) /\ GoesUp(h) /\ c0.ref \in DOMAIN h
      /\ c0.op \in Ops /\ (c0.use = "require" <=> c0.op = "require") /\ h = head[x]
    BY <1>1, <1>2, <1>3, <1>4, InvariantAt, BusyAt DEF ChunkOK
<1>7. t \in 0..MaxRev
    BY <1>5, <1>6, ReadingKnows
<1>8. PICK c : c = [c0 EXCEPT !.target = t]
    OBVIOUS
<1>9. /\ c \in Call /\ SamePlace(c0, c) /\ c.use = c0.use /\ c.op = c0.op /\ c.target = t
      /\ c.identity = c0.identity
    BY <1>6, <1>7, <1>8 DEF Call, SamePlace
<1>10. \/ Raise(p, "corrupt")
       \/ Continue(p, "recheck", c)
       \/ Miss(p, c) /\ ~Accepts(c.op, IdentityOf(x, t), c.identity)
    BY <1>2, <1>3, <1>4, <1>5, <1>8, <1>9 DEF ReadTarget
<1>11. CASE Raise(p, "corrupt")
    BY <1>1, <1>11, EndIsAt DEF Raise
<1>12. CASE Continue(p, "recheck", c)
  <2>1. pc'[p] = "recheck" /\ call'[p] = c /\ OthersRest(p)
    BY <1>1, <1>12, ContinueIsAt
  <2> QED
    BY <1>1, <1>2, <1>9, <2>1 DEF Moves, Stays, SamePlace
<1>13. CASE Miss(p, c) /\ ~Accepts(c.op, IdentityOf(x, t), c.identity)
  <2>1. c.use = "reuse" => ~CurrentIs(x, c0.identity)
    BY <1>5, <1>6, <1>9, <1>13 DEF Accepts, CurrentIs, Ops
  <2> QED
    BY <1>1, <1>2, <1>4, <1>9, <1>13, <2>1, MissIsAt
<1> QED
    BY <1>10, <1>11, <1>12, <1>13

\* Every other step but a provider call leaves the call at its chunk, takes it to
\* the next, or ends it.
LEMMA OthersAreAt ==
    ASSUME BaseInv, NEW p \in Procs,
           Recheck(p) \/ Alloc(p) \/ Put(p) \/ PutReport(p) \/ Swap(p) \/ Fails(p)
    PROVE  Moves(p) /\ Busy(p)
PROOF
<1>1. LocalTypeOK /\ call[p] \in Call
    BY InvariantAt
<1>2. CASE Recheck(p)
  <2>1. Busy(p)
    BY <1>2 DEF Recheck, Busy
  <2>2. (\E o : NextChunk(p, o)) \/ Raise(p, "moved")
    BY <1>2 DEF Recheck
  <2> QED
    BY <1>1, <2>1, <2>2, NextChunkIsAt, EndIsAt DEF Raise
<1>3. CASE Alloc(p)
  <2>1. PICK r \in Revs : Continue(p, "put", [call[p] EXCEPT !.rev = r])
    BY <1>3 DEF Alloc
  <2>2. PICK c : c = [call[p] EXCEPT !.rev = r]
    OBVIOUS
  <2>3. c.identity = call[p].identity /\ c.chunk = call[p].chunk
    BY <1>1, <2>2 DEF Call
  <2>4. pc'[p] = "put" /\ call'[p] = c /\ OthersRest(p)
    BY <1>1, <2>1, <2>2, ContinueIsAt
  <2>5. Busy(p)
    BY <1>3 DEF Alloc, Busy
  <2> QED
    BY <2>3, <2>4, <2>5 DEF Moves, Stays, Reading
<1>4. CASE Put(p) \/ PutReport(p)
  <2>1. Busy(p)
    BY <1>4 DEF Put, PutReport, Busy
  <2>2. Continue(p, "report", call[p]) \/ Continue(p, "swap", call[p]) \/ Raise(p, "conflict")
    BY <1>4 DEF Put, PutReport
  <2>3. ASSUME NEW s \in {"report", "swap"}, Continue(p, s, call[p])
        PROVE  Moves(p)
    <3>1. pc'[p] = s /\ call'[p] = call[p] /\ OthersRest(p)
      BY <1>1, <2>3, ContinueIsAt
    <3> QED
      BY <3>1 DEF Moves, Stays, Reading
  <2> QED
    BY <1>1, <2>1, <2>2, <2>3, EndIsAt DEF Raise
<1>5. CASE Swap(p)
  <2>1. Busy(p)
    BY <1>5 DEF Swap, Busy
  <2>2. (\E o : NextChunk(p, o)) \/ Raise(p, "failed") \/ Raise(p, "conflict")
    BY <1>5 DEF Swap
  <2> QED
    BY <1>1, <2>1, <2>2, NextChunkIsAt, EndIsAt DEF Raise
<1>6. CASE Fails(p)
    BY <1>1, <1>6, EndIsAt DEF Fails, Raise, Active, Busy
<1> QED
    BY <1>2, <1>3, <1>4, <1>5, <1>6

\* The calls of the rounds before and of this one are within the budget, and one
\* more is counted by the attempt or by the round.
LEMMA Budget ==
    ASSUME NEW p \in Procs
    PROVE  /\ 0 \leq MaxRounds * MaxAttempts[p] /\ MaxRounds * MaxAttempts[p] \in Nat
           /\ \A n \in Nat, r \in 1..MaxRounds, a \in 1..MaxAttempts[p] :
                  n \leq (r - 1) * MaxAttempts[p] + a - 1 =>
                      /\ n + 1 \leq MaxRounds * MaxAttempts[p]
                      /\ n + 1 \leq (r - 1) * MaxAttempts[p] + (a + 1) - 1
                      /\ n + 1 \leq ((r + 1) - 1) * MaxAttempts[p] + 1 - 1
PROOF
<1>1. CASE MaxAttempts[p] = 1
    BY <1>1, RevsAreNaturals
<1>2. CASE MaxAttempts[p] = 2
    BY <1>2, RevsAreNaturals
<1>3. CASE MaxAttempts[p] = 3
    BY <1>3, RevsAreNaturals
<1> QED
    BY <1>1, <1>2, <1>3, RevsAreNaturals

\* What is paid stays so while the call and the account do not change.
LEMMA PaidLasts ==
    ASSUME NEW q \in Procs, PaidOK(q), study' = study, Chunks' = Chunks,
           pc'[q] = pc[q], call'[q] = call[q], paid'[q] = paid[q]
    PROVE  PaidOK(q)'
PROOF
<1>1. \A identity : Plan(identity)' = Plan(identity)
    BY DEF Plan
<1>2. ChunkOf(q)' = ChunkOf(q)
    BY <1>1 DEF ChunkOf
<1> QED
    BY <1>1, <1>2 DEF PaidOK, Busy

\* A call that moves on has paid nothing for what is next.
LEMMA PaidMovesOn ==
    ASSUME BaseInv, BaseInv', NEW p \in Procs, Busy(p), HistoryTypeOK, PaidOK(p), Moves(p),
           study' = study, Chunks' = Chunks, paid'[p] = paid[p]
    PROVE  PaidOK(p)'
PROOF
<1>1. PICK c : c = call[p]
    OBVIOUS
<1>2. PICK d : d = call'[p]
    OBVIOUS
<1>3. PICK plan : plan = Plan(c.identity)
    OBVIOUS
<1>4. /\ c.identity \in Identity /\ c.chunk \in DOMAIN plan /\ c.chunk \in Nat
      /\ DOMAIN plan = 1..Len(plan) /\ Len(plan) \in Nat
      /\ \A x \in Chunks : paid[p][x] \leq MaxRounds * MaxAttempts[p]
      /\ \A k \in DOMAIN plan : k > c.chunk => paid[p][plan[k].id] = 0
    BY <1>1, <1>3, InvariantAt, BusyAt, StoresAt, PlanTypes DEF PaidOK
<1>5. Plan(c.identity)' = plan /\ ChunkOf(p) = plan[c.chunk].id
    BY <1>1, <1>3 DEF Plan, ChunkOf
<1>6. CASE pc'[p] = "idle"
    BY <1>4, <1>6 DEF PaidOK, Busy, Reading
<1>7. CASE Stays(p)
  <2>1. d.identity = c.identity /\ d.chunk = c.chunk /\ pc'[p] # "generate"
    BY <1>1, <1>2, <1>7 DEF Stays
  <2>2. ChunkOf(p)' = ChunkOf(p)
    BY <1>1, <1>2, <1>5, <2>1 DEF ChunkOf
  <2>3. pc'[p] \in Reading /\ d.use = "reuse" => paid[p][ChunkOf(p)] = 0
    BY <1>1, <1>2, <1>7 DEF Stays, PaidOK
  <2> QED
    BY <1>2, <1>4, <1>5, <2>1, <2>2, <2>3 DEF PaidOK
<1>8. CASE Advances(p)
  <2>1. d.identity = c.identity /\ d.chunk = c.chunk + 1 /\ pc'[p] = "ref"
    BY <1>1, <1>2, <1>8 DEF Advances
  <2>2. ChunkOf(p)' = plan[c.chunk + 1].id
    BY <1>2, <1>5, <2>1 DEF ChunkOf
  <2>3. c.chunk + 1 \in DOMAIN plan
    <3>1. PlaceOK(p)'
      BY DEF BaseInv, CallsAreSound, LocalOK
    <3>2. Busy(p)'
      BY <2>1 DEF Busy
    <3> QED
      BY <1>2, <1>5, <2>1, <3>1, <3>2 DEF PlaceOK
  <2>4. paid[p][plan[c.chunk + 1].id] = 0
    BY <1>4, <2>3
  <2>5. \A k \in DOMAIN plan : k > c.chunk + 1 => paid[p][plan[k].id] = 0
    BY <1>4
  <2> QED
    BY <1>2, <1>4, <1>5, <2>1, <2>2, <2>4, <2>5 DEF PaidOK
<1> QED
    BY <1>6, <1>7, <1>8 DEF Moves

\* A call that turns to the provider has paid nothing for its chunk.
LEMMA PaidTurns ==
    ASSUME BaseInv, NEW p \in Procs, Busy(p), HistoryTypeOK, PaidOK(p), TurnsToProvider(p),
           study' = study, Chunks' = Chunks, paid'[p] = paid[p]
    PROVE  PaidOK(p)'
PROOF
<1>1. PICK c : c = call[p]
    OBVIOUS
<1>2. PICK d : d = call'[p]
    OBVIOUS
<1>3. /\ d.identity = c.identity /\ d.chunk = c.chunk /\ pc'[p] = "generate"
      /\ d.round = 1 /\ d.attempt = 1 /\ c.use = "reuse" /\ pc[p] \in Reading
    BY <1>1, <1>2 DEF TurnsToProvider
<1>4. Plan(c.identity)' = Plan(c.identity) /\ ChunkOf(p)' = ChunkOf(p)
    BY <1>1, <1>2, <1>3 DEF Plan, ChunkOf
<1>5. paid[p][ChunkOf(p)] = 0
    BY <1>1, <1>3 DEF PaidOK
<1>6. /\ 1 \in 1..MaxRounds /\ 1 \in 1..MaxAttempts[p]
      /\ 0 \leq (1 - 1) * MaxAttempts[p] + 1 - 1
    BY RevsAreNaturals
<1>7. /\ \A x \in Chunks : paid[p][x] \leq MaxRounds * MaxAttempts[p]
      /\ \A k \in DOMAIN Plan(c.identity) :
             k > c.chunk => paid[p][Plan(c.identity)[k].id] = 0
    BY <1>1 DEF PaidOK
<1>8. pc'[p] \notin Reading
    BY <1>3 DEF Reading
<1> QED
    BY <1>2, <1>3, <1>4, <1>5, <1>6, <1>7, <1>8 DEF PaidOK

\* While another call is under way, a call does not run alone.
LEMMA AloneLasts ==
    ASSUME NEW p \in Procs, NEW q \in Procs \ {p}, Busy(p), AloneOK(q),
           pc'[q] = pc[q], shared'[q] = shared[q], paid'[q] = paid[q], found'[q] = found[q]
    PROVE  AloneOK(q)'
PROOF
<1>1. CASE shared[q]
    BY <1>1 DEF AloneOK
<1>2. CASE ~shared[q]
  <2>1. ~Busy(q) /\ \A x \in found[q] : paid[q][x] = 0
    BY <1>2 DEF AloneOK
  <2>2. pc'[q] = "idle"
    BY <2>1 DEF Busy
  <2> QED
    BY <2>1, <2>2 DEF AloneOK, Busy
<1> QED
    BY <1>1, <1>2

\* A call that runs alone and moves on still finds what it found; a step of it
\* touches no chunk but the one it is at, and that one only when it writes.
LEMMA AloneMovesOn ==
    ASSUME BaseInv, BaseInv', NEW p \in Procs, Busy(p), AloneOK(p), Moves(p),
           study' = study, Chunks' = Chunks,
           paid'[p] = paid[p], shared'[p] = shared[p], found'[p] = found[p],
           \A y \in Chunks : pc[p] \in Reading \/ y # ChunkOf(p) =>
               head'[y] = head[y] /\ extraction'[y] = extraction[y]
    PROVE  AloneOK(p)'
PROOF
<1> SUFFICES ASSUME ~shared[p]
             PROVE  AloneOK(p)'
    BY DEF AloneOK
<1>1. PICK c : c = call[p]
    OBVIOUS
<1>2. PICK d : d = call'[p]
    OBVIOUS
<1>3. PICK plan : plan = Plan(c.identity)
    OBVIOUS
<1>4. /\ c.identity \in Identity /\ c.chunk \in DOMAIN plan /\ c.chunk \in Nat
      /\ DOMAIN plan = 1..Len(plan) /\ Len(plan) \in Nat
      /\ \A k \in DOMAIN plan : plan[k].id \in Chunks
      /\ \A k, l \in DOMAIN plan : plan[k].id = plan[l].id => k = l
    BY <1>1, <1>3, InvariantAt, BusyAt, StoresAt, PlanTypes
<1>5. Plan(c.identity)' = plan /\ ChunkOf(p) = plan[c.chunk].id
    BY <1>1, <1>3 DEF Plan, ChunkOf
<1>6. /\ \A q \in Procs \ {p} : ~Busy(q)
      /\ \A x \in found[p] : paid[p][x] = 0
      /\ \A k \in DOMAIN plan :
             \/ k > c.chunk
             \/ k = c.chunk /\ c.use = "reuse" /\ pc[p] \in Reading
             => (plan[k].id \in found[p] => CurrentIs(plan[k].id, c.identity))
    BY <1>1, <1>3 DEF AloneOK
<1>7. \A q \in Procs \ {p} : ~Busy(q)'
    BY <1>6 DEF Moves, OthersRest, Busy
<1>8. \A y \in Chunks : pc[p] \in Reading \/ y # ChunkOf(p) =>
          (CurrentIs(y, c.identity)' <=> CurrentIs(y, c.identity))
    BY DEF CurrentIs, IdentityOf
<1>9. CASE pc'[p] = "idle"
    BY <1>6, <1>7, <1>9 DEF AloneOK, Busy, Reading
<1>10. CASE Stays(p)
  <2>1. /\ d.identity = c.identity /\ d.chunk = c.chunk /\ pc'[p] # "generate"
        /\ pc'[p] \in Reading /\ d.use = "reuse" => pc[p] \in Reading /\ c.use = "reuse"
    BY <1>1, <1>2, <1>10 DEF Stays
  <2>2. ASSUME NEW k \in DOMAIN plan, plan[k].id \in found[p],
               k > c.chunk \/ (k = c.chunk /\ d.use = "reuse" /\ pc'[p] \in Reading)
        PROVE  CurrentIs(plan[k].id, c.identity)'
    <3>1. CurrentIs(plan[k].id, c.identity)
      BY <1>6, <2>1, <2>2
    <3>2. pc[p] \in Reading \/ plan[k].id # ChunkOf(p)
      BY <1>4, <1>5, <2>1, <2>2
    <3> QED
      BY <1>4, <1>8, <3>1, <3>2
  <2> QED
    BY <1>2, <1>5, <1>6, <1>7, <2>1, <2>2 DEF AloneOK
<1>11. CASE Advances(p)
  <2>1. d.identity = c.identity /\ d.chunk = c.chunk + 1 /\ pc'[p] = "ref"
    BY <1>1, <1>2, <1>11 DEF Advances
  <2>2. ASSUME NEW k \in DOMAIN plan, plan[k].id \in found[p], k > c.chunk
        PROVE  CurrentIs(plan[k].id, c.identity)'
    <3>1. CurrentIs(plan[k].id, c.identity)
      BY <1>6, <2>2
    <3>2. plan[k].id # ChunkOf(p)
      BY <1>4, <1>5, <2>2
    <3> QED
      BY <1>4, <1>8, <3>1, <3>2
  <2>3. \A k \in DOMAIN plan : k > c.chunk + 1 \/ k = c.chunk + 1 => k > c.chunk
    BY <1>4
  <2> QED
    BY <1>2, <1>5, <1>6, <1>7, <2>1, <2>2, <2>3 DEF AloneOK
<1> QED
    BY <1>9, <1>10, <1>11 DEF Moves

\* A call that runs alone turns to the provider only for a chunk it did not find.
LEMMA AloneTurns ==
    ASSUME BaseInv, NEW p \in Procs, Busy(p), AloneOK(p), OthersRest(p), TurnsToProvider(p),
           study' = study, head' = head, extraction' = extraction,
           paid'[p] = paid[p], shared'[p] = shared[p], found'[p] = found[p]
    PROVE  AloneOK(p)'
PROOF
<1> SUFFICES ASSUME ~shared[p]
             PROVE  AloneOK(p)'
    BY DEF AloneOK
<1>1. PICK c : c = call[p]
    OBVIOUS
<1>2. PICK d : d = call'[p]
    OBVIOUS
<1>3. PICK plan : plan = Plan(c.identity)
    OBVIOUS
<1>4. /\ d.identity = c.identity /\ d.chunk = c.chunk /\ pc'[p] = "generate"
      /\ c.use = "reuse" /\ pc[p] \in Reading /\ pc'[p] \notin Reading
      /\ ~CurrentIs(ChunkOf(p), c.identity)
    BY <1>1, <1>2 DEF TurnsToProvider, Reading
<1>5. /\ Plan(c.identity)' = plan /\ ChunkOf(p)' = ChunkOf(p)
      /\ ChunkOf(p) = plan[c.chunk].id /\ c.chunk \in DOMAIN plan
    BY <1>1, <1>2, <1>3, <1>4, BusyAt DEF Plan, ChunkOf
<1>6. /\ \A q \in Procs \ {p} : ~Busy(q)
      /\ \A x \in found[p] : paid[p][x] = 0
      /\ \A k \in DOMAIN plan :
             \/ k > c.chunk
             \/ k = c.chunk /\ c.use = "reuse" /\ pc[p] \in Reading
             => (plan[k].id \in found[p] => CurrentIs(plan[k].id, c.identity))
    BY <1>1, <1>3 DEF AloneOK
<1>7. \A q \in Procs \ {p} : ~Busy(q)'
    BY <1>6 DEF OthersRest, Busy
<1>8. \A y : CurrentIs(y, c.identity)' <=> CurrentIs(y, c.identity)
    BY DEF CurrentIs, IdentityOf
<1>9. ChunkOf(p) \notin found[p]
    BY <1>4, <1>5, <1>6
<1> QED
    BY <1>2, <1>4, <1>5, <1>6, <1>7, <1>8, <1>9 DEF AloneOK

\* After a provider call the call ends, asks again, or has an answer to publish.
AsksAgain(p) ==
    /\ pc'[p] = "generate"
    /\ \/ /\ call[p].attempt < MaxAttempts[p]
          /\ call'[p].round = call[p].round /\ call'[p].attempt = call[p].attempt + 1
       \/ /\ call[p].round < MaxRounds
          /\ call'[p].round = call[p].round + 1 /\ call'[p].attempt = 1

HasAnswer(p) == pc'[p] = "ref" /\ call'[p].use = "publish"

\* Nothing else becomes of it.
LEMMA GenerateIsAt ==
    ASSUME BaseInv, NEW p \in Procs, Generate(p)
    PROVE  /\ OthersRest(p)
           /\ \/ pc'[p] = "idle"
              \/ /\ call'[p].identity = call[p].identity /\ call'[p].chunk = call[p].chunk
                 /\ AsksAgain(p) \/ HasAnswer(p)
PROOF
<1>1. LocalTypeOK /\ call[p] \in Call
    BY InvariantAt
<1>2. PICK c : c = call[p]
    OBVIOUS
<1> DEFINE Goal == /\ OthersRest(p)
                   /\ \/ pc'[p] = "idle"
                      \/ /\ call'[p].identity = call[p].identity
                         /\ call'[p].chunk = call[p].chunk
                         /\ AsksAgain(p) \/ HasAnswer(p)
<1>3. ASSUME NEW status, Raise(p, status)
      PROVE  Goal
    BY <1>1, <1>3, EndIsAt DEF Raise, Moves
<1>4. CASE Transient(p)
  <2>1. CASE c.attempt < MaxAttempts[p]
    <3>1. PICK d : d = [c EXCEPT !.attempt = @ + 1]
      OBVIOUS
    <3>2. Continue(p, "generate", d)
      BY <1>2, <1>4, <2>1, <3>1 DEF Transient
    <3>3. /\ d.identity = c.identity /\ d.chunk = c.chunk /\ d.round = c.round
          /\ d.attempt = c.attempt + 1
      BY <1>1, <1>2, <3>1 DEF Call
    <3>4. pc'[p] = "generate" /\ call'[p] = d /\ OthersRest(p)
      BY <1>1, <3>2, ContinueIsAt
    <3> QED
      BY <1>2, <2>1, <3>3, <3>4 DEF AsksAgain
  <2>2. CASE ~(c.attempt < MaxAttempts[p])
    BY <1>2, <1>3, <1>4, <2>2 DEF Transient
  <2> QED
    BY <2>1, <2>2
<1>5. CASE SemanticallyInvalid(p)
  <2>1. CASE c.round < MaxRounds
    <3>1. PICK d : d = [c EXCEPT !.round = @ + 1, !.attempt = 1]
      OBVIOUS
    <3>2. Continue(p, "generate", d)
      BY <1>2, <1>5, <2>1, <3>1 DEF SemanticallyInvalid
    <3>3. /\ d.identity = c.identity /\ d.chunk = c.chunk /\ d.round = c.round + 1
          /\ d.attempt = 1
      BY <1>1, <1>2, <3>1 DEF Call
    <3>4. pc'[p] = "generate" /\ call'[p] = d /\ OthersRest(p)
      BY <1>1, <3>2, ContinueIsAt
    <3> QED
      BY <1>2, <2>1, <3>3, <3>4 DEF AsksAgain
  <2>2. CASE ~(c.round < MaxRounds)
    BY <1>2, <1>3, <1>5, <2>2 DEF SemanticallyInvalid
  <2> QED
    BY <2>1, <2>2
<1>6. ASSUME NEW payload,
             Continue(p, "ref", [c EXCEPT !.payload = payload, !.use = "publish"])
      PROVE  Goal
  <2>1. PICK d : d = [c EXCEPT !.payload = payload, !.use = "publish"]
    OBVIOUS
  <2>2. d.identity = c.identity /\ d.chunk = c.chunk /\ d.use = "publish"
    BY <1>1, <1>2, <2>1 DEF Call
  <2>3. pc'[p] = "ref" /\ call'[p] = d /\ OthersRest(p)
    BY <1>1, <1>6, <2>1, ContinueIsAt
  <2> QED
    BY <1>2, <2>2, <2>3 DEF HasAnswer
<1>7. \/ Transient(p) \/ Raise(p, "llm_error") \/ SemanticallyInvalid(p)
      \/ \E payload : Continue(p, "ref", [c EXCEPT !.payload = payload, !.use = "publish"])
    BY <1>2 DEF Generate
<1> QED
    BY <1>3, <1>4, <1>5, <1>6, <1>7

\* The parts of the history that a step of p does not touch stay as they are.
LEMMA HistoryOfOthers ==
    ASSUME BaseInv, HistoryIsSound, NEW p \in Procs, Busy(p), OthersRest(p),
           study' = study, Chunks' = Chunks, shared' = shared, found' = found,
           \A q \in Procs \ {p} : paid'[q] = paid[q],
           paid' \in [Procs -> [Chunks -> Nat]], PaidOK(p)', AloneOK(p)'
    PROVE  HistoryIsSound'
PROOF
<1>1. HistoryTypeOK'
    BY DEF HistoryIsSound, HistoryTypeOK
<1>2. ASSUME NEW q \in Procs
      PROVE  PaidOK(q)' /\ AloneOK(q)'
  <2>1. CASE q = p
    BY <2>1
  <2>2. CASE q # p
    <3>1. PaidOK(q) /\ AloneOK(q)
      BY DEF HistoryIsSound
    <3>2. pc'[q] = pc[q] /\ call'[q] = call[q]
      BY <2>2 DEF OthersRest
    <3> QED
      BY <2>2, <3>1, <3>2, PaidLasts, AloneLasts
  <2> QED
    BY <2>1, <2>2
<1> QED
    BY <1>1, <1>2 DEF HistoryIsSound

\* A provider call is paid for, within the budget, and for no chunk that a call
\* that runs alone found.
LEMMA GenerateHistory ==
    ASSUME BaseInv, HistoryIsSound, NEW p \in Procs, Generate(p)
    PROVE  HistoryIsSound'
PROOF
<1>1. /\ pc[p] = "generate" /\ Busy(p) /\ study' = study /\ shared' = shared /\ found' = found
      /\ head' = head /\ extraction' = extraction
    BY DEF Generate, Busy, stores
<1>2. Chunks' = Chunks
    BY <1>1 DEF Chunks
<1>3. PICK c : c = call[p]
    OBVIOUS
<1>4. PICK d : d = call'[p]
    OBVIOUS
<1>5. PICK x \in Chunks : x = ChunkOf(p)
    BY <1>1, BusyAt
<1>6. PICK plan : plan = Plan(c.identity)
    OBVIOUS
<1>7. /\ c.identity \in Identity /\ c.chunk \in DOMAIN plan /\ c.chunk \in Nat
      /\ DOMAIN plan = 1..Len(plan) /\ Len(plan) \in Nat
      /\ \A k \in DOMAIN plan : plan[k].id \in Chunks
      /\ \A k, l \in DOMAIN plan : plan[k].id = plan[l].id => k = l
      /\ x = plan[c.chunk].id
    BY <1>1, <1>3, <1>5, <1>6, InvariantAt, BusyAt, StoresAt, PlanTypes DEF ChunkOf
<1>8. /\ paid \in [Procs -> [Chunks -> Nat]] /\ PaidOK(p) /\ AloneOK(p)
    BY DEF HistoryIsSound, HistoryTypeOK
<1>9. paid' = [paid EXCEPT ![p][x] = @ + 1]
    BY <1>5 DEF Generate
<1>10. PICK n \in Nat : n = paid[p][x]
    BY <1>5, <1>8
<1>11. /\ paid' \in [Procs -> [Chunks -> Nat]]
       /\ \A q \in Procs \ {p} : paid'[q] = paid[q]
       /\ paid'[p][x] = n + 1
       /\ \A y \in Chunks : y # x => paid'[p][y] = paid[p][y]
    BY <1>5, <1>8, <1>9, <1>10
<1>12. PICK r \in 1..MaxRounds, a \in 1..MaxAttempts[p] :
           r = c.round /\ a = c.attempt /\ n \leq (r - 1) * MaxAttempts[p] + a - 1
    BY <1>1, <1>3, <1>5, <1>8, <1>10 DEF PaidOK
<1>13. /\ n + 1 \leq MaxRounds * MaxAttempts[p]
       /\ n + 1 \leq (r - 1) * MaxAttempts[p] + (a + 1) - 1
       /\ n + 1 \leq ((r + 1) - 1) * MaxAttempts[p] + 1 - 1
    BY <1>12, Budget
<1>14. /\ OthersRest(p)
       /\ \/ pc'[p] = "idle"
          \/ /\ d.identity = c.identity /\ d.chunk = c.chunk
             /\ AsksAgain(p) \/ HasAnswer(p)
    BY <1>3, <1>4, GenerateIsAt
<1>15. Plan(c.identity)' = plan
    BY <1>1, <1>6 DEF Plan
<1>16. \A y \in Chunks : paid'[p][y] \leq MaxRounds * MaxAttempts[p]
    BY <1>8, <1>11, <1>13 DEF PaidOK
<1>17. \A k \in DOMAIN plan : k > c.chunk => paid'[p][plan[k].id] = 0
  <2> SUFFICES ASSUME NEW k \in DOMAIN plan, k > c.chunk
               PROVE  paid'[p][plan[k].id] = 0
    OBVIOUS
  <2>1. paid[p][plan[k].id] = 0
    BY <1>1, <1>3, <1>6, <1>8 DEF PaidOK
  <2>2. plan[k].id # x /\ plan[k].id \in Chunks
    BY <1>7
  <2> QED
    BY <1>11, <2>1, <2>2
<1>18. PaidOK(p)'
  <2>1. CASE pc'[p] = "idle"
    BY <1>2, <1>16, <2>1 DEF PaidOK, Busy, Reading
  <2>2. CASE d.identity = c.identity /\ d.chunk = c.chunk /\ HasAnswer(p)
    BY <1>2, <1>4, <1>15, <1>16, <1>17, <2>2 DEF PaidOK, HasAnswer
  <2>3. CASE d.identity = c.identity /\ d.chunk = c.chunk /\ AsksAgain(p)
    <3>1. ChunkOf(p)' = x
      BY <1>4, <1>7, <1>15, <2>3 DEF ChunkOf
    <3>2. pc'[p] = "generate" /\ pc'[p] \notin Reading
      BY <2>3 DEF AsksAgain, Reading
    <3>3. \/ d.round = r /\ d.attempt = a + 1 /\ a + 1 \in 1..MaxAttempts[p]
          \/ d.round = r + 1 /\ d.attempt = 1 /\ r + 1 \in 1..MaxRounds
      BY <1>3, <1>4, <1>12, <2>3, RevsAreNaturals DEF AsksAgain
    <3>4. 1 \in 1..MaxAttempts[p]
      BY RevsAreNaturals
    <3>5. /\ d.round \in 1..MaxRounds /\ d.attempt \in 1..MaxAttempts[p]
          /\ paid'[p][x] \leq (d.round - 1) * MaxAttempts[p] + d.attempt - 1
      <4>1. CASE d.round = r /\ d.attempt = a + 1 /\ a + 1 \in 1..MaxAttempts[p]
        BY <1>11, <1>13, <4>1
      <4>2. CASE d.round = r + 1 /\ d.attempt = 1 /\ r + 1 \in 1..MaxRounds
        BY <1>11, <1>13, <3>4, <4>2
      <4> QED
        BY <3>3, <4>1, <4>2
    <3> QED
      BY <1>2, <1>4, <1>15, <1>16, <1>17, <2>3, <3>1, <3>2, <3>5 DEF PaidOK
  <2> QED
    BY <1>14, <2>1, <2>2, <2>3
<1>19. AloneOK(p)'
  <2> SUFFICES ASSUME ~shared[p]
               PROVE  AloneOK(p)'
    BY <1>1 DEF AloneOK
  <2>1. /\ \A q \in Procs \ {p} : ~Busy(q)
        /\ \A y \in found[p] : paid[p][y] = 0
        /\ \A k \in DOMAIN plan : k > c.chunk =>
               (plan[k].id \in found[p] => CurrentIs(plan[k].id, c.identity))
        /\ x \notin found[p]
    BY <1>1, <1>3, <1>5, <1>6, <1>8 DEF AloneOK
  <2>2. \A q \in Procs \ {p} : ~Busy(q)'
    BY <1>14, <2>1 DEF OthersRest, Busy
  <2>3. \A y \in found[p] : paid'[p][y] = 0
    <3>1. \A y \in found[p] : y \in Chunks
      BY DEF HistoryIsSound, HistoryTypeOK
    <3> QED
      BY <1>11, <2>1, <3>1
  <2>4. \A y : CurrentIs(y, c.identity)' <=> CurrentIs(y, c.identity)
    BY <1>1 DEF CurrentIs, IdentityOf
  <2>5. CASE pc'[p] = "idle"
    BY <1>1, <2>2, <2>3, <2>5 DEF AloneOK, Busy
  <2>6. CASE d.identity = c.identity /\ d.chunk = c.chunk /\ HasAnswer(p)
    BY <1>1, <1>4, <1>15, <2>1, <2>2, <2>3, <2>4, <2>6 DEF AloneOK, HasAnswer
  <2>7. CASE d.identity = c.identity /\ d.chunk = c.chunk /\ AsksAgain(p)
    <3>1. ChunkOf(p)' = x
      BY <1>4, <1>7, <1>15, <2>7 DEF ChunkOf
    <3>2. pc'[p] = "generate" /\ pc'[p] \notin Reading
      BY <2>7 DEF AsksAgain, Reading
    <3> QED
      BY <1>1, <1>4, <1>15, <2>1, <2>2, <2>3, <2>4, <2>7, <3>1, <3>2 DEF AloneOK
  <2> QED
    BY <1>14, <2>5, <2>6, <2>7
<1> QED
    BY <1>1, <1>2, <1>11, <1>14, <1>18, <1>19, HistoryOfOthers

\* No other step pays.
LEMMA StepHistory ==
    ASSUME BaseInv, BaseInv', HistoryIsSound, NEW p \in Procs, Step(p) \/ Fails(p)
    PROVE  HistoryIsSound'
PROOF
<1>1. CASE Generate(p)
    BY <1>1, GenerateHistory
<1>2. PaidOK(p) /\ AloneOK(p) /\ HistoryTypeOK
    BY DEF HistoryIsSound
<1>3. CASE ReadRef(p) \/ ReadTarget(p)
  <2>1. /\ Busy(p) /\ study' = study /\ head' = head /\ extraction' = extraction
        /\ shared' = shared /\ paid' = paid /\ found' = found
    BY <1>3 DEF ReadRef, ReadTarget, Busy, stores, history
  <2>2. Chunks' = Chunks
    BY <2>1 DEF Chunks
  <2>3. Moves(p) \/ (OthersRest(p) /\ TurnsToProvider(p))
    BY <1>3, ReadRefIsAt, ReadTargetIsAt
  <2>4. OthersRest(p)
    BY <2>3 DEF Moves
  <2>5. PaidOK(p)'
    BY <1>2, <2>1, <2>2, <2>3, PaidMovesOn, PaidTurns
  <2>6. AloneOK(p)'
    BY <1>2, <2>1, <2>2, <2>3, AloneMovesOn, AloneTurns
  <2>7. paid' \in [Procs -> [Chunks -> Nat]]
    BY <1>2, <2>1 DEF HistoryTypeOK
  <2> QED
    BY <2>1, <2>2, <2>4, <2>5, <2>6, <2>7, HistoryOfOthers
<1>4. CASE Recheck(p) \/ Alloc(p) \/ Put(p) \/ PutReport(p) \/ Swap(p) \/ Fails(p)
  <2>1. Moves(p) /\ Busy(p)
    BY <1>4, OthersAreAt
  <2>2. study' = study /\ shared' = shared /\ paid' = paid /\ found' = found
    BY <1>4 DEF Recheck, Alloc, Put, PutReport, Swap, Fails, history
  <2>3. PICK x \in Chunks : x = ChunkOf(p)
    BY <2>1, BusyAt
  <2>4. /\ head \in [Chunks -> Seq(Revs)]
        /\ extraction \in [Chunks -> [Revs -> Extraction \union {None}]]
    BY StoresAt DEF BaseInv, StoreTypeOK
  <2>5. /\ Chunks' = Chunks
        /\ \A y \in Chunks : pc[p] \in Reading \/ y # x =>
               head'[y] = head[y] /\ extraction'[y] = extraction[y]
    <3>1. CASE Recheck(p) \/ Alloc(p) \/ PutReport(p) \/ Fails(p)
      <4>1. head' = head /\ extraction' = extraction
        BY <3>1 DEF Recheck, Alloc, PutReport, Fails, stores
      <4> QED
        BY <4>1 DEF Chunks
    <3>2. CASE Put(p)
      <4>1. head' = head /\ pc[p] \notin Reading
        BY <3>2 DEF Put, Reading
      <4>2. \/ extraction' = extraction
            \/ \E r, e : extraction' = [extraction EXCEPT ![x][r] = e]
        BY <2>3, <3>2 DEF Put
      <4>3. \A y \in Chunks : y # x => extraction'[y] = extraction[y]
        BY <2>4, <4>2
      <4> QED
        BY <4>1, <4>3 DEF Chunks
    <3>3. CASE Swap(p)
      <4>1. extraction' = extraction /\ pc[p] \notin Reading
        BY <3>3 DEF Swap, Reading
      <4>2. \/ head' = head
            \/ \E h : head' = [head EXCEPT ![x] = h]
        BY <2>3, <3>3 DEF Swap
      <4>3. Chunks' = Chunks /\ \A y \in Chunks : y # x => head'[y] = head[y]
        BY <2>4, <4>2 DEF Chunks
      <4> QED
        BY <4>1, <4>3
    <3> QED
      BY <1>4, <3>1, <3>2, <3>3
  <2>6. PaidOK(p)'
    BY <1>2, <2>1, <2>2, <2>5, PaidMovesOn
  <2>7. AloneOK(p)'
    BY <1>2, <2>1, <2>2, <2>3, <2>5, AloneMovesOn
  <2>8. paid' \in [Procs -> [Chunks -> Nat]] /\ OthersRest(p)
    BY <1>2, <2>1, <2>2 DEF HistoryTypeOK, Moves
  <2> QED
    BY <2>1, <2>2, <2>5, <2>6, <2>7, <2>8, HistoryOfOthers
<1> QED
    BY <1>1, <1>3, <1>4 DEF Step

\* A call that begins has paid nothing, and has found what is current; those
\* under way no longer run alone.
LEMMA StartHistory ==
    ASSUME BaseInv, HistoryIsSound, NEW p \in Procs, NEW op \in Ops, NEW q \in Requests,
           Start(p, op, q)
    PROVE  HistoryIsSound'
PROOF
<1>1. PICK identity : identity = [snapshot |-> snapshot, request |-> q]
    OBVIOUS
<1>2. PICK d : d = [NoCall EXCEPT !.op = op, !.identity = identity, !.use = First(op)]
    OBVIOUS
<1>3. d.identity = identity /\ d.chunk = 1
    BY <1>2 DEF NoCall
<1>4. /\ study' = study /\ head' = head /\ extraction' = extraction
      /\ pc' = [pc EXCEPT ![p] = "ref"] /\ call' = [call EXCEPT ![p] = d]
      /\ shared' = [r \in Procs |-> IF r = p THEN Active # {} ELSE shared[r] \/ r \in Active]
      /\ paid' = [paid EXCEPT ![p] = [c \in Chunks |-> 0]]
      /\ found' = [found EXCEPT ![p] = {c \in Chunks : CurrentIs(c, identity)}]
      /\ pc[p] = "idle"
    BY <1>1, <1>2 DEF Start, Goto, stores
<1>5. Chunks' = Chunks /\ Plan(identity)' = Plan(identity)
    BY <1>4 DEF Chunks, Plan
<1>6. HistoryTypeOK /\ LocalTypeOK
    BY DEF HistoryIsSound, BaseInv, CallsAreSound
<1>7. /\ pc'[p] = "ref" /\ call'[p] = d
      /\ paid'[p] = [c \in Chunks |-> 0] /\ found'[p] = {c \in Chunks : CurrentIs(c, identity)}
      /\ \A r \in Procs \ {p} : /\ pc'[r] = pc[r] /\ call'[r] = call[r]
                                /\ paid'[r] = paid[r] /\ found'[r] = found[r]
    BY <1>4, <1>6 DEF LocalTypeOK, HistoryTypeOK
<1>8. HistoryTypeOK'
  <2>1. shared' \in [Procs -> BOOLEAN]
    <3>1. \A r \in Procs : (IF r = p THEN Active # {} ELSE shared[r] \/ r \in Active) \in BOOLEAN
      OBVIOUS
    <3> QED
      BY <1>4, <3>1
  <2>2. paid' \in [Procs -> [Chunks -> Nat]]
    BY <1>4, <1>6 DEF HistoryTypeOK
  <2>3. found' \in [Procs -> SUBSET Chunks]
    BY <1>4, <1>6 DEF HistoryTypeOK
  <2> QED
    BY <1>5, <2>1, <2>2, <2>3 DEF HistoryTypeOK
<1>9. PaidOK(p)'
  <2>1. \A x \in Chunks : paid'[p][x] = 0 /\ paid'[p][x] \leq MaxRounds * MaxAttempts[p]
    BY <1>7, Budget
  <2>2. /\ identity \in Identity
    BY <1>1, StoresAt DEF BaseInv, StoreTypeOK, Identity, IdentitiesIn, Snapshots
  <2>3. \A k \in DOMAIN Plan(identity) : Plan(identity)[k].id \in Chunks
    BY <2>2, StoresAt, PlanTypes DEF BaseInv
  <2>4. 1 \in DOMAIN Plan(identity)
    <3>1. Plan(identity) # Refused
      BY <1>1 DEF Start, Plan
    <3> QED
      BY <2>2, <3>1, StoresAt, PlanTypes DEF BaseInv
  <2>5. ChunkOf(p)' = Plan(identity)[1].id
    BY <1>3, <1>5, <1>7 DEF ChunkOf
  <2> QED
    BY <1>3, <1>5, <1>7, <2>1, <2>3, <2>4, <2>5 DEF PaidOK
<1>10. AloneOK(p)'
  <2> SUFFICES ASSUME Active = {}
               PROVE  AloneOK(p)'
    BY <1>4 DEF AloneOK
  <2>1. \A r \in Procs \ {p} : ~Busy(r)'
    BY <1>7 DEF Active, Busy
  <2>2. \A x \in found'[p] : paid'[p][x] = 0
    BY <1>7
  <2>3. \A x : CurrentIs(x, identity)' <=> CurrentIs(x, identity)
    BY <1>4 DEF CurrentIs, IdentityOf
  <2>4. \A x \in found'[p] : CurrentIs(x, identity)'
    BY <1>7, <2>3
  <2> QED
    BY <1>3, <1>5, <1>7, <2>1, <2>2, <2>4 DEF AloneOK
<1>11. ASSUME NEW r \in Procs \ {p}
       PROVE  PaidOK(r)' /\ AloneOK(r)'
  <2>1. PaidOK(r) /\ AloneOK(r)
    BY DEF HistoryIsSound
  <2>2. PaidOK(r)'
    BY <1>4, <1>5, <1>7, <2>1, PaidLasts
  <2>3. AloneOK(r)'
    <3> SUFFICES ASSUME ~shared'[r]
                 PROVE  AloneOK(r)'
      BY DEF AloneOK
    <3>1. ~shared[r] /\ ~Busy(r)
      BY <1>4 DEF Active, Busy
    <3>2. pc'[r] = "idle" /\ \A x \in found'[r] : paid'[r][x] = 0
      BY <1>7, <2>1, <3>1 DEF AloneOK, Busy
    <3> QED
      BY <3>2 DEF AloneOK, Busy
  <2> QED
    BY <2>2, <2>3
<1> QED
    BY <1>8, <1>9, <1>10, <1>11 DEF HistoryIsSound

\* Nor do they when the snapshot moves.
LEMMA SnapshotHistory ==
    ASSUME HistoryIsSound, SnapshotMoves
    PROVE  HistoryIsSound'
PROOF
<1>1. /\ study' = study /\ head' = head /\ pc' = pc /\ call' = call
      /\ paid' = paid /\ found' = found
      /\ shared' = [p \in Procs |-> shared[p] \/ p \in Active]
    BY DEF SnapshotMoves, stores
<1>2. Chunks' = Chunks
    BY <1>1 DEF Chunks
<1>3. HistoryTypeOK'
  <2>1. shared' \in [Procs -> BOOLEAN]
    <3>1. \A r \in Procs : (shared[r] \/ r \in Active) \in BOOLEAN
      OBVIOUS
    <3> QED
      BY <1>1, <3>1
  <2> QED
    BY <1>1, <1>2, <2>1 DEF HistoryIsSound, HistoryTypeOK
<1>4. ASSUME NEW r \in Procs
      PROVE  PaidOK(r)' /\ AloneOK(r)'
  <2>1. PaidOK(r) /\ AloneOK(r)
    BY DEF HistoryIsSound
  <2>2. PaidOK(r)'
    BY <1>1, <1>2, <2>1, PaidLasts
  <2>3. AloneOK(r)'
    <3> SUFFICES ASSUME ~shared'[r]
                 PROVE  AloneOK(r)'
      BY DEF AloneOK
    <3>1. ~shared[r] /\ ~Busy(r)
      BY <1>1 DEF Active, Busy
    <3>2. pc'[r] = "idle" /\ \A x \in found'[r] : paid'[r][x] = 0
      BY <1>1, <2>1, <3>1 DEF AloneOK, Busy
    <3> QED
      BY <3>2 DEF AloneOK, Busy
  <2> QED
    BY <2>2, <2>3
<1> QED
    BY <1>3, <1>4 DEF HistoryIsSound

-----------------------------------------------------------------------------
(* The invariant, and what it promises.                                    *)

\* Nothing is there at first.
LEMMA InitEstablishes == Init => IInv
PROOF
<1> SUFFICES ASSUME Init
             PROVE  IInv
    OBVIOUS
<1>1. BaseInv
    BY InitBase
<1>2. HistoryTypeOK
    BY DEF Init, HistoryTypeOK
<1>3. ASSUME NEW p \in Procs
      PROVE  PaidOK(p) /\ AloneOK(p)
  <2>1. pc[p] = "idle" /\ found[p] = {} /\ \A x \in Chunks : paid[p][x] = 0
    BY DEF Init
  <2> QED
    BY <2>1, Budget DEF PaidOK, AloneOK, Busy, Reading
<1> QED
    BY <1>1, <1>2, <1>3 DEF BaseInv, IInv, HistoryIsSound

\* Every step keeps it.
LEMMA NextPreserves == IInv /\ [Next]_vars => IInv'
PROOF
<1> SUFFICES ASSUME IInv, [Next]_vars
             PROVE  IInv'
    OBVIOUS
<1>1. BaseInv /\ HistoryIsSound
    BY DEF IInv, BaseInv
<1>2. BaseInv'
    BY <1>1, NextBase
<1>3. HistoryIsSound'
  <2>1. CASE SnapshotMoves
    BY <1>1, <2>1, SnapshotHistory
  <2>2. ASSUME NEW p \in Procs,
               Step(p) \/ Fails(p) \/ \E op \in Ops, q \in Requests : Start(p, op, q)
        PROVE  HistoryIsSound'
    BY <1>1, <1>2, <2>2, StepHistory, StartHistory
  <2>3. CASE UNCHANGED vars
    <3>1. /\ study' = study /\ head' = head /\ extraction' = extraction /\ pc' = pc
          /\ call' = call /\ shared' = shared /\ paid' = paid /\ found' = found
      BY <2>3 DEF vars, stores
    <3>2. /\ Chunks' = Chunks /\ (\A identity : Plan(identity)' = Plan(identity))
          /\ \A x, identity : CurrentIs(x, identity)' <=> CurrentIs(x, identity)
      BY <3>1 DEF Chunks, Plan, CurrentIs, IdentityOf
    <3>3. HistoryTypeOK'
      BY <1>1, <3>1, <3>2 DEF HistoryIsSound, HistoryTypeOK
    <3>4. ASSUME NEW r \in Procs
          PROVE  PaidOK(r)' /\ AloneOK(r)'
      <4>1. PaidOK(r) /\ AloneOK(r)
        BY <1>1 DEF HistoryIsSound
      <4>2. PaidOK(r)'
        BY <3>1, <3>2, <4>1, PaidLasts
      <4>3. ChunkOf(r)' = ChunkOf(r)
        BY <3>1 DEF ChunkOf, Plan
      <4>4. AloneOK(r)'
        BY <3>1, <3>2, <4>1, <4>3 DEF AloneOK, Busy
      <4> QED
        BY <4>2, <4>4
    <3> QED
      BY <3>3, <3>4 DEF HistoryIsSound
  <2> QED
    BY <2>1, <2>2, <2>3 DEF Next
<1> QED
    BY <1>2, <1>3 DEF IInv, BaseInv

\* The invariant holds at every moment.
THEOREM Invariance == Spec => []IInv
PROOF
<1>1. Init => IInv
    BY InitEstablishes
<1>2. IInv /\ [Next]_vars => IInv'
    BY NextPreserves
<1> QED
    BY <1>1, <1>2, PTL DEF Spec

\* Every variable keeps its type; in particular no pointer, and no ref a call
\* holds, goes beyond the bound, because pointers only go up.
THEOREM TypeCorrectness == Spec => []TypeOK
PROOF
<1>1. IInv => TypeOK
    BY DEF IInv, StoresAreSound, CallsAreSound, HistoryIsSound, StudyOK, StoreTypeOK,
       LocalTypeOK, HistoryTypeOK, TypeOK
<1> QED
    BY <1>1, Invariance, PTL

\* A summary of extract_chunks, and the input A4 resolves, covers every chunk of
\* the plan in order, each with an extraction of that snapshot that the pointer
\* named at the ref the answer gives.
THEOREM AnswersAreTrue == Spec => []ResultsAreTrue
PROOF
<1>1. IInv => ResultsAreTrue
    BY DEF IInv, CallsAreSound, AnswerOK, IsDone, IsOf, ResultsAreTrue
<1> QED
    BY <1>1, Invariance, PTL

\* A batch that resumes alone never pays for a chunk that is done, and no batch
\* pays for a chunk more than its rounds of retries.
THEOREM NoCallIsWasted == Spec => []ProviderCallsAreNeeded
PROOF
<1>1. IInv => ProviderCallsAreNeeded
  <2> SUFFICES ASSUME IInv, NEW p \in Procs, NEW c \in Chunks
               PROVE  paid[p][c] \leq
                          IF ~shared[p] /\ c \in found[p] THEN 0 ELSE MaxRounds * MaxAttempts[p]
    BY DEF ProviderCallsAreNeeded
  <2>1. PaidOK(p) /\ AloneOK(p)
    BY DEF IInv, HistoryIsSound
  <2>2. CASE ~shared[p] /\ c \in found[p]
    BY <2>1, <2>2 DEF AloneOK
  <2>3. CASE ~(~shared[p] /\ c \in found[p])
    BY <2>1, <2>3 DEF PaidOK
  <2> QED
    BY <2>2, <2>3
<1> QED
    BY <1>1, Invariance, PTL

\* A revision of an extraction is CURRENT at most once, and what is or was
\* CURRENT is there with its report, whoever died between two writes.
THEOREM PointersNameWholeExtractions == Spec => [](HeadsGoUp /\ HeadsAreIntact)
PROOF
<1>1. IInv => HeadsGoUp /\ HeadsAreIntact
    BY DEF IInv, StoresAreSound
<1> QED
    BY <1>1, Invariance, PTL

-----------------------------------------------------------------------------
(* Sorting.                                                                *)

\* How many elements of S come before x.
Rank(S, R) == [x \in S |-> Cardinality({y \in S : <<y, x>> \in R})]

\* In a finite total order every element has a rank of its own, and every rank
\* its element.
LEMMA RankIsABijection ==
    ASSUME NEW S, IsFiniteSet(S), NEW R,
           \A x \in S : <<x, x>> \notin R,
           \A x, y, z \in S : <<x, y>> \in R /\ <<y, z>> \in R => <<x, z>> \in R,
           \A x, y \in S : x = y \/ <<x, y>> \in R \/ <<y, x>> \in R,
           NEW rank, rank = Rank(S, R)
    PROVE  /\ Cardinality(S) \in Nat
           /\ \A x \in S : rank[x] \in 0..(Cardinality(S) - 1)
           /\ \A x, y \in S : rank[x] = rank[y] => x = y
           /\ \A x, y \in S : <<x, y>> \in R => rank[x] < rank[y]
           /\ \A k \in 1..Cardinality(S) : \E x \in S : rank[x] = k - 1
PROOF
<1> DEFINE Below(x) == {y \in S : <<y, x>> \in R}
           n == Cardinality(S)
<1>0. rank = [x \in S |-> Cardinality(Below(x))]
    BY DEF Rank
<1>1. n \in Nat
    BY FS_CardinalityType
<1>2. ASSUME NEW x \in S
      PROVE  IsFiniteSet(Below(x)) /\ Cardinality(Below(x)) \in 0..(n - 1)
  <2>1. Below(x) \in SUBSET (S \ {x})
    OBVIOUS
  <2>2. IsFiniteSet(S \ {x}) /\ Cardinality(S \ {x}) = n - 1
    BY FS_RemoveElement
  <2> HIDE DEF Below, n
  <2>3. IsFiniteSet(Below(x)) /\ Cardinality(Below(x)) \leq n - 1
    BY <2>1, <2>2, FS_Subset
  <2>4. Cardinality(Below(x)) \in Nat
    BY <2>3, FS_CardinalityType
  <2> QED
    BY <1>1, <2>3, <2>4
<1>3. ASSUME NEW x \in S, NEW y \in S, <<x, y>> \in R
      PROVE  Cardinality(Below(x)) < Cardinality(Below(y))
  <2>1. Below(x) \in SUBSET (Below(y) \ {x}) /\ x \in Below(y)
    BY <1>3
  <2> HIDE DEF Below, n
  <2>2. /\ IsFiniteSet(Below(y) \ {x})
        /\ Cardinality(Below(y) \ {x}) = Cardinality(Below(y)) - 1
    BY <1>2, <2>1, FS_RemoveElement
  <2>3. Cardinality(Below(x)) \leq Cardinality(Below(y)) - 1
    BY <2>1, <2>2, FS_Subset
  <2>4. Cardinality(Below(x)) \in Nat /\ Cardinality(Below(y)) \in Nat
    BY <1>1, <1>2
  <2> QED
    BY <2>3, <2>4
<1>4. ASSUME NEW x \in S, NEW y \in S, rank[x] = rank[y] PROVE x = y
  <2> HIDE DEF Below, n
  <2>1. Cardinality(Below(x)) = Cardinality(Below(y)) /\ Cardinality(Below(x)) \in 0..(n - 1)
    BY <1>0, <1>2, <1>4
  <2>2. \A k \in 0..(n - 1) : ~(k < k)
    BY <1>1
  <2> QED
    BY <1>3, <2>1, <2>2
<1>5. rank \in [S -> 0..(n - 1)]
  <2> HIDE DEF Below, n
  <2> QED
    BY <1>0, <1>2
<1>6. rank \in Injection(S, 0..(n - 1))
  <2> HIDE DEF n
  <2> QED
    BY <1>4, <1>5 DEF Injection, IsInjective
<1>7. IsFiniteSet(0..(n - 1)) /\ Cardinality(0..(n - 1)) = n
  <2> HIDE DEF n
  <2>1. n - 1 \in Int /\ (0 > n - 1 <=> n = 0) /\ (n - 1) - 0 + 1 = n
    BY <1>1
  <2> QED
    BY <1>1, <2>1, FS_Interval
<1>8. rank \in Surjection(S, 0..(n - 1))
    BY <1>6, <1>7, FS_Injection
<1>9. ASSUME NEW k \in 1..n PROVE \E x \in S : rank[x] = k - 1
  <2> HIDE DEF n
  <2>1. k - 1 \in 0..(n - 1)
    BY <1>1
  <2> QED
    BY <1>8, <2>1 DEF Surjection
<1>10. \A x, y \in S : <<x, y>> \in R => rank[x] < rank[y]
  <2> HIDE DEF Below, n
  <2> QED
    BY <1>0, <1>3
<1> QED
    BY <1>1, <1>4, <1>5, <1>9, <1>10

\* R is a total order of the numbers up to n, strict; and P is one of classes of
\* them.
IsTotalOrder(n, R) ==
    /\ \A x \in 1..n : <<x, x>> \notin R
    /\ \A x, y, z \in 1..n : <<x, y>> \in R /\ <<y, z>> \in R => <<x, z>> \in R
    /\ \A x, y \in 1..n : x = y \/ <<x, y>> \in R \/ <<y, x>> \in R
IsWeakOrder(n, P) ==
    /\ \A i, j, k \in 1..n : <<i, j>> \in P => <<i, k>> \in P \/ <<k, j>> \in P
    /\ \A i, j \in 1..n : <<i, j>> \in P => <<j, i>> \notin P

\* t has the n elements of s, each once, and none that R puts ahead of an earlier
\* one.
SortsTo(s, n, t, R) ==
    /\ DOMAIN t = 1..n /\ Len(t) = n
    /\ \E pos \in [1..n -> 1..n] :
           /\ \A k \in 1..n : t[k] = s[pos[k]]
           /\ \A i \in 1..n : \E k \in 1..n : pos[k] = i
           /\ \A k, l \in 1..n : k < l => <<pos[l], pos[k]>> \notin R

\* The ranks of the numbers up to n.
LEMMA RankOfNumbers ==
    ASSUME NEW n \in Nat, NEW R, IsTotalOrder(n, R),
           NEW rank, rank = Rank(1..n, R)
    PROVE  /\ \A x, y \in 1..n : <<x, y>> \in R => rank[x] < rank[y]
           /\ \A x, y \in 1..n : rank[x] = rank[y] => x = y
           /\ \A x \in 1..n : rank[x] \in 0..(n - 1)
           /\ \A k \in 1..n : \E x \in 1..n : rank[x] = k - 1
PROOF
<1>1. PICK S : S = 1..n
    OBVIOUS
<1>2. IsFiniteSet(S) /\ Cardinality(S) = n
  <2>1. IsFiniteSet(1..n) /\ Cardinality(1..n) = IF 1 > n THEN 0 ELSE n - 1 + 1
    BY FS_Interval
  <2> QED
    BY <1>1, <2>1
<1>3. rank = Rank(S, R)
    BY <1>1
<1>4. /\ \A x, y \in S : <<x, y>> \in R => rank[x] < rank[y]
      /\ \A x, y \in S : rank[x] = rank[y] => x = y
      /\ \A x \in S : rank[x] \in 0..(Cardinality(S) - 1)
      /\ \A k \in 1..Cardinality(S) : \E x \in S : rank[x] = k - 1
  <2>1. /\ \A x \in S : <<x, x>> \notin R
        /\ \A x, y, z \in S : <<x, y>> \in R /\ <<y, z>> \in R => <<x, z>> \in R
        /\ \A x, y \in S : x = y \/ <<x, y>> \in R \/ <<y, x>> \in R
    BY <1>1 DEF IsTotalOrder
  <2>2. IsFiniteSet(S)
    BY <1>2
  <2> QED
    BY ONLY <1>3, <2>1, <2>2, RankIsABijection
<1> QED
    BY <1>1, <1>2, <1>4

\* A sequence in an order of its positions, and in one that keeps the positions
\* that P does not compare.
InOrder(s, R) == [k \in DOMAIN s |-> s[CHOOSE i \in DOMAIN s :
                     Cardinality({j \in DOMAIN s : <<j, i>> \in R}) = k - 1]]
StablyInOrder(s, P) == [k \in DOMAIN s |-> s[CHOOSE i \in DOMAIN s :
    Cardinality({j \in DOMAIN s : <<j, i>> \in P \/ (j < i /\ <<i, j>> \notin P)}) = k - 1]]

\* A sequence in a total order of its positions: the element at k is the one that
\* k - 1 others come before.
LEMMA SortedByRank ==
    ASSUME NEW s, NEW n \in Nat, DOMAIN s = 1..n, NEW R, IsTotalOrder(n, R),
           NEW t, t = InOrder(s, R)
    PROVE  SortsTo(s, n, t, R)
PROOF
<1> DEFINE S == 1..n
           Pos(k) == CHOOSE i \in S : Cardinality({j \in S : <<j, i>> \in R}) = k - 1
           pos == [k \in S |-> Pos(k)]
           rank == Rank(S, R)
<1>2. rank = [x \in S |-> Cardinality({y \in S : <<y, x>> \in R})]
    BY DEF Rank
<1>4. /\ \A x, y \in S : <<x, y>> \in R => rank[x] < rank[y]
      /\ \A x, y \in S : rank[x] = rank[y] => x = y
      /\ \A x \in S : rank[x] \in 0..(n - 1)
      /\ \A k \in S : \E x \in S : rank[x] = k - 1
    BY RankOfNumbers
<1> HIDE DEF rank
<1>5. \A k \in S : pos[k] = Pos(k)
    OBVIOUS
<1>6. \A k \in S : pos[k] \in S /\ rank[pos[k]] = k - 1
  <2> HIDE DEF S, pos
  <2>1. \A k \in S : \E x \in S : Cardinality({y \in S : <<y, x>> \in R}) = k - 1
    BY <1>2, <1>4
  <2>2. \A k \in S : Pos(k) \in S /\ Cardinality({y \in S : <<y, Pos(k)>> \in R}) = k - 1
    BY <2>1
  <2> QED
    BY <1>2, <1>5, <2>2
<1>7. \A i \in S : \E k \in S : pos[k] = i
  <2> SUFFICES ASSUME NEW i \in S PROVE \E k \in S : pos[k] = i
    OBVIOUS
  <2>1. rank[i] \in 0..(n - 1)
    BY <1>4
  <2>2. rank[i] + 1 \in S /\ (rank[i] + 1) - 1 = rank[i]
    BY <2>1
  <2> HIDE DEF S, pos
  <2>3. pos[rank[i] + 1] = i
    BY <1>4, <1>6, <2>2
  <2> QED
    BY <2>2, <2>3
<1>8. \A k, l \in S : k < l => <<pos[l], pos[k]>> \notin R
  <2> SUFFICES ASSUME NEW k \in S, NEW l \in S, k < l, <<pos[l], pos[k]>> \in R PROVE FALSE
    OBVIOUS
  <2>1. pos[l] \in S /\ pos[k] \in S /\ rank[pos[l]] = l - 1 /\ rank[pos[k]] = k - 1
    BY <1>6
  <2>2. rank[pos[l]] < rank[pos[k]]
    <3> HIDE DEF pos, S
    <3> QED
      BY <1>4, <2>1
  <2> HIDE DEF pos
  <2> QED
    BY <2>1, <2>2
<1>9. /\ DOMAIN t = S /\ \A k \in S : t[k] = s[pos[k]]
      /\ t \in [S -> {t[k] : k \in S}]
  <2>1. \A k \in S : t[k] = s[Pos(k)]
    BY DEF InOrder
  <2>2. DOMAIN t = S /\ t = [k \in S |-> s[Pos(k)]]
    BY DEF InOrder
  <2> HIDE DEF Pos, pos
  <2> QED
    BY <1>5, <2>1, <2>2
<1> HIDE DEF Pos
<1>10. pos \in [S -> S]
    BY <1>6
<1> HIDE DEF pos, S
<1>11. \E q \in [S -> S] :
           /\ \A k \in S : t[k] = s[q[k]]
           /\ \A i \in S : \E k \in S : q[k] = i
           /\ \A k, l \in S : k < l => <<q[l], q[k]>> \notin R
    BY <1>7, <1>8, <1>9, <1>10
<1>12. Len(t) = n
    BY <1>9 DEF S
<1> QED
    BY <1>9, <1>11, <1>12 DEF S, SortsTo

\* Python's sorted, of a sequence whose positions P compares: every element of
\* the result is one of the sequence, each once, and none comes after one that P
\* puts behind it.
LEMMA StableSort ==
    ASSUME NEW s, NEW n \in Nat, DOMAIN s = 1..n, NEW P, IsWeakOrder(n, P),
           NEW t, t = StablyInOrder(s, P)
    PROVE  SortsTo(s, n, t, P)
PROOF
<1> DEFINE S == DOMAIN s
           R == {x \in S \X S : x \in P \/ (x[1] < x[2] /\ <<x[2], x[1]>> \notin P)}
<1>0. /\ \A i, j, k \in S : <<i, j>> \in P => <<i, k>> \in P \/ <<k, j>> \in P
      /\ \A i, j \in S : <<i, j>> \in P => <<j, i>> \notin P
    BY DEF IsWeakOrder
<1>1. \A x, y \in S : <<x, y>> \in R <=> (<<x, y>> \in P \/ (x < y /\ <<y, x>> \notin P))
  <2> SUFFICES ASSUME NEW x \in S, NEW y \in S
               PROVE  <<x, y>> \in R <=> (<<x, y>> \in P \/ (x < y /\ <<y, x>> \notin P))
    OBVIOUS
  <2>1. PICK z : z = <<x, y>>
    OBVIOUS
  <2>2. z \in S \X S /\ z[1] = x /\ z[2] = y
    BY <2>1
  <2>3. z \in R <=> (z \in P \/ (z[1] < z[2] /\ <<z[2], z[1]>> \notin P))
    BY <2>2
  <2> HIDE DEF R, S
  <2> QED
    BY <2>1, <2>2, <2>3
<1>2. \A x \in S : <<x, x>> \notin R
  <2> SUFFICES ASSUME NEW x \in S PROVE <<x, x>> \notin R
    OBVIOUS
  <2>1. ~(x < x) /\ <<x, x>> \notin P
    BY <1>0
  <2> HIDE DEF R, S
  <2> QED
    BY <1>1, <2>1
<1>3. \A x, y \in S : x = y \/ <<x, y>> \in R \/ <<y, x>> \in R
  <2> SUFFICES ASSUME NEW x \in S, NEW y \in S, x # y
               PROVE  <<x, y>> \in R \/ <<y, x>> \in R
    OBVIOUS
  <2>1. x < y \/ y < x
    OBVIOUS
  <2> HIDE DEF R
  <2> QED
    BY <1>1, <2>1
<1>4. \A x, y, z \in S : <<x, y>> \in R /\ <<y, z>> \in R => <<x, z>> \in R
  <2> SUFFICES ASSUME NEW x \in S, NEW y \in S, NEW z \in S, <<x, y>> \in R, <<y, z>> \in R
               PROVE  <<x, z>> \in R
    OBVIOUS
  <2> HIDE DEF R
  <2>1. <<x, y>> \in P \/ (x < y /\ <<y, x>> \notin P)
    BY <1>1
  <2>2. <<y, z>> \in P \/ (y < z /\ <<z, y>> \notin P)
    BY <1>1
  <2>3. CASE <<x, y>> \in P
    <3>1. <<x, z>> \in P \/ <<z, y>> \in P
      BY <1>0, <2>3
    <3>2. <<z, y>> \notin P
      BY <1>0, <2>2
    <3> QED
      BY <1>1, <3>1, <3>2
  <2>4. CASE x < y /\ <<y, x>> \notin P
    <3>1. CASE <<y, z>> \in P
      <4>1. <<y, x>> \in P \/ <<x, z>> \in P
        BY <1>0, <3>1
      <4> QED
        BY <1>1, <2>4, <4>1
    <3>2. CASE y < z /\ <<z, y>> \notin P
      <4>1. x < z
        BY <2>4, <3>2
      <4>2. <<z, x>> \in P => <<z, y>> \in P \/ <<y, x>> \in P
        BY <1>0
      <4> QED
        BY <1>1, <2>4, <3>2, <4>1, <4>2
    <3> QED
      BY <2>2, <3>1, <3>2
  <2> QED
    BY <2>1, <2>3, <2>4
<1>5. \A i \in S : {j \in S : <<j, i>> \in R}
                   = {j \in S : <<j, i>> \in P \/ (j < i /\ <<i, j>> \notin P)}
  <2> HIDE DEF R
  <2> QED
    BY <1>1
<1>6. t = InOrder(s, R)
  <2> DEFINE F(i, k) == Cardinality({j \in S : <<j, i>> \in R}) = k - 1
             G(i, k) == Cardinality({j \in S : <<j, i>> \in P \/ (j < i /\ <<i, j>> \notin P)})
                        = k - 1
  <2>1. \A i \in S : \A k : F(i, k) = G(i, k)
    <3> HIDE DEF R
    <3> QED
      BY <1>5
  <2>2. \A k : (CHOOSE i \in S : F(i, k)) = CHOOSE i \in S : G(i, k)
    <3> HIDE DEF F, G, S
    <3> QED
      BY <2>1
  <2>3. t = [k \in S |-> s[CHOOSE i \in S : G(i, k)]]
    BY DEF StablyInOrder
  <2>4. t = [k \in S |-> s[CHOOSE i \in S : F(i, k)]]
    <3> HIDE DEF F, G, S, R
    <3> QED
      BY <2>2, <2>3
  <2> QED
    BY <2>4 DEF InOrder
<1> HIDE DEF R
<1>7. SortsTo(s, n, t, R)
  <2>1. IsTotalOrder(n, R)
    BY <1>2, <1>3, <1>4 DEF IsTotalOrder
  <2> QED
    BY <1>6, <2>1, SortedByRank
<1>8. \A x, y \in S : <<x, y>> \in P => <<x, y>> \in R
    BY <1>1
<1>9. PICK pos \in [1..n -> 1..n] :
          /\ \A k \in 1..n : t[k] = s[pos[k]]
          /\ \A i \in 1..n : \E k \in 1..n : pos[k] = i
          /\ \A k, l \in 1..n : k < l => <<pos[l], pos[k]>> \notin R
    BY <1>7 DEF SortsTo
<1>10. \A k, l \in 1..n : k < l => <<pos[l], pos[k]>> \notin P
  <2> SUFFICES ASSUME NEW k \in 1..n, NEW l \in 1..n, k < l
               PROVE  <<pos[l], pos[k]>> \notin P
    OBVIOUS
  <2>1. pos[l] \in S /\ pos[k] \in S
    OBVIOUS
  <2> QED
    BY <1>8, <1>9, <2>1
<1> QED
    BY <1>7, <1>9, <1>10 DEF SortsTo

-----------------------------------------------------------------------------
(* What a chunk makes of an answer.                                        *)

\* What two excerpts are compared by: place, role, strength, and whether one has
\* words.
Key(e) == <<e.at[1], e.at[2], IF e.role = "primary" THEN 0 ELSE 1, e.strength,
            IF e.quotes = None THEN 0 ELSE 1>>

\* The keys of two are compared as numbers, the first that differs decides.
IsKey(x) == /\ x[1] \in Nat /\ x[2] \in Nat /\ x[3] \in 0..1 /\ x[4] \in 1..3 /\ x[5] \in 0..1
KeyBefore(x, y) ==
    \/ x[1] < y[1]
    \/ /\ x[1] = y[1]
       /\ \/ x[2] < y[2]
          \/ /\ x[2] = y[2]
             /\ \/ x[3] < y[3]
                \/ /\ x[3] = y[3]
                   /\ \/ x[4] < y[4]
                      \/ x[4] = y[4] /\ x[5] < y[5]

\* The excerpt that comes first is the one with the lesser key.
LEMMA KeysDecide ==
    ASSUME NEW a, NEW b, IsEvidenceRef(a), IsEvidenceRef(b)
    PROVE  IsKey(Key(a)) /\ (EvidenceBefore(a, b) <=> KeyBefore(Key(a), Key(b)))
PROOF
<1>1. PICK x, y, v, w : /\ a.at = <<x, y>> /\ b.at = <<v, w>>
                        /\ x \in Nat /\ y \in Nat /\ v \in Nat /\ w \in Nat
    BY DEF IsEvidenceRef, Paragraphs
<1>2. a.at[1] = x /\ a.at[2] = y /\ b.at[1] = v /\ b.at[2] = w
    BY <1>1
<1>3. a.at = b.at <=> (x = v /\ y = w)
    BY <1>1
<1>4. Before(a.at, b.at) <=> (x < v \/ (x = v /\ y < w))
    BY <1>2 DEF Before
<1>5. /\ a.role \in {"primary", "supporting"} /\ b.role \in {"primary", "supporting"}
      /\ a.strength \in 1..3 /\ b.strength \in 1..3
    BY DEF IsEvidenceRef
<1>6. /\ Key(a)[1] = x /\ Key(a)[2] = y /\ Key(b)[1] = v /\ Key(b)[2] = w
      /\ Key(a)[3] = IF a.role = "primary" THEN 0 ELSE 1
      /\ Key(b)[3] = IF b.role = "primary" THEN 0 ELSE 1
      /\ Key(a)[4] = a.strength /\ Key(b)[4] = b.strength
      /\ Key(a)[5] = IF a.quotes = None THEN 0 ELSE 1
      /\ Key(b)[5] = IF b.quotes = None THEN 0 ELSE 1
    BY <1>2 DEF Key
<1>7. EvidenceBefore(a, b) <=>
          \/ x < v \/ (x = v /\ y < w)
          \/ /\ x = v /\ y = w
             /\ \/ a.role = "primary" /\ b.role # "primary"
                \/ /\ a.role = b.role
                   /\ \/ a.strength < b.strength
                      \/ a.strength = b.strength /\ a.quotes = None /\ b.quotes # None
    BY <1>3, <1>4 DEF EvidenceBefore
<1>8. a.role = b.role <=> (a.role = "primary" <=> b.role = "primary")
    BY <1>5
<1>9. IsKey(Key(a))
    BY <1>1, <1>5, <1>6 DEF IsKey
<1>10. EvidenceBefore(a, b) <=> KeyBefore(Key(a), Key(b))
    BY <1>1, <1>5, <1>6, <1>7, <1>8 DEF KeyBefore
<1> QED
    BY <1>9, <1>10

\* Of three keys the middle one is after the first or before the last; and of two
\* only one is before.
LEMMA KeysAreOrdered ==
    ASSUME NEW x, NEW y, NEW z, IsKey(x), IsKey(y), IsKey(z), KeyBefore(x, y)
    PROVE  ~KeyBefore(y, x) /\ (KeyBefore(x, z) \/ KeyBefore(z, y))
PROOF
    BY DEF IsKey, KeyBefore

\* n excerpts; and t has the same as e, in reading order.
AreExcerpts(e, n) == DOMAIN e = 1..n /\ \A i \in 1..n : IsEvidenceRef(e[i])
PutsInOrder(e, n, t) ==
    /\ DOMAIN t = 1..n /\ Len(t) = n
    /\ \A k \in 1..n : \E i \in 1..n : t[k] = e[i]
    /\ \A i \in 1..n : \E k \in 1..n : t[k] = e[i]
    /\ \A k \in 2..n : ~EvidenceBefore(t[k], t[k - 1])

\* Excerpts in their canonical order.
LEMMA EvidenceIsSorted ==
    ASSUME NEW e, NEW n \in Nat, AreExcerpts(e, n), NEW t, t = CanonicalEvidence(e)
    PROVE  PutsInOrder(e, n, t)
PROOF
<1>0. DOMAIN e = 1..n /\ \A i \in 1..n : IsEvidenceRef(e[i])
    BY DEF AreExcerpts
<1> DEFINE S == DOMAIN e
           P == {x \in S \X S : EvidenceBefore(e[x[1]], e[x[2]])}
<1>1. \A i, j \in S : <<i, j>> \in P <=> EvidenceBefore(e[i], e[j])
  <2> SUFFICES ASSUME NEW i \in S, NEW j \in S
               PROVE  <<i, j>> \in P <=> EvidenceBefore(e[i], e[j])
    OBVIOUS
  <2>1. PICK z : z = <<i, j>>
    OBVIOUS
  <2>2. z \in S \X S /\ z[1] = i /\ z[2] = j
    BY <2>1
  <2>3. z \in P <=> EvidenceBefore(e[z[1]], e[z[2]])
    BY <2>2
  <2> HIDE DEF P, S
  <2> QED
    BY <2>1, <2>2, <2>3
<1> HIDE DEF P
<1>2. \A i, j, k \in S : EvidenceBefore(e[i], e[j]) =>
          /\ ~EvidenceBefore(e[j], e[i])
          /\ EvidenceBefore(e[i], e[k]) \/ EvidenceBefore(e[k], e[j])
  <2> SUFFICES ASSUME NEW i \in S, NEW j \in S, NEW k \in S, EvidenceBefore(e[i], e[j])
               PROVE  /\ ~EvidenceBefore(e[j], e[i])
                      /\ EvidenceBefore(e[i], e[k]) \/ EvidenceBefore(e[k], e[j])
    OBVIOUS
  <2>1. IsEvidenceRef(e[i]) /\ IsEvidenceRef(e[j]) /\ IsEvidenceRef(e[k])
    BY <1>0
  <2>2. PICK x, y, z : x = Key(e[i]) /\ y = Key(e[j]) /\ z = Key(e[k])
    OBVIOUS
  <2>3. IsKey(x) /\ IsKey(y) /\ IsKey(z) /\ KeyBefore(x, y)
    BY <2>1, <2>2, KeysDecide
  <2>4. ~KeyBefore(y, x) /\ (KeyBefore(x, z) \/ KeyBefore(z, y))
    BY <2>3, KeysAreOrdered
  <2> QED
    BY <2>1, <2>2, <2>4, KeysDecide
<1>3. /\ \A i, j \in S : <<i, j>> \in P => <<j, i>> \notin P
      /\ \A i, j, k \in S : <<i, j>> \in P => <<i, k>> \in P \/ <<k, j>> \in P
    BY <1>1, <1>2
<1>4. \A i \in S : {j \in S : EvidenceBefore(e[j], e[i]) \/ (j < i /\ ~EvidenceBefore(e[i], e[j]))}
                   = {j \in S : <<j, i>> \in P \/ (j < i /\ <<i, j>> \notin P)}
    BY <1>1
<1>5. t = StablyInOrder(e, P)
  <2> DEFINE F(i, k) == Cardinality({j \in S : \/ EvidenceBefore(e[j], e[i])
                                               \/ (j < i /\ ~EvidenceBefore(e[i], e[j]))}) = k - 1
             G(i, k) == Cardinality({j \in S : <<j, i>> \in P \/ (j < i /\ <<i, j>> \notin P)})
                        = k - 1
  <2>1. \A i \in S : \A k : F(i, k) = G(i, k)
    BY <1>4
  <2>2. \A k : (CHOOSE i \in S : F(i, k)) = CHOOSE i \in S : G(i, k)
    <3> HIDE DEF F, G, S
    <3> QED
      BY <2>1
  <2>3. t = [k \in S |-> e[CHOOSE i \in S : F(i, k)]]
    BY DEF CanonicalEvidence, Sorted
  <2>4. t = [k \in S |-> e[CHOOSE i \in S : G(i, k)]]
    <3> HIDE DEF F, G, S
    <3> QED
      BY <2>2, <2>3
  <2> QED
    BY <2>4 DEF StablyInOrder
<1>6. SortsTo(e, n, t, P)
  <2>1. IsWeakOrder(n, P)
    BY <1>0, <1>3 DEF IsWeakOrder
  <2> QED
    BY <1>0, <1>5, <2>1, StableSort
<1>7. PICK pos \in [1..n -> 1..n] :
          /\ \A k \in 1..n : t[k] = e[pos[k]]
          /\ \A i \in 1..n : \E k \in 1..n : pos[k] = i
          /\ \A k, l \in 1..n : k < l => <<pos[l], pos[k]>> \notin P
    BY <1>6 DEF SortsTo
<1>8. ASSUME NEW k \in 2..n PROVE ~EvidenceBefore(t[k], t[k - 1])
  <2>1. k \in 1..n /\ k - 1 \in 1..n /\ k - 1 < k
    OBVIOUS
  <2>2. pos[k] \in S /\ pos[k - 1] \in S /\ <<pos[k], pos[k - 1]>> \notin P
    BY <1>0, <1>7, <2>1
  <2> QED
    BY <1>1, <1>7, <2>1, <2>2
<1>9. DOMAIN t = 1..n /\ Len(t) = n
    BY <1>6 DEF SortsTo
<1>10. \A k \in 1..n : \E i \in 1..n : t[k] = e[i]
  <2> SUFFICES ASSUME NEW k \in 1..n PROVE \E i \in 1..n : t[k] = e[i]
    OBVIOUS
  <2>1. pos[k] \in 1..n /\ t[k] = e[pos[k]]
    BY <1>7
  <2> QED
    BY <2>1
<1>11. \A i \in 1..n : \E k \in 1..n : t[k] = e[i]
  <2> SUFFICES ASSUME NEW i \in 1..n PROVE \E k \in 1..n : t[k] = e[i]
    OBVIOUS
  <2>1. PICK k \in 1..n : pos[k] = i
    BY <1>7
  <2>2. t[k] = e[i]
    BY <1>7, <2>1
  <2> QED
    BY <2>2
<1> QED
    BY <1>8, <1>9, <1>10, <1>11 DEF PutsInOrder

\* A payload in its canonical order: every candidate is one of the payload's.
LEMMA CandidatesAreKept ==
    ASSUME NEW c, NEW n \in Nat, DOMAIN c = 1..n, \A i \in 1..n : IsCandidate(c[i]),
           NEW t, t = Canonicalize(c)
    PROVE  \A k \in DOMAIN t : \E i \in 1..n : t[k] = CanonicalCandidate(c[i])
PROOF
<1> DEFINE S == DOMAIN c
           P == {x \in S \X S : CandidateBefore(c[x[1]], c[x[2]])}
<1>1. \A i, j \in S : <<i, j>> \in P <=> CandidateBefore(c[i], c[j])
  <2> SUFFICES ASSUME NEW i \in S, NEW j \in S
               PROVE  <<i, j>> \in P <=> CandidateBefore(c[i], c[j])
    OBVIOUS
  <2>1. PICK z : z = <<i, j>>
    OBVIOUS
  <2>2. z \in S \X S /\ z[1] = i /\ z[2] = j
    BY <2>1
  <2>3. z \in P <=> CandidateBefore(c[z[1]], c[z[2]])
    BY <2>2
  <2> HIDE DEF P, S
  <2> QED
    BY <2>1, <2>2, <2>3
<1> HIDE DEF P
<1>2. \A i \in S : ArrayOf(c[i]) \in Int /\ c[i].id[2] \in Int
  <2> SUFFICES ASSUME NEW i \in S PROVE ArrayOf(c[i]) \in Int /\ c[i].id[2] \in Int
    OBVIOUS
  <2>1. c[i].in \in ToSet(Categories) /\ c[i].id \in Ids
    BY DEF IsCandidate
  <2>2. DOMAIN Categories \in SUBSET Int
    BY DEF Categories
  <2>3. \E k \in DOMAIN Categories : Categories[k] = c[i].in
    BY <2>1 DEF ToSet
  <2>4. ArrayOf(c[i]) \in DOMAIN Categories
    BY <2>3 DEF ArrayOf
  <2> QED
    BY <2>1, <2>2, <2>4 DEF Ids
<1>3. \A i, j \in S : CandidateBefore(c[i], c[j]) <=>
          \/ ArrayOf(c[i]) < ArrayOf(c[j])
          \/ ArrayOf(c[i]) = ArrayOf(c[j]) /\ c[i].id[2] < c[j].id[2]
    BY DEF CandidateBefore, Before
<1>4. \A i, j \in S : <<i, j>> \in P => <<j, i>> \notin P
  <2> SUFFICES ASSUME NEW i \in S, NEW j \in S,
                      CandidateBefore(c[i], c[j]), CandidateBefore(c[j], c[i])
               PROVE  FALSE
    BY <1>1
  <2> HIDE DEF S
  <2> QED
    BY <1>2, <1>3
<1>5. \A i, j, k \in S : <<i, j>> \in P => <<i, k>> \in P \/ <<k, j>> \in P
  <2> SUFFICES ASSUME NEW i \in S, NEW j \in S, NEW k \in S, CandidateBefore(c[i], c[j])
               PROVE  CandidateBefore(c[i], c[k]) \/ CandidateBefore(c[k], c[j])
    BY <1>1
  <2> HIDE DEF S
  <2> QED
    BY <1>2, <1>3
<1>6. \A i \in S : {j \in S : \/ CandidateBefore(c[j], c[i])
                               \/ (j < i /\ ~CandidateBefore(c[i], c[j]))}
                   = {j \in S : <<j, i>> \in P \/ (j < i /\ <<i, j>> \notin P)}
    BY <1>1
<1>7. PICK sorted : sorted = Sorted(c, CandidateBefore)
    OBVIOUS
<1>8. sorted = StablyInOrder(c, P)
  <2> DEFINE F(i, k) == Cardinality({j \in S : \/ CandidateBefore(c[j], c[i])
                                               \/ (j < i /\ ~CandidateBefore(c[i], c[j]))}) = k - 1
             G(i, k) == Cardinality({j \in S : <<j, i>> \in P \/ (j < i /\ <<i, j>> \notin P)})
                        = k - 1
  <2>1. \A i \in S : \A k : F(i, k) = G(i, k)
    BY <1>6
  <2>2. \A k : (CHOOSE i \in S : F(i, k)) = CHOOSE i \in S : G(i, k)
    <3> HIDE DEF F, G, S
    <3> QED
      BY <2>1
  <2>3. sorted = [k \in S |-> c[CHOOSE i \in S : F(i, k)]]
    BY <1>7 DEF Sorted
  <2>4. sorted = [k \in S |-> c[CHOOSE i \in S : G(i, k)]]
    <3> DEFINE first(k) == CHOOSE i \in S : F(i, k)
               second(k) == CHOOSE i \in S : G(i, k)
    <3>1. \A k : first(k) = second(k)
      BY <2>2
    <3>2. sorted = [k \in S |-> c[first(k)]]
      BY <2>3
    <3> HIDE DEF F, G, S, first, second
    <3>3. sorted = [k \in S |-> c[second(k)]]
      BY <3>1, <3>2
    <3> QED
      BY <3>3 DEF second
  <2> QED
    BY <2>4 DEF StablyInOrder
<1>9. SortsTo(c, n, sorted, P)
  <2>1. IsWeakOrder(n, P)
    BY <1>4, <1>5 DEF IsWeakOrder
  <2> QED
    BY <1>8, <2>1, StableSort
<1>10. /\ DOMAIN sorted = 1..n
       /\ \A k \in 1..n : \E i \in 1..n : sorted[k] = c[i]
  <2>1. PICK pos \in [1..n -> 1..n] : \A k \in 1..n : sorted[k] = c[pos[k]]
    BY <1>9 DEF SortsTo
  <2>2. DOMAIN sorted = 1..n
    BY <1>9 DEF SortsTo
  <2>3. ASSUME NEW k \in 1..n PROVE \E i \in 1..n : sorted[k] = c[i]
    <3>1. pos[k] \in 1..n /\ sorted[k] = c[pos[k]]
      BY <2>1
    <3> QED
      BY <3>1
  <2> QED
    BY <2>2, <2>3
<1>11. t = [i \in DOMAIN sorted |-> CanonicalCandidate(sorted[i])]
    BY <1>7 DEF Canonicalize
<1> QED
    BY <1>10, <1>11

\* Evidence as it is published for a chunk.
IsGrounded(e, document, chunk) ==
    /\ Len(e) \in Nat /\ DOMAIN e = 1..Len(e)
    /\ \A k \in DOMAIN e : /\ e[k].at \in Context(chunk)
                           /\ e[k].quotes \in {None, e[k].at}
                           /\ e[k].role = "primary" => /\ e[k].at \in Owned(chunk)
                                                       /\ e[k].at \in ParagraphIds(document)
    /\ \E k \in DOMAIN e : e[k].role = "primary"
    /\ \A k \in 2..Len(e) : ~EvidenceBefore(e[k], e[k - 1])

\* An excerpt without its words is still one.
LEMMA SanitizedIsEvidence ==
    ASSUME NEW document, NEW e, NEW n \in Nat, AreExcerpts(e, n)
    PROVE  AreExcerpts(SanitizeEvidence(e, document), n)
PROOF
<1>1. PICK d : d = SanitizeEvidence(e, document)
    OBVIOUS
<1>2. DOMAIN d = 1..n
    BY <1>1 DEF SanitizeEvidence, AreExcerpts
<1>3. ASSUME NEW i \in 1..n PROVE IsEvidenceRef(d[i])
  <2>1. d[i] = e[i] \/ d[i] = [e[i] EXCEPT !.quotes = None]
    BY <1>1 DEF SanitizeEvidence, AreExcerpts
  <2>2. IsEvidenceRef(e[i])
    BY DEF AreExcerpts
  <2>3. PICK f : f = e[i]
    OBVIOUS
  <2>4. IsEvidenceRef([f EXCEPT !.quotes = None])
    BY <2>2, <2>3 DEF IsEvidenceRef
  <2> QED
    BY <2>1, <2>2, <2>3, <2>4
<1> QED
    BY <1>1, <1>2, <1>3 DEF AreExcerpts

\* The evidence that IsValid lets pass, in its canonical order, is grounded.
LEMMA SoundIsGrounded ==
    ASSUME NEW document, NEW chunk, NEW e, NEW n \in Nat, AreExcerpts(e, n),
           EvidenceIsSound(e, document, chunk)
    PROVE  IsGrounded(CanonicalEvidence(e), document, chunk)
PROOF
<1>1. PICK t : t = CanonicalEvidence(e)
    OBVIOUS
<1>2. /\ DOMAIN t = 1..n /\ Len(t) = n
      /\ \A k \in 1..n : \E i \in 1..n : t[k] = e[i]
      /\ \A i \in 1..n : \E k \in 1..n : t[k] = e[i]
      /\ \A k \in 2..n : ~EvidenceBefore(t[k], t[k - 1])
  <2>1. PutsInOrder(e, n, t)
    BY <1>1, EvidenceIsSorted
  <2> QED
    BY <2>1 DEF PutsInOrder
<1>3. Len(t) \in Nat /\ DOMAIN t = 1..Len(t) /\ \A k \in 2..Len(t) : ~EvidenceBefore(t[k], t[k - 1])
    BY <1>2
<1>4. /\ \A i \in 1..n : /\ e[i].at \in ParagraphIds(document) /\ e[i].at \in Context(chunk)
                         /\ e[i].role = "primary" => e[i].at \in Owned(chunk)
                         /\ e[i].quotes \in {None, e[i].at}
      /\ \E i \in 1..n : e[i].role = "primary"
    BY DEF EvidenceIsSound, AreExcerpts
<1>5. \A k \in DOMAIN t : /\ t[k].at \in Context(chunk)
                          /\ t[k].quotes \in {None, t[k].at}
                          /\ t[k].role = "primary" => /\ t[k].at \in Owned(chunk)
                                                      /\ t[k].at \in ParagraphIds(document)
  <2> SUFFICES ASSUME NEW k \in 1..n
               PROVE  /\ t[k].at \in Context(chunk)
                      /\ t[k].quotes \in {None, t[k].at}
                      /\ t[k].role = "primary" => /\ t[k].at \in Owned(chunk)
                                                  /\ t[k].at \in ParagraphIds(document)
    BY <1>2
  <2>1. PICK i \in 1..n : t[k] = e[i]
    BY <1>2
  <2>2. PICK x : x = e[i]
    OBVIOUS
  <2>3. /\ x.at \in ParagraphIds(document) /\ x.at \in Context(chunk)
        /\ x.role = "primary" => x.at \in Owned(chunk)
        /\ x.quotes \in {None, x.at}
    BY <1>4, <2>2
  <2>4. t[k] = x
    BY <2>1, <2>2
  <2> QED
    BY <2>3, <2>4
<1>6. \E k \in DOMAIN t : t[k].role = "primary"
  <2>1. PICK i \in 1..n : e[i].role = "primary"
    BY <1>4
  <2>2. PICK k \in 1..n : t[k] = e[i]
    BY <1>2
  <2> QED
    BY <1>2, <2>1, <2>2
<1> QED
    BY <1>1, <1>3, <1>5, <1>6 DEF IsGrounded

\* What a chunk makes of an answer is nothing, or grounded.
LEMMA JudgedIsGrounded ==
    ASSUME NEW document, NEW chunk, NEW raw, IsPayload(raw),
           NEW out, out = Judge(raw, document, chunk), out # None
    PROVE  \A k \in DOMAIN out : IsGrounded(out[k].evidence, document, chunk)
PROOF
<1>1. PICK payload : payload = Sanitize(raw, document)
    OBVIOUS
<1>2. IsValid(payload, document, chunk) /\ out = Canonicalize(payload)
    BY <1>1 DEF Judge
<1>3. PICK n \in Nat : DOMAIN raw = 1..n
    BY DEF IsPayload
<1>4. \A i \in 1..n : IsCandidate(raw[i])
    BY <1>3 DEF IsPayload
<1>5. DOMAIN payload = 1..n
    BY <1>1, <1>3 DEF Sanitize
<1>6. ASSUME NEW i \in 1..n
      PROVE  /\ IsCandidate(payload[i])
             /\ \E m \in Nat : AreExcerpts(payload[i].evidence, m)
  <2>1. PICK c : c = raw[i]
    OBVIOUS
  <2>2. IsCandidate(c)
    BY <1>4, <2>1
  <2>3. PICK e : e = c.evidence
    OBVIOUS
  <2>4. PICK m \in Nat : DOMAIN e = 1..m
    BY <2>2, <2>3 DEF IsCandidate
  <2>5. AreExcerpts(e, m)
    BY <2>2, <2>3, <2>4 DEF IsCandidate, AreExcerpts
  <2>6. PICK f : f = SanitizeEvidence(e, document)
    OBVIOUS
  <2>7. AreExcerpts(f, m)
    BY <2>5, <2>6, SanitizedIsEvidence
  <2>8. payload[i] = [c EXCEPT !.evidence = f]
    BY <1>1, <1>3, <2>1, <2>3, <2>6 DEF Sanitize
  <2>9. PICK d : d = [c EXCEPT !.evidence = f]
    OBVIOUS
  <2>10. /\ DOMAIN d = {"in", "id", "kind", "refs", "evidence"}
         /\ d.in = c.in /\ d.id = c.id /\ d.evidence = f
    BY <2>2, <2>9 DEF IsCandidate
  <2>11. f = [j \in 1..m |-> f[j]]
    BY <2>4, <2>6 DEF SanitizeEvidence
  <2>12. f \in Seq(ToSet(f))
    <3>1. f \in [1..m -> ToSet(f)]
      BY <2>7, <2>11 DEF ToSet, AreExcerpts
    <3> QED
      BY <3>1
  <2>13. IsCandidate(d)
    BY <2>2, <2>7, <2>10, <2>12 DEF IsCandidate, AreExcerpts
  <2> QED
    BY <2>7, <2>8, <2>9, <2>10, <2>13
<1>7. \A k \in DOMAIN out : \E i \in 1..n : out[k] = CanonicalCandidate(payload[i])
    BY <1>2, <1>5, <1>6, CandidatesAreKept
<1>8. ASSUME NEW k \in DOMAIN out PROVE IsGrounded(out[k].evidence, document, chunk)
  <2>1. PICK i \in 1..n : out[k] = CanonicalCandidate(payload[i])
    BY <1>7
  <2>2. PICK c : c = payload[i]
    OBVIOUS
  <2>3. IsCandidate(c)
    BY <1>6, <2>2
  <2>4. PICK m \in Nat : AreExcerpts(c.evidence, m)
    BY <1>6, <2>2
  <2>5. EvidenceIsSound(c.evidence, document, chunk)
    BY <1>2, <1>5, <2>2 DEF IsValid
  <2>6. out[k].evidence = CanonicalEvidence(c.evidence)
    BY <2>1, <2>2, <2>3 DEF CanonicalCandidate, IsCandidate
  <2>7. IsGrounded(CanonicalEvidence(c.evidence), document, chunk)
    BY <2>4, <2>5, SoundIsGrounded
  <2> QED
    BY <2>6, <2>7
<1> QED
    BY <1>8

-----------------------------------------------------------------------------
(* Where the payloads are from: what is published for a chunk is what that *)
(* chunk made of an answer, and so is what a call is about to publish.     *)

IsJudged(identity, k, payload) ==
    payload \in study.texts[identity.snapshot].judged[k] /\ payload # None

\* e was made for the chunk c, by its place in the plan.
IsMadeFor(c, e) ==
    \E k \in DOMAIN Plan(e.identity) :
        Plan(e.identity)[k].id = c /\ IsJudged(e.identity, k, e.payload)

ExtractionsAreJudged ==
    \A c \in Chunks, r \in Revs : extraction[c][r] # None => IsMadeFor(c, extraction[c][r])

AnswerIsJudged(p) ==
    Busy(p) /\ call[p].use = "publish" =>
        IsJudged(call[p].identity, call[p].chunk, call[p].payload)

PayloadInv == ExtractionsAreJudged /\ \A p \in Procs : AnswerIsJudged(p)

\* What a step of p that is not the provider's answer makes of one: the call
\* ends, or is not about to publish, or has the answer it had.
KeepsAnswer(p) ==
    \/ pc'[p] = "idle"
    \/ call'[p].use # "publish"
    \/ /\ Busy(p) /\ call[p].use = "publish"
       /\ call'[p].identity = call[p].identity /\ call'[p].chunk = call[p].chunk
       /\ call'[p].payload = call[p].payload

\* Then every answer is still judged.
LEMMA AnswersStayJudged ==
    ASSUME PayloadInv, study' = study, NEW p \in Procs, OthersRest(p), KeepsAnswer(p)
    PROVE  \A q \in Procs : AnswerIsJudged(q)'
PROOF
<1>1. \A identity, k, payload : IsJudged(identity, k, payload)' <=> IsJudged(identity, k, payload)
    BY DEF IsJudged
<1>2. ASSUME NEW q \in Procs PROVE AnswerIsJudged(q)'
  <2>1. AnswerIsJudged(q)
    BY DEF PayloadInv
  <2>2. CASE q = p
    BY <1>1, <2>1, <2>2 DEF AnswerIsJudged, KeepsAnswer, Busy
  <2>3. CASE q # p
    BY <1>1, <2>1, <2>3 DEF AnswerIsJudged, OthersRest, Busy
  <2> QED
    BY <2>2, <2>3
<1> QED
    BY <1>2

\* And what is published too, when it does not change.
LEMMA ExtractionsStayJudged ==
    ASSUME PayloadInv, study' = study, Chunks' = Chunks, extraction' = extraction
    PROVE  ExtractionsAreJudged'
PROOF
<1>1. \A c, e : IsMadeFor(c, e)' <=> IsMadeFor(c, e)
    BY DEF IsMadeFor, IsJudged, Plan
<1> QED
    BY <1>1 DEF PayloadInv, ExtractionsAreJudged

\* A call that ends, or is done with its chunk, has no answer any more.
LEMMA EndKeeps ==
    ASSUME LocalTypeOK, NEW p \in Procs, NEW status, NEW outcome, End(p, status, outcome)
    PROVE  OthersRest(p) /\ KeepsAnswer(p)
PROOF
    BY EndIsAt DEF Moves, KeepsAnswer

\* So has one that is done with its chunk.
LEMMA NextChunkKeeps ==
    ASSUME LocalTypeOK, NEW p \in Procs, NEW o, NextChunk(p, o)
    PROVE  OthersRest(p) /\ KeepsAnswer(p)
PROOF
<1>1. PICK c : c = call[p]
    OBVIOUS
<1>2. PICK outcome : outcome = Append(c.outcome, o)
    OBVIOUS
<1>3. CASE End(p, "ok", outcome)
    BY <1>3, EndKeeps
<1>4. ASSUME NEW d, Continue(p, "ref", d),
             d = [NoCall EXCEPT !.op = c.op, !.identity = c.identity,
                                !.chunk = c.chunk + 1, !.use = First(c.op),
                                !.outcome = outcome]
      PROVE  OthersRest(p) /\ KeepsAnswer(p)
  <2>1. d.use # "publish"
    BY <1>4 DEF NoCall, First
  <2>2. call'[p] = d /\ OthersRest(p)
    BY <1>4, ContinueIsAt
  <2> QED
    BY <2>1, <2>2 DEF KeepsAnswer
<1> QED
    BY <1>1, <1>2, <1>3, <1>4 DEF NextChunk

\* Going on at the chunk keeps the answer.
LEMMA ContinueKeeps ==
    ASSUME LocalTypeOK, NEW p \in Procs, Busy(p), NEW s, NEW c, Continue(p, s, c),
           \/ c.use # "publish"
           \/ /\ c.use = call[p].use /\ c.identity = call[p].identity
              /\ c.chunk = call[p].chunk /\ c.payload = call[p].payload
    PROVE  OthersRest(p) /\ KeepsAnswer(p)
PROOF
<1>1. call'[p] = c /\ OthersRest(p)
    BY ContinueIsAt
<1> QED
    BY <1>1 DEF KeepsAnswer

\* So does finding that the pointer is at nothing of use.
LEMMA MissKeeps ==
    ASSUME LocalTypeOK, NEW p \in Procs, Busy(p), NEW c \in Call,
           c.use = call[p].use, c.identity = call[p].identity,
           c.chunk = call[p].chunk, c.payload = call[p].payload, Miss(p, c)
    PROVE  OthersRest(p) /\ KeepsAnswer(p)
PROOF
<1>1. CASE c.use = "reuse"
  <2>1. PICK d : d = [c EXCEPT !.round = 1, !.attempt = 1]
    OBVIOUS
  <2>2. Continue(p, "generate", d)
    BY <1>1, <2>1 DEF Miss
  <2>3. d.use # "publish"
    BY <1>1, <2>1 DEF Call
  <2> QED
    BY <2>2, <2>3, ContinueKeeps
<1>2. CASE c.use = "publish"
  <2>1. Continue(p, "alloc", c)
    BY <1>2 DEF Miss
  <2> QED
    BY <2>1, ContinueKeeps
<1>3. CASE c.use # "reuse" /\ c.use # "publish"
  <2>1. \E status : Raise(p, status)
    BY <1>3 DEF Miss
  <2> QED
    BY <2>1, EndKeeps DEF Raise
<1> QED
    BY <1>1, <1>2, <1>3

\* The steps of a call that write no extraction and get no answer.
LEMMA QuietStepKeeps ==
    ASSUME BaseInv, NEW p \in Procs,
           \/ ReadRef(p) \/ ReadTarget(p) \/ Recheck(p) \/ Alloc(p) \/ PutReport(p) \/ Swap(p)
           \/ Fails(p)
    PROVE  OthersRest(p) /\ KeepsAnswer(p)
PROOF
<1>1. LocalTypeOK /\ call[p] \in Call
    BY InvariantAt
<1>2. Busy(p)
    BY DEF ReadRef, ReadTarget, Recheck, Alloc, PutReport, Swap, Fails, Active, Busy
<1>3. PICK c : c = call[p]
    OBVIOUS
<1>4. ASSUME NEW status, Raise(p, status) PROVE OthersRest(p) /\ KeepsAnswer(p)
    BY <1>1, <1>4, EndKeeps DEF Raise
<1>5. ASSUME NEW s, Continue(p, s, c) PROVE OthersRest(p) /\ KeepsAnswer(p)
    BY <1>1, <1>2, <1>3, <1>5, ContinueKeeps
<1>6. CASE ReadRef(p)
  <2>1. PICK d : d = [c EXCEPT !.ref = Len(HeadOf(p)), !.target = 0]
    OBVIOUS
  <2>2. Miss(p, d) \/ Continue(p, "target", d)
    BY <1>3, <1>6, <2>1 DEF ReadRef
  <2>3. HeadOf(p) \in Seq(Revs) /\ GoesUp(HeadOf(p))
    BY <1>2, BusyAt
  <2>4. Len(HeadOf(p)) \in 0..MaxRev /\ 0 \in 0..MaxRev
    BY <2>3, HeadTypes, RevsAreNaturals
  <2>5. /\ d \in Call /\ d.use = c.use /\ d.identity = c.identity /\ d.chunk = c.chunk
        /\ d.payload = c.payload
    BY <1>1, <1>3, <2>1, <2>4 DEF Call
  <2> QED
    BY <1>1, <1>2, <1>3, <2>2, <2>5, MissKeeps, ContinueKeeps
<1>7. CASE ReadTarget(p)
  <2>1. PICK d : d = [c EXCEPT !.target = Last(HeadOf(p))]
    OBVIOUS
  <2>2. Miss(p, d) \/ Continue(p, "recheck", d) \/ Raise(p, "corrupt")
    BY <1>3, <1>7, <2>1 DEF ReadTarget
  <2>3. HeadOf(p) \in Seq(Revs) /\ GoesUp(HeadOf(p)) /\ HeadOf(p) # <<>>
    <3>1. pc[p] = "target"
      BY <1>7 DEF ReadTarget
    <3>2. call[p].ref \in DOMAIN HeadOf(p)
      BY <3>1, InvariantAt DEF ChunkOK
    <3> QED
      BY <1>2, <3>2, BusyAt
  <2>4. Last(HeadOf(p)) \in Revs
    BY <2>3, HeadTypes
  <2>5. Last(HeadOf(p)) \in 0..MaxRev
    BY <2>4, RevsAreNaturals
  <2>6. /\ d \in Call /\ d.use = c.use /\ d.identity = c.identity /\ d.chunk = c.chunk
        /\ d.payload = c.payload
    BY <1>1, <1>3, <2>1, <2>5 DEF Call
  <2> QED
    BY <1>1, <1>2, <1>3, <1>4, <2>2, <2>6, MissKeeps, ContinueKeeps
<1>8. CASE Recheck(p)
  <2>1. (\E o : NextChunk(p, o)) \/ Raise(p, "moved")
    BY <1>8 DEF Recheck
  <2> QED
    BY <1>1, <1>4, <2>1, NextChunkKeeps
<1>9. CASE Alloc(p)
  <2>1. PICK r : Continue(p, "put", [c EXCEPT !.rev = r])
    BY <1>3, <1>9 DEF Alloc
  <2>2. PICK d : d = [c EXCEPT !.rev = r]
    OBVIOUS
  <2>3. d.use = c.use /\ d.identity = c.identity /\ d.chunk = c.chunk /\ d.payload = c.payload
    BY <1>1, <1>3, <2>2 DEF Call
  <2> QED
    BY <1>1, <1>2, <1>3, <2>1, <2>2, <2>3, ContinueKeeps
<1>10. CASE PutReport(p)
    BY <1>3, <1>5, <1>10 DEF PutReport
<1>11. CASE Swap(p)
  <2>1. (\E o : NextChunk(p, o)) \/ \E status : Raise(p, status)
    BY <1>11 DEF Swap
  <2> QED
    BY <1>1, <1>4, <2>1, NextChunkKeeps
<1>12. CASE Fails(p)
    BY <1>4, <1>12 DEF Fails
<1> QED
    BY <1>6, <1>7, <1>8, <1>9, <1>10, <1>11, <1>12

\* They leave the study and the extractions as they are.
LEMMA QuietStepStores ==
    ASSUME NEW p \in Procs,
           \/ ReadRef(p) \/ ReadTarget(p) \/ Recheck(p) \/ Alloc(p) \/ PutReport(p) \/ Swap(p)
           \/ Fails(p)
    PROVE  study' = study /\ extraction' = extraction
PROOF
    BY DEF ReadRef, ReadTarget, Recheck, Alloc, PutReport, Swap, Fails, stores

\* An answer that is a payload is one that the chunk made.
LEMMA GenerateJudged ==
    ASSUME BaseInv, PayloadInv, NEW p \in Procs, Generate(p)
    PROVE  /\ study' = study /\ extraction' = extraction
           /\ \A q \in Procs : AnswerIsJudged(q)'
PROOF
<1>1. LocalTypeOK /\ call[p] \in Call
    BY InvariantAt
<1>2. pc[p] = "generate" /\ study' = study /\ extraction' = extraction
    BY DEF Generate, stores
<1>3. PICK c : c = call[p]
    OBVIOUS
<1>4. Busy(p) /\ c.use = "reuse"
    BY <1>2, <1>3, InvariantAt DEF Busy, ChunkOK
<1>6. ASSUME NEW status, Raise(p, status) PROVE OthersRest(p) /\ KeepsAnswer(p)
    BY <1>1, <1>6, EndKeeps DEF Raise
<1>7. ASSUME NEW d, Continue(p, "generate", d), d.use = c.use PROVE OthersRest(p) /\ KeepsAnswer(p)
    BY <1>1, <1>4, <1>7, ContinueKeeps
<1>8. CASE Transient(p)
  <2>1. PICK d : d = [c EXCEPT !.attempt = @ + 1]
    OBVIOUS
  <2>2. Continue(p, "generate", d) \/ \E status : Raise(p, status)
    BY <1>3, <1>8, <2>1 DEF Transient
  <2>3. d.use = c.use
    BY <1>1, <1>3, <2>1 DEF Call
  <2>4. OthersRest(p) /\ KeepsAnswer(p)
    <3>1. CASE Continue(p, "generate", d)
      BY <1>7, <2>3, <3>1
    <3>2. CASE \E status : Raise(p, status)
      BY <1>6, <3>2
    <3> QED
      BY <2>2, <3>1, <3>2
  <2> QED
    BY <1>2, <2>4, AnswersStayJudged
<1>9. CASE SemanticallyInvalid(p)
  <2>1. PICK d : d = [c EXCEPT !.round = @ + 1, !.attempt = 1]
    OBVIOUS
  <2>2. Continue(p, "generate", d) \/ \E status : Raise(p, status)
    BY <1>3, <1>9, <2>1 DEF SemanticallyInvalid
  <2>3. d.use = c.use
    BY <1>1, <1>3, <2>1 DEF Call
  <2>4. OthersRest(p) /\ KeepsAnswer(p)
    <3>1. CASE Continue(p, "generate", d)
      BY <1>7, <2>3, <3>1
    <3>2. CASE \E status : Raise(p, status)
      BY <1>6, <3>2
    <3> QED
      BY <2>2, <3>1, <3>2
  <2> QED
    BY <1>2, <2>4, AnswersStayJudged
<1>10. ASSUME NEW payload \in study.texts[c.identity.snapshot].judged[c.chunk], payload # None,
              Continue(p, "ref", [c EXCEPT !.payload = payload, !.use = "publish"])
       PROVE  \A q \in Procs : AnswerIsJudged(q)'
  <2>1. PICK d : d = [c EXCEPT !.payload = payload, !.use = "publish"]
    OBVIOUS
  <2>2. d.identity = c.identity /\ d.chunk = c.chunk /\ d.payload = payload
    BY <1>1, <1>3, <2>1 DEF Call
  <2>3. call'[p] = d /\ OthersRest(p)
    BY <1>1, <1>10, <2>1, ContinueIsAt
  <2>4. \A identity, k, x : IsJudged(identity, k, x)' <=> IsJudged(identity, k, x)
    BY <1>2 DEF IsJudged
  <2>5. AnswerIsJudged(p)'
    BY <1>10, <2>2, <2>3, <2>4 DEF AnswerIsJudged, IsJudged
  <2>6. ASSUME NEW q \in Procs, q # p PROVE AnswerIsJudged(q)'
    <3>1. AnswerIsJudged(q)
      BY DEF PayloadInv
    <3>2. pc'[q] = pc[q] /\ call'[q] = call[q]
      BY <2>3, <2>6 DEF OthersRest
    <3> QED
      BY <2>4, <3>1, <3>2 DEF AnswerIsJudged, Busy
  <2> QED
    BY <2>5, <2>6
<1> QED
  <2>1. ASSUME NEW status, Raise(p, status) PROVE \A q \in Procs : AnswerIsJudged(q)'
    BY <1>2, <1>6, <2>1, AnswersStayJudged
  <2> QED
    BY <1>2, <1>3, <1>8, <1>9, <1>10, <2>1 DEF Generate

\* The answer is written as it is.
LEMMA PutJudged ==
    ASSUME BaseInv, PayloadInv, NEW p \in Procs, Put(p)
    PROVE  PayloadInv'
PROOF
<1>1. LocalTypeOK /\ call[p] \in Call /\ StoresAreSound
    BY InvariantAt
<1>2. pc[p] = "put" /\ pc[p] \in Publishing /\ study' = study /\ head' = head
    BY DEF Put, Publishing, Writing
<1>3. PICK c : c = call[p]
    OBVIOUS
<1>4. Busy(p) /\ c.use = "publish" /\ c.rev \in Revs
    BY <1>2, <1>3, InvariantAt DEF Busy, ChunkOK, Writing
<1>5. PICK x \in Chunks : x = ChunkOf(p)
    BY <1>4, BusyAt
<1>6. c.chunk \in DOMAIN Plan(c.identity) /\ Plan(c.identity)[c.chunk].id = x
    BY <1>3, <1>4, <1>5, BusyAt DEF ChunkOf
<1>7. PICK e : e = [identity |-> c.identity, payload |-> c.payload]
    OBVIOUS
<1>8. AnswerIsJudged(p)
    BY DEF PayloadInv
<1>9. IsMadeFor(x, e)
    BY <1>3, <1>4, <1>6, <1>7, <1>8 DEF AnswerIsJudged, IsMadeFor
<1>10. Chunks' = Chunks /\ \A y, f : IsMadeFor(y, f)' <=> IsMadeFor(y, f)
    BY <1>2 DEF Chunks, IsMadeFor, IsJudged, Plan
<1>11. OthersRest(p) /\ KeepsAnswer(p)
  <2>1. Continue(p, "report", c) \/ Raise(p, "conflict")
    BY <1>3 DEF Put
  <2>2. ASSUME Raise(p, "conflict") PROVE OthersRest(p) /\ KeepsAnswer(p)
    BY <1>1, <2>2, EndKeeps DEF Raise
  <2>3. ASSUME Continue(p, "report", c) PROVE OthersRest(p) /\ KeepsAnswer(p)
    BY <1>1, <1>3, <1>4, <2>3, ContinueKeeps
  <2> QED
    BY <2>1, <2>2, <2>3
<1>12. \A q \in Procs : AnswerIsJudged(q)'
    BY <1>2, <1>11, AnswersStayJudged
<1>13. ExtractionsAreJudged'
  <2>1. CASE extraction' = extraction
    BY <1>2, <1>10, <2>1, ExtractionsStayJudged
  <2>2. CASE extraction' = [extraction EXCEPT ![x][c.rev] = e]
    <3>1. extraction \in [Chunks -> [Revs -> Extraction \union {None}]]
      BY <1>1, StoresAt DEF StoreTypeOK
    <3>2. \A y \in Chunks, r \in Revs :
              (extraction'[y][r] = e /\ y = x) \/ extraction'[y][r] = extraction[y][r]
      BY <1>4, <2>2, <3>1
    <3>3. ExtractionsAreJudged
      BY DEF PayloadInv
    <3>4. ASSUME NEW y \in Chunks, NEW r \in Revs, extraction'[y][r] # None
          PROVE  IsMadeFor(y, extraction'[y][r])
      BY <1>9, <3>2, <3>3, <3>4 DEF ExtractionsAreJudged
    <3> QED
      BY <1>10, <3>4 DEF ExtractionsAreJudged
  <2> QED
    BY <1>3, <1>5, <1>7, <2>1, <2>2 DEF Put
<1> QED
    BY <1>12, <1>13 DEF PayloadInv

\* A call that starts is about to publish nothing.
LEMMA StartJudged ==
    ASSUME BaseInv, PayloadInv, NEW p \in Procs, NEW op \in Ops, NEW q \in Requests, Start(p, op, q)
    PROVE  PayloadInv'
PROOF
<1>1. LocalTypeOK
    BY InvariantAt
<1>2. PICK d : d = [NoCall EXCEPT !.op = op, !.identity = [snapshot |-> snapshot, request |-> q],
                                  !.use = First(op)]
    OBVIOUS
<1>3. /\ study' = study /\ extraction' = extraction /\ head' = head
      /\ Goto(p, "ref") /\ call' = [call EXCEPT ![p] = d]
    BY <1>2 DEF Start, stores
<1>4. d.use # "publish"
    BY <1>2 DEF NoCall, First
<1>5. OthersRest(p) /\ call'[p] = d
    BY <1>1, <1>3 DEF OthersRest, Goto, LocalTypeOK
<1>6. Chunks' = Chunks
    BY <1>3 DEF Chunks
<1>7. \A r \in Procs : AnswerIsJudged(r)'
    BY <1>3, <1>4, <1>5, AnswersStayJudged DEF KeepsAnswer
<1>8. ExtractionsAreJudged'
    BY <1>3, <1>6, ExtractionsStayJudged
<1> QED
    BY <1>7, <1>8 DEF PayloadInv

\* Nothing is published before the first call.
LEMMA InitJudged == Init => PayloadInv
PROOF
<1> SUFFICES ASSUME Init PROVE PayloadInv
    OBVIOUS
<1>1. \A c \in Chunks, r \in Revs : extraction[c][r] = None
    BY DEF Init
<1>2. \A p \in Procs : ~Busy(p)
    BY DEF Init, Busy
<1> QED
    BY <1>1, <1>2 DEF PayloadInv, ExtractionsAreJudged, AnswerIsJudged

\* Every step keeps what is published and what is about to be.
LEMMA NextJudged == BaseInv /\ BaseInv' /\ PayloadInv /\ [Next]_vars => PayloadInv'
PROOF
<1> SUFFICES ASSUME BaseInv, BaseInv', PayloadInv, [Next]_vars PROVE PayloadInv'
    OBVIOUS
<1>0. study' = study => Chunks' = Chunks
  <2> SUFFICES ASSUME study' = study PROVE Chunks' = Chunks
    OBVIOUS
  <2>1. StoreTypeOK /\ StoreTypeOK'
    BY DEF BaseInv, StoresAreSound
  <2>2. PlannedChunks' = PlannedChunks
    BY DEF PlannedChunks, Snapshots
  <2> QED
    BY <2>1, <2>2 DEF StoreTypeOK
<1>1. CASE SnapshotMoves \/ UNCHANGED vars
  <2>1. study' = study /\ extraction' = extraction /\ pc' = pc /\ call' = call
    BY <1>1 DEF SnapshotMoves, vars, stores
  <2>2. \A identity, k, x : IsJudged(identity, k, x)' <=> IsJudged(identity, k, x)
    BY <2>1 DEF IsJudged
  <2>3. \A p \in Procs : AnswerIsJudged(p)'
    BY <2>1, <2>2 DEF PayloadInv, AnswerIsJudged, Busy
  <2>4. ExtractionsAreJudged'
    BY <1>0, <2>1, ExtractionsStayJudged
  <2> QED
    BY <2>3, <2>4 DEF PayloadInv
<1>2. ASSUME NEW p \in Procs, Step(p) \/ Fails(p) PROVE PayloadInv'
  <2>1. CASE Generate(p)
    <3>1. /\ study' = study /\ extraction' = extraction
          /\ \A q \in Procs : AnswerIsJudged(q)'
      BY <2>1, GenerateJudged
    <3>2. ExtractionsAreJudged'
      BY <1>0, <3>1, ExtractionsStayJudged
    <3> QED
      BY <3>1, <3>2 DEF PayloadInv
  <2>2. CASE Put(p)
    BY <2>2, PutJudged
  <2>3. CASE \/ ReadRef(p) \/ ReadTarget(p) \/ Recheck(p) \/ Alloc(p) \/ PutReport(p) \/ Swap(p)
             \/ Fails(p)
    <3>1. study' = study /\ extraction' = extraction
      BY <2>3, QuietStepStores
    <3>2. OthersRest(p) /\ KeepsAnswer(p)
      BY <2>3, QuietStepKeeps
    <3>3. \A q \in Procs : AnswerIsJudged(q)'
      BY <3>1, <3>2, AnswersStayJudged
    <3>4. ExtractionsAreJudged'
      BY <1>0, <3>1, ExtractionsStayJudged
    <3> QED
      BY <3>3, <3>4 DEF PayloadInv
  <2> QED
    BY <1>2, <2>1, <2>2, <2>3 DEF Step
<1>3. ASSUME NEW p \in Procs, NEW op \in Ops, NEW q \in Requests, Start(p, op, q)
      PROVE  PayloadInv'
    BY <1>3, StartJudged
<1> QED
    BY <1>1, <1>2, <1>3 DEF Next

\* A text as its chunks read it: what a chunk makes of an answer is grounded in
\* the document, and no paragraph of the document is owned by two chunks.
IsReadBy(document, text) ==
    /\ \A k \in DOMAIN text.plan : \A payload \in text.judged[k] \ {None} :
           \A i \in DOMAIN payload : IsGrounded(payload[i].evidence, document, text.plan[k])
    /\ \A k, l \in DOMAIN text.plan : \A x \in ParagraphIds(document) :
           x \in Owned(text.plan[k]) /\ x \in Owned(text.plan[l]) => k = l

\* Every snapshot is of a text that is read so.
LEMMA TextsAreRead ==
    ASSUME StudyOK, NEW s \in Snapshots
    PROVE  \E document : IsReadBy(document, study.texts[s])
PROOF
<1>1. PICK i \in Inputs : study = Study(i)
    BY DEF StudyOK
<1>2. Snapshots = DOMAIN i.files
    BY <1>1 DEF Study, Snapshots
<1>3. PICK document : document = BuildSourceDocument(i.files[s])
    OBVIOUS
<1>4. PICK plan : plan = PlanChunks(document, i.profile)
    OBVIOUS
<1>5. study.texts[s] = Text(i.files[s], i.profile, i.answers, document, plan)
    BY <1>1, <1>2, <1>3, <1>4 DEF Study, Planned
<1>6. /\ study.texts[s].plan = plan
      /\ study.texts[s].judged =
             [k \in DOMAIN plan |-> {Judge(raw, document, plan[k]) : raw \in i.answers}]
    BY <1>5 DEF Text
<1>7. ASSUME NEW k \in DOMAIN plan, NEW payload \in study.texts[s].judged[k] \ {None},
             NEW j \in DOMAIN payload
      PROVE  IsGrounded(payload[j].evidence, document, plan[k])
  <2>1. PICK raw \in i.answers : payload = Judge(raw, document, plan[k])
    BY <1>6, <1>7
  <2>2. IsPayload(raw)
    BY AnswersArePayloads
  <2>3. payload # None
    OBVIOUS
  <2>4. PICK chunk : chunk = plan[k]
    OBVIOUS
  <2> QED
    BY <2>1, <2>2, <2>3, <2>4, JudgedIsGrounded
<1>8. ASSUME NEW k \in DOMAIN plan, NEW l \in DOMAIN plan, NEW x \in ParagraphIds(document),
             x \in Owned(plan[k]), x \in Owned(plan[l])
      PROVE  k = l
  <2>1. plan \in Seq(Range(plan))
    BY <1>1, <1>2, <1>6, PlansAreSequences
  <2>2. Len(plan) \in Nat /\ DOMAIN plan = 1..Len(plan)
    BY <2>1
  <2>3. plan # Refused
    BY <1>8 DEF Refused
  <2>4. ChunksAreValid(document, i.profile, plan)
    BY <1>4, <2>3 DEF PlanChunks
  <2>5. PICK owners : owners = {j \in DOMAIN plan : x \in Owned(plan[j])}
    OBVIOUS
  <2>6. Cardinality(owners) = 1
    BY <2>4, <2>5 DEF ChunksAreValid
  <2>7. IsFiniteSet(DOMAIN plan)
    BY <2>2, FS_Interval
  <2>8. owners \in SUBSET DOMAIN plan
    BY <2>5
  <2>9. IsFiniteSet(owners)
    BY <2>7, <2>8, FS_Subset
  <2>10. \E y : owners = {y}
    BY <2>6, <2>9, FS_Singleton
  <2> QED
    BY <1>8, <2>5, <2>10
<1>9. /\ \A k \in DOMAIN plan : \A payload \in study.texts[s].judged[k] \ {None} :
             \A j \in DOMAIN payload : IsGrounded(payload[j].evidence, document, plan[k])
      /\ \A k, l \in DOMAIN plan : \A x \in ParagraphIds(document) :
             x \in Owned(plan[k]) /\ x \in Owned(plan[l]) => k = l
    BY <1>7, <1>8
<1> QED
    BY <1>6, <1>9 DEF IsReadBy

\* What an answer found for a chunk is what that chunk made.
LEMMA FoundIsJudged ==
    ASSUME IInv, PayloadInv, NEW p \in Procs, result[p] # None, result[p].status = "ok",
           NEW plan, plan = Plan(result[p].identity), NEW k \in DOMAIN plan,
           NEW payload, payload = extraction[plan[k].id][result[p].outcome[k].target].payload
    PROVE  IsJudged(result[p].identity, k, payload)
PROOF
<1>1. PICK a : a = result[p]
    OBVIOUS
<1>2. StoresAreSound /\ LocalTypeOK /\ AnswerOK(p)
    BY DEF IInv, CallsAreSound
<1>3. a \in Result
    BY <1>1, <1>2 DEF LocalTypeOK
<1>4. a.identity \in Identity /\ a.outcome \in Seq(Outcome)
    BY <1>3 DEF Result
<1>5. /\ Len(a.outcome) = Len(plan)
      /\ \A j \in DOMAIN a.outcome : IsDone(a.op, a.identity, j, a.outcome[j])
    BY <1>1, <1>2 DEF AnswerOK
<1>6. /\ DOMAIN plan = 1..Len(plan)
      /\ \A j \in DOMAIN plan : plan[j].id \in Chunks
      /\ \A j, l \in DOMAIN plan : plan[j].id = plan[l].id => j = l
  <2>1. StudyOK /\ StoreTypeOK
    BY <1>2, StoresAt
  <2>2. plan = Plan(a.identity)
    BY <1>1
  <2>3. PICK i \in Identity : i = a.identity
    BY <1>4
  <2>4. /\ DOMAIN Plan(i) = 1..Len(Plan(i))
        /\ \A j \in DOMAIN Plan(i) : Plan(i)[j].id \in Chunks
        /\ \A j, l \in DOMAIN Plan(i) : Plan(i)[j].id = Plan(i)[l].id => j = l
    BY ONLY <2>1, <2>3, PlanTypes
  <2>5. Plan(i) = plan
    BY <2>2, <2>3
  <2> QED
    BY <2>4, <2>5
<1>7. k \in DOMAIN a.outcome
    BY <1>4, <1>5, <1>6
<1>8. PICK o : o = a.outcome[k]
    OBVIOUS
<1>9. PICK c : c = plan[k].id
    OBVIOUS
<1>10. Intact(c, o.target) /\ IdentityOf(c, o.target).snapshot = a.identity.snapshot
    BY <1>1, <1>5, <1>7, <1>8, <1>9 DEF IsDone, IsOf
<1>11. c \in Chunks
    BY <1>6, <1>9
<1>12. o.target \in Revs
    BY <1>2, <1>10, <1>11, StoresAt DEF Intact
<1>13. PICK e : e = extraction[c][o.target]
    OBVIOUS
<1>14. e # None /\ e.identity.snapshot = a.identity.snapshot
    BY <1>10, <1>13 DEF Intact, IdentityOf
<1>15. IsMadeFor(c, e)
    BY <1>11, <1>12, <1>13, <1>14 DEF PayloadInv, ExtractionsAreJudged
<1>16. Plan(e.identity) = plan
    BY <1>1, <1>14 DEF Plan
<1>17. PICK l \in DOMAIN plan : plan[l].id = c /\ IsJudged(e.identity, l, e.payload)
    BY <1>15, <1>16 DEF IsMadeFor
<1>18. l = k
    BY <1>6, <1>9, <1>17
<1> QED
    BY <1>1, <1>8, <1>9, <1>13, <1>14, <1>17, <1>18 DEF IsJudged

\* So what an answer is made of is grounded, chunk by chunk.
LEMMA AnswersAreGrounded == IInv /\ PayloadInv => ExtractionsAreGrounded
PROOF
<1> SUFFICES ASSUME IInv, PayloadInv, NEW p \in Procs, result[p] # None, result[p].status = "ok"
             PROVE  LET plan == Plan(result[p].identity)
                        Found(k) == extraction[plan[k].id][result[p].outcome[k].target].payload
                        Evidence(k) == {Found(k)[i].evidence : i \in DOMAIN Found(k)}
                        Cited(k) == UNION {{e[i].at : i \in DOMAIN e} : e \in Evidence(k)}
                        Primary(e) == {e[i].at : i \in {j \in DOMAIN e : e[j].role = "primary"}}
                        Claims(k) == UNION {Primary(e) : e \in Evidence(k)}
                    IN \A k \in DOMAIN plan :
                           /\ Cited(k) \subseteq Context(plan[k])
                           /\ \A e \in Evidence(k) :
                                  /\ Primary(e) # {}
                                  /\ \A i \in DOMAIN e : e[i].quotes \in {None, e[i].at}
                                  /\ \A i \in 2..Len(e) : ~EvidenceBefore(e[i], e[i - 1])
                           /\ \A l \in DOMAIN plan : l # k => Claims(k) \cap Claims(l) = {}
    BY DEF ExtractionsAreGrounded
<1> DEFINE plan == Plan(result[p].identity)
           Found(k) == extraction[plan[k].id][result[p].outcome[k].target].payload
           Evidence(k) == {Found(k)[i].evidence : i \in DOMAIN Found(k)}
           Cited(k) == UNION {{e[i].at : i \in DOMAIN e} : e \in Evidence(k)}
           Primary(e) == {e[i].at : i \in {j \in DOMAIN e : e[j].role = "primary"}}
           Claims(k) == UNION {Primary(e) : e \in Evidence(k)}
<1>1. \A k \in DOMAIN plan : IsJudged(result[p].identity, k, Found(k))
    BY FoundIsJudged
<1>2. PICK text : text = study.texts[result[p].identity.snapshot]
    OBVIOUS
<1>3. text.plan = plan
    BY <1>2 DEF Plan
<1>4. PICK document : IsReadBy(document, text)
  <2>1. LocalTypeOK /\ StudyOK
    BY DEF IInv, CallsAreSound, StoresAreSound
  <2>2. result[p].identity \in Identity
    BY <2>1 DEF LocalTypeOK, Result
  <2>3. result[p].identity.snapshot \in Snapshots
    BY <2>2 DEF Identity, IdentitiesIn, Snapshots
  <2> QED
    BY <1>2, <2>1, <2>3, TextsAreRead
<1>5. \A k \in DOMAIN plan : Found(k) \in text.judged[k] \ {None}
    BY <1>1, <1>2 DEF IsJudged
<1> HIDE DEF Found, plan
<1>6. \A k \in DOMAIN plan : \A e \in Evidence(k) : IsGrounded(e, document, plan[k])
    BY <1>3, <1>4, <1>5 DEF IsReadBy
<1> HIDE DEF Evidence
<1>7. ASSUME NEW k \in DOMAIN plan, NEW e \in Evidence(k)
      PROVE  /\ \A i \in DOMAIN e : e[i].at \in Context(plan[k])
             /\ Primary(e) # {}
             /\ \A i \in DOMAIN e : e[i].quotes \in {None, e[i].at}
             /\ \A i \in 2..Len(e) : ~EvidenceBefore(e[i], e[i - 1])
             /\ \A x \in Primary(e) : x \in Owned(plan[k]) /\ x \in ParagraphIds(document)
  <2>1. IsGrounded(e, document, plan[k])
    BY <1>6
  <2>2. Primary(e) # {}
    BY <2>1 DEF IsGrounded
  <2>3. \A x \in Primary(e) : x \in Owned(plan[k]) /\ x \in ParagraphIds(document)
    BY <2>1 DEF IsGrounded
  <2> HIDE DEF Primary
  <2> QED
    BY <2>1, <2>2, <2>3 DEF IsGrounded
<1> HIDE DEF Primary
<1>8. \A k \in DOMAIN plan : Cited(k) \subseteq Context(plan[k])
    BY <1>7
<1>9. \A k \in DOMAIN plan : \A x \in Claims(k) :
          x \in Owned(plan[k]) /\ x \in ParagraphIds(document)
    BY <1>7
<1> HIDE DEF Claims, Cited
<1>10. \A k, l \in DOMAIN plan : l # k => Claims(k) \cap Claims(l) = {}
  <2> SUFFICES ASSUME NEW k \in DOMAIN plan, NEW l \in DOMAIN plan,
                      NEW x \in Claims(k), x \in Claims(l)
               PROVE  k = l
    OBVIOUS
  <2>1. x \in Owned(plan[k]) /\ x \in Owned(plan[l]) /\ x \in ParagraphIds(document)
    BY <1>9
  <2> QED
    BY <1>3, <1>4, <2>1 DEF IsReadBy
<1>11. \A k \in DOMAIN plan :
           /\ Cited(k) \subseteq Context(plan[k])
           /\ \A e \in Evidence(k) :
                  /\ Primary(e) # {}
                  /\ \A i \in DOMAIN e : e[i].quotes \in {None, e[i].at}
                  /\ \A i \in 2..Len(e) : ~EvidenceBefore(e[i], e[i - 1])
           /\ \A l \in DOMAIN plan : l # k => Claims(k) \cap Claims(l) = {}
  <2> SUFFICES ASSUME NEW k \in DOMAIN plan
               PROVE  /\ Cited(k) \subseteq Context(plan[k])
                      /\ \A e \in Evidence(k) :
                             /\ Primary(e) # {}
                             /\ \A i \in DOMAIN e : e[i].quotes \in {None, e[i].at}
                             /\ \A i \in 2..Len(e) : ~EvidenceBefore(e[i], e[i - 1])
                      /\ \A l \in DOMAIN plan : l # k => Claims(k) \cap Claims(l) = {}
    OBVIOUS
  <2> QED
    BY <1>7, <1>8, <1>10
<1> QED
    BY <1>11 DEF Claims, Cited, Primary, Evidence, Found, plan

\* What a batch or A4 ends with is grounded in the text it resolved: the payload
\* of every chunk is what that chunk made of an answer of the provider, and that
\* cites what the chunk shows, claims what it owns and quotes what it cites, in
\* reading order, whatever order the provider answered in.
THEOREM GroundedAnswers == Spec => []ExtractionsAreGrounded
PROOF
<1>1. Init => IInv /\ PayloadInv
    BY InitEstablishes, InitJudged
<1>2. (IInv /\ PayloadInv) /\ [Next]_vars => (IInv /\ PayloadInv)'
  <2> SUFFICES ASSUME IInv, PayloadInv, [Next]_vars PROVE IInv' /\ PayloadInv'
    OBVIOUS
  <2>1. IInv'
    BY NextPreserves
  <2>2. BaseInv /\ BaseInv'
    BY <2>1 DEF IInv, BaseInv
  <2> QED
    BY <2>1, <2>2, NextJudged
<1>3. IInv /\ PayloadInv => ExtractionsAreGrounded
    BY AnswersAreGrounded
<1> QED
    BY <1>1, <1>2, <1>3, PTL DEF Spec

=============================================================================

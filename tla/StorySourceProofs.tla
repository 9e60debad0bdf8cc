-------------------------- MODULE StorySourceProofs --------------------------
(***************************************************************************)
(* A1 and A2 keep their promises for any processes, texts, plans and       *)
(* bounds.  The invariant says that both pointers only go up and name      *)
(* complete artifacts, what a call knows at each step (what it read was    *)
(* CURRENT and still is unless the pointer moved, its revision is above    *)
(* what it read, what it wrote is there), and that the answers given are   *)
(* true.  The stores only grow, so that what a call knows stays true when  *)
(* the others step.                                                        *)
(***************************************************************************)
EXTENDS StorySource, SequenceTheorems, TLAPS

\* What is typed: the stores, and the calls.
StoreTypeOK ==
    /\ source \in [Revs -> Texts \union {None}]
    /\ sourceReport \subseteq Revs
    /\ chunk \in [Revs -> [ChunkIds -> 0..MaxRev]]
    /\ manifest \in [Revs -> 0..MaxRev]
    /\ planReport \subseteq Revs
    /\ sourceHead \in Seq(Revs)
    /\ planHead \in Seq(Revs)
    /\ together \subseteq Revs \X Revs

LocalTypeOK ==
    /\ pc \in [Procs -> Steps]
    /\ call \in [Procs -> Call]
    /\ result \in [Procs -> Result \union {None}]

\* A pointer only goes up; no more than MaxRev targets are possible.
GoesUp(head) ==
    \A i \in DOMAIN head : i \leq head[i] /\ \A j \in DOMAIN head : j < i => head[j] < head[i]

HeadsGoUp == GoesUp(sourceHead) /\ GoesUp(planHead)

\* The two artifacts that are current now were seen together.
NowIsTogether == Current(sourceHead, planHead) \subseteq together

\* Reading a pointer, ref first, gave ref and target: the target was current at
\* ref or later, and still is while the pointer is at ref.
Knows(head, ref, target) ==
    /\ ref \leq Len(head)
    /\ target = NoRev \/ target \in ToSet(head)
    /\ ref = Len(head) => target = IF head = <<>> THEN NoRev ELSE Last(head)

\* The steps of a call, by what it has done.
Ingesting == {"read file", "recheck source ref", "alloc source", "put source",
              "put source report", "publish source"}
Choosing == {"source ref", "source"}
ReadingPlan == {"plan ref", "plan"}
Planning == {"reuse source", "reuse plan", "alloc plan", "put chunk", "put manifest",
             "put plan report", "recheck source", "publish plan"}
WritingSource == {"put source", "put source report", "publish source"}
WritingPlan == {"put chunk", "put manifest", "put plan report", "recheck source",
                "publish plan"}

OpOK(p) ==
    /\ pc[p] \in Ingesting => call[p].op = "ingest"
    /\ pc[p] \in Choosing => call[p].op \in Ops
    /\ pc[p] \in ReadingPlan => call[p].op \in {"plan", "resolve"}
    /\ pc[p] \in Planning => call[p].op = "plan"
    /\ call[p].op = "ingest" /\ pc[p] \notin {"idle", "read file"} => call[p].text \in Texts

\* What p's call knows of the two pointers.
SourceOK(p) ==
    LET c == call[p]
    IN /\ pc[p] \in {"idle", "read file", "source ref"} => c.sourceRef = 0
       /\ pc[p] = "source" => c.sourceRef \in DOMAIN sourceHead
       /\ pc[p] \in {"idle", "read file"} \union Choosing => c.source = NoRev
       /\ pc[p] \notin {"idle", "read file"} \union Choosing =>
              Knows(sourceHead, c.sourceRef, c.source)
       /\ pc[p] \in ReadingPlan \union Planning => c.source # NoRev
       /\ pc[p] = "recheck source ref" => c.source # NoRev /\ source[c.source] = c.text

PlanOK(p) ==
    LET c == call[p]
    IN /\ pc[p] \notin {"plan"} \union Planning => c.planRef = 0
       /\ pc[p] = "plan" => c.planRef \in DOMAIN planHead
       /\ pc[p] \notin Planning => c.plan = NoRev
       /\ pc[p] \in Planning => Knows(planHead, c.planRef, c.plan)
       /\ pc[p] \in {"reuse source", "reuse plan"} =>
              c.plan # NoRev /\ manifest[c.plan] = c.source
       /\ pc[p] = "reuse plan" /\ Len(planHead) = c.planRef =>
              <<c.source, c.plan>> \in together

\* What p's call has allocated and written.
WrittenOK(p) ==
    LET c == call[p]
    IN /\ pc[p] \notin WritingPlan => c.put = 0
       /\ pc[p] \in WritingSource => c.rev \in Revs /\ c.rev > c.source
       /\ pc[p] \in {"put source report", "publish source"} => source[c.rev] = c.text
       /\ pc[p] = "publish source" => c.rev \in sourceReport
       /\ pc[p] \in WritingPlan =>
              /\ c.rev \in Revs /\ c.rev > c.plan
              /\ c.put \leq Len(PlannedChunks(c.source))
              /\ \A i \in 1..c.put : chunk[c.rev][PlannedChunks(c.source)[i]] = c.source
              /\ pc[p] = "put chunk" <=> c.put < Len(PlannedChunks(c.source))
       /\ pc[p] \in {"put plan report", "recheck source", "publish plan"} =>
              manifest[c.rev] = c.source
       /\ pc[p] \in {"recheck source", "publish plan"} => c.rev \in planReport

LocalOK(p) == OpOK(p) /\ SourceOK(p) /\ PlanOK(p) /\ WrittenOK(p)

\* The answers, and what a snapshot still knows of the pointers.
AnswerOK(p) ==
    LET c == result[p].call
    IN /\ Told(p, "ingest") => /\ c.sourceRef \in DOMAIN sourceHead
                               /\ sourceHead[c.sourceRef] = c.source
                               /\ source[c.source] = c.text
       /\ Told(p, "plan") => /\ c.planRef \in DOMAIN planHead
                             /\ planHead[c.planRef] = c.plan
                             /\ manifest[c.plan] = c.source
                             /\ result[p].reused => <<c.source, c.plan>> \in together
       /\ Told(p, "ingest") => c.text \in Texts
       /\ Told(p, "plan") \/ Told(p, "resolve") => c.source # NoRev
       /\ Told(p, "resolve") => /\ Knows(sourceHead, c.sourceRef, c.source)
                                /\ Knows(planHead, c.planRef, c.plan)
                                /\ c.plan # NoRev
                                /\ manifest[c.plan] = c.source

StoresAreSound == StoreTypeOK /\ HeadsGoUp /\ NowIsTogether /\ CurrentIsComplete
CallsAreSound == LocalTypeOK /\ \A p \in Procs : LocalOK(p) /\ AnswerOK(p)

IInv == StoresAreSound /\ CallsAreSound

\* Revisions are positive numbers.
LEMMA RevsAreNaturals == \A r \in Revs : r \in Nat /\ r \in 0..MaxRev /\ r > 0
PROOF
    BY BoundsAreNaturals DEF Revs

\* What a pointer that goes up says is a position or a revision, within the bound.
LEMMA HeadTypes ==
    ASSUME NEW h \in Seq(Revs), GoesUp(h)
    PROVE  /\ Len(h) \in 0..MaxRev
           /\ DOMAIN h = 1..Len(h)
           /\ h # <<>> => /\ Last(h) \in Revs
                         /\ Last(h) = h[Len(h)]
                         /\ Len(h) > 0
                         /\ Len(h) \in DOMAIN h
                         /\ Last(h) \in ToSet(h)
           /\ h = <<>> => Len(h) = 0
           /\ \A r : r \in ToSet(h) <=> \E i \in DOMAIN h : h[i] = r
           /\ ToSet(h) \subseteq Revs
PROOF
<1>1. Len(h) \in Nat /\ DOMAIN h = 1..Len(h) /\ \A i \in 1..Len(h) : h[i] \in Revs
    OBVIOUS
<1>2. \A r : r \in ToSet(h) <=> \E i \in DOMAIN h : h[i] = r
    BY <1>1 DEF ToSet
<1>3. h # <<>> => Len(h) > 0 /\ Len(h) \in DOMAIN h
    BY <1>1, EmptySeq
<1>4. h # <<>> => Last(h) = h[Len(h)]
    BY DEF Last
<1>5. h # <<>> => Last(h) \in ToSet(h) /\ Last(h) \in Revs
    BY <1>1, <1>2, <1>3, <1>4
<1>6. Len(h) \in 0..MaxRev
  <2>1. CASE h = <<>>
    BY <2>1, BoundsAreNaturals
  <2>2. CASE h # <<>>
    <3>1. Len(h) \leq h[Len(h)] /\ h[Len(h)] \in Revs
      BY <1>1, <1>3, <2>2 DEF GoesUp
    <3> QED
      BY <1>1, <3>1, BoundsAreNaturals DEF Revs
  <2> QED
    BY <2>1, <2>2
<1> QED
    BY <1>1, <1>2, <1>3, <1>4, <1>5, <1>6

\* A step adds at most one target to a pointer.
Grows(h, k) == k = h \/ \E x \in Revs : k = Append(h, x)

\* What a call knows of a pointer stays true when the pointer moves on.
LEMMA KnowsLasts ==
    ASSUME NEW h \in Seq(Revs), NEW k, Grows(h, k), NEW ref \in Nat, NEW target,
           Knows(h, ref, target)
    PROVE  Knows(k, ref, target)
PROOF
<1>1. CASE k = h
    BY <1>1
<1>2. CASE k # h
  <2>1. PICK x \in Revs : k = Append(h, x)
    BY <1>2 DEF Grows
  <2>2. Len(k) = Len(h) + 1 /\ Len(h) \in Nat
    BY <2>1
  <2>3. \A i \in DOMAIN h : i \in DOMAIN k /\ k[i] = h[i]
    BY <2>1
  <2>4. target \in ToSet(h) => target \in ToSet(k)
    BY <2>3 DEF ToSet
  <2> QED
    BY <2>2, <2>4 DEF Knows
<1> QED
    BY <1>1, <1>2

\* A target keeps its place.
LEMMA PlacesLast ==
    ASSUME NEW h \in Seq(Revs), NEW k, Grows(h, k), NEW i \in DOMAIN h
    PROVE  i \in DOMAIN k /\ k[i] = h[i]
PROOF
    BY DEF Grows

\* A call that goes on with typed locals is typed, and no other call moves.
LEMMA ContinueMoves ==
    ASSUME LocalTypeOK, NEW p \in Procs, NEW s \in Steps, NEW c \in Call, Continue(p, s, c)
    PROVE  /\ LocalTypeOK'
           /\ pc'[p] = s /\ call'[p] = c /\ result'[p] = result[p]
           /\ \A q \in Procs \ {p} :
                  pc'[q] = pc[q] /\ call'[q] = call[q] /\ result'[q] = result[q]
PROOF
    BY DEF Continue, Goto, LocalTypeOK

\* The locals of a call that has not begun are typed.
LEMMA NoCallTypes == NoCall \in Call /\ \A o \in Ops : [NoCall EXCEPT !.op = o] \in Call
PROOF
    BY BoundsAreNaturals DEF NoCall, Call, NoRev

\* A call that ends leaves a typed result, and no other call moves.
LEMMA DoneMoves ==
    ASSUME LocalTypeOK, NEW p \in Procs, NEW status \in Statuses, NEW reused \in BOOLEAN,
           NEW c \in Call, Done(p, status, reused, c)
    PROVE  /\ LocalTypeOK'
           /\ pc'[p] = "idle" /\ call'[p] = NoCall
           /\ result'[p] = [status |-> status, call |-> c, reused |-> reused]
           /\ \A q \in Procs \ {p} :
                  pc'[q] = pc[q] /\ call'[q] = call[q] /\ result'[q] = result[q]
PROOF
<1>1. [status |-> status, call |-> c, reused |-> reused] \in Result
    BY DEF Result
<1>2. "idle" \in Steps
    BY DEF Steps
<1> QED
    BY <1>1, <1>2, NoCallTypes DEF Done, Goto, LocalTypeOK

\* What a call that raises leaves: nothing is promised.
LEMMA RaiseMoves ==
    ASSUME LocalTypeOK, NEW p \in Procs, NEW status \in Statuses \ {"ok"}, Raise(p, status)
    PROVE  /\ LocalTypeOK'
           /\ pc'[p] = "idle" /\ call'[p] = NoCall
           /\ result'[p].status # "ok"
           /\ \A q \in Procs \ {p} :
                  pc'[q] = pc[q] /\ call'[q] = call[q] /\ result'[q] = result[q]
PROOF
<1>1. call[p] \in Call
    BY DEF LocalTypeOK
<1>2. Done(p, status, FALSE, call[p]) /\ FALSE \in BOOLEAN /\ status \in Statuses
    BY DEF Raise
<1>3. /\ LocalTypeOK'
      /\ pc'[p] = "idle" /\ call'[p] = NoCall
      /\ result'[p] = [status |-> status, call |-> call[p], reused |-> FALSE]
      /\ \A q \in Procs \ {p} :
             pc'[q] = pc[q] /\ call'[q] = call[q] /\ result'[q] = result[q]
    BY <1>1, <1>2, DoneMoves
<1> QED
    BY <1>3

\* Nothing is known of a call that is not under way.
LEMMA IdleIsSound ==
    ASSUME NEW p \in Procs, pc'[p] = "idle", call'[p] = NoCall
    PROVE  LocalOK(p)'
PROOF
    BY DEF LocalOK, OpOK, SourceOK, PlanOK, WrittenOK, NoCall, Ingesting, Choosing,
           ReadingPlan, Planning, WritingSource, WritingPlan, Ops, NoRev

-----------------------------------------------------------------------------
(* What is written stays written.                                          *)

StoresGrow ==
    /\ \A r \in Revs : source[r] # None => source'[r] = source[r]
    /\ sourceReport \subseteq sourceReport'
    /\ \A r \in Revs, c \in ChunkIds : chunk[r][c] # NoRev => chunk'[r][c] = chunk[r][c]
    /\ \A r \in Revs : manifest[r] # NoRev => manifest'[r] = manifest[r]
    /\ planReport \subseteq planReport'
    /\ together \subseteq together'
    /\ Grows(sourceHead, sourceHead')
    /\ Grows(planHead, planHead')

\* The plan of a source that exists is not empty, and it lasts.
LEMMA PlannedTypes ==
    ASSUME StoreTypeOK, NEW s \in Revs, source[s] # None
    PROVE  /\ source[s] \in Texts
           /\ PlannedChunks(s) \in Seq(ChunkIds)
           /\ PlannedChunks(s) # <<>>
           /\ Len(PlannedChunks(s)) \in Nat \ {0}
           /\ \A i \in 1..Len(PlannedChunks(s)) :
                  /\ PlannedChunks(s)[i] \in ChunkIds
                  /\ PlannedChunks(s)[i] \in ToSet(PlannedChunks(s))
           /\ \A c \in ToSet(PlannedChunks(s)) : c \in ChunkIds
           /\ StoresGrow => PlannedChunks(s)' = PlannedChunks(s)
PROOF
<1>1. source[s] \in Texts
    BY DEF StoreTypeOK
<1>2. PlannedChunks(s) \in Seq(ChunkIds) /\ PlannedChunks(s) # <<>>
    BY <1>1, PlansAreSequences DEF PlannedChunks
<1>3. StoresGrow => PlannedChunks(s)' = PlannedChunks(s)
    BY DEF StoresGrow, PlannedChunks
<1> HIDE DEF PlannedChunks
<1>4. /\ Len(PlannedChunks(s)) \in Nat \ {0}
      /\ \A i \in 1..Len(PlannedChunks(s)) : PlannedChunks(s)[i] \in ChunkIds
      /\ DOMAIN PlannedChunks(s) = 1..Len(PlannedChunks(s))
    BY <1>2, EmptySeq
<1>5. ToSet(PlannedChunks(s)) = {PlannedChunks(s)[i] : i \in DOMAIN PlannedChunks(s)}
    BY DEF ToSet
<1> QED
    BY <1>1, <1>2, <1>3, <1>4, <1>5

\* A source that a call knows of exists.
LEMMA KnownSource ==
    ASSUME StoreTypeOK, GoesUp(sourceHead), CurrentIsComplete, NEW ref, NEW s,
           Knows(sourceHead, ref, s), s # NoRev
    PROVE  s \in Revs /\ source[s] # None /\ s \in ToSet(sourceHead)
PROOF
<1>1. s \in ToSet(sourceHead)
    BY DEF Knows
<1>2. sourceHead \in Seq(Revs)
    BY DEF StoreTypeOK
<1>3. s \in Revs /\ \E i \in DOMAIN sourceHead : sourceHead[i] = s
    BY <1>1, <1>2, HeadTypes
<1> QED
    BY <1>1, <1>3 DEF CurrentIsComplete

\* So does a plan.
LEMMA KnownPlan ==
    ASSUME StoreTypeOK, GoesUp(planHead), NEW ref, NEW r, Knows(planHead, ref, r), r # NoRev
    PROVE  r \in Revs
PROOF
    BY HeadTypes DEF Knows, StoreTypeOK

\* What a call knows stays true when the others step.
LEMMA LocalLasts ==
    ASSUME IInv, StoreTypeOK', StoresGrow, NEW q \in Procs, pc'[q] = pc[q],
           call'[q] = call[q]
    PROVE  LocalOK(q)'
PROOF
<1> DEFINE c == call[q]
<1>1. /\ StoreTypeOK /\ HeadsGoUp /\ CurrentIsComplete /\ LocalTypeOK
      /\ LocalOK(q)
    BY DEF IInv, StoresAreSound, CallsAreSound
<1>2. /\ c \in Call /\ c.sourceRef \in Nat /\ c.planRef \in Nat /\ c.put \in Nat
    BY <1>1, BoundsAreNaturals DEF LocalTypeOK, Call
<1>3. /\ sourceHead \in Seq(Revs) /\ planHead \in Seq(Revs)
      /\ GoesUp(sourceHead) /\ GoesUp(planHead)
      /\ Grows(sourceHead, sourceHead') /\ Grows(planHead, planHead')
    BY <1>1 DEF StoreTypeOK, HeadsGoUp, StoresGrow
<1>4. /\ Knows(sourceHead, c.sourceRef, c.source) => Knows(sourceHead', c.sourceRef, c.source)
      /\ Knows(planHead, c.planRef, c.plan) => Knows(planHead', c.planRef, c.plan)
    BY <1>2, <1>3, KnowsLasts
<1>5. OpOK(q)'
    BY <1>1 DEF LocalOK, OpOK
<1>6. SourceOK(q)'
  <2>1. c.sourceRef \in DOMAIN sourceHead => c.sourceRef \in DOMAIN sourceHead'
    BY <1>3, PlacesLast
  <2>2. /\ pc[q] = "recheck source ref"
        /\ c.source # NoRev
        => source'[c.source] = source[c.source]
    <3>1. pc[q] = "recheck source ref" => Knows(sourceHead, c.sourceRef, c.source)
      BY <1>1 DEF LocalOK, SourceOK, Choosing
    <3>2. pc[q] = "recheck source ref" /\ c.source # NoRev =>
              c.source \in Revs /\ source[c.source] # None
      BY <1>1, <1>3, <3>1, KnownSource
    <3> QED
      BY <3>2 DEF StoresGrow
  <2> QED
    BY <1>1, <1>4, <2>1, <2>2 DEF LocalOK, SourceOK
<1>7. PlanOK(q)'
  <2>1. c.planRef \in DOMAIN planHead => c.planRef \in DOMAIN planHead'
    BY <1>3, PlacesLast
  <2>2. /\ pc[q] \in {"reuse source", "reuse plan"}
        => manifest'[c.plan] = manifest[c.plan]
    <3>1. pc[q] \in {"reuse source", "reuse plan"} =>
              Knows(planHead, c.planRef, c.plan) /\ c.plan # NoRev
              /\ manifest[c.plan] = c.source /\ c.source # NoRev
      BY <1>1 DEF LocalOK, PlanOK, SourceOK, Planning
    <3> QED
      BY <1>1, <1>3, <3>1, KnownPlan DEF StoresGrow
  <2>3. /\ Knows(planHead, c.planRef, c.plan)
        /\ Len(planHead') = c.planRef
        => Len(planHead) = c.planRef
    BY <1>2, <1>3 DEF Knows, Grows
  <2>4. pc[q] = "reuse plan" => Knows(planHead, c.planRef, c.plan)
    BY <1>1 DEF LocalOK, PlanOK, Planning
  <2> QED
    BY <1>1, <1>4, <2>1, <2>2, <2>3, <2>4 DEF LocalOK, PlanOK, StoresGrow
<1>8. WrittenOK(q)'
  <2>1. pc[q] \in {"put source report", "publish source"} =>
            source[c.rev] = c.text /\ c.text \in Texts /\ c.rev \in Revs
    BY <1>1 DEF LocalOK, OpOK, WrittenOK, Ingesting, WritingSource
  <2>2. pc[q] \in {"put source report", "publish source"} => source'[c.rev] = c.text
    BY <2>1, NoneIsNothing DEF StoresGrow
  <2>3. pc[q] \in WritingPlan => /\ Knows(sourceHead, c.sourceRef, c.source)
                                /\ c.source # NoRev
    BY <1>1 DEF LocalOK, SourceOK, WritingPlan, Planning, Choosing
  <2>4. pc[q] \in WritingPlan => /\ c.source \in Revs
                                /\ source[c.source] # None
                                /\ PlannedChunks(c.source)' = PlannedChunks(c.source)
    BY <1>1, <1>3, <2>3, KnownSource, PlannedTypes
  <2>5. pc[q] \in WritingPlan =>
            \A i \in 1..c.put : chunk'[c.rev][PlannedChunks(c.source)[i]] = c.source
    <3> SUFFICES ASSUME pc[q] \in WritingPlan, NEW i \in 1..c.put
                 PROVE  chunk'[c.rev][PlannedChunks(c.source)[i]] = c.source
      OBVIOUS
    <3>1. /\ chunk[c.rev][PlannedChunks(c.source)[i]] = c.source
          /\ c.rev \in Revs
          /\ c.put \leq Len(PlannedChunks(c.source))
      BY <1>1 DEF LocalOK, WrittenOK
    <3>2. i \in 1..Len(PlannedChunks(c.source)) /\ Len(PlannedChunks(c.source)) \in Nat
      BY <1>1, <1>2, <2>4, <3>1, PlannedTypes
    <3>3. PlannedChunks(c.source)[i] \in ChunkIds
      BY <1>1, <2>4, <3>2, PlannedTypes
    <3> QED
      BY <2>3, <3>1, <3>3 DEF StoresGrow
  <2>6. pc[q] \in {"put plan report", "recheck source", "publish plan"} =>
            manifest'[c.rev] = c.source
    <3>1. pc[q] \in {"put plan report", "recheck source", "publish plan"} =>
              /\ pc[q] \in WritingPlan
              /\ c.rev \in Revs
              /\ manifest[c.rev] = c.source
      BY <1>1 DEF LocalOK, WrittenOK, WritingPlan
    <3> QED
      BY <2>3, <3>1 DEF StoresGrow
  <2>7. /\ pc[q] = "publish source" => c.rev \in sourceReport'
        /\ pc[q] \in {"recheck source", "publish plan"} => c.rev \in planReport'
    BY <1>1 DEF LocalOK, WrittenOK, StoresGrow
  <2>8. /\ pc[q] \notin WritingPlan => c.put = 0
        /\ pc[q] \in WritingSource => c.rev \in Revs /\ c.rev > c.source
        /\ pc[q] \in WritingPlan =>
              /\ c.rev \in Revs /\ c.rev > c.plan
              /\ c.put \leq Len(PlannedChunks(c.source))
              /\ pc[q] = "put chunk" <=> c.put < Len(PlannedChunks(c.source))
    BY <1>1 DEF LocalOK, WrittenOK
  <2> QED
    BY <2>2, <2>4, <2>5, <2>6, <2>7, <2>8 DEF WrittenOK
<1> QED
    BY <1>5, <1>6, <1>7, <1>8 DEF LocalOK

\* An answer given stays true.
LEMMA AnswerLasts ==
    ASSUME IInv, StoreTypeOK', StoresGrow, NEW q \in Procs, result'[q] = result[q]
    PROVE  AnswerOK(q)'
PROOF
<1> DEFINE c == result[q].call
<1>1. /\ StoreTypeOK /\ HeadsGoUp /\ CurrentIsComplete /\ LocalTypeOK
      /\ AnswerOK(q)
    BY DEF IInv, StoresAreSound, CallsAreSound
<1>2. /\ sourceHead \in Seq(Revs) /\ planHead \in Seq(Revs)
      /\ GoesUp(sourceHead) /\ GoesUp(planHead)
      /\ Grows(sourceHead, sourceHead') /\ Grows(planHead, planHead')
    BY <1>1 DEF StoreTypeOK, HeadsGoUp, StoresGrow
<1>3. CASE result[q] = None
    BY <1>3 DEF AnswerOK, Told
<1>4. CASE result[q] # None
  <2>1. c \in Call /\ c.sourceRef \in Nat /\ c.planRef \in Nat
    BY <1>1, <1>4, BoundsAreNaturals DEF LocalTypeOK, Result, Call
  <2>2. \A op \in Ops : Told(q, op)' <=> Told(q, op)
    BY DEF Told
  <2>3. Told(q, "ingest") => /\ c.sourceRef \in DOMAIN sourceHead'
                             /\ sourceHead'[c.sourceRef] = c.source
                             /\ source'[c.source] = c.text
                             /\ c.text \in Texts
    <3> SUFFICES ASSUME Told(q, "ingest")
                 PROVE  /\ c.sourceRef \in DOMAIN sourceHead'
                        /\ sourceHead'[c.sourceRef] = c.source
                        /\ source'[c.source] = c.text
                        /\ c.text \in Texts
      OBVIOUS
    <3>1. /\ c.sourceRef \in DOMAIN sourceHead
          /\ sourceHead[c.sourceRef] = c.source
          /\ source[c.source] = c.text
          /\ c.text \in Texts
      BY <1>1 DEF AnswerOK
    <3>2. c.source \in Revs
      BY <1>2, <3>1
    <3> QED
      BY <1>2, <3>1, <3>2, PlacesLast, NoneIsNothing DEF StoresGrow
  <2>4. Told(q, "plan") => /\ c.planRef \in DOMAIN planHead'
                           /\ planHead'[c.planRef] = c.plan
                           /\ manifest'[c.plan] = c.source
                           /\ result[q].reused => <<c.source, c.plan>> \in together'
                           /\ c.source # NoRev
    <3> SUFFICES ASSUME Told(q, "plan")
                 PROVE  /\ c.planRef \in DOMAIN planHead'
                        /\ planHead'[c.planRef] = c.plan
                        /\ manifest'[c.plan] = c.source
                        /\ result[q].reused => <<c.source, c.plan>> \in together'
                        /\ c.source # NoRev
      OBVIOUS
    <3>1. /\ c.planRef \in DOMAIN planHead
          /\ planHead[c.planRef] = c.plan
          /\ manifest[c.plan] = c.source
          /\ result[q].reused => <<c.source, c.plan>> \in together
          /\ c.source # NoRev
      BY <1>1 DEF AnswerOK
    <3>2. c.plan \in Revs
      BY <1>2, <3>1
    <3> QED
      BY <1>2, <3>1, <3>2, PlacesLast DEF StoresGrow
  <2>5. Told(q, "resolve") => /\ Knows(sourceHead', c.sourceRef, c.source)
                              /\ Knows(planHead', c.planRef, c.plan)
                              /\ c.plan # NoRev
                              /\ manifest'[c.plan] = c.source
                              /\ c.source # NoRev
    <3> SUFFICES ASSUME Told(q, "resolve")
                 PROVE  /\ Knows(sourceHead', c.sourceRef, c.source)
                        /\ Knows(planHead', c.planRef, c.plan)
                        /\ c.plan # NoRev
                        /\ manifest'[c.plan] = c.source
                        /\ c.source # NoRev
      OBVIOUS
    <3>1. /\ Knows(sourceHead, c.sourceRef, c.source)
          /\ Knows(planHead, c.planRef, c.plan)
          /\ c.plan # NoRev
          /\ manifest[c.plan] = c.source
          /\ c.source # NoRev
      BY <1>1 DEF AnswerOK
    <3>2. c.plan \in Revs
      BY <1>1, <1>2, <3>1, KnownPlan
    <3> QED
      BY <1>2, <2>1, <3>1, <3>2, KnowsLasts DEF StoresGrow
  <2> QED
    BY <2>2, <2>3, <2>4, <2>5 DEF AnswerOK, Ops
<1> QED
    BY <1>3, <1>4

\* What is current stays complete while nothing is published.
LEMMA StoresStaySound ==
    ASSUME StoresAreSound, StoreTypeOK', StoresGrow, UNCHANGED <<sourceHead, planHead>>
    PROVE  StoresAreSound'
PROOF
<1>1. /\ StoreTypeOK /\ HeadsGoUp /\ CurrentIsComplete /\ NowIsTogether
      /\ sourceHead \in Seq(Revs) /\ planHead \in Seq(Revs)
    BY DEF StoresAreSound, StoreTypeOK
<1>2. HeadsGoUp'
    BY <1>1 DEF HeadsGoUp
<1>3. NowIsTogether'
    BY <1>1 DEF NowIsTogether, StoresGrow
<1>4. CurrentIsComplete'
  <2>1. \A i \in DOMAIN sourceHead' :
           source'[sourceHead'[i]] # None /\ sourceHead'[i] \in sourceReport'
    <3> SUFFICES ASSUME NEW i \in DOMAIN sourceHead
                 PROVE  source'[sourceHead[i]] # None /\ sourceHead[i] \in sourceReport'
      OBVIOUS
    <3>1. sourceHead[i] \in Revs
      BY <1>1
    <3> QED
      BY <1>1, <3>1 DEF CurrentIsComplete, StoresGrow
  <2>2. (\A i \in DOMAIN planHead :
            Intact(planHead[i]) /\ manifest[planHead[i]] \in ToSet(sourceHead))'
    <3> SUFFICES ASSUME NEW i \in DOMAIN planHead
                 PROVE  (Intact(planHead[i]) /\ manifest[planHead[i]] \in ToSet(sourceHead))'
      BY <1>1
    <3>1. PICK r \in Revs : r = planHead[i]
      BY <1>1
    <3>2. PICK s : s = manifest[r]
      OBVIOUS
    <3>3. Intact(r) /\ s \in ToSet(sourceHead)
      BY <1>1, <3>1, <3>2 DEF CurrentIsComplete
    <3>4. s # NoRev /\ source[s] # None /\ s \in Revs
      BY <1>1, <3>2, <3>3, HeadTypes DEF Intact, HeadsGoUp
    <3>5. manifest'[r] = s /\ source'[s] = source[s]
      BY <3>2, <3>4 DEF StoresGrow
    <3>6. PlannedChunks(s)' = PlannedChunks(s)
      BY <1>1, <3>4, PlannedTypes
    <3>7. \A c \in ToSet(PlannedChunks(s)) : c \in ChunkIds /\ chunk[r][c] = s
      BY <1>1, <3>2, <3>3, <3>4, PlannedTypes DEF Intact
    <3>8. \A c \in ToSet(PlannedChunks(s)) : chunk'[r][c] = s
      BY <3>4, <3>7 DEF StoresGrow
    <3>9. r \in planReport'
      BY <3>3 DEF Intact, StoresGrow
    <3>10. Intact(r)'
      BY <3>4, <3>5, <3>6, <3>8, <3>9 DEF Intact
    <3> QED
      BY <3>1, <3>3, <3>5, <3>10
  <2> QED
    BY <2>1, <2>2 DEF CurrentIsComplete
<1> QED
    BY <1>2, <1>3, <1>4 DEF StoresAreSound

-----------------------------------------------------------------------------
(* A step of one call keeps the invariant if it keeps the stores sound and *)
(* leaves its own call sound.                                              *)

\* Other calls keep what they know, and answers given stay true.
LEMMA OneMoves ==
    ASSUME IInv, NEW p \in Procs, StoresAreSound', StoresGrow, LocalTypeOK',
           LocalOK(p)', AnswerOK(p)',
           \A q \in Procs \ {p} :
               pc'[q] = pc[q] /\ call'[q] = call[q] /\ result'[q] = result[q]
    PROVE  IInv'
PROOF
<1>1. StoreTypeOK'
    BY DEF StoresAreSound
<1>2. ASSUME NEW q \in Procs
      PROVE  LocalOK(q)' /\ AnswerOK(q)'
  <2>1. CASE q = p
    BY <2>1
  <2>2. CASE q # p
    BY <1>1, <2>2, LocalLasts, AnswerLasts
  <2> QED
    BY <2>1, <2>2
<1> QED
    BY <1>2 DEF IInv, CallsAreSound

\* The call goes on.
LEMMA GoesOn ==
    ASSUME IInv, NEW p \in Procs, StoresAreSound', StoresGrow,
           NEW s \in Steps, NEW c \in Call, Continue(p, s, c),
           pc'[p] = s /\ call'[p] = c => LocalOK(p)'
    PROVE  IInv'
PROOF
<1>1. LocalTypeOK
    BY DEF IInv, CallsAreSound
<1>2. /\ LocalTypeOK'
      /\ pc'[p] = s /\ call'[p] = c /\ result'[p] = result[p]
      /\ \A q \in Procs \ {p} :
             pc'[q] = pc[q] /\ call'[q] = call[q] /\ result'[q] = result[q]
    BY <1>1, ContinueMoves
<1>3. AnswerOK(p)'
    BY <1>2, AnswerLasts DEF StoresAreSound
<1> QED
    BY <1>2, <1>3, OneMoves

\* The call returns.
LEMMA Returns ==
    ASSUME IInv, NEW p \in Procs, StoresAreSound', StoresGrow,
           NEW reused \in BOOLEAN, NEW c \in Call, Done(p, "ok", reused, c),
           result'[p] = [status |-> "ok", call |-> c, reused |-> reused] => AnswerOK(p)'
    PROVE  IInv'
PROOF
<1>1. LocalTypeOK /\ "ok" \in Statuses
    BY DEF IInv, CallsAreSound, Statuses
<1>2. /\ LocalTypeOK'
      /\ pc'[p] = "idle" /\ call'[p] = NoCall
      /\ result'[p] = [status |-> "ok", call |-> c, reused |-> reused]
      /\ \A q \in Procs \ {p} :
             pc'[q] = pc[q] /\ call'[q] = call[q] /\ result'[q] = result[q]
    BY <1>1, DoneMoves
<1>3. LocalOK(p)'
    BY <1>2, IdleIsSound
<1> QED
    BY <1>2, <1>3, OneMoves

\* The call ends without an answer.
LEMMA EndsBadly ==
    ASSUME IInv, NEW p \in Procs, StoresAreSound', StoresGrow,
           NEW status \in Statuses \ {"ok"}, NEW c \in Call, Done(p, status, FALSE, c)
    PROVE  IInv'
PROOF
<1>1. LocalTypeOK /\ FALSE \in BOOLEAN /\ status \in Statuses
    BY DEF IInv, CallsAreSound
<1>2. /\ LocalTypeOK'
      /\ pc'[p] = "idle" /\ call'[p] = NoCall
      /\ result'[p] = [status |-> status, call |-> c, reused |-> FALSE]
      /\ \A q \in Procs \ {p} :
             pc'[q] = pc[q] /\ call'[q] = call[q] /\ result'[q] = result[q]
    BY <1>1, DoneMoves
<1>3. LocalOK(p)'
    BY <1>2, IdleIsSound
<1>4. AnswerOK(p)'
  <2>1. \A op : ~Told(p, op)'
    BY <1>2 DEF Told
  <2> QED
    BY <2>1 DEF AnswerOK
<1> QED
    BY <1>2, <1>3, <1>4, OneMoves

\* The call raises.
LEMMA Raises ==
    ASSUME IInv, NEW p \in Procs, StoresAreSound', StoresGrow,
           NEW status \in Statuses \ {"ok"}, Raise(p, status)
    PROVE  IInv'
PROOF
<1>1. call[p] \in Call
    BY DEF IInv, CallsAreSound, LocalTypeOK
<1> QED
    BY <1>1, EndsBadly DEF Raise

\* A step that writes nothing keeps the stores.
LEMMA QuietStores ==
    ASSUME StoresAreSound, UNCHANGED <<artifacts, heads>>
    PROVE  StoresAreSound' /\ StoresGrow
PROOF
<1>1. /\ source' = source /\ sourceReport' = sourceReport /\ chunk' = chunk
      /\ manifest' = manifest /\ planReport' = planReport
      /\ sourceHead' = sourceHead /\ planHead' = planHead /\ together' = together
    BY DEF artifacts, heads
<1>2. StoreTypeOK'
    BY <1>1 DEF StoresAreSound, StoreTypeOK
<1>3. StoresGrow
    BY <1>1 DEF StoresGrow, Grows
<1> QED
    BY <1>1, <1>2, <1>3, StoresStaySound

\* What the invariant says of one call, and of the two pointers.
LEMMA InvariantAt ==
    ASSUME IInv, NEW p \in Procs
    PROVE  /\ pc[p] \in Steps /\ call[p] \in Call
           /\ OpOK(p) /\ SourceOK(p) /\ PlanOK(p) /\ WrittenOK(p)
           /\ StoresAreSound /\ StoreTypeOK /\ CurrentIsComplete /\ NowIsTogether
           /\ GoesUp(sourceHead) /\ sourceHead \in Seq(Revs)
           /\ GoesUp(planHead) /\ planHead \in Seq(Revs)
PROOF
    BY DEF IInv, StoresAreSound, CallsAreSound, LocalTypeOK, LocalOK, HeadsGoUp, StoreTypeOK

\* The locals of a call stay typed when one of them is set.
LEMMA SetTypes ==
    ASSUME NEW c \in Call
    PROVE  /\ \A t \in Texts : [c EXCEPT !.text = t] \in Call
           /\ \A n \in 0..MaxRev : /\ [c EXCEPT !.sourceRef = n] \in Call
                                   /\ [c EXCEPT !.source = n] \in Call
                                   /\ [c EXCEPT !.planRef = n] \in Call
                                   /\ [c EXCEPT !.plan = n] \in Call
                                   /\ [c EXCEPT !.rev = n] \in Call
           /\ \A n, m \in 0..MaxRev : /\ [c EXCEPT !.sourceRef = n, !.source = m] \in Call
                                      /\ [c EXCEPT !.planRef = n, !.plan = m] \in Call
           /\ \A n \in Nat : [c EXCEPT !.put = n] \in Call
PROOF
    BY DEF Call

-----------------------------------------------------------------------------
(* The actions.                                                            *)

\* A call begins.
LEMMA StartSound ==
    ASSUME IInv, NEW p \in Procs, NEW o \in Ops, Start(p, o)
    PROVE  IInv'
PROOF
<1> DEFINE c == [NoCall EXCEPT !.op = o]
           s == IF o = "ingest" THEN "read file" ELSE "source ref"
<1>1. StoresAreSound' /\ StoresGrow
    BY InvariantAt, QuietStores DEF Start
<1>2. c \in Call /\ s \in Steps
    BY NoCallTypes DEF Steps
<1>3. /\ LocalTypeOK'
      /\ pc'[p] = s /\ call'[p] = c /\ result'[p] = None
      /\ \A q \in Procs \ {p} :
             pc'[q] = pc[q] /\ call'[q] = call[q] /\ result'[q] = result[q]
    BY <1>2 DEF Start, Goto, IInv, CallsAreSound, LocalTypeOK
<1>4. AnswerOK(p)'
    BY <1>3 DEF AnswerOK, Told
<1>5. /\ c.op = o /\ c.sourceRef = 0 /\ c.source = NoRev /\ c.planRef = 0
      /\ c.plan = NoRev /\ c.put = 0
    BY DEF NoCall
<1>6. s \in {"read file", "source ref"} /\ (s = "read file" <=> o = "ingest")
    OBVIOUS
<1>7. LocalOK(p)'
  <2> HIDE DEF c, s
  <2> QED
    BY <1>3, <1>5, <1>6 DEF LocalOK, OpOK, SourceOK, PlanOK, WrittenOK, Ingesting, Choosing,
           ReadingPlan, Planning, WritingSource, WritingPlan
<1> QED
    BY <1>1, <1>3, <1>4, <1>7, OneMoves

\* The file is read.
LEMMA ReadFileSound ==
    ASSUME IInv, NEW p \in Procs, ReadFile(p)
    PROVE  IInv'
PROOF
<1>1. StoresAreSound' /\ StoresGrow
    BY InvariantAt, QuietStores DEF ReadFile
<1>2. PICK t \in Texts : Continue(p, "source ref", [call[p] EXCEPT !.text = t])
    BY DEF ReadFile
<1> DEFINE c == [call[p] EXCEPT !.text = t]
<1>3. c \in Call /\ "source ref" \in Steps
    BY InvariantAt, SetTypes DEF Steps
<1>4. pc[p] = "read file"
    BY DEF ReadFile
<1>5. /\ call[p].op = "ingest" /\ call[p].sourceRef = 0 /\ call[p].source = NoRev
      /\ call[p].planRef = 0 /\ call[p].plan = NoRev /\ call[p].put = 0
    BY <1>4, InvariantAt DEF OpOK, SourceOK, PlanOK, WrittenOK, Ingesting, Planning, WritingPlan
<1>6. /\ c.op = "ingest" /\ c.sourceRef = 0 /\ c.source = NoRev /\ c.text = t
      /\ c.planRef = 0 /\ c.plan = NoRev /\ c.put = 0
    BY <1>5, InvariantAt DEF Call
<1>7. pc'[p] = "source ref" /\ call'[p] = c => LocalOK(p)'
  <2> HIDE DEF c
  <2> QED
    BY <1>6 DEF LocalOK, OpOK, SourceOK, PlanOK, WrittenOK, Ingesting, Choosing,
           ReadingPlan, Planning, WritingSource, WritingPlan, Ops
<1> HIDE DEF c
<1> QED
    BY <1>1, <1>2, <1>3, <1>7, GoesOn DEF c

\* What reading the ref and then the target gives is known.
LEMMA ReadingKnows ==
    ASSUME NEW h \in Seq(Revs), GoesUp(h), NEW ref \in DOMAIN h
    PROVE  /\ Knows(h, ref, Last(h))
           /\ Last(h) \in Revs /\ Last(h) # NoRev /\ Last(h) \in 0..MaxRev
           /\ Last(h) \in ToSet(h)
PROOF
<1>1. h # <<>>
    OBVIOUS
<1>2. Last(h) \in ToSet(h) /\ Last(h) \in Revs /\ ref \leq Len(h)
    BY <1>1, HeadTypes
<1> QED
    BY <1>1, <1>2, RevsAreNaturals DEF Knows, NoRev

\* The ref of the source pointer is read.
LEMMA ReadSourceRefSound ==
    ASSUME IInv, NEW p \in Procs, ReadSourceRef(p)
    PROVE  IInv'
PROOF
<1>1. StoresAreSound' /\ StoresGrow
    BY InvariantAt, QuietStores DEF ReadSourceRef
<1>2. /\ pc[p] = "source ref" /\ sourceHead' = sourceHead
    BY DEF ReadSourceRef, heads
<1>3. /\ call[p].op \in Ops /\ call[p].sourceRef = 0 /\ call[p].source = NoRev
      /\ call[p].planRef = 0 /\ call[p].plan = NoRev /\ call[p].put = 0
      /\ call[p].op = "ingest" => call[p].text \in Texts
    BY <1>2, InvariantAt DEF OpOK, SourceOK, PlanOK, WrittenOK, Choosing, Planning, WritingPlan
<1>4. CASE sourceHead # <<>>
  <2> DEFINE n == Len(sourceHead)
             c == [call[p] EXCEPT !.sourceRef = n]
  <2>1. n \in 0..MaxRev /\ n \in DOMAIN sourceHead
    BY <1>4, InvariantAt, HeadTypes
  <2>2. Continue(p, "source", c) /\ c \in Call /\ "source" \in Steps
    BY <1>4, <2>1, InvariantAt, SetTypes DEF Steps, ReadSourceRef
  <2>3. /\ c.op = call[p].op /\ c.sourceRef = n /\ c.source = NoRev /\ c.text = call[p].text
        /\ c.planRef = 0 /\ c.plan = NoRev /\ c.put = 0
    BY <1>3, InvariantAt DEF Call
  <2> HIDE DEF c, n
  <2>4. pc'[p] = "source" /\ call'[p] = c => LocalOK(p)'
    BY <1>2, <1>3, <2>1, <2>3 DEF LocalOK, OpOK, SourceOK, PlanOK, WrittenOK, Ingesting,
       Choosing, ReadingPlan, Planning, WritingSource, WritingPlan
  <2> QED
    BY <1>1, <2>2, <2>4, GoesOn
<1>5. CASE sourceHead = <<>> /\ call[p].op = "ingest"
  <2>1. Continue(p, "alloc source", call[p]) /\ call[p] \in Call /\ "alloc source" \in Steps
    BY <1>5, InvariantAt DEF Steps, ReadSourceRef
  <2>2. Knows(sourceHead, 0, NoRev)
    BY <1>5 DEF Knows
  <2>3. pc'[p] = "alloc source" /\ call'[p] = call[p] => LocalOK(p)'
    BY <1>2, <1>3, <1>5, <2>2 DEF LocalOK, OpOK, SourceOK, PlanOK, WrittenOK, Ingesting,
       Choosing, ReadingPlan, Planning, WritingSource, WritingPlan
  <2> QED
    BY <1>1, <2>1, <2>3, GoesOn
<1>6. CASE sourceHead = <<>> /\ call[p].op # "ingest"
  <2>1. Raise(p, "missing") /\ "missing" \in Statuses \ {"ok"}
    BY <1>6 DEF Statuses, ReadSourceRef
  <2> QED
    BY <1>1, <2>1, Raises
<1> QED
    BY <1>4, <1>5, <1>6

\* The current source is read.
LEMMA ReadSourceSound ==
    ASSUME IInv, NEW p \in Procs, ReadSource(p)
    PROVE  IInv'
PROOF
<1> DEFINE s == Last(sourceHead)
           c == [call[p] EXCEPT !.source = s]
           next == IF c.op = "ingest" THEN "recheck source ref" ELSE "plan ref"
<1>1. StoresAreSound' /\ StoresGrow
    BY InvariantAt, QuietStores DEF ReadSource
<1>2. /\ pc[p] = "source" /\ sourceHead' = sourceHead /\ source' = source
    BY DEF ReadSource, heads, artifacts
<1>3. /\ call[p].op \in Ops /\ call[p].sourceRef \in DOMAIN sourceHead
      /\ call[p].planRef = 0 /\ call[p].plan = NoRev /\ call[p].put = 0
      /\ call[p].op = "ingest" => call[p].text \in Texts
    BY <1>2, InvariantAt DEF OpOK, SourceOK, PlanOK, WrittenOK, Choosing, Planning, WritingPlan
<1>4. /\ Knows(sourceHead, call[p].sourceRef, s)
      /\ s # NoRev /\ s \in 0..MaxRev
    BY <1>3, InvariantAt, ReadingKnows
<1>5. c \in Call
    BY <1>4, InvariantAt, SetTypes
<1>6. /\ c.op = call[p].op /\ c.sourceRef = call[p].sourceRef /\ c.source = s
      /\ c.text = call[p].text /\ c.planRef = 0 /\ c.plan = NoRev /\ c.put = 0
    BY <1>3, InvariantAt DEF Call
<1>7. CASE c.op = "ingest" /\ source[s] # c.text
  <2>1. Continue(p, "alloc source", c) /\ "alloc source" \in Steps
    BY <1>7 DEF Steps, ReadSource
  <2> HIDE DEF c, s
  <2>2. pc'[p] = "alloc source" /\ call'[p] = c => LocalOK(p)'
    BY <1>2, <1>3, <1>4, <1>6, <1>7 DEF LocalOK, OpOK, SourceOK, PlanOK, WrittenOK, Ingesting,
       Choosing, ReadingPlan, Planning, WritingSource, WritingPlan
  <2> QED
    BY <1>1, <1>5, <2>1, <2>2, GoesOn
<1>8. CASE ~(c.op = "ingest" /\ source[s] # c.text) /\ s \notin sourceReport
  <2>1. Done(p, "corrupt", FALSE, c) /\ "corrupt" \in Statuses \ {"ok"}
    BY <1>8 DEF Statuses, ReadSource
  <2> HIDE DEF c
  <2> QED
    BY <1>1, <1>5, <2>1, EndsBadly
<1>9. CASE ~(c.op = "ingest" /\ source[s] # c.text) /\ s \in sourceReport
  <2>1. Continue(p, next, c) /\ next \in Steps
    BY <1>9 DEF Steps, ReadSource
  <2>2. next \in {"recheck source ref", "plan ref"} /\ (next = "plan ref" <=> c.op # "ingest")
    OBVIOUS
  <2> HIDE DEF c, s, next
  <2>3. pc'[p] = next /\ call'[p] = c => LocalOK(p)'
    <3> SUFFICES ASSUME pc'[p] = next, call'[p] = c
                 PROVE  LocalOK(p)'
      OBVIOUS
    <3>1. CASE next = "plan ref"
      BY <1>2, <1>3, <1>4, <1>6, <2>2, <3>1 DEF LocalOK, OpOK, SourceOK, PlanOK, WrittenOK,
         Ingesting, Choosing, ReadingPlan, Planning, WritingSource, WritingPlan, Ops
    <3>2. CASE next = "recheck source ref"
      BY <1>2, <1>3, <1>4, <1>6, <1>9, <2>2, <3>2 DEF LocalOK, OpOK, SourceOK, PlanOK,
         WrittenOK, Ingesting, Choosing, ReadingPlan, Planning, WritingSource, WritingPlan
    <3> QED
      BY <2>2, <3>1, <3>2
  <2> QED
    BY <1>1, <1>5, <2>1, <2>3, GoesOn
<1> QED
    BY <1>7, <1>8, <1>9

\* The ref of the plan pointer is read.
LEMMA ReadPlanRefSound ==
    ASSUME IInv, NEW p \in Procs, ReadPlanRef(p)
    PROVE  IInv'
PROOF
<1>1. StoresAreSound' /\ StoresGrow
    BY InvariantAt, QuietStores DEF ReadPlanRef
<1>2. /\ pc[p] = "plan ref" /\ sourceHead' = sourceHead /\ planHead' = planHead
    BY DEF ReadPlanRef, heads
<1>3. /\ call[p].op \in {"plan", "resolve"}
      /\ Knows(sourceHead, call[p].sourceRef, call[p].source) /\ call[p].source # NoRev
      /\ call[p].planRef = 0 /\ call[p].plan = NoRev /\ call[p].put = 0
    BY <1>2, InvariantAt DEF OpOK, SourceOK, PlanOK, WrittenOK, Choosing, ReadingPlan,
       Planning, WritingPlan
<1>4. CASE planHead # <<>>
  <2> DEFINE n == Len(planHead)
             c == [call[p] EXCEPT !.planRef = n]
  <2>1. n \in 0..MaxRev /\ n \in DOMAIN planHead
    BY <1>4, InvariantAt, HeadTypes
  <2>2. Continue(p, "plan", c) /\ c \in Call /\ "plan" \in Steps
    BY <1>4, <2>1, InvariantAt, SetTypes DEF Steps, ReadPlanRef
  <2>3. /\ c.op = call[p].op /\ c.sourceRef = call[p].sourceRef /\ c.source = call[p].source
        /\ c.planRef = n /\ c.plan = NoRev /\ c.put = 0
    BY <1>3, InvariantAt DEF Call
  <2> HIDE DEF c, n
  <2>4. pc'[p] = "plan" /\ call'[p] = c => LocalOK(p)'
    BY <1>2, <1>3, <2>1, <2>3 DEF LocalOK, OpOK, SourceOK, PlanOK, WrittenOK, Ingesting,
       Choosing, ReadingPlan, Planning, WritingSource, WritingPlan
  <2> QED
    BY <1>1, <2>2, <2>4, GoesOn
<1>5. CASE planHead = <<>> /\ call[p].op = "plan"
  <2>1. Continue(p, "alloc plan", call[p]) /\ call[p] \in Call /\ "alloc plan" \in Steps
    BY <1>5, InvariantAt DEF Steps, ReadPlanRef
  <2>2. Knows(planHead, 0, NoRev)
    BY <1>5 DEF Knows
  <2>3. pc'[p] = "alloc plan" /\ call'[p] = call[p] => LocalOK(p)'
    BY <1>2, <1>3, <1>5, <2>2 DEF LocalOK, OpOK, SourceOK, PlanOK, WrittenOK, Ingesting,
       Choosing, ReadingPlan, Planning, WritingSource, WritingPlan
  <2> QED
    BY <1>1, <2>1, <2>3, GoesOn
<1>6. CASE planHead = <<>> /\ call[p].op # "plan"
  <2>1. Raise(p, "missing") /\ "missing" \in Statuses \ {"ok"}
    BY <1>6 DEF Statuses, ReadPlanRef
  <2> QED
    BY <1>1, <2>1, Raises
<1> QED
    BY <1>4, <1>5, <1>6

\* The current plan is read, and used.
LEMMA ReadPlanSound ==
    ASSUME IInv, NEW p \in Procs, ReadPlan(p)
    PROVE  IInv'
PROOF
<1> DEFINE r == Last(planHead)
           c == [call[p] EXCEPT !.plan = r]
           next == IF manifest[r] = c.source THEN "reuse source" ELSE "alloc plan"
           status == IF manifest[r] = c.source THEN "ok" ELSE "stale"
<1>1. StoresAreSound' /\ StoresGrow
    BY InvariantAt, QuietStores DEF ReadPlan
<1>2. /\ pc[p] = "plan" /\ sourceHead' = sourceHead /\ planHead' = planHead
      /\ manifest' = manifest /\ UsePlan(p, c)
    BY DEF ReadPlan, heads, artifacts
<1>3. /\ call[p].op \in {"plan", "resolve"}
      /\ Knows(sourceHead, call[p].sourceRef, call[p].source) /\ call[p].source # NoRev
      /\ call[p].planRef \in DOMAIN planHead /\ call[p].put = 0
    BY <1>2, InvariantAt DEF OpOK, SourceOK, PlanOK, WrittenOK, Choosing, ReadingPlan,
       Planning, WritingPlan
<1>4. Knows(planHead, call[p].planRef, r) /\ r # NoRev /\ r \in 0..MaxRev
    BY <1>3, InvariantAt, ReadingKnows
<1>5. c \in Call
    BY <1>4, InvariantAt, SetTypes
<1>6. /\ c.op = call[p].op /\ c.sourceRef = call[p].sourceRef /\ c.source = call[p].source
      /\ c.planRef = call[p].planRef /\ c.plan = r /\ c.put = 0
    BY <1>3, InvariantAt DEF Call
<1>7. CASE ~Intact(r)
  <2>1. Done(p, "corrupt", FALSE, c) /\ "corrupt" \in Statuses \ {"ok"}
    BY <1>2, <1>6, <1>7 DEF Statuses, UsePlan
  <2> HIDE DEF c
  <2> QED
    BY <1>1, <1>5, <2>1, EndsBadly
<1>8. CASE Intact(r) /\ c.op = "plan"
  <2>1. Continue(p, next, c) /\ next \in Steps
    BY <1>2, <1>6, <1>8 DEF Steps, UsePlan
  <2>2. next \in {"reuse source", "alloc plan"} /\ (next = "reuse source" => manifest[r] = c.source)
    OBVIOUS
  <2> HIDE DEF c, r, next
  <2>3. pc'[p] = next /\ call'[p] = c => LocalOK(p)'
    BY <1>2, <1>3, <1>4, <1>6, <1>8, <2>2 DEF LocalOK, OpOK, SourceOK, PlanOK,
       WrittenOK, Ingesting, Choosing, ReadingPlan, Planning, WritingSource, WritingPlan
  <2> QED
    BY <1>1, <1>5, <2>1, <2>3, GoesOn
<1>9. CASE Intact(r) /\ c.op # "plan"
  <2>1. Done(p, status, FALSE, c)
    BY <1>2, <1>6, <1>9 DEF UsePlan
  <2> HIDE DEF c, r
  <2>2. CASE manifest[r] = c.source
    <3>1. Done(p, "ok", FALSE, c) /\ FALSE \in BOOLEAN
      BY <2>1, <2>2
    <3>2. result'[p] = [status |-> "ok", call |-> c, reused |-> FALSE] => AnswerOK(p)'
      <4> SUFFICES ASSUME result'[p] = [status |-> "ok", call |-> c, reused |-> FALSE]
                   PROVE  AnswerOK(p)'
        OBVIOUS
      <4>1. c.op = "resolve"
        BY <1>3, <1>6, <1>9
      <4> QED
        BY <1>2, <1>3, <1>4, <1>6, <2>2, <4>1 DEF AnswerOK, Told
    <3> QED
      BY <1>1, <1>5, <3>1, <3>2, Returns
  <2>3. CASE manifest[r] # c.source
    <3>1. Done(p, "stale", FALSE, c) /\ "stale" \in Statuses \ {"ok"}
      BY <2>1, <2>3 DEF Statuses
    <3> QED
      BY <1>1, <1>5, <3>1, EndsBadly
  <2> QED
    BY <2>2, <2>3
<1> QED
    BY <1>7, <1>8, <1>9

\* Ingest answers again with the current source.
LEMMA RecheckSourceRefSound ==
    ASSUME IInv, NEW p \in Procs, RecheckSourceRef(p)
    PROVE  IInv'
PROOF
<1> DEFINE c == call[p]
<1>1. StoresAreSound' /\ StoresGrow
    BY InvariantAt, QuietStores DEF RecheckSourceRef
<1>2. /\ pc[p] = "recheck source ref" /\ sourceHead' = sourceHead /\ source' = source
    BY DEF RecheckSourceRef, heads, artifacts
<1>3. /\ c.op = "ingest" /\ c.text \in Texts
      /\ Knows(sourceHead, c.sourceRef, c.source) /\ c.source # NoRev
      /\ source[c.source] = c.text /\ c \in Call
    BY <1>2, InvariantAt DEF OpOK, SourceOK, Ingesting, Choosing
<1>4. CASE Len(sourceHead) = c.sourceRef
  <2>1. Done(p, "ok", TRUE, c) /\ TRUE \in BOOLEAN
    BY <1>4 DEF RecheckSourceRef
  <2>2. sourceHead # <<>> /\ c.source = Last(sourceHead)
    BY <1>3, <1>4 DEF Knows
  <2>3. c.sourceRef \in DOMAIN sourceHead /\ sourceHead[c.sourceRef] = c.source
    BY <1>4, <2>2, InvariantAt, HeadTypes
  <2>4. result'[p] = [status |-> "ok", call |-> c, reused |-> TRUE] => AnswerOK(p)'
    <3> HIDE DEF c
    <3> SUFFICES ASSUME result'[p] = [status |-> "ok", call |-> c, reused |-> TRUE]
                 PROVE  AnswerOK(p)'
      OBVIOUS
    <3>1. result'[p].call = c
      OBVIOUS
    <3> QED
      BY <1>2, <1>3, <2>3, <3>1 DEF AnswerOK, Told
  <2> QED
    BY <1>1, <1>3, <2>1, <2>4, Returns
<1>5. CASE Len(sourceHead) # c.sourceRef
  <2>1. Raise(p, "moved") /\ "moved" \in Statuses \ {"ok"}
    BY <1>5 DEF Statuses, RecheckSourceRef
  <2> QED
    BY <1>1, <2>1, Raises
<1> QED
    BY <1>4, <1>5

\* What a planner knows while it plans.
LEMMA PlanningKnows ==
    ASSUME IInv, NEW p \in Procs, pc[p] \in Planning
    PROVE  /\ call[p] \in Call /\ call[p].op = "plan"
           /\ Knows(sourceHead, call[p].sourceRef, call[p].source) /\ call[p].source # NoRev
           /\ Knows(planHead, call[p].planRef, call[p].plan)
           /\ call[p].source \in Revs /\ source[call[p].source] # None
           /\ call[p].source \in ToSet(sourceHead) /\ sourceHead # <<>>
           /\ pc[p] \notin WritingPlan => call[p].put = 0
PROOF
<1>1. /\ call[p] \in Call /\ call[p].op = "plan"
      /\ Knows(sourceHead, call[p].sourceRef, call[p].source) /\ call[p].source # NoRev
      /\ Knows(planHead, call[p].planRef, call[p].plan)
      /\ pc[p] \notin WritingPlan => call[p].put = 0
    BY InvariantAt DEF OpOK, SourceOK, PlanOK, WrittenOK, Planning, Choosing
<1>2. /\ call[p].source \in Revs /\ source[call[p].source] # None
      /\ call[p].source \in ToSet(sourceHead)
    BY <1>1, InvariantAt, KnownSource
<1>3. sourceHead # <<>>
    BY <1>2, InvariantAt, HeadTypes
<1> QED
    BY <1>1, <1>2, <1>3

\* The planner looks at the source again before it reuses the plan: at this
\* moment source and plan are current together, if the plan pointer has not moved.
LEMMA ReuseSourceSound ==
    ASSUME IInv, NEW p \in Procs, ReuseSource(p)
    PROVE  IInv'
PROOF
<1> DEFINE c == call[p]
<1>1. StoresAreSound' /\ StoresGrow
    BY InvariantAt, QuietStores DEF ReuseSource
<1>2. /\ pc[p] = "reuse source" /\ pc[p] \in Planning /\ pc[p] \notin WritingPlan
      /\ sourceHead' = sourceHead /\ planHead' = planHead
      /\ manifest' = manifest /\ together' = together
    BY DEF ReuseSource, heads, artifacts, Planning, WritingPlan
<1>3. /\ c \in Call /\ c.op = "plan" /\ c.put = 0 /\ sourceHead # <<>>
      /\ Knows(sourceHead, c.sourceRef, c.source) /\ c.source # NoRev
      /\ Knows(planHead, c.planRef, c.plan)
    BY <1>2, PlanningKnows
<1>4. c.plan # NoRev /\ manifest[c.plan] = c.source
    BY <1>2, InvariantAt DEF PlanOK
<1>5. CASE Last(sourceHead) = c.source
  <2>1. Continue(p, "reuse plan", c) /\ "reuse plan" \in Steps
    BY <1>5 DEF Steps, ReuseSource
  <2>2. Len(planHead) = c.planRef => <<c.source, c.plan>> \in together
    <3>1. Len(planHead) = c.planRef => planHead # <<>> /\ c.plan = Last(planHead)
      BY <1>3, <1>4 DEF Knows
    <3> QED
      BY <1>3, <1>5, <3>1, InvariantAt DEF NowIsTogether, Current
  <2>3. pc'[p] = "reuse plan" /\ call'[p] = c => LocalOK(p)'
    <3> HIDE DEF c
    <3> QED
      BY <1>2, <1>3, <1>4, <2>2 DEF LocalOK, OpOK, SourceOK, PlanOK, WrittenOK, Ingesting,
         Choosing, ReadingPlan, Planning, WritingSource, WritingPlan
  <2> QED
    BY <1>1, <1>3, <2>1, <2>3, GoesOn
<1>6. CASE Last(sourceHead) # c.source
  <2>1. Raise(p, "moved") /\ "moved" \in Statuses \ {"ok"}
    BY <1>6 DEF Statuses, ReuseSource
  <2> QED
    BY <1>1, <2>1, Raises
<1> QED
    BY <1>5, <1>6

\* The planner answers again with the current plan.
LEMMA ReusePlanSound ==
    ASSUME IInv, NEW p \in Procs, ReusePlan(p)
    PROVE  IInv'
PROOF
<1> DEFINE c == call[p]
<1>1. StoresAreSound' /\ StoresGrow
    BY InvariantAt, QuietStores DEF ReusePlan
<1>2. /\ pc[p] = "reuse plan" /\ pc[p] \in Planning
      /\ planHead' = planHead /\ manifest' = manifest /\ together' = together
    BY DEF ReusePlan, heads, artifacts, Planning
<1>3. /\ c \in Call /\ c.op = "plan" /\ c.source # NoRev
      /\ Knows(planHead, c.planRef, c.plan)
    BY <1>2, PlanningKnows
<1>4. /\ c.plan # NoRev /\ manifest[c.plan] = c.source
      /\ Len(planHead) = c.planRef => <<c.source, c.plan>> \in together
    BY <1>2, InvariantAt DEF PlanOK
<1>5. CASE Len(planHead) = c.planRef
  <2>1. Done(p, "ok", TRUE, c) /\ TRUE \in BOOLEAN
    BY <1>5 DEF ReusePlan
  <2>2. planHead # <<>> /\ c.plan = Last(planHead)
    BY <1>3, <1>4, <1>5 DEF Knows
  <2>3. c.planRef \in DOMAIN planHead /\ planHead[c.planRef] = c.plan
    BY <1>5, <2>2, InvariantAt, HeadTypes
  <2>4. result'[p] = [status |-> "ok", call |-> c, reused |-> TRUE] => AnswerOK(p)'
    <3> HIDE DEF c
    <3> SUFFICES ASSUME result'[p] = [status |-> "ok", call |-> c, reused |-> TRUE]
                 PROVE  AnswerOK(p)'
      OBVIOUS
    <3>1. result'[p].call = c
      OBVIOUS
    <3> QED
      BY <1>2, <1>3, <1>4, <1>5, <2>3, <3>1 DEF AnswerOK, Told
  <2> QED
    BY <1>1, <1>3, <2>1, <2>4, Returns
<1>6. CASE Len(planHead) # c.planRef
  <2>1. Raise(p, "moved") /\ "moved" \in Statuses \ {"ok"}
    BY <1>6 DEF Statuses, ReusePlan
  <2> QED
    BY <1>1, <2>1, Raises
<1> QED
    BY <1>5, <1>6

\* A revision is chosen for a source.
LEMMA AllocSourceSound ==
    ASSUME IInv, NEW p \in Procs, AllocSource(p)
    PROVE  IInv'
PROOF
<1>1. StoresAreSound' /\ StoresGrow
    BY InvariantAt, QuietStores DEF AllocSource
<1>2. /\ pc[p] = "alloc source" /\ sourceHead' = sourceHead
    BY DEF AllocSource, heads
<1>3. PICK r \in FirstAfter(call[p].source, FreeSources) :
          Continue(p, "put source", [call[p] EXCEPT !.rev = r])
    BY DEF AllocSource
<1> DEFINE c == [call[p] EXCEPT !.rev = r]
<1>4. r \in Revs /\ r > call[p].source /\ r \in 0..MaxRev
    BY <1>3, RevsAreNaturals DEF FirstAfter, FreeSources
<1>5. c \in Call /\ "put source" \in Steps
    BY <1>4, InvariantAt, SetTypes DEF Steps
<1>6. /\ c.op = "ingest" /\ c.text \in Texts /\ c.rev = r /\ c.source = call[p].source
      /\ Knows(sourceHead, c.sourceRef, c.source)
      /\ c.planRef = 0 /\ c.plan = NoRev /\ c.put = 0
    BY <1>2, InvariantAt DEF OpOK, SourceOK, PlanOK, WrittenOK, Ingesting, Choosing, Planning,
       WritingPlan, Call
<1> HIDE DEF c
<1>7. pc'[p] = "put source" /\ call'[p] = c => LocalOK(p)'
    BY <1>2, <1>4, <1>6 DEF LocalOK, OpOK, SourceOK, PlanOK, WrittenOK, Ingesting,
       Choosing, ReadingPlan, Planning, WritingSource, WritingPlan
<1> QED
    BY <1>1, <1>3, <1>5, <1>7, GoesOn DEF c

\* A revision is chosen for a plan.
LEMMA AllocPlanSound ==
    ASSUME IInv, NEW p \in Procs, AllocPlan(p)
    PROVE  IInv'
PROOF
<1>1. StoresAreSound' /\ StoresGrow
    BY InvariantAt, QuietStores DEF AllocPlan
<1>2. /\ pc[p] = "alloc plan" /\ pc[p] \in Planning /\ pc[p] \notin WritingPlan
      /\ sourceHead' = sourceHead /\ planHead' = planHead /\ source' = source
    BY DEF AllocPlan, heads, artifacts, Planning, WritingPlan
<1>3. PICK r \in FirstAfter(call[p].plan, FreePlans(call[p].source)) :
          Continue(p, "put chunk", [call[p] EXCEPT !.rev = r])
    BY DEF AllocPlan
<1> DEFINE c == [call[p] EXCEPT !.rev = r]
<1>4. r \in Revs /\ r > call[p].plan /\ r \in 0..MaxRev
    BY <1>3, RevsAreNaturals DEF FirstAfter, FreePlans
<1>5. c \in Call /\ "put chunk" \in Steps
    BY <1>4, InvariantAt, SetTypes DEF Steps
<1>6. /\ c.op = "plan" /\ c.rev = r /\ c.source = call[p].source /\ c.plan = call[p].plan
      /\ Knows(sourceHead, c.sourceRef, c.source) /\ c.source # NoRev
      /\ Knows(planHead, c.planRef, c.plan) /\ c.put = 0
    BY <1>2, PlanningKnows DEF Call
<1>7. PICK s \in Revs : s = call[p].source /\ source[s] # None
    BY <1>2, PlanningKnows
<1>8. PICK n \in Nat \ {0} : n = Len(PlannedChunks(s))
    BY <1>7, InvariantAt, PlannedTypes
<1>9. PlannedChunks(s)' = PlannedChunks(s)
    BY <1>2 DEF PlannedChunks
<1> HIDE DEF c
<1>10. \A i \in 1..c.put : FALSE
    BY <1>6
<1>11. c.rev \in Revs /\ c.rev > c.plan /\ 0 < Len(PlannedChunks(s)) /\ 0 \leq Len(PlannedChunks(s))
    BY <1>4, <1>6, <1>8
<1>12. pc'[p] = "put chunk" /\ call'[p] = c => LocalOK(p)'
  <2> SUFFICES ASSUME pc'[p] = "put chunk", call'[p] = c
               PROVE  LocalOK(p)'
    OBVIOUS
  <2>1. OpOK(p)'
    BY <1>6 DEF OpOK, Ingesting, Choosing, ReadingPlan, Planning
  <2>2. SourceOK(p)'
    BY <1>2, <1>6 DEF SourceOK, Choosing, ReadingPlan, Planning
  <2>3. PlanOK(p)'
    BY <1>2, <1>6 DEF PlanOK, Planning
  <2>4. PlannedChunks(call[p].source)' = PlannedChunks(s)
    <3>1. call'[p].source = s
      BY <1>6, <1>7
    <3> QED
      BY <1>9, <3>1 DEF PlannedChunks
  <2>5. /\ "put chunk" \in WritingPlan /\ "put chunk" \notin WritingSource
        /\ "put chunk" \notin {"put source report", "publish source"}
        /\ "put chunk" \notin {"put plan report", "recheck source", "publish plan"}
    BY DEF WritingSource, WritingPlan
  <2>6. WrittenOK(p)'
      BY <1>6, <1>10, <1>11, <2>4, <2>5 DEF WrittenOK
  <2> QED
    BY <2>1, <2>2, <2>3, <2>6 DEF LocalOK
<1> QED
    BY <1>1, <1>3, <1>5, <1>12, GoesOn DEF c

\* A source is written: nothing that was there changes.
LEMMA PutSourceSound ==
    ASSUME IInv, NEW p \in Procs, PutSource(p)
    PROVE  IInv'
PROOF
<1> DEFINE c == call[p]
<1>1. /\ pc[p] = "put source" /\ sourceHead' = sourceHead /\ planHead' = planHead
      /\ together' = together /\ sourceReport' = sourceReport /\ chunk' = chunk
      /\ manifest' = manifest /\ planReport' = planReport
    BY DEF PutSource, heads
<1>2. /\ c \in Call /\ c.op = "ingest" /\ c.text \in Texts
      /\ Knows(sourceHead, c.sourceRef, c.source)
      /\ c.rev \in Revs /\ c.rev > c.source
      /\ c.planRef = 0 /\ c.plan = NoRev /\ c.put = 0
    BY <1>1, InvariantAt DEF OpOK, SourceOK, PlanOK, WrittenOK, Ingesting, Choosing, Planning,
       WritingSource, WritingPlan
<1>3. CASE source[c.rev] \in {None, c.text}
  <2>1. /\ source' = [source EXCEPT ![c.rev] = c.text]
        /\ Continue(p, "put source report", c) /\ "put source report" \in Steps
    BY <1>3 DEF PutSource, Steps
  <2> HIDE DEF c
  <2>2. StoreTypeOK'
    BY <1>1, <1>2, <2>1, InvariantAt DEF StoreTypeOK
  <2>3. StoresGrow
    <3>1. \A r \in Revs : source[r] # None => source'[r] = source[r]
      BY <1>2, <1>3, <2>1, InvariantAt DEF StoreTypeOK
    <3> QED
      BY <1>1, <3>1 DEF StoresGrow, Grows
  <2>4. StoresAreSound'
    BY <1>1, <2>2, <2>3, InvariantAt, StoresStaySound
  <2>5. source'[c.rev] = c.text
    BY <1>2, <2>1, InvariantAt DEF StoreTypeOK
  <2>6. pc'[p] = "put source report" /\ call'[p] = c => LocalOK(p)'
    BY <1>1, <1>2, <2>5 DEF LocalOK, OpOK, SourceOK, PlanOK, WrittenOK, Ingesting,
       Choosing, ReadingPlan, Planning, WritingSource, WritingPlan
  <2> QED
    BY <1>2, <2>1, <2>3, <2>4, <2>6, GoesOn
<1>4. CASE source[c.rev] \notin {None, c.text}
  <2>1. Raise(p, "conflict") /\ "conflict" \in Statuses \ {"ok"}
    BY <1>4 DEF PutSource, Statuses
  <2>2. StoresAreSound' /\ StoresGrow
    <3>1. source' = source
      BY <1>4 DEF PutSource
    <3> QED
      BY <1>1, <3>1, InvariantAt, QuietStores DEF artifacts, heads
  <2> QED
    BY <2>1, <2>2, Raises
<1> QED
    BY <1>3, <1>4

\* The report of a source is written.
LEMMA PutSourceReportSound ==
    ASSUME IInv, NEW p \in Procs, PutSourceReport(p)
    PROVE  IInv'
PROOF
<1> DEFINE c == call[p]
<1>1. /\ pc[p] = "put source report" /\ sourceHead' = sourceHead /\ planHead' = planHead
      /\ together' = together /\ source' = source /\ chunk' = chunk
      /\ manifest' = manifest /\ planReport' = planReport
      /\ sourceReport' = sourceReport \union {c.rev}
      /\ Continue(p, "publish source", c) /\ "publish source" \in Steps
    BY DEF PutSourceReport, heads, Steps
<1>2. /\ c \in Call /\ c.op = "ingest" /\ c.text \in Texts
      /\ Knows(sourceHead, c.sourceRef, c.source)
      /\ c.rev \in Revs /\ c.rev > c.source /\ source[c.rev] = c.text
      /\ c.planRef = 0 /\ c.plan = NoRev /\ c.put = 0
    BY <1>1, InvariantAt DEF OpOK, SourceOK, PlanOK, WrittenOK, Ingesting, Choosing, Planning,
       WritingSource, WritingPlan
<1> HIDE DEF c
<1>3. StoreTypeOK'
    BY <1>1, <1>2, InvariantAt DEF StoreTypeOK
<1>4. StoresGrow
    BY <1>1 DEF StoresGrow, Grows
<1>5. StoresAreSound'
    BY <1>1, <1>3, <1>4, InvariantAt, StoresStaySound
<1>6. pc'[p] = "publish source" /\ call'[p] = c => LocalOK(p)'
    BY <1>1, <1>2 DEF LocalOK, OpOK, SourceOK, PlanOK, WrittenOK, Ingesting,
       Choosing, ReadingPlan, Planning, WritingSource, WritingPlan
<1> QED
    BY <1>1, <1>2, <1>4, <1>5, <1>6, GoesOn

\* What a planner knows of its plan while it writes it.
LEMMA WritingKnows ==
    ASSUME IInv, NEW p \in Procs, pc[p] \in WritingPlan
    PROVE  /\ pc[p] \in Planning
           /\ call[p].rev \in Revs /\ call[p].rev > call[p].plan
           /\ call[p].put \in Nat /\ call[p].put \leq Len(PlannedChunks(call[p].source))
           /\ \A i \in 1..call[p].put :
                  chunk[call[p].rev][PlannedChunks(call[p].source)[i]] = call[p].source
           /\ pc[p] = "put chunk" <=> call[p].put < Len(PlannedChunks(call[p].source))
PROOF
    BY InvariantAt DEF WrittenOK, WritingPlan, Planning, Call

\* What a planner that goes on writing its plan must know.
LEMMA WritingGoesOn ==
    ASSUME IInv, NEW p \in Procs, pc[p] \in WritingPlan, NEW s \in WritingPlan,
           NEW c \in Call, c = [call[p] EXCEPT !.put = c.put],
           Continue(p, s, c), StoreTypeOK', StoresGrow,
           UNCHANGED <<sourceHead, planHead>>,
           c.put \leq Len(PlannedChunks(c.source)),
           s = "put chunk" <=> c.put < Len(PlannedChunks(c.source)),
           \A i \in 1..c.put : chunk'[c.rev][PlannedChunks(c.source)[i]] = c.source,
           s \in {"put plan report", "recheck source", "publish plan"} =>
               manifest'[c.rev] = c.source,
           s \in {"recheck source", "publish plan"} => c.rev \in planReport'
    PROVE  IInv'
PROOF
<1>1. StoresAreSound'
    BY InvariantAt, StoresStaySound
<1>2. /\ call[p] \in Call /\ call[p].op = "plan"
      /\ Knows(sourceHead, call[p].sourceRef, call[p].source) /\ call[p].source # NoRev
      /\ Knows(planHead, call[p].planRef, call[p].plan)
      /\ call[p].source \in Revs /\ source[call[p].source] # None
      /\ call[p].rev \in Revs /\ call[p].rev > call[p].plan
    BY PlanningKnows, WritingKnows
<1>3. /\ c.op = "plan" /\ c.source = call[p].source /\ c.plan = call[p].plan
      /\ c.sourceRef = call[p].sourceRef /\ c.planRef = call[p].planRef
      /\ c.rev = call[p].rev
    BY <1>2 DEF Call
<1>4. PlannedChunks(c.source)' = PlannedChunks(c.source)
    BY <1>2, <1>3, InvariantAt, PlannedTypes
<1>5. s \in Steps /\ s \in Planning /\ s \notin {"reuse source", "reuse plan"}
    BY DEF Steps, WritingPlan, Planning
<1>6. pc'[p] = s /\ call'[p] = c => LocalOK(p)'
  <2> SUFFICES ASSUME pc'[p] = s, call'[p] = c
               PROVE  LocalOK(p)'
    OBVIOUS
  <2>1. OpOK(p)'
    BY <1>3, <1>5 DEF OpOK, Ingesting, Choosing, ReadingPlan, Planning
  <2>2. SourceOK(p)'
    BY <1>2, <1>3 DEF SourceOK, Choosing, ReadingPlan, Planning, WritingPlan
  <2>3. PlanOK(p)'
    BY <1>2, <1>3, <1>5 DEF PlanOK, Planning, ReadingPlan
  <2>4. PlannedChunks(call[p].source)' = PlannedChunks(c.source)
    BY <1>4 DEF PlannedChunks
  <2>5. s \notin WritingSource /\ s \notin {"put source report", "publish source"}
    BY DEF WritingSource, WritingPlan
  <2>6. WrittenOK(p)'
    BY <1>2, <1>3, <2>4, <2>5 DEF WrittenOK
  <2> QED
    BY <2>1, <2>2, <2>3, <2>6 DEF LocalOK
<1> QED
    BY <1>1, <1>5, <1>6, GoesOn

\* A chunk is written.
LEMMA PutChunkSound ==
    ASSUME IInv, NEW p \in Procs, PutChunk(p)
    PROVE  IInv'
PROOF
<1>1. PICK k : k = call[p]
    OBVIOUS
<1>2. PICK plan : plan = PlannedChunks(k.source)
    OBVIOUS
<1> DEFINE id == plan[k.put + 1]
           last == k.put + 1 = Len(plan)
           s == IF last THEN "put manifest" ELSE "put chunk"
           c == [k EXCEPT !.put = k.put + 1]
<1>3. /\ pc[p] = "put chunk" /\ pc[p] \in WritingPlan
      /\ source' = source /\ sourceReport' = sourceReport /\ manifest' = manifest
      /\ planReport' = planReport /\ sourceHead' = sourceHead /\ planHead' = planHead
      /\ together' = together
    BY DEF PutChunk, heads, WritingPlan
<1>4. /\ k \in Call /\ k.source \in Revs /\ source[k.source] # None /\ k.source # NoRev
      /\ k.rev \in Revs /\ k.put \in Nat /\ k.put < Len(plan)
      /\ \A i \in 1..k.put : chunk[k.rev][plan[i]] = k.source
    BY <1>1, <1>2, <1>3, PlanningKnows, WritingKnows
<1>5. /\ Len(plan) \in Nat
      /\ \A i \in 1..Len(plan) : plan[i] \in ChunkIds
    BY <1>2, <1>4, InvariantAt, PlannedTypes
<1>6. id \in ChunkIds
    BY <1>4, <1>5
<1>7. CASE chunk[k.rev][id] \in {NoRev, k.source}
  <2>1. /\ chunk' = [chunk EXCEPT ![k.rev][id] = k.source]
        /\ Continue(p, s, c)
    BY <1>1, <1>2, <1>3, <1>7 DEF PutChunk
  <2>2. /\ c \in Call /\ c.put = k.put + 1 /\ c.source = k.source /\ c.rev = k.rev
        /\ c = [call[p] EXCEPT !.put = c.put]
    <3>1. c \in Call /\ c.put = k.put + 1 /\ c.source = k.source /\ c.rev = k.rev
      <4>1. k.put + 1 \in Nat
        BY <1>4
      <4>2. c \in Call
        BY <1>4, <4>1, SetTypes
      <4> QED
        BY <1>4, <4>2 DEF Call
    <3>2. c = [k EXCEPT !.put = c.put]
      BY <1>4, <3>1 DEF Call
    <3> HIDE DEF c
    <3> QED
      BY <1>1, <3>1, <3>2
  <2>3. chunk \in [Revs -> [ChunkIds -> 0..MaxRev]]
    BY InvariantAt DEF StoreTypeOK
  <2> HIDE DEF id, c
  <2>4. chunk' \in [Revs -> [ChunkIds -> 0..MaxRev]] /\ chunk'[k.rev][id] = k.source
    BY <1>4, <1>6, <2>1, <2>3, RevsAreNaturals
  <2>5. StoreTypeOK'
    BY <1>3, <2>4, InvariantAt DEF StoreTypeOK
  <2>6. \A r \in Revs, x \in ChunkIds : chunk[r][x] # NoRev => chunk'[r][x] = chunk[r][x]
    BY <1>4, <1>6, <1>7, <2>1, <2>3
  <2>7. StoresGrow
    BY <1>3, <2>6 DEF StoresGrow, Grows
  <2>8. \A i \in 1..c.put : chunk'[c.rev][plan[i]] = c.source
    <3> SUFFICES ASSUME NEW i \in 1..c.put
                 PROVE  chunk'[c.rev][plan[i]] = c.source
      OBVIOUS
    <3>1. CASE i = k.put + 1
      BY <2>2, <2>4, <3>1 DEF id
    <3>2. CASE i # k.put + 1
      <4>1. i \in 1..k.put /\ i \in 1..Len(plan)
        BY <1>4, <1>5, <2>2, <3>2
      <4> QED
        BY <1>4, <1>5, <2>2, <2>6, <4>1
    <3> QED
      BY <3>1, <3>2
  <2>9. /\ s \in {"put chunk", "put manifest"} /\ s \in WritingPlan
        /\ c.put \leq Len(plan)
        /\ s = "put chunk" <=> c.put < Len(plan)
    BY <1>4, <1>5, <2>2 DEF WritingPlan
  <2>10. plan = PlannedChunks(c.source)
    BY <1>2, <2>2
  <2> HIDE DEF s
  <2> QED
    BY <1>3, <2>1, <2>2, <2>5, <2>7, <2>8, <2>9, <2>10, WritingGoesOn
<1>8. CASE chunk[k.rev][id] \notin {NoRev, k.source}
  <2>1. Raise(p, "conflict") /\ "conflict" \in Statuses \ {"ok"} /\ chunk' = chunk
    BY <1>1, <1>2, <1>3, <1>8 DEF PutChunk, Statuses
  <2>2. StoresAreSound' /\ StoresGrow
    BY <1>3, <2>1, InvariantAt, QuietStores DEF artifacts, heads
  <2> QED
    BY <2>1, <2>2, Raises
<1> QED
    BY <1>7, <1>8

\* The manifest is written.
LEMMA PutManifestSound ==
    ASSUME IInv, NEW p \in Procs, PutManifest(p)
    PROVE  IInv'
PROOF
<1>1. PICK k : k = call[p]
    OBVIOUS
<1>2. PICK plan : plan = PlannedChunks(k.source)
    OBVIOUS
<1>3. /\ pc[p] = "put manifest" /\ pc[p] \in WritingPlan
      /\ source' = source /\ sourceReport' = sourceReport /\ chunk' = chunk
      /\ planReport' = planReport /\ sourceHead' = sourceHead /\ planHead' = planHead
      /\ together' = together
    BY DEF PutManifest, heads, WritingPlan
<1>4. /\ k \in Call /\ k.source \in Revs /\ k.source # NoRev
      /\ k.rev \in Revs /\ k.put \leq Len(plan) /\ ~(k.put < Len(plan))
      /\ \A i \in 1..k.put : chunk[k.rev][plan[i]] = k.source
    BY <1>1, <1>2, <1>3, PlanningKnows, WritingKnows
<1>5. CASE manifest[k.rev] \in {NoRev, k.source}
  <2>1. /\ manifest' = [manifest EXCEPT ![k.rev] = k.source]
        /\ Continue(p, "put plan report", k)
    BY <1>1, <1>3, <1>5 DEF PutManifest
  <2>2. k = [call[p] EXCEPT !.put = k.put]
    BY <1>1, <1>4 DEF Call
  <2>3. manifest \in [Revs -> 0..MaxRev]
    BY InvariantAt DEF StoreTypeOK
  <2>4. /\ manifest' \in [Revs -> 0..MaxRev] /\ manifest'[k.rev] = k.source
        /\ \A r \in Revs : manifest[r] # NoRev => manifest'[r] = manifest[r]
    BY <1>4, <1>5, <2>1, <2>3, RevsAreNaturals
  <2>5. StoreTypeOK'
    BY <1>3, <2>4, InvariantAt DEF StoreTypeOK
  <2>6. StoresGrow
    BY <1>3, <2>4 DEF StoresGrow, Grows
  <2>7. /\ "put plan report" \in WritingPlan /\ "put plan report" # "put chunk"
        /\ "put plan report" \notin {"recheck source", "publish plan"}
    BY DEF WritingPlan
  <2> QED
    BY <1>2, <1>3, <1>4, <2>1, <2>2, <2>4, <2>5, <2>6, <2>7, WritingGoesOn
<1>6. CASE manifest[k.rev] \notin {NoRev, k.source}
  <2>1. Raise(p, "conflict") /\ "conflict" \in Statuses \ {"ok"} /\ manifest' = manifest
    BY <1>1, <1>3, <1>6 DEF PutManifest, Statuses
  <2>2. StoresAreSound' /\ StoresGrow
    BY <1>3, <2>1, InvariantAt, QuietStores DEF artifacts, heads
  <2> QED
    BY <2>1, <2>2, Raises
<1> QED
    BY <1>5, <1>6

\* The report of the plan is written.
LEMMA PutPlanReportSound ==
    ASSUME IInv, NEW p \in Procs, PutPlanReport(p)
    PROVE  IInv'
PROOF
<1>1. PICK k : k = call[p]
    OBVIOUS
<1>2. PICK plan : plan = PlannedChunks(k.source)
    OBVIOUS
<1>3. /\ pc[p] = "put plan report" /\ pc[p] \in WritingPlan /\ pc[p] # "put chunk"
      /\ source' = source /\ sourceReport' = sourceReport /\ chunk' = chunk
      /\ manifest' = manifest /\ sourceHead' = sourceHead /\ planHead' = planHead
      /\ together' = together
      /\ planReport' = planReport \union {k.rev} /\ Continue(p, "recheck source", k)
    BY <1>1 DEF PutPlanReport, heads, WritingPlan
<1>4. /\ k \in Call /\ k.rev \in Revs /\ k.put \leq Len(plan) /\ ~(k.put < Len(plan))
      /\ \A i \in 1..k.put : chunk[k.rev][plan[i]] = k.source
    BY <1>1, <1>2, <1>3, PlanningKnows, WritingKnows
<1>5. manifest[k.rev] = k.source
    BY <1>1, <1>3, InvariantAt DEF WrittenOK
<1>6. k = [call[p] EXCEPT !.put = k.put]
    BY <1>1, <1>4 DEF Call
<1>7. StoreTypeOK'
  <2>1. planReport' \subseteq Revs
    BY <1>3, <1>4, InvariantAt DEF StoreTypeOK
  <2> QED
    BY <1>3, <2>1, InvariantAt DEF StoreTypeOK
<1>8. StoresGrow
    BY <1>3 DEF StoresGrow, Grows
<1>9. "recheck source" \in WritingPlan /\ "recheck source" # "put chunk"
    BY DEF WritingPlan
<1>10. k.rev \in planReport'
    BY <1>3
<1> QED
    BY <1>2, <1>3, <1>4, <1>5, <1>6, <1>7, <1>8, <1>9, <1>10, WritingGoesOn

\* The planner looks at the source again before it publishes.
LEMMA RecheckSourceSound ==
    ASSUME IInv, NEW p \in Procs, RecheckSource(p)
    PROVE  IInv'
PROOF
<1>1. PICK k : k = call[p]
    OBVIOUS
<1>2. PICK plan : plan = PlannedChunks(k.source)
    OBVIOUS
<1>3. /\ pc[p] = "recheck source" /\ pc[p] \in WritingPlan /\ pc[p] # "put chunk"
      /\ sourceHead' = sourceHead /\ planHead' = planHead
      /\ chunk' = chunk /\ manifest' = manifest /\ planReport' = planReport
    BY DEF RecheckSource, heads, artifacts, WritingPlan
<1>4. StoresAreSound' /\ StoreTypeOK' /\ StoresGrow
    BY InvariantAt, QuietStores DEF RecheckSource, StoresAreSound
<1>5. CASE Last(sourceHead) = k.source
  <2>1. Continue(p, "publish plan", k)
    BY <1>1, <1>5 DEF RecheckSource
  <2>2. /\ k \in Call /\ k.rev \in Revs /\ k.put \leq Len(plan) /\ ~(k.put < Len(plan))
        /\ \A i \in 1..k.put : chunk[k.rev][plan[i]] = k.source
    BY <1>1, <1>2, <1>3, PlanningKnows, WritingKnows
  <2>3. manifest[k.rev] = k.source /\ k.rev \in planReport
    BY <1>1, <1>3, InvariantAt DEF WrittenOK
  <2>4. k = [call[p] EXCEPT !.put = k.put]
    BY <1>1, <2>2 DEF Call
  <2>5. "publish plan" \in WritingPlan /\ "publish plan" # "put chunk"
    BY DEF WritingPlan
  <2> QED
    BY <1>2, <1>3, <1>4, <2>1, <2>2, <2>3, <2>4, <2>5, WritingGoesOn
<1>6. CASE Last(sourceHead) # k.source
  <2>1. Raise(p, "moved") /\ "moved" \in Statuses \ {"ok"}
    BY <1>1, <1>6 DEF RecheckSource, Statuses
  <2> QED
    BY <1>4, <2>1, Raises
<1> QED
    BY <1>5, <1>6

\* A read or a write fails, or the process dies.
LEMMA FailsSound ==
    ASSUME IInv, NEW p \in Procs, Fails(p)
    PROVE  IInv'
PROOF
<1>1. StoresAreSound' /\ StoresGrow
    BY InvariantAt, QuietStores DEF Fails
<1>2. Raise(p, "failed") /\ "failed" \in Statuses \ {"ok"}
    BY DEF Fails, Statuses
<1> QED
    BY <1>1, <1>2, Raises

-----------------------------------------------------------------------------
(* Publication.                                                            *)

\* What compare_and_set makes of a pointer, if the target is above what the
\* writer knows of it.
LEMMA SwapGoesUp ==
    ASSUME NEW h \in Seq(Revs), GoesUp(h), NEW ref \in Nat, NEW base \in Nat,
           Knows(h, ref, base), NEW x \in Revs, x > base,
           NEW k, k = CompareAndSet(h, ref, x)
    PROVE  /\ k \in Seq(Revs) /\ GoesUp(k) /\ Grows(h, k)
           /\ k = h \/ k = Append(h, x)
           /\ Replaces(h, ref) \/ Retries(h, ref, x) =>
                  Len(k) \in DOMAIN k /\ k[Len(k)] = x
PROOF
<1>1. x \in Nat /\ x > 0 /\ Len(h) \in Nat /\ DOMAIN h = 1..Len(h)
    BY RevsAreNaturals
<1>2. CASE ~Replaces(h, ref)
  <2>1. k = h
    BY <1>2 DEF CompareAndSet
  <2>2. Retries(h, ref, x) => h # <<>> /\ Last(h) = x
    BY <1>1 DEF Retries
  <2> QED
    BY <1>2, <2>1, <2>2, HeadTypes DEF Grows
<1>3. CASE Replaces(h, ref)
  <2>1. base = IF h = <<>> THEN NoRev ELSE Last(h)
    BY <1>3 DEF Knows, Replaces
  <2>2. h = <<>> \/ Last(h) # x
    BY <1>1, <2>1
  <2>3. k = Append(h, x)
    BY <1>3, <2>2 DEF CompareAndSet
  <2>4. /\ k \in Seq(Revs) /\ Len(k) = Len(h) + 1 /\ DOMAIN k = 1..(Len(h) + 1)
        /\ k[Len(h) + 1] = x
        /\ \A i \in DOMAIN h : k[i] = h[i]
    BY <1>1, <2>3
  <2>5. \A i \in DOMAIN h : h[i] < x
    <3> SUFFICES ASSUME NEW i \in DOMAIN h
                 PROVE  h[i] < x
      OBVIOUS
    <3>1. h # <<>> /\ Last(h) = h[Len(h)] /\ Last(h) = base
      BY <1>1, <2>1 DEF Last
    <3>2. i < Len(h) => h[i] < h[Len(h)]
      BY <1>1 DEF GoesUp
    <3>3. h[i] \in Nat
      BY RevsAreNaturals
    <3>4. i < Len(h) \/ i = Len(h)
      BY <1>1
    <3>5. h[i] \leq base
      <4>1. h[Len(h)] = base
        BY <3>1
      <4>2. CASE i < Len(h)
        BY <3>2, <3>3, <4>1, <4>2
      <4>3. CASE i = Len(h)
        BY <3>3, <4>1, <4>3
      <4> QED
        BY <3>4, <4>2, <4>3
    <3> QED
      BY <1>1, <3>3, <3>5
  <2>6. Len(h) + 1 \leq x
    <3>1. CASE h = <<>>
      BY <1>1, <3>1
    <3>2. CASE h # <<>>
      <4>1. Len(h) \in DOMAIN h /\ Len(h) \leq h[Len(h)]
        BY <1>1, <3>2, EmptySeq DEF GoesUp
      <4>2. h[Len(h)] < x /\ h[Len(h)] \in Nat
        BY <2>5, <4>1, RevsAreNaturals
      <4> QED
        BY <1>1, <4>1, <4>2
    <3> QED
      BY <3>1, <3>2
  <2>7. GoesUp(k)
    <3> SUFFICES ASSUME NEW i \in DOMAIN k
                 PROVE  i \leq k[i] /\ \A j \in DOMAIN k : j < i => k[j] < k[i]
      BY DEF GoesUp
    <3>1. CASE i = Len(h) + 1
      <4>1. \A j \in DOMAIN k : j < i => j \in DOMAIN h
        BY <1>1, <2>4, <3>1
      <4> QED
        BY <2>4, <2>5, <2>6, <3>1, <4>1
    <3>2. CASE i # Len(h) + 1
      <4>1. i \in DOMAIN h /\ \A j \in DOMAIN k : j < i => j \in DOMAIN h
        BY <1>1, <2>4, <3>2
      <4> QED
        BY <2>4, <4>1 DEF GoesUp
    <3> QED
      BY <3>1, <3>2
  <2>8. Len(k) \in DOMAIN k /\ k[Len(k)] = x
    BY <1>1, <2>4
  <2> QED
    BY <2>3, <2>4, <2>7, <2>8 DEF Grows
<1> QED
    BY <1>2, <1>3

\* A source becomes current.
LEMMA PublishSourceSound ==
    ASSUME IInv, NEW p \in Procs, PublishSource(p)
    PROVE  IInv'
PROOF
<1>1. PICK c : c = call[p]
    OBVIOUS
<1>2. PICK heads2 : heads2 = CompareAndSet(sourceHead, c.sourceRef, c.rev)
    OBVIOUS
<1>3. PICK d : d = [c EXCEPT !.sourceRef = Len(heads2), !.source = c.rev]
    OBVIOUS
<1>4. /\ pc[p] = "publish source" /\ sourceHead' = heads2
      /\ source' = source /\ sourceReport' = sourceReport /\ chunk' = chunk
      /\ manifest' = manifest /\ planReport' = planReport /\ planHead' = planHead
      /\ together' = together \union Current(sourceHead', planHead)
    BY <1>1, <1>2 DEF PublishSource, artifacts
<1>5. /\ c \in Call /\ c.op = "ingest" /\ c.text \in Texts
      /\ Knows(sourceHead, c.sourceRef, c.source)
      /\ c.rev \in Revs /\ c.rev > c.source /\ source[c.rev] = c.text
      /\ c.rev \in sourceReport
    BY <1>1, <1>4, InvariantAt DEF OpOK, SourceOK, WrittenOK, Ingesting, Choosing, WritingSource
<1>6. c.sourceRef \in Nat /\ c.source \in Nat
    BY <1>5, BoundsAreNaturals DEF Call
<1>7. /\ heads2 \in Seq(Revs) /\ GoesUp(heads2) /\ Grows(sourceHead, heads2)
      /\ heads2 = sourceHead \/ heads2 = Append(sourceHead, c.rev)
      /\ Replaces(sourceHead, c.sourceRef) \/ Retries(sourceHead, c.sourceRef, c.rev) =>
             Len(heads2) \in DOMAIN heads2 /\ heads2[Len(heads2)] = c.rev
    BY <1>2, <1>5, <1>6, InvariantAt, SwapGoesUp
<1>8. Len(heads2) \in 0..MaxRev
    BY <1>7, HeadTypes
<1>9. Current(heads2, planHead) \subseteq Revs \X Revs
    BY <1>7, InvariantAt, HeadTypes DEF Current
<1>10. StoreTypeOK'
    BY <1>4, <1>7, <1>9, InvariantAt DEF StoreTypeOK
<1>11. StoresGrow
    BY <1>4, <1>7 DEF StoresGrow, Grows
<1>12. StoresAreSound'
  <2>1. HeadsGoUp'
    BY <1>4, <1>7, InvariantAt DEF HeadsGoUp
  <2>2. NowIsTogether'
    BY <1>4 DEF NowIsTogether
  <2>3. \A i \in DOMAIN heads2 : heads2[i] = c.rev \/ \E j \in DOMAIN sourceHead :
            heads2[i] = sourceHead[j]
    <3>1. CASE heads2 = sourceHead
      BY <3>1
    <3>2. CASE heads2 = Append(sourceHead, c.rev)
      BY <1>5, <3>2, InvariantAt
    <3> QED
      BY <1>7, <3>1, <3>2
  <2>4. source[c.rev] # None /\ c.rev \in sourceReport
    BY <1>5, NoneIsNothing
  <2>5. \A i \in DOMAIN heads2 : source[heads2[i]] # None /\ heads2[i] \in sourceReport
    BY <2>3, <2>4, InvariantAt DEF CurrentIsComplete
  <2>6. \A r : r \in ToSet(sourceHead) => r \in ToSet(heads2)
    <3> SUFFICES ASSUME NEW r, r \in ToSet(sourceHead)
                 PROVE  r \in ToSet(heads2)
      OBVIOUS
    <3>1. PICK i \in DOMAIN sourceHead : sourceHead[i] = r
      BY InvariantAt, HeadTypes
    <3>2. i \in DOMAIN heads2 /\ heads2[i] = r
      BY <1>7, <3>1, InvariantAt, PlacesLast
    <3> QED
      BY <1>7, <3>2, HeadTypes
  <2>7. \A i \in DOMAIN planHead : Intact(planHead[i]) /\ manifest[planHead[i]] \in ToSet(heads2)
    BY <2>6, InvariantAt DEF CurrentIsComplete
  <2>8. \A r \in Revs : Intact(r)' <=> Intact(r)
    BY <1>4 DEF Intact, PlannedChunks
  <2>9. CurrentIsComplete'
    <3>1. \A i \in DOMAIN planHead : planHead[i] \in Revs
      BY InvariantAt
    <3>2. (\A i \in DOMAIN planHead :
               Intact(planHead[i]) /\ manifest[planHead[i]] \in ToSet(sourceHead))'
      <4> SUFFICES ASSUME NEW i \in DOMAIN planHead
                   PROVE  (Intact(planHead[i]) /\ manifest[planHead[i]] \in ToSet(sourceHead))'
        BY <1>4
      <4>1. PICK r \in Revs : r = planHead[i]
        BY <3>1
      <4>2. Intact(r)' /\ manifest'[r] \in ToSet(sourceHead')
        BY <1>4, <2>7, <2>8, <4>1
      <4> QED
        BY <1>4, <4>1, <4>2
    <3> QED
      BY <1>4, <2>5, <3>2 DEF CurrentIsComplete
  <2> QED
    BY <1>10, <2>1, <2>2, <2>9 DEF StoresAreSound
<1>13. CASE Replaces(sourceHead, c.sourceRef) \/ Retries(sourceHead, c.sourceRef, c.rev)
  <2>1. Done(p, "ok", FALSE, d) \/ Raise(p, "failed")
    BY <1>1, <1>2, <1>3, <1>4, <1>13 DEF PublishSource
  <2>2. /\ d \in Call /\ d.op = "ingest" /\ d.text = c.text /\ d.source = c.rev
        /\ d.sourceRef = Len(heads2)
    <3>1. d \in Call
      BY <1>3, <1>5, <1>8, RevsAreNaturals, SetTypes
    <3> QED
      BY <1>3, <1>5, <3>1 DEF Call
  <2>3. result'[p] = [status |-> "ok", call |-> d, reused |-> FALSE] => AnswerOK(p)'
    <3> SUFFICES ASSUME result'[p] = [status |-> "ok", call |-> d, reused |-> FALSE]
                 PROVE  AnswerOK(p)'
      OBVIOUS
    <3>1. result'[p].call = d
      OBVIOUS
    <3>2. d.sourceRef \in DOMAIN heads2 /\ heads2[d.sourceRef] = d.source
      BY <1>7, <1>13, <2>2
    <3> QED
      BY <1>4, <1>5, <2>2, <3>1, <3>2 DEF AnswerOK, Told
  <2>4. CASE Done(p, "ok", FALSE, d)
    <3>1. FALSE \in BOOLEAN
      OBVIOUS
    <3> QED
      BY <1>11, <1>12, <2>2, <2>3, <2>4, <3>1, Returns
  <2>5. CASE Raise(p, "failed")
    <3>1. "failed" \in Statuses \ {"ok"}
      BY DEF Statuses
    <3> QED
      BY <1>11, <1>12, <2>5, <3>1, Raises
  <2> QED
    BY <2>1, <2>4, <2>5
<1>14. CASE ~(Replaces(sourceHead, c.sourceRef) \/ Retries(sourceHead, c.sourceRef, c.rev))
  <2>1. Raise(p, "conflict") /\ "conflict" \in Statuses \ {"ok"}
    BY <1>1, <1>14 DEF PublishSource, Statuses
  <2> QED
    BY <1>11, <1>12, <2>1, Raises
<1> QED
    BY <1>13, <1>14

\* A plan becomes current.
LEMMA PublishPlanSound ==
    ASSUME IInv, NEW p \in Procs, PublishPlan(p)
    PROVE  IInv'
PROOF
<1>1. PICK c : c = call[p]
    OBVIOUS
<1>2. PICK heads2 : heads2 = CompareAndSet(planHead, c.planRef, c.rev)
    OBVIOUS
<1>3. PICK d : d = [c EXCEPT !.planRef = Len(heads2), !.plan = c.rev]
    OBVIOUS
<1>4. /\ pc[p] = "publish plan" /\ planHead' = heads2
      /\ pc[p] \in WritingPlan /\ pc[p] \in Planning /\ pc[p] # "put chunk"
      /\ source' = source /\ sourceReport' = sourceReport /\ chunk' = chunk
      /\ manifest' = manifest /\ planReport' = planReport /\ sourceHead' = sourceHead
      /\ together' = together \union Current(sourceHead, planHead')
    BY <1>1, <1>2 DEF PublishPlan, artifacts, WritingPlan, Planning
<1>5. PICK plan : plan = PlannedChunks(c.source)
    OBVIOUS
<1>6. /\ c \in Call /\ c.op = "plan" /\ c.source # NoRev
      /\ Knows(planHead, c.planRef, c.plan)
      /\ c.source \in Revs /\ source[c.source] # None /\ c.source \in ToSet(sourceHead)
    BY <1>1, <1>4, PlanningKnows
<1>7. /\ c.rev \in Revs /\ c.rev > c.plan
      /\ c.put \in Nat /\ c.put \leq Len(plan) /\ ~(c.put < Len(plan))
      /\ \A i \in 1..c.put : chunk[c.rev][plan[i]] = c.source
    BY <1>1, <1>4, <1>5, WritingKnows
<1>8. manifest[c.rev] = c.source /\ c.rev \in planReport
    BY <1>1, <1>4, InvariantAt DEF WrittenOK
<1>9. c.planRef \in Nat /\ c.plan \in Nat
    BY <1>6, BoundsAreNaturals DEF Call
<1>10. /\ heads2 \in Seq(Revs) /\ GoesUp(heads2) /\ Grows(planHead, heads2)
       /\ heads2 = planHead \/ heads2 = Append(planHead, c.rev)
       /\ Replaces(planHead, c.planRef) \/ Retries(planHead, c.planRef, c.rev) =>
              Len(heads2) \in DOMAIN heads2 /\ heads2[Len(heads2)] = c.rev
    BY <1>2, <1>6, <1>7, <1>9, InvariantAt, SwapGoesUp
<1>11. Len(heads2) \in 0..MaxRev
    BY <1>10, HeadTypes
<1>12. Current(sourceHead, heads2) \subseteq Revs \X Revs
    BY <1>10, InvariantAt, HeadTypes DEF Current
<1>13. StoreTypeOK'
    BY <1>4, <1>10, <1>12, InvariantAt DEF StoreTypeOK
<1>14. StoresGrow
    BY <1>4, <1>10 DEF StoresGrow, Grows
<1>15. Intact(c.rev)
  <2>1. /\ Len(plan) \in Nat /\ ToSet(plan) = {plan[i] : i \in 1..Len(plan)}
    BY <1>5, <1>6, InvariantAt, PlannedTypes DEF ToSet
  <2>2. c.put = Len(plan)
    BY <1>7, <2>1
  <2>3. \A x \in ToSet(plan) : chunk[c.rev][x] = c.source
    BY <1>7, <2>1, <2>2
  <2> QED
    BY <1>5, <1>6, <1>8, <2>3 DEF Intact
<1>16. StoresAreSound'
  <2>1. HeadsGoUp'
    BY <1>4, <1>10, InvariantAt DEF HeadsGoUp
  <2>2. NowIsTogether'
    BY <1>4 DEF NowIsTogether
  <2>3. \A i \in DOMAIN heads2 : heads2[i] = c.rev \/ \E j \in DOMAIN planHead :
            heads2[i] = planHead[j]
    <3>1. CASE heads2 = planHead
      BY <3>1
    <3>2. CASE heads2 = Append(planHead, c.rev)
      BY <1>7, <3>2, InvariantAt
    <3> QED
      BY <1>10, <3>1, <3>2
  <2>4. \A i \in DOMAIN heads2 : Intact(heads2[i]) /\ manifest[heads2[i]] \in ToSet(sourceHead)
    BY <1>6, <1>8, <1>15, <2>3, InvariantAt DEF CurrentIsComplete
  <2>5. \A r \in Revs : Intact(r)' <=> Intact(r)
    BY <1>4 DEF Intact, PlannedChunks
  <2>6. CurrentIsComplete'
    <3>1. \A i \in DOMAIN heads2 : heads2[i] \in Revs
      BY <1>10
    <3>2. (\A i \in DOMAIN planHead :
               Intact(planHead[i]) /\ manifest[planHead[i]] \in ToSet(sourceHead))'
      <4> SUFFICES ASSUME NEW i \in DOMAIN heads2
                   PROVE  (Intact(planHead[i]) /\ manifest[planHead[i]] \in ToSet(sourceHead))'
        BY <1>4
      <4>1. PICK r \in Revs : r = heads2[i]
        BY <3>1
      <4>2. Intact(r)' /\ manifest'[r] \in ToSet(sourceHead')
        BY <1>4, <2>4, <2>5, <4>1
      <4> QED
        BY <1>4, <4>1, <4>2
    <3> QED
      BY <1>4, <3>2, InvariantAt DEF CurrentIsComplete
  <2> QED
    BY <1>13, <2>1, <2>2, <2>6 DEF StoresAreSound
<1>17. CASE Replaces(planHead, c.planRef) \/ Retries(planHead, c.planRef, c.rev)
  <2>1. Done(p, "ok", FALSE, d) \/ Raise(p, "failed")
    BY <1>1, <1>2, <1>3, <1>4, <1>17 DEF PublishPlan
  <2>2. /\ d \in Call /\ d.op = "plan" /\ d.source = c.source /\ d.plan = c.rev
        /\ d.planRef = Len(heads2)
    <3>1. d \in Call
      BY <1>3, <1>6, <1>7, <1>11, RevsAreNaturals, SetTypes
    <3> QED
      BY <1>3, <1>6, <3>1 DEF Call
  <2>3. result'[p] = [status |-> "ok", call |-> d, reused |-> FALSE] => AnswerOK(p)'
    <3> SUFFICES ASSUME result'[p] = [status |-> "ok", call |-> d, reused |-> FALSE]
                 PROVE  AnswerOK(p)'
      OBVIOUS
    <3>1. result'[p].call = d /\ ~result'[p].reused
      OBVIOUS
    <3>2. d.planRef \in DOMAIN heads2 /\ heads2[d.planRef] = d.plan
      BY <1>10, <1>17, <2>2
    <3> QED
      BY <1>4, <1>6, <1>8, <2>2, <3>1, <3>2 DEF AnswerOK, Told
  <2>4. CASE Done(p, "ok", FALSE, d)
    <3>1. FALSE \in BOOLEAN
      OBVIOUS
    <3> QED
      BY <1>14, <1>16, <2>2, <2>3, <2>4, <3>1, Returns
  <2>5. CASE Raise(p, "failed")
    <3>1. "failed" \in Statuses \ {"ok"}
      BY DEF Statuses
    <3> QED
      BY <1>14, <1>16, <2>5, <3>1, Raises
  <2> QED
    BY <2>1, <2>4, <2>5
<1>18. CASE ~(Replaces(planHead, c.planRef) \/ Retries(planHead, c.planRef, c.rev))
  <2>1. Raise(p, "conflict") /\ "conflict" \in Statuses \ {"ok"}
    BY <1>1, <1>18 DEF PublishPlan, Statuses
  <2> QED
    BY <1>14, <1>16, <2>1, Raises
<1> QED
    BY <1>17, <1>18

-----------------------------------------------------------------------------
(* The invariant, and what it promises.                                    *)

\* Nothing is there at first.
LEMMA InitEstablishes == Init => IInv
PROOF
<1> SUFFICES ASSUME Init
             PROVE  IInv
    OBVIOUS
<1>1. StoreTypeOK
    BY BoundsAreNaturals DEF Init, StoreTypeOK, NoRev
<1>2. HeadsGoUp /\ NowIsTogether /\ CurrentIsComplete
    BY DEF Init, HeadsGoUp, GoesUp, NowIsTogether, Current, CurrentIsComplete
<1>3. LocalTypeOK
    BY NoCallTypes DEF Init, LocalTypeOK, Steps
<1>4. ASSUME NEW p \in Procs
      PROVE  LocalOK(p) /\ AnswerOK(p)
  <2>1. pc[p] = "idle" /\ call[p] = NoCall /\ result[p] = None
    BY DEF Init
  <2>2. LocalOK(p)
    BY <2>1 DEF LocalOK, OpOK, SourceOK, PlanOK, WrittenOK, NoCall, Ingesting, Choosing,
       ReadingPlan, Planning, WritingSource, WritingPlan
  <2>3. AnswerOK(p)
    BY <2>1 DEF AnswerOK, Told
  <2> QED
    BY <2>2, <2>3
<1> QED
    BY <1>1, <1>2, <1>3, <1>4 DEF IInv, StoresAreSound, CallsAreSound

\* A step that changes nothing changes nothing the invariant speaks of.
LEMMA StutterPreserves == IInv /\ UNCHANGED vars => IInv'
PROOF
<1> SUFFICES ASSUME IInv, UNCHANGED vars
             PROVE  IInv'
    OBVIOUS
<1>1. UNCHANGED <<artifacts, heads>> /\ pc' = pc /\ call' = call /\ result' = result
    BY DEF vars
<1>2. StoresAreSound' /\ StoreTypeOK' /\ StoresGrow
    BY <1>1, QuietStores DEF IInv, StoresAreSound
<1>3. LocalTypeOK'
    BY <1>1 DEF IInv, CallsAreSound, LocalTypeOK
<1>4. \A p \in Procs : LocalOK(p)' /\ AnswerOK(p)'
    BY <1>1, <1>2, LocalLasts, AnswerLasts
<1> QED
    BY <1>2, <1>3, <1>4 DEF IInv, CallsAreSound

\* Every step of every call keeps the invariant.
LEMMA NextPreserves == IInv /\ [Next]_vars => IInv'
PROOF
<1> SUFFICES ASSUME IInv, [Next]_vars
             PROVE  IInv'
    OBVIOUS
<1>1. ASSUME NEW p \in Procs, Step(p)
      PROVE  IInv'
  <2>1. CASE ReadFile(p) \/ ReadSourceRef(p) \/ ReadSource(p) \/ RecheckSourceRef(p)
    BY <2>1, ReadFileSound, ReadSourceRefSound, ReadSourceSound, RecheckSourceRefSound
  <2>2. CASE AllocSource(p) \/ PutSource(p) \/ PutSourceReport(p) \/ PublishSource(p)
    BY <2>2, AllocSourceSound, PutSourceSound, PutSourceReportSound, PublishSourceSound
  <2>3. CASE ReadPlanRef(p) \/ ReadPlan(p) \/ ReuseSource(p) \/ ReusePlan(p)
    BY <2>3, ReadPlanRefSound, ReadPlanSound, ReuseSourceSound, ReusePlanSound
  <2>4. CASE \/ AllocPlan(p) \/ PutChunk(p) \/ PutManifest(p) \/ PutPlanReport(p)
             \/ RecheckSource(p) \/ PublishPlan(p)
    BY <2>4, AllocPlanSound, PutChunkSound, PutManifestSound, PutPlanReportSound,
       RecheckSourceSound, PublishPlanSound
  <2> QED
    BY <1>1, <2>1, <2>2, <2>3, <2>4 DEF Step
<1>2. CASE Next
    BY <1>1, <1>2, FailsSound, StartSound DEF Next
<1>3. CASE UNCHANGED vars
    BY <1>3, StutterPreserves
<1> QED
    BY <1>2, <1>3

\* The invariant holds at every moment.
THEOREM Invariance == Spec => []IInv
PROOF
<1>1. Init => IInv
    BY InitEstablishes
<1>2. IInv /\ [Next]_vars => IInv'
    BY NextPreserves
<1> QED
    BY <1>1, <1>2, PTL DEF Spec

\* Every variable keeps its type; in particular no pointer, and no ref a call
\* holds, goes beyond the bound, because pointers only go up.
THEOREM TypeCorrectness == Spec => []TypeOK
PROOF
<1>1. IInv => TypeOK
    BY DEF IInv, StoresAreSound, CallsAreSound, StoreTypeOK, LocalTypeOK, TypeOK
<1> QED
    BY <1>1, Invariance, PTL

\* What A1 and A2 have made CURRENT is whole at every moment, whoever died
\* between two writes: source and report, manifest, report and every chunk.
THEOREM CurrentStaysComplete == Spec => []CurrentIsComplete
PROOF
<1>1. IInv => CurrentIsComplete
    BY DEF IInv, StoresAreSound
<1> QED
    BY <1>1, Invariance, PTL

\* Ingest and planner answer with refs that belong together, and a planner that
\* reuses a plan answers with a pair that was CURRENT at one moment.
THEOREM AnswersAreTrue == Spec => []ResultsAreTrue
PROOF
<1>1. IInv => ResultsAreTrue
    BY DEF IInv, CallsAreSound, AnswerOK, ResultsAreTrue
<1> QED
    BY <1>1, Invariance, PTL

\* The upstream guard of the later stages is sound: a snapshot whose two refs
\* have not moved is the current source and its plan.
THEOREM UnmovedSnapshotIsCurrent == Spec => []UnmovedIsCurrent
PROOF
<1>1. IInv => UnmovedIsCurrent
  <2> SUFFICES ASSUME IInv, NEW p \in Procs, Told(p, "resolve"),
                      result[p].call.sourceRef = Len(sourceHead),
                      result[p].call.planRef = Len(planHead)
               PROVE  /\ result[p].call.source = Last(sourceHead)
                      /\ result[p].call.plan = Last(planHead)
                      /\ manifest[result[p].call.plan] = result[p].call.source
    BY DEF UnmovedIsCurrent
  <2>1. PICK c : c = result[p].call
    OBVIOUS
  <2>2. /\ Knows(sourceHead, c.sourceRef, c.source) /\ c.source # NoRev
        /\ Knows(planHead, c.planRef, c.plan) /\ c.plan # NoRev
        /\ manifest[c.plan] = c.source
    BY <2>1 DEF IInv, CallsAreSound, AnswerOK
  <2> QED
    BY <2>1, <2>2 DEF Knows
<1> QED
    BY <1>1, Invariance, PTL

\* A revision is CURRENT at most once: both pointers go up with every
\* publication, so that a ref that is read again names what it named before.
THEOREM PointersGoUp == Spec => []HeadsGoUp
PROOF
<1>1. IInv => HeadsGoUp
    BY DEF IInv, StoresAreSound
<1> QED
    BY <1>1, Invariance, PTL

=============================================================================

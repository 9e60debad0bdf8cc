----------------------- MODULE StoryPublicationProofs -----------------------
(***************************************************************************)
(* The publication of A4, A5 and A6 keeps its promises for any processes,  *)
(* configurations, outputs, calls and bounds.  The invariant says what     *)
(* each call knows at each step (its upstream was CURRENT, its revision is *)
(* above all that were CURRENT if its pointer has not moved, what it wrote *)
(* is there), that pointers only go up, that a revision that is CURRENT or *)
(* about to be is settled (complete, not overtaken, and no call can still  *)
(* make it so), that overtaken work is older than the current input, and   *)
(* that every answer given is true.  A second one says what a call knows   *)
(* while no other is active.                                               *)
(*                                                                         *)
(* The last part is about what A6 publishes: its work in memory, for any   *)
(* stories, profiles and answers of the provider.                          *)
(***************************************************************************)
EXTENDS StoryPublication, StoryAnalysis, FiniteSetTheorems, SequenceTheorems, TLAPS

FirstStage(c) == IF c.first = 3 THEN 4 ELSE c.first

\* A call has answered for the stages before the one it is at.
Shape(c) == c.stage \leq c.last /\ FirstStage(c) + Len(c.answers) = c.stage

LocalTypeOK ==
    /\ pc \in [Procs -> Steps]
    /\ call \in [Procs -> Call \union {None}]
    /\ result \in [Procs -> Result \union {None}]
    /\ shared \in [Procs -> BOOLEAN]
    /\ \A p \in Procs : pc[p] = "idle" <=> call[p] = None
    /\ \A p \in Procs : pc[p] # "idle" => Shape(call[p])
    /\ \A p \in Procs : result[p] # None =>
           FirstStage(result[p]) + Len(result[p].answers) \leq 7

StoreTypeOK ==
    /\ input \in 0..MaxInput
    /\ leaves \in [Stages -> [Revs -> Leaves \union {None}]]
    /\ root \in [Stages -> [Revs -> Root \union {None}]]
    /\ report \subseteq Stages \X Revs
    /\ head \in [Stages -> Seq(Revs)]
    /\ overtaken \subseteq Stages \X Revs

\* The steps of a call, by what it has established.
Opening == {"inputs", "upstream ref", "upstream"}
Writing == {"put leaves", "put root", "put report", "stable", "publish"}
Made == {"current ref", "current", "alloc"} \union Writing
Generated == {"stable before"} \union Made
Reusing == {"reuse upstream", "reuse own"}

\* What was resolved upstream was CURRENT.
UpstreamWasCurrent(c) ==
    IF c.stage = 4 THEN c.up = c.upRef /\ c.up \in 1..input
    ELSE c.upRef \in DOMAIN head[c.stage - 1] /\ c.up = head[c.stage - 1][c.upRef]

\* What p's call knows at each step: of its upstream, of its own pointer and
\* revision, of the revision it answers with, of its work, of what it wrote.
UpstreamOK(p) ==
    /\ pc[p] = "upstream" => call[p].stage > 4 /\ call[p].upRef > 0
    /\ pc[p] \in Steps \ (Opening \union {"idle"}) => UpstreamWasCurrent(call[p])

OwnOK(p) ==
    LET c == call[p]
        own == head[c.stage]
    IN /\ pc[p] \in Opening \union {"own ref", "generate", "stable before", "current ref"} =>
              c.ref = 0 /\ c.rev = 0
       /\ pc[p] \in {"own", "current"} => c.rev = 0 /\ c.ref \in DOMAIN own
       /\ pc[p] = "alloc" =>
              /\ c.ref \leq Len(own)
              /\ c.ref = Len(own) => \A r \in ToSet(own) : r \leq c.rev
       /\ pc[p] \in Writing =>
              /\ c.ref \leq Len(own)
              /\ c.rev \in Revs
              /\ c.ref = Len(own) => \A r \in ToSet(own) : r < c.rev

ReuseOK(p) ==
    LET c == call[p]
        own == head[c.stage]
    IN pc[p] \in Reusing =>
           /\ c.ref \in DOMAIN own
           /\ c.rev \in ToSet(own)
           /\ Matches(c.stage, c.rev, c)
           /\ c.stage < 6 => own[c.ref] = c.rev

WorkOK(p) ==
    LET c == call[p]
    IN /\ pc[p] \in Generated =>
              /\ c.out \in Outputs
              /\ ~c.fresh => UpRef(c.stage) > c.upRef
       /\ pc[p] \in Made /\ c.stage = 4 => c.fresh

WrittenOK(p) ==
    LET c == call[p]
    IN /\ pc[p] \in Writing \ {"put leaves"} =>
              leaves[c.stage][c.rev] = [up |-> c.up, out |-> c.out]
       /\ pc[p] \in {"put report", "stable", "publish"} =>
              root[c.stage][c.rev] = [up |-> c.up, out |-> c.out, config |-> c.config]
       /\ pc[p] \in {"stable", "publish"} => <<c.stage, c.rev>> \in report

LocalOK(p) == UpstreamOK(p) /\ OwnOK(p) /\ ReuseOK(p) /\ WorkOK(p) /\ WrittenOK(p)

CallsAreConsistent == \A p \in Procs : LocalOK(p)

\* The steps that read or reuse, and those in memory before a write.
Reading(p) ==
    \/ ReadInputs(p) \/ ReadUpstreamRef(p) \/ ReadUpstream(p) \/ ReadOwnRef(p)
    \/ ReadOwn(p) \/ ReuseUpstream(p) \/ ReuseOwn(p)
Preparing(p) ==
    \/ Generate(p) \/ StableBefore(p) \/ ReadCurrentRef(p) \/ ReadCurrent(p)
    \/ Alloc(p) \/ Stable(p)

\* Revisions are positive numbers.
LEMMA RevsAreNaturals == \A r \in Revs : r \in Nat /\ r \in 0..MaxRev /\ r > 0
PROOF
    BY BoundsAreNaturals DEF Revs

\* A call that goes on with typed locals is typed.
LEMMA ContinueTypes ==
    ASSUME LocalTypeOK, NEW p \in Procs, NEW s \in Steps \ {"idle"}, NEW c \in Call,
           Shape(c), Continue(p, s, c)
    PROVE  LocalTypeOK'
PROOF
<1>1. c # None
    BY NoneIsNothing
<1>2. /\ pc' = [pc EXCEPT ![p] = s]
      /\ call' = [call EXCEPT ![p] = c]
      /\ result' = result
      /\ shared' = shared
    BY DEF Continue, Goto
<1>3. /\ pc' \in [Procs -> Steps]
      /\ call' \in [Procs -> Call \union {None}]
      /\ result' \in [Procs -> Result \union {None}]
      /\ shared' \in [Procs -> BOOLEAN]
    BY <1>2 DEF LocalTypeOK
<1>4. \A q \in Procs : pc'[q] = "idle" <=> call'[q] = None
    BY <1>1, <1>2 DEF LocalTypeOK
<1>5. \A q \in Procs : pc'[q] # "idle" => Shape(call'[q])
    BY <1>2 DEF LocalTypeOK
<1> QED
    BY <1>2, <1>3, <1>4, <1>5 DEF LocalTypeOK, Shape

\* A call that ends leaves a typed result.
LEMMA EndTypes ==
    ASSUME LocalTypeOK, NEW p \in Procs, NEW c \in Call, NEW h, NEW status \in Statuses,
           FirstStage(c) + Len(c.answers) \leq 7,
           End(p, status, c, h)
    PROVE  LocalTypeOK'
PROOF
<1> DEFINE r == [status |-> status, config |-> c.config, first |-> c.first,
                 answers |-> IF status = "ok" THEN c.answers ELSE <<>>,
                 before |-> status = "ok" /\ c.coherent,
                 after |-> status = "ok" /\ Coherent(c, h)]
<1>1. /\ pc' = [pc EXCEPT ![p] = "idle"]
      /\ call' = [call EXCEPT ![p] = None]
      /\ result' = [result EXCEPT ![p] = r]
      /\ shared' = shared
    BY DEF End, Goto
<1>2. Coherent(c, h) \in BOOLEAN
    BY DEF Coherent
<1>3. c.answers \in Seq(Answer) /\ c.config \in Configs /\ c.first \in 3..6 /\ c.coherent \in BOOLEAN
    BY DEF Call
<1>4. r.answers \in Seq(Answer) /\ Len(r.answers) \leq Len(c.answers)
    BY <1>3
<1>5. r \in Result
    BY <1>2, <1>3, <1>4 DEF Result
<1>6. FirstStage(r) + Len(r.answers) \leq 7
    BY <1>3, <1>4 DEF FirstStage
<1> HIDE DEF r
<1>7. /\ pc' \in [Procs -> Steps]
      /\ call' \in [Procs -> Call \union {None}]
      /\ result' \in [Procs -> Result \union {None}]
      /\ shared' \in [Procs -> BOOLEAN]
    BY <1>1, <1>5 DEF LocalTypeOK, Steps
<1>8. \A q \in Procs : pc'[q] = "idle" <=> call'[q] = None
    BY <1>1 DEF LocalTypeOK
<1>9. \A q \in Procs : pc'[q] # "idle" => Shape(call'[q])
    BY <1>1 DEF LocalTypeOK
<1>10. \A q \in Procs : result'[q] # None => FirstStage(result'[q]) + Len(result'[q].answers) \leq 7
    BY <1>1, <1>6 DEF LocalTypeOK
<1> QED
    BY <1>7, <1>8, <1>9, <1>10 DEF LocalTypeOK, Shape

\* A call that raises leaves a typed result.
LEMMA RaiseTypes ==
    ASSUME LocalTypeOK, NEW p \in Procs, pc[p] # "idle", NEW status \in Statuses, Raise(p, status)
    PROVE  LocalTypeOK'
PROOF
<1>1. call[p] \in Call /\ Shape(call[p])
    BY DEF LocalTypeOK
<1>2. call[p].answers \in Seq(Answer) /\ call[p].stage \in 4..6 /\ call[p].first \in 3..6
    BY <1>1 DEF Call, Stages
<1>3. FirstStage(call[p]) + Len(call[p].answers) \leq 7
    BY <1>1, <1>2 DEF Shape, FirstStage
<1> QED
    BY <1>1, <1>3, EndTypes DEF Raise

\* What starting the next stage keeps and forgets.
LEMMA AtStageTypes ==
    ASSUME NEW c \in Call, NEW s \in Stages
    PROVE  /\ AtStage(c, s) \in Call
           /\ AtStage(c, s).stage = s
           /\ AtStage(c, s).last = c.last
           /\ AtStage(c, s).first = c.first
           /\ AtStage(c, s).config = c.config
           /\ AtStage(c, s).answers = c.answers
           /\ AtStage(c, s).ref = 0
           /\ AtStage(c, s).rev = 0
PROOF
<1>1. 0 \in Nat /\ NoRev \in 0..MaxRev /\ None \in Outputs \union {None} /\ FALSE \in BOOLEAN
    BY BoundsAreNaturals DEF NoRev
<1> QED
    BY <1>1 DEF AtStage, Call, NoRev

\* A stage that answers ends the call or goes on at the next stage.
LEMMA ReturnTypes ==
    ASSUME LocalTypeOK, NEW p \in Procs, NEW c \in Call, Shape(c), NEW reused \in BOOLEAN, NEW h,
           Return(p, c, reused, h)
    PROVE  LocalTypeOK'
PROOF
<1> DEFINE a == [up |-> c.up, ref |-> c.ref, rev |-> c.rev,
                 called |-> c.out # None, reused |-> reused]
           done == [c EXCEPT !.answers = Append(@, a)]
           next == AtStage(done, c.stage + 1)
<1>1. a \in Answer /\ c.answers \in Seq(Answer)
    BY DEF Answer, Call
<1>2. Append(c.answers, a) \in Seq(Answer) /\ Len(Append(c.answers, a)) = Len(c.answers) + 1
    BY <1>1
<1>3. /\ done \in Call
      /\ done.answers = Append(c.answers, a)
      /\ done.stage = c.stage /\ done.last = c.last /\ done.first = c.first
    BY <1>2 DEF Call
<1>4. c.stage \in 4..6 /\ c.last \in 4..6 /\ c.first \in 3..6 /\ Len(c.answers) \in Nat
    BY <1>1 DEF Call, Stages
<1>5. CASE c.stage = c.last
  <2>1. End(p, "ok", done, h)
    BY <1>5 DEF Return
  <2>2. FirstStage(done) + Len(done.answers) \leq 7
    BY <1>2, <1>3, <1>4, SMTT(30) DEF FirstStage, Shape
  <2> QED
    BY <1>3, <2>1, <2>2, EndTypes DEF Statuses
<1>6. CASE c.stage # c.last
  <2>1. Continue(p, "upstream ref", next)
    BY <1>6 DEF Return
  <2>2. c.stage + 1 \in Stages /\ c.stage + 1 \leq c.last
    BY <1>4, <1>6 DEF Shape, Stages
  <2>3. /\ next \in Call
        /\ next.stage = c.stage + 1 /\ next.last = c.last /\ next.first = c.first
        /\ next.answers = Append(c.answers, a)
    <3> HIDE DEF done
    <3> QED
      BY <1>3, <2>2, AtStageTypes
  <2>4. Shape(next)
    BY <1>2, <1>4, <2>2, <2>3, SMTT(30) DEF Shape, FirstStage
  <2> QED
    BY <2>1, <2>3, <2>4, ContinueTypes DEF Steps
<1> QED
    BY <1>5, <1>6

\* The locals of a call stay typed when one of them is set.
LEMMA SetTypes ==
    ASSUME NEW c \in Call
    PROVE  /\ \A n, m \in Nat : [c EXCEPT !.upRef = n, !.up = m] \in Call
           /\ \A n \in Nat : [c EXCEPT !.upRef = n] \in Call
           /\ \A n \in Nat : [c EXCEPT !.up = n] \in Call
           /\ \A n \in Nat : [c EXCEPT !.ref = n] \in Call
           /\ \A r \in 0..MaxRev : [c EXCEPT !.rev = r] \in Call
           /\ \A o \in Outputs, b \in BOOLEAN : [c EXCEPT !.out = o, !.fresh = b] \in Call
           /\ \A b \in BOOLEAN : [c EXCEPT !.coherent = b] \in Call
PROOF
    BY DEF Call

\* None of these moves the call to another stage.
LEMMA SetShapes ==
    ASSUME NEW c \in Call, Shape(c)
    PROVE  \A n, m : /\ Shape([c EXCEPT !.upRef = n, !.up = m])
                    /\ Shape([c EXCEPT !.upRef = n])
                    /\ Shape([c EXCEPT !.up = n])
                    /\ Shape([c EXCEPT !.ref = n])
                    /\ Shape([c EXCEPT !.rev = n])
                    /\ Shape([c EXCEPT !.out = n, !.fresh = m])
                    /\ Shape([c EXCEPT !.coherent = n])
PROOF
    BY DEF Shape, FirstStage, Call

\* Looking at the whole chain at the start keeps the locals typed.
LEMMA StartsTypes ==
    ASSUME NEW c \in Call, Shape(c)
    PROVE  Starts(c) \in Call /\ Shape(Starts(c))
PROOF
<1>1. Coherent(c, head) \in BOOLEAN
    BY DEF Coherent
<1> QED
    BY <1>1, SetTypes, SetShapes DEF Starts

\* What the pointers say is a position or a revision.
LEMMA PointerTypes ==
    ASSUME StoreTypeOK, NEW s \in Stages
    PROVE  /\ head[s] \in Seq(Revs)
           /\ Len(head[s]) \in Nat
           /\ DOMAIN head[s] = 1..Len(head[s])
           /\ head[s] # <<>> => /\ Last(head[s]) \in Revs
                               /\ Last(head[s]) = head[s][Len(head[s])]
                               /\ Len(head[s]) > 0
                               /\ Len(head[s]) \in DOMAIN head[s]
           /\ head[s] = <<>> => Len(head[s]) = 0
           /\ \A r : r \in ToSet(head[s]) <=> \E i \in 1..Len(head[s]) : head[s][i] = r
           /\ ToSet(head[s]) \subseteq Revs
           /\ UpRef(s) \in Nat
           /\ Up(s) \in Nat
PROOF
<1>1. \A t \in Stages : /\ head[t] \in Seq(Revs)
                       /\ Len(head[t]) \in Nat
                       /\ DOMAIN head[t] = 1..Len(head[t])
    BY DEF StoreTypeOK
<1>2. \A t \in Stages : head[t] # <<>> => /\ Last(head[t]) \in Revs
                                        /\ Last(head[t]) = head[t][Len(head[t])]
                                        /\ Len(head[t]) > 0
    BY <1>1, EmptySeq DEF Last
<1>3. input \in Nat
    BY BoundsAreNaturals DEF StoreTypeOK
<1>4. s # 4 => s - 1 \in Stages
    BY DEF Stages
<1>5. UpRef(s) \in Nat
    BY <1>1, <1>3, <1>4 DEF UpRef
<1>6. Up(s) \in Nat
    BY <1>1, <1>2, <1>3, <1>4, RevsAreNaturals DEF Up, UpIn, NoRev
<1>7. \A r : r \in ToSet(head[s]) <=> \E i \in 1..Len(head[s]) : head[s][i] = r
    BY <1>1 DEF ToSet
<1>8. ToSet(head[s]) \subseteq Revs
    BY <1>1, <1>7
<1> QED
    BY <1>1, <1>2, <1>5, <1>6, <1>7, <1>8

\* A process that is not idle has a call, at one of the stages.
LEMMA CallTypes ==
    ASSUME LocalTypeOK, NEW p \in Procs, pc[p] # "idle"
    PROVE  /\ call[p] \in Call /\ Shape(call[p])
           /\ call[p].stage \in Stages
PROOF
    BY DEF LocalTypeOK, Call

\* The reading and reusing steps keep the types.
LEMMA ReadingTypes ==
    ASSUME StoreTypeOK, LocalTypeOK, NEW p \in Procs, LocalOK(p), Reading(p)
    PROVE  LocalTypeOK'
PROOF
<1> DEFINE c == call[p]
<1>0. pc[p] # "idle"
    BY DEF Reading, ReadInputs, ReadUpstreamRef, ReadUpstream, ReadOwnRef, ReadOwn, ReuseUpstream, ReuseOwn
<1>1. c \in Call /\ Shape(c) /\ c.stage \in Stages
    BY <1>0, CallTypes
<1>2. Starts(c) \in Call /\ Shape(Starts(c))
    BY <1>1, StartsTypes
<1>3. UpRef(c.stage) \in Nat /\ Up(c.stage) \in Nat /\ Len(head[c.stage]) \in Nat /\ input \in Nat
    BY <1>1, PointerTypes, BoundsAreNaturals DEF StoreTypeOK
<1>4. head[c.stage] # <<>> => Last(head[c.stage]) \in 0..MaxRev
    BY <1>1, PointerTypes, RevsAreNaturals
<1>5. {"missing", "moved", "corrupt"} \subseteq Statuses
    BY DEF Statuses
<1>6. {"own ref", "upstream", "own", "generate", "reuse upstream", "reuse own"} \subseteq Steps \ {"idle"}
    BY DEF Steps
<1> HIDE DEF c
<1>7. CASE ReadInputs(p)
  <2> DEFINE n == [Starts(c) EXCEPT !.upRef = input, !.up = input]
  <2>1. n \in Call /\ Shape(n)
    BY <1>2, <1>3, SetTypes, SetShapes
  <2>2. Raise(p, "missing") \/ Continue(p, "own ref", n)
    BY <1>7 DEF ReadInputs, c
  <2> QED
    BY <1>0, <1>5, <1>6, <2>1, <2>2, ContinueTypes, RaiseTypes
<1>8. CASE ReadUpstreamRef(p)
    BY <1>0, <1>2, <1>3, <1>5, <1>6, <1>8, SetTypes, SetShapes, ContinueTypes, RaiseTypes DEF ReadUpstreamRef, c
<1>9. CASE ReadUpstream(p)
    BY <1>0, <1>1, <1>3, <1>5, <1>6, <1>9, SetTypes, SetShapes, ContinueTypes, RaiseTypes DEF ReadUpstream, c
<1>10. CASE ReadOwnRef(p)
  <2> DEFINE n == [c EXCEPT !.ref = Len(head[c.stage])]
  <2>1. n \in Call /\ Shape(n)
    BY <1>1, <1>3, SetTypes, SetShapes
  <2>2. Continue(p, "generate", c) \/ Continue(p, "own", n)
    BY <1>10 DEF ReadOwnRef, c
  <2> QED
    BY <1>1, <1>6, <2>1, <2>2, ContinueTypes
<1>11. CASE ReadOwn(p)
  <2> DEFINE r == Last(head[c.stage])
             n == [c EXCEPT !.rev = r]
             m == [c EXCEPT !.ref = 0]
  <2>1. m \in Call /\ Shape(m)
    BY <1>1, SetTypes, SetShapes
  <2>2. CASE Raise(p, "moved") \/ Raise(p, "corrupt") \/ Continue(p, "generate", m)
    BY <1>0, <1>5, <1>6, <2>1, <2>2, ContinueTypes, RaiseTypes
  <2>3. CASE Continue(p, "reuse upstream", n)
    <3>1. head[c.stage] # <<>>
      <4>1. c.ref \in DOMAIN head[c.stage]
        BY <1>11 DEF ReadOwn, LocalOK, UpstreamOK, OwnOK, ReuseOK, WorkOK, WrittenOK, c
      <4> QED
        BY <1>1, <4>1, PointerTypes
    <3>2. n \in Call /\ Shape(n)
      BY <1>1, <1>4, <3>1, SetTypes, SetShapes
    <3> QED
      BY <1>6, <2>3, <3>2, ContinueTypes
  <2> QED
    BY <1>11, <2>2, <2>3 DEF ReadOwn, c
<1>12. CASE ReuseUpstream(p)
    BY <1>0, <1>1, <1>5, <1>6, <1>12, ReturnTypes, ContinueTypes, RaiseTypes DEF ReuseUpstream, c
<1>13. CASE ReuseOwn(p)
    BY <1>0, <1>1, <1>5, <1>6, <1>13, ReturnTypes, RaiseTypes DEF ReuseOwn, c
<1> QED
    BY <1>7, <1>8, <1>9, <1>10, <1>11, <1>12, <1>13 DEF Reading

\* The steps in memory keep the types.
LEMMA PreparingTypes ==
    ASSUME StoreTypeOK, LocalTypeOK, NEW p \in Procs, LocalOK(p), Preparing(p)
    PROVE  LocalTypeOK'
PROOF
<1> DEFINE c == call[p]
<1>0. pc[p] # "idle"
    BY DEF Preparing, Generate, StableBefore, ReadCurrentRef, ReadCurrent, Alloc, Stable
<1>1. c \in Call /\ Shape(c) /\ c.stage \in Stages
    BY <1>0, CallTypes
<1>3. Len(head[c.stage]) \in Nat
    BY <1>1, PointerTypes
<1>4. head[c.stage] # <<>> => Last(head[c.stage]) \in 0..MaxRev
    BY <1>1, PointerTypes, RevsAreNaturals
<1>5. {"missing", "moved", "corrupt"} \subseteq Statuses
    BY DEF Statuses
<1>6. {"stable before", "current ref", "current", "alloc", "put leaves", "publish"} \subseteq Steps \ {"idle"}
    BY DEF Steps
<1> HIDE DEF c
<1>7. CASE Generate(p)
  <2>1. PICK o \in Outputs : Continue(p, IF c.stage = 4 THEN "stable before" ELSE "current ref",
                                 [c EXCEPT !.out = o, !.fresh = UpRef(c.stage) = c.upRef])
    BY <1>7 DEF Generate, c
  <2> DEFINE n == [c EXCEPT !.out = o, !.fresh = UpRef(c.stage) = c.upRef]
  <2>2. n \in Call /\ Shape(n)
    BY <1>1, SetTypes, SetShapes
  <2> QED
    BY <1>6, <2>1, <2>2, ContinueTypes
<1>8. CASE StableBefore(p)
    BY <1>0, <1>1, <1>5, <1>6, <1>8, ContinueTypes, RaiseTypes DEF StableBefore, c
<1>9. CASE ReadCurrentRef(p)
  <2> DEFINE n == [c EXCEPT !.ref = Len(head[c.stage])]
  <2>1. n \in Call /\ Shape(n)
    BY <1>1, <1>3, SetTypes, SetShapes
  <2>2. Continue(p, "alloc", c) \/ Continue(p, "current", n)
    BY <1>9 DEF ReadCurrentRef, c
  <2> QED
    BY <1>1, <1>6, <2>1, <2>2, ContinueTypes
<1>10. CASE ReadCurrent(p)
  <2> DEFINE n == [c EXCEPT !.rev = Last(head[c.stage])]
  <2>1. head[c.stage] # <<>>
    BY <1>1, <1>10, PointerTypes DEF ReadCurrent, LocalOK, UpstreamOK, OwnOK, ReuseOK, WorkOK, WrittenOK, c
  <2>2. n \in Call /\ Shape(n)
    BY <1>1, <1>4, <2>1, SetTypes, SetShapes
  <2>3. Raise(p, "moved") \/ Raise(p, "corrupt") \/ Return(p, n, TRUE, head) \/ Continue(p, "alloc", n)
    BY <1>10 DEF ReadCurrent, c
  <2> QED
    BY <1>0, <1>5, <1>6, <2>2, <2>3, ContinueTypes, RaiseTypes, ReturnTypes
<1>11. CASE Alloc(p)
  <2>1. PICK r \in Revs : Continue(p, "put leaves", [c EXCEPT !.rev = r])
    BY <1>11 DEF Alloc, FirstAfter, Free, c
  <2> DEFINE n == [c EXCEPT !.rev = r]
  <2>2. n \in Call /\ Shape(n)
    BY <1>1, RevsAreNaturals, SetTypes, SetShapes
  <2> QED
    BY <1>6, <2>1, <2>2, ContinueTypes
<1>12. CASE Stable(p)
    BY <1>0, <1>1, <1>5, <1>6, <1>12, ContinueTypes, RaiseTypes DEF Stable, c
<1> QED
    BY <1>7, <1>8, <1>9, <1>10, <1>11, <1>12 DEF Preparing

\* The writes before the pointer moves.
Storing(p) == PutLeaves(p) \/ PutRoot(p) \/ PutReport(p)

\* The three writes keep the types of the stores and of the call.
LEMMA StoringTypes ==
    ASSUME StoreTypeOK, LocalTypeOK, NEW p \in Procs, LocalOK(p), Storing(p)
    PROVE  StoreTypeOK' /\ LocalTypeOK'
PROOF
<1> DEFINE c == call[p]
<1>0. pc[p] \in Writing /\ pc[p] # "idle"
    BY DEF Storing, PutLeaves, PutRoot, PutReport, Writing
<1>1. /\ c \in Call /\ Shape(c) /\ c.stage \in Stages
      /\ c.rev \in Revs /\ c.out \in Outputs /\ c.up \in Nat /\ c.config \in Configs
    BY <1>0, CallTypes DEF LocalOK, UpstreamOK, OwnOK, ReuseOK, WorkOK, WrittenOK, Generated, Made, Call
<1>2. "conflict" \in Statuses /\ {"put root", "put report", "publish", "stable"} \subseteq Steps \ {"idle"}
    BY DEF Statuses, Steps
<1> HIDE DEF c
<1>3. CASE PutLeaves(p)
  <2> DEFINE content == [up |-> c.up, out |-> c.out]
  <2>1. content \in Leaves
    BY <1>1 DEF Leaves
  <2>2. /\ leaves' = leaves \/ leaves' = [leaves EXCEPT ![c.stage][c.rev] = content]
        /\ UNCHANGED <<input, root, report, overtaken, head>>
    BY <1>3 DEF PutLeaves, c
  <2>3. Raise(p, "conflict") \/ Continue(p, "put root", c)
    BY <1>3 DEF PutLeaves, c
  <2> HIDE DEF content
  <2>4. leaves' \in [Stages -> [Revs -> Leaves \union {None}]]
    <3>1. leaves \in [Stages -> [Revs -> Leaves \union {None}]]
      BY DEF StoreTypeOK
    <3>2. [leaves[c.stage] EXCEPT ![c.rev] = content] \in [Revs -> Leaves \union {None}]
      BY <1>1, <2>1, <3>1
    <3> QED
      BY <1>1, <2>2, <3>1, <3>2
  <2> QED
    BY <1>0, <1>1, <1>2, <2>2, <2>3, <2>4, ContinueTypes, RaiseTypes DEF StoreTypeOK
<1>4. CASE PutRoot(p)
  <2> DEFINE content == [up |-> c.up, out |-> c.out, config |-> c.config]
  <2>1. content \in Root
    BY <1>1 DEF Root
  <2>2. /\ root' = root \/ root' = [root EXCEPT ![c.stage][c.rev] = content]
        /\ overtaken' = overtaken \/ overtaken' = overtaken \union {<<c.stage, c.rev>>}
        /\ UNCHANGED <<input, leaves, report, head>>
    BY <1>4 DEF PutRoot, c
  <2>3. Raise(p, "conflict") \/ Continue(p, "put report", c)
    BY <1>4 DEF PutRoot, c
  <2> HIDE DEF content
  <2>4. root' \in [Stages -> [Revs -> Root \union {None}]]
    <3>1. root \in [Stages -> [Revs -> Root \union {None}]]
      BY DEF StoreTypeOK
    <3>2. [root[c.stage] EXCEPT ![c.rev] = content] \in [Revs -> Root \union {None}]
      BY <1>1, <2>1, <3>1
    <3> QED
      BY <1>1, <2>2, <3>1, <3>2
  <2>5. overtaken' \subseteq Stages \X Revs
    BY <1>1, <2>2 DEF StoreTypeOK
  <2> QED
    BY <1>0, <1>1, <1>2, <2>2, <2>3, <2>4, <2>5, ContinueTypes, RaiseTypes DEF StoreTypeOK
<1>5. CASE PutReport(p)
  <2>1. Continue(p, "publish", c) \/ Continue(p, "stable", c)
    BY <1>5 DEF PutReport, c
  <2>2. /\ report' = report \union {<<c.stage, c.rev>>}
        /\ UNCHANGED <<input, leaves, root, overtaken, head>>
    BY <1>5 DEF PutReport, c
  <2>3. <<c.stage, c.rev>> \in Stages \X Revs
    BY <1>1
  <2>4. StoreTypeOK'
    BY <2>2, <2>3 DEF StoreTypeOK
  <2> QED
    BY <1>1, <1>2, <2>1, <2>4, ContinueTypes
<1> QED
    BY <1>3, <1>4, <1>5 DEF Storing

\* Moving a pointer keeps the types.
LEMMA PublishTypes ==
    ASSUME StoreTypeOK, LocalTypeOK, NEW p \in Procs, LocalOK(p), Publish(p)
    PROVE  StoreTypeOK' /\ LocalTypeOK'
PROOF
<1> DEFINE c == call[p]
           own == head[c.stage]
           n == [c EXCEPT !.ref = Len(head'[c.stage])]
<1>0. pc[p] = "publish" /\ pc[p] # "idle"
    BY DEF Publish
<1>1. c \in Call /\ Shape(c) /\ c.stage \in Stages /\ c.rev \in Revs
    BY <1>0, CallTypes DEF LocalOK, UpstreamOK, OwnOK, ReuseOK, WorkOK, WrittenOK, Writing
<1>2. "conflict" \in Statuses /\ "failed" \in Statuses
    BY DEF Statuses
<1> HIDE DEF c
<1>3. /\ head' = head \/ head' = [head EXCEPT ![c.stage] = Append(own, c.rev)]
      /\ UNCHANGED <<input, leaves, root, report, overtaken>>
    BY DEF Publish, store, c
<1>4. StoreTypeOK'
  <2>1. head \in [Stages -> Seq(Revs)] /\ own \in Seq(Revs)
    BY <1>1 DEF StoreTypeOK
  <2>2. Append(own, c.rev) \in Seq(Revs)
    BY <1>1, <2>1, AppendProperties
  <2> HIDE DEF own
  <2>3. head' \in [Stages -> Seq(Revs)]
    BY <1>1, <1>3, <2>1, <2>2
  <2> QED
    BY <1>3, <2>3 DEF StoreTypeOK
<1>5. Return(p, n, FALSE, head') \/ End(p, "failed", c, head') \/ Raise(p, "conflict")
    BY DEF Publish, c
<1>6. head'[c.stage] \in Seq(Revs)
    BY <1>1, <1>4 DEF StoreTypeOK
<1>7. Len(head'[c.stage]) \in Nat
    BY <1>6
<1>8. n \in Call /\ Shape(n)
    BY <1>1, <1>7, SetTypes, SetShapes
<1>9. FirstStage(c) + Len(c.answers) \leq 7
    BY <1>1 DEF Shape, FirstStage, Call, Stages
<1> QED
    BY <1>0, <1>1, <1>2, <1>4, <1>5, <1>8, <1>9, EndTypes, RaiseTypes, ReturnTypes

\* Every step keeps every variable in its type.
LEMMA TypeStep ==
    ASSUME StoreTypeOK, LocalTypeOK, CallsAreConsistent, [Next]_vars
    PROVE  StoreTypeOK' /\ LocalTypeOK'
PROOF
<1>1. CASE UNCHANGED vars
  <2>1. StoreTypeOK'
    BY <1>1 DEF vars, store, StoreTypeOK
  <2>2. LocalTypeOK'
    BY <1>1 DEF vars, store, LocalTypeOK, Shape
  <2> QED
    BY <2>1, <2>2
<1>2. CASE MoveInput
  <2>1. /\ input < MaxInput /\ input' = input + 1
        /\ UNCHANGED <<leaves, root, report, overtaken, head, pc, call, result>>
        /\ shared' \in [Procs -> BOOLEAN]
    BY <1>2 DEF MoveInput, store, LocalTypeOK, Active
  <2>2. StoreTypeOK'
    BY <2>1, BoundsAreNaturals DEF StoreTypeOK
  <2>3. LocalTypeOK'
    BY <2>1 DEF LocalTypeOK, Shape
  <2> QED
    BY <2>2, <2>3
<1>3. ASSUME NEW p \in Procs, Start(p)
      PROVE  StoreTypeOK' /\ LocalTypeOK'
  <2>1. PICK x \in Calls :
           /\ x[1] = p
           /\ Goto(p, IF x[3] = 3 THEN "inputs" ELSE "upstream ref")
           /\ call' = [call EXCEPT ![p] =
                  [config |-> x[2], first |-> x[3], last |-> x[4],
                   stage |-> IF x[3] = 3 THEN 4 ELSE x[3],
                   up |-> 0, upRef |-> 0, ref |-> 0, rev |-> NoRev,
                   out |-> None, fresh |-> FALSE, coherent |-> FALSE, answers |-> <<>>]]
    BY <1>3 DEF Start
  <2> DEFINE n == [config |-> x[2], first |-> x[3], last |-> x[4],
                   stage |-> IF x[3] = 3 THEN 4 ELSE x[3],
                   up |-> 0, upRef |-> 0, ref |-> 0, rev |-> NoRev,
                   out |-> None, fresh |-> FALSE, coherent |-> FALSE, answers |-> <<>>]
  <2>2. /\ x[2] \in Configs /\ x[3] \in 3..6 /\ x[4] \in 4..6 /\ x[3] \leq x[4]
        /\ <<>> \in Seq(Answer)
        /\ 0 \in 0..MaxRev
    BY CallsAreRanges, BoundsAreNaturals DEF Stages
  <2>3. n \in Call
    BY <2>2 DEF Call, NoRev, Stages
  <2>4. Shape(n)
    BY <2>2 DEF Shape, FirstStage
  <2> HIDE DEF n
  <2>5. n # None
    BY <2>3, NoneIsNothing
  <2>6. /\ call' = [call EXCEPT ![p] = n]
        /\ pc' = [pc EXCEPT ![p] = "inputs"] \/ pc' = [pc EXCEPT ![p] = "upstream ref"]
        /\ result' = [result EXCEPT ![p] = None]
        /\ UNCHANGED <<input, leaves, root, report, overtaken, head>>
    BY <1>3, <2>1 DEF Start, Goto, store, n
  <2>7. shared' \in [Procs -> BOOLEAN]
    BY <1>3 DEF Start, LocalTypeOK, Active
  <2>8. /\ pc' \in [Procs -> Steps]
        /\ call' \in [Procs -> Call \union {None}]
        /\ result' \in [Procs -> Result \union {None}]
    BY <2>3, <2>6 DEF LocalTypeOK, Steps
  <2>9. \A q \in Procs : pc'[q] = "idle" <=> call'[q] = None
    BY <2>5, <2>6 DEF LocalTypeOK
  <2>12. \A q \in Procs : pc'[q] # "idle" => Shape(call'[q])
    BY <2>4, <2>6 DEF LocalTypeOK
  <2>13. \A q \in Procs : result'[q] # None => FirstStage(result'[q]) + Len(result'[q].answers) \leq 7
    BY <2>6 DEF LocalTypeOK
  <2>10. StoreTypeOK'
    BY <2>6 DEF StoreTypeOK
  <2>11. LocalTypeOK'
    BY <2>7, <2>8, <2>9, <2>12, <2>13 DEF LocalTypeOK, Shape
  <2> QED
    BY <2>10, <2>11
<1>4. ASSUME NEW p \in Procs, Inputs(p)
      PROVE  StoreTypeOK' /\ LocalTypeOK'
  <2>a. input' \in 1..MaxInput
    BY <1>4 DEF Inputs
  <2>b. input' \in 0..MaxInput
    BY <2>a, BoundsAreNaturals
  <2>1. /\ UNCHANGED <<leaves, root, report, overtaken, head>>
        /\ Continue(p, "upstream ref", call[p])
        /\ pc[p] # "idle"
    BY <1>4 DEF Inputs, store
  <2>2. StoreTypeOK'
    BY <2>1, <2>b DEF StoreTypeOK
  <2>3. LocalTypeOK'
    BY <2>1, CallTypes, ContinueTypes DEF Steps
  <2> QED
    BY <2>2, <2>3
<1>5. ASSUME NEW p \in Procs, Reading(p) \/ Preparing(p)
      PROVE  StoreTypeOK' /\ LocalTypeOK'
  <2>1. UNCHANGED <<input, leaves, root, report, overtaken, head>>
    BY <1>5 DEF Reading, Preparing, ReadInputs, ReadUpstreamRef, ReadUpstream, ReadOwnRef, ReadOwn,
                ReuseUpstream, ReuseOwn, Generate, StableBefore, ReadCurrentRef, ReadCurrent,
                Alloc, Stable, store
  <2>2. StoreTypeOK'
    BY <2>1 DEF StoreTypeOK
  <2> QED
    BY <1>5, <2>2, ReadingTypes, PreparingTypes DEF CallsAreConsistent
<1>6. ASSUME NEW p \in Procs, Storing(p) \/ Publish(p)
      PROVE  StoreTypeOK' /\ LocalTypeOK'
    BY <1>6, StoringTypes, PublishTypes DEF CallsAreConsistent
<1>7. ASSUME NEW p \in Procs, Fails(p)
      PROVE  StoreTypeOK' /\ LocalTypeOK'
  <2>1. Raise(p, "failed") /\ pc[p] # "idle" /\ UNCHANGED <<input, leaves, root, report, overtaken, head>>
    BY <1>7 DEF Fails, Active, store
  <2>2. StoreTypeOK'
    BY <2>1 DEF StoreTypeOK
  <2> QED
    BY <2>1, <2>2, RaiseTypes DEF Statuses
<1> QED
    BY <1>1, <1>2, <1>3, <1>4, <1>5, <1>6, <1>7 DEF Next, Step, Reading, Preparing, Storing

-----------------------------------------------------------------------------
(* What a step of p does to p's call, and that it leaves the others alone. *)

\* Only p's call steps.
OthersRest(p) ==
    \A q \in Procs \ {p} : pc'[q] = pc[q] /\ call'[q] = call[q] /\ result'[q] = result[q]

\* What a step of a call that goes on changes.
LEMMA ContinueMoves ==
    ASSUME LocalTypeOK, NEW p \in Procs, NEW s, NEW c, Continue(p, s, c)
    PROVE  pc'[p] = s /\ call'[p] = c /\ result'[p] = result[p] /\ OthersRest(p)
PROOF
    BY DEF Continue, Goto, LocalTypeOK, OthersRest

\* What the end of a call changes.
LEMMA EndMoves ==
    ASSUME LocalTypeOK, NEW p \in Procs, NEW status, NEW c, NEW h, End(p, status, c, h)
    PROVE  /\ pc'[p] = "idle" /\ call'[p] = None /\ OthersRest(p)
           /\ result'[p].first = c.first
           /\ result'[p].config = c.config
           /\ result'[p].answers = IF status = "ok" THEN c.answers ELSE <<>>
PROOF
    BY DEF End, Goto, LocalTypeOK, OthersRest

\* What a call that raises changes.
LEMMA RaiseMoves ==
    ASSUME LocalTypeOK, NEW p \in Procs, NEW status, status # "ok", Raise(p, status)
    PROVE  pc'[p] = "idle" /\ OthersRest(p) /\ result'[p].answers = <<>>
PROOF
    BY EndMoves DEF Raise

\* The answer a stage adds.
Added(c, reused) == [up |-> c.up, ref |-> c.ref, rev |-> c.rev,
                     called |-> c.out # None, reused |-> reused]

\* A stage that returns ends the call, or opens the next stage, with one answer more.
LEMMA ReturnMoves ==
    ASSUME LocalTypeOK, NEW p \in Procs, NEW c \in Call, Shape(c), NEW reused \in BOOLEAN, NEW h,
           Return(p, c, reused, h)
    PROVE  /\ OthersRest(p)
           /\ \/ /\ pc'[p] = "idle"
                 /\ result'[p].first = c.first
                 /\ result'[p].config = c.config
                 /\ result'[p].answers = Append(c.answers, Added(c, reused))
              \/ /\ pc'[p] = "upstream ref"
                 /\ result'[p] = result[p]
                 /\ call'[p].first = c.first
                 /\ call'[p].config = c.config
                 /\ call'[p].answers = Append(c.answers, Added(c, reused))
                 /\ call'[p].ref = 0 /\ call'[p].rev = 0
PROOF
<1> DEFINE done == [c EXCEPT !.answers = Append(@, Added(c, reused))]
<1>0. Added(c, reused) \in Answer /\ c.answers \in Seq(Answer)
    BY DEF Added, Answer, Call
<1>1. /\ done \in Call
      /\ done.first = c.first /\ done.config = c.config
      /\ done.answers = Append(c.answers, Added(c, reused))
    BY <1>0, AppendProperties DEF Call
<1>2. CASE c.stage = c.last
  <2>1. End(p, "ok", done, h)
    BY <1>2 DEF Return, Added
  <2> QED
    BY <1>1, <2>1, EndMoves
<1>3. CASE c.stage # c.last
  <2>1. Continue(p, "upstream ref", AtStage(done, c.stage + 1))
    BY <1>3 DEF Return, Added
  <2>2. c.stage + 1 \in Stages
    BY <1>3 DEF Shape, Call, Stages
  <2> DEFINE n == AtStage(done, c.stage + 1)
  <2>3. /\ n.first = done.first /\ n.config = done.config
        /\ n.answers = done.answers /\ n.ref = 0 /\ n.rev = 0
    <3> HIDE DEF done
    <3> QED
      BY <1>1, <2>2, AtStageTypes
  <2>4. /\ pc'[p] = "upstream ref" /\ call'[p] = n
        /\ result'[p] = result[p] /\ OthersRest(p)
    BY <2>1, ContinueMoves
  <2> HIDE DEF n, done
  <2> QED
    BY <1>1, <2>3, <2>4
<1> QED
    BY <1>2, <1>3

\* A call starts with no answer and no revision.
LEMMA StartMoves ==
    ASSUME LocalTypeOK, NEW p \in Procs, Start(p)
    PROVE  /\ pc'[p] \in {"inputs", "upstream ref"}
           /\ OthersRest(p)
           /\ call'[p].ref = 0 /\ call'[p].rev = 0 /\ call'[p].answers = <<>>
           /\ result'[p] = None
           /\ UNCHANGED <<input, leaves, root, report, overtaken, head>>
PROOF
<1>1. PICK x \in Calls :
         /\ Goto(p, IF x[3] = 3 THEN "inputs" ELSE "upstream ref")
         /\ call' = [call EXCEPT ![p] =
                [config |-> x[2], first |-> x[3], last |-> x[4],
                 stage |-> IF x[3] = 3 THEN 4 ELSE x[3],
                 up |-> 0, upRef |-> 0, ref |-> 0, rev |-> NoRev,
                 out |-> None, fresh |-> FALSE, coherent |-> FALSE, answers |-> <<>>]]
    BY DEF Start
<1>2. /\ result' = [result EXCEPT ![p] = None]
      /\ UNCHANGED <<input, leaves, root, report, overtaken, head>>
    BY DEF Start, store
<1>3. call'[p].ref = 0 /\ call'[p].rev = 0 /\ call'[p].answers = <<>>
    BY <1>1 DEF NoRev, LocalTypeOK
<1> QED
    BY <1>1, <1>2, <1>3 DEF Goto, LocalTypeOK, OthersRest

-----------------------------------------------------------------------------
(* The stores only grow.                                                   *)

\* No pointer forgets, no artifact changes, no report goes.
Grow ==
    /\ input \leq input'
    /\ \A s \in Stages : /\ Len(head[s]) \leq Len(head'[s])
                        /\ \A i \in 1..Len(head[s]) : head'[s][i] = head[s][i]
    /\ \A s \in Stages, r \in Revs :
           /\ leaves[s][r] # None => leaves'[s][r] = leaves[s][r]
           /\ root[s][r] # None => root'[s][r] = root[s][r]
    /\ report \subseteq report'

\* Stores that do not change grow.
LEMMA SameStoresGrow ==
    ASSUME StoreTypeOK, UNCHANGED <<input, leaves, root, report, head>>
    PROVE  Grow
PROOF
<1>1. input \in Nat /\ \A s \in Stages : Len(head[s]) \in Nat
    BY PointerTypes, BoundsAreNaturals DEF StoreTypeOK
<1> QED
    BY <1>1 DEF Grow

\* Setting one entry of a table.
LEMMA TableUpdate ==
    ASSUME NEW V, NEW f \in [Stages -> [Revs -> V]], NEW a \in Stages, NEW b \in Revs, NEW x,
           NEW g, g = [f EXCEPT ![a][b] = x],
           NEW s \in Stages, NEW r \in Revs
    PROVE  g[s][r] = IF s = a /\ r = b THEN x ELSE f[s][r]
PROOF
<1>1. g = [f EXCEPT ![a] = [f[a] EXCEPT ![b] = x]]
    OBVIOUS
<1>2. f[a] \in [Revs -> V] /\ f[s] \in [Revs -> V]
    OBVIOUS
<1>3. CASE s = a
    BY <1>1, <1>2, <1>3
<1>4. CASE s # a
    BY <1>1, <1>2, <1>4
<1> QED
    BY <1>3, <1>4

\* A put never replaces what is there.
LEMMA StoringGrows ==
    ASSUME StoreTypeOK, LocalTypeOK, NEW p \in Procs, LocalOK(p), Storing(p)
    PROVE  Grow /\ UNCHANGED <<input, head>>
PROOF
<1> DEFINE c == call[p]
<1>1. pc[p] \in Writing /\ pc[p] # "idle"
    BY DEF Storing, PutLeaves, PutRoot, PutReport, Writing
<1>2. c.stage \in Stages /\ c.rev \in Revs
    BY <1>1, CallTypes DEF LocalOK, UpstreamOK, OwnOK, ReuseOK, WorkOK, WrittenOK
<1>3. UNCHANGED <<input, head>>
    BY DEF Storing, PutLeaves, PutRoot, PutReport
<1>4. report \subseteq report'
    BY DEF Storing, PutLeaves, PutRoot, PutReport
<1>5. ASSUME NEW s \in Stages, NEW r \in Revs, leaves[s][r] # None
      PROVE  leaves'[s][r] = leaves[s][r]
  <2>1. \/ leaves' = leaves
        \/ /\ leaves[c.stage][c.rev] \in {None, [up |-> c.up, out |-> c.out]}
           /\ leaves' = [leaves EXCEPT ![c.stage][c.rev] = [up |-> c.up, out |-> c.out]]
    BY DEF Storing, PutLeaves, PutRoot, PutReport
  <2> HIDE DEF c
  <2> DEFINE content == [up |-> c.up, out |-> c.out]
  <2> HIDE DEF content
  <2>2. CASE leaves' = leaves
    BY <2>2
  <2>3. CASE /\ leaves[c.stage][c.rev] \in {None, content}
             /\ leaves' = [leaves EXCEPT ![c.stage][c.rev] = content]
    <3>1. leaves \in [Stages -> [Revs -> Leaves \union {None}]]
      BY DEF StoreTypeOK
    <3>2. leaves'[s][r] = IF s = c.stage /\ r = c.rev THEN content ELSE leaves[s][r]
      BY <1>2, <2>3, <3>1, TableUpdate
    <3> QED
      BY <1>5, <2>3, <3>2
  <2> QED
    BY <2>1, <2>2, <2>3 DEF content
<1>6. ASSUME NEW s \in Stages, NEW r \in Revs, root[s][r] # None
      PROVE  root'[s][r] = root[s][r]
  <2> DEFINE content == [up |-> c.up, out |-> c.out, config |-> c.config]
  <2>1. \/ root' = root
        \/ /\ root[c.stage][c.rev] \in {None, content}
           /\ root' = [root EXCEPT ![c.stage][c.rev] = content]
    BY DEF Storing, PutLeaves, PutRoot, PutReport
  <2> HIDE DEF c, content
  <2>2. CASE root' = root
    BY <2>2
  <2>3. CASE /\ root[c.stage][c.rev] \in {None, content}
             /\ root' = [root EXCEPT ![c.stage][c.rev] = content]
    <3>1. root \in [Stages -> [Revs -> Root \union {None}]]
      BY DEF StoreTypeOK
    <3>2. root'[s][r] = IF s = c.stage /\ r = c.rev THEN content ELSE root[s][r]
      BY <1>2, <2>3, <3>1, TableUpdate
    <3> QED
      BY <1>6, <2>3, <3>2
  <2> QED
    BY <2>1, <2>2, <2>3
<1>7. input \in Nat /\ \A s \in Stages : Len(head[s]) \in Nat
    BY PointerTypes, BoundsAreNaturals DEF StoreTypeOK
<1> QED
    BY <1>3, <1>4, <1>5, <1>6, <1>7 DEF Grow

\* compare_and_set appends to one pointer.
LEMMA PublishGrows ==
    ASSUME StoreTypeOK, LocalTypeOK, NEW p \in Procs, LocalOK(p), Publish(p)
    PROVE  /\ Grow
           /\ UNCHANGED <<input, leaves, root, report, overtaken>>
           /\ \/ head' = head
              \/ /\ head' = [head EXCEPT ![call[p].stage] = Append(@, call[p].rev)]
                 /\ Len(head[call[p].stage]) = call[p].ref
PROOF
<1> DEFINE c == call[p]
           own == head[c.stage]
<1>1. pc[p] = "publish" /\ pc[p] # "idle"
    BY DEF Publish
<1>2. c.stage \in Stages /\ c.rev \in Revs
    BY <1>1, CallTypes DEF LocalOK, UpstreamOK, OwnOK, ReuseOK, WorkOK, WrittenOK, Writing
<1>3. /\ UNCHANGED <<input, leaves, root, report, overtaken>>
      /\ \/ head' = head
         \/ head' = [head EXCEPT ![c.stage] = Append(own, c.rev)] /\ Len(own) = c.ref
    BY DEF Publish, store
<1>4. input \in Nat /\ \A s \in Stages : head[s] \in Seq(Revs) /\ Len(head[s]) \in Nat
    BY PointerTypes, BoundsAreNaturals DEF StoreTypeOK
<1>5. CASE head' = head
    BY <1>3, <1>4, <1>5 DEF Grow
<1>6. CASE head' = [head EXCEPT ![c.stage] = Append(own, c.rev)] /\ Len(own) = c.ref
  <2>1. /\ Len(Append(own, c.rev)) = Len(own) + 1
        /\ \A i \in 1..Len(own) : Append(own, c.rev)[i] = own[i]
    BY <1>2, <1>4, AppendProperties
  <2> HIDE DEF c
  <2>2. \A s \in Stages : /\ Len(head[s]) \leq Len(head'[s])
                         /\ \A i \in 1..Len(head[s]) : head'[s][i] = head[s][i]
    BY <1>2, <1>4, <1>6, <2>1 DEF StoreTypeOK
  <2>3. Grow
    BY <1>3, <1>4, <2>2 DEF Grow
  <2> QED
    BY <1>3, <1>6, <2>3 DEF c
<1> QED
    BY <1>3, <1>5, <1>6

-----------------------------------------------------------------------------
(* What a call knows stays true when others step.                          *)

\* A stage's CURRENT pointer only moves to higher revisions.
Sorted ==
    \A s \in Stages : \A i, j \in 1..Len(head[s]) : i < j => head[s][i] < head[s][j]

\* The current revision is the highest that was current.
LEMMA LastIsMax ==
    ASSUME StoreTypeOK, Sorted, NEW s \in Stages, NEW r \in ToSet(head[s])
    PROVE  head[s] # <<>> /\ r \leq Last(head[s])
PROOF
<1>1. /\ head[s] \in Seq(Revs) /\ Len(head[s]) \in Nat
      /\ head[s] # <<>> => Last(head[s]) = head[s][Len(head[s])]
      /\ head[s] = <<>> => Len(head[s]) = 0
    BY PointerTypes
<1>2. PICK i \in 1..Len(head[s]) : head[s][i] = r
    BY PointerTypes
<1>3. head[s] # <<>>
    BY <1>1, <1>2
<1>4. Len(head[s]) \in 1..Len(head[s]) /\ r \in Nat
    BY <1>1, <1>2, RevsAreNaturals
<1>5. i < Len(head[s]) => r < head[s][Len(head[s])]
    BY <1>2, <1>4 DEF Sorted
<1>6. head[s][Len(head[s])] \in Nat
    BY <1>1, <1>4, RevsAreNaturals
<1> QED
    BY <1>1, <1>2, <1>3, <1>4, <1>5, <1>6

\* What growth means for one stage.
LEMMA GrowthOfStage ==
    ASSUME StoreTypeOK, StoreTypeOK', Grow, NEW s \in Stages
    PROVE  /\ DOMAIN head[s] \subseteq DOMAIN head'[s]
           /\ \A i \in DOMAIN head[s] : head'[s][i] = head[s][i]
           /\ ToSet(head[s]) \subseteq ToSet(head'[s])
           /\ Len(head[s]) \leq Len(head'[s])
           /\ Len(head[s]) \in Nat /\ Len(head'[s]) \in Nat
           /\ Len(head'[s]) = Len(head[s]) => ToSet(head'[s]) = ToSet(head[s])
           /\ input \in Nat /\ input' \in Nat /\ input \leq input'
PROOF
<1>1. /\ head[s] \in Seq(Revs) /\ head'[s] \in Seq(Revs)
      /\ Len(head[s]) \in Nat /\ Len(head'[s]) \in Nat
      /\ DOMAIN head[s] = 1..Len(head[s]) /\ DOMAIN head'[s] = 1..Len(head'[s])
    BY DEF StoreTypeOK
<1>2. /\ Len(head[s]) \leq Len(head'[s])
      /\ \A i \in 1..Len(head[s]) : head'[s][i] = head[s][i]
    BY DEF Grow
<1>3. /\ DOMAIN head[s] \subseteq DOMAIN head'[s]
      /\ \A i \in DOMAIN head[s] : head'[s][i] = head[s][i]
    BY <1>1, <1>2
<1>4. ToSet(head[s]) \subseteq ToSet(head'[s])
    BY <1>3 DEF ToSet
<1>5. Len(head'[s]) = Len(head[s]) => ToSet(head'[s]) = ToSet(head[s])
    BY <1>1, <1>3 DEF ToSet
<1>6. input \in Nat /\ input' \in Nat /\ input \leq input'
    BY BoundsAreNaturals DEF StoreTypeOK, Grow
<1> QED
    BY <1>1, <1>2, <1>3, <1>4, <1>5, <1>6

\* Whatever was current is complete.
LEMMA LocalFrame ==
    ASSUME StoreTypeOK, StoreTypeOK', LocalTypeOK, CurrentIsComplete, Grow,
           NEW q \in Procs, LocalOK(q), pc'[q] = pc[q], call'[q] = call[q]
    PROVE  LocalOK(q)'
PROOF
<1>1. CASE pc[q] = "idle"
    BY <1>1 DEF LocalOK, UpstreamOK, OwnOK, ReuseOK, WorkOK, WrittenOK, Opening, Writing, Made, Generated, Reusing
<1>2. CASE pc[q] # "idle"
  <2>1. PICK c \in Call : c = call[q]
    BY <1>2, CallTypes
  <2>2. c = call'[q]
    BY <2>1
  <2>3. /\ c.stage \in Stages /\ c.up \in Nat /\ c.upRef \in Nat /\ c.ref \in Nat
        /\ c.stage # 4 => c.stage - 1 \in Stages
    BY DEF Call, Stages
  <2>4. /\ DOMAIN head[c.stage] \subseteq DOMAIN head'[c.stage]
        /\ \A i \in DOMAIN head[c.stage] : head'[c.stage][i] = head[c.stage][i]
        /\ ToSet(head[c.stage]) \subseteq ToSet(head'[c.stage])
        /\ Len(head[c.stage]) \in Nat /\ Len(head'[c.stage]) \in Nat
        /\ Len(head[c.stage]) \leq Len(head'[c.stage])
        /\ Len(head'[c.stage]) = Len(head[c.stage]) =>
               ToSet(head'[c.stage]) = ToSet(head[c.stage])
        /\ input \in Nat /\ input' \in Nat /\ input \leq input'
    BY <2>3, GrowthOfStage
  <2>5. c.stage # 4 =>
           /\ DOMAIN head[c.stage - 1] \subseteq DOMAIN head'[c.stage - 1]
           /\ \A i \in DOMAIN head[c.stage - 1] : head'[c.stage - 1][i] = head[c.stage - 1][i]
           /\ Len(head[c.stage - 1]) \in Nat /\ Len(head'[c.stage - 1]) \in Nat
           /\ Len(head[c.stage - 1]) \leq Len(head'[c.stage - 1])
    <3>1. SUFFICES ASSUME c.stage # 4, NEW s \in Stages, s = c.stage - 1
                   PROVE  /\ DOMAIN head[s] \subseteq DOMAIN head'[s]
                          /\ \A i \in DOMAIN head[s] : head'[s][i] = head[s][i]
                          /\ Len(head[s]) \in Nat /\ Len(head'[s]) \in Nat
                          /\ Len(head[s]) \leq Len(head'[s])
      BY <2>3
    <3> QED
      BY GrowthOfStage
  <2>6. pc[q] \in Steps \ (Opening \union {"idle"}) => UpstreamWasCurrent(call[q])'
    <3>1. pc[q] \in Steps \ (Opening \union {"idle"}) => UpstreamWasCurrent(c)
      BY <2>1 DEF LocalOK, UpstreamOK, OwnOK, ReuseOK, WorkOK, WrittenOK
    <3> QED
      BY <2>2, <2>3, <2>4, <2>5, <3>1 DEF UpstreamWasCurrent
  <2>7. pc[q] \in {"own", "current"} => c.rev = 0 /\ c.ref \in DOMAIN head'[c.stage]
    BY <2>1, <2>4 DEF LocalOK, UpstreamOK, OwnOK, ReuseOK, WorkOK, WrittenOK
  <2>8. pc[q] \in Reusing =>
           /\ c.ref \in DOMAIN head'[c.stage]
           /\ c.rev \in ToSet(head'[c.stage])
           /\ Matches(call[q].stage, call[q].rev, call[q])'
           /\ c.stage < 6 => head'[c.stage][c.ref] = c.rev
    <3> SUFFICES ASSUME pc[q] \in Reusing
                 PROVE  /\ c.ref \in DOMAIN head'[c.stage]
                        /\ c.rev \in ToSet(head'[c.stage])
                        /\ Matches(call[q].stage, call[q].rev, call[q])'
                        /\ c.stage < 6 => head'[c.stage][c.ref] = c.rev
        OBVIOUS
    <3>1. /\ c.ref \in DOMAIN head[c.stage]
          /\ c.rev \in ToSet(head[c.stage])
          /\ Matches(c.stage, c.rev, c)
          /\ c.stage < 6 => head[c.stage][c.ref] = c.rev
      BY <2>1 DEF LocalOK, UpstreamOK, OwnOK, ReuseOK, WorkOK, WrittenOK
    <3>2. c.rev \in Revs /\ root[c.stage][c.rev] # None
      BY <2>3, <3>1, PointerTypes DEF CurrentIsComplete, Complete
    <3>3. root'[c.stage][c.rev] = root[c.stage][c.rev]
      BY <2>3, <3>2 DEF Grow
    <3> QED
      BY <2>2, <2>4, <3>1, <3>3 DEF Matches
  <2>9. pc[q] = "alloc" =>
           /\ c.ref \leq Len(head'[c.stage])
           /\ c.ref = Len(head'[c.stage]) => \A r \in ToSet(head'[c.stage]) : r \leq c.rev
    BY <2>1, <2>3, <2>4, SMTT(30) DEF LocalOK, UpstreamOK, OwnOK, ReuseOK, WorkOK, WrittenOK
  <2>10. pc[q] \in Writing =>
           /\ c.ref \leq Len(head'[c.stage])
           /\ c.rev \in Revs
           /\ c.ref = Len(head'[c.stage]) => \A r \in ToSet(head'[c.stage]) : r < c.rev
    <3>1. pc[q] \in Writing =>
             /\ c.ref \leq Len(head[c.stage])
             /\ c.rev \in Revs
             /\ c.ref = Len(head[c.stage]) => \A r \in ToSet(head[c.stage]) : r < c.rev
      BY <2>1 DEF LocalOK, UpstreamOK, OwnOK, ReuseOK, WorkOK, WrittenOK
    <3> QED
      BY <2>3, <2>4, <3>1
  <2>11. pc[q] \in Generated =>
           /\ c.out \in Outputs
           /\ ~c.fresh => UpRef(call[q].stage)' > c.upRef
    <3>1. pc[q] \in Generated => c.out \in Outputs /\ (~c.fresh => UpRef(c.stage) > c.upRef)
      BY <2>1 DEF LocalOK, UpstreamOK, OwnOK, ReuseOK, WorkOK, WrittenOK
    <3>2. UpRef(call[q].stage)' \geq UpRef(c.stage)
      BY <2>2, <2>3, <2>4, <2>5 DEF UpRef
    <3>3. UpRef(call[q].stage)' \in Nat /\ UpRef(c.stage) \in Nat
      BY <2>2, <2>3, <2>4, <2>5 DEF UpRef
    <3> QED
      BY <2>3, <3>1, <3>2, <3>3
  <2>12. pc[q] \in Writing \ {"put leaves"} =>
           leaves'[c.stage][c.rev] = [up |-> c.up, out |-> c.out]
    <3> SUFFICES ASSUME pc[q] \in Writing \ {"put leaves"}
                 PROVE  leaves'[c.stage][c.rev] = [up |-> c.up, out |-> c.out]
        OBVIOUS
    <3>1. /\ leaves[c.stage][c.rev] = [up |-> c.up, out |-> c.out]
          /\ c.rev \in Revs /\ c.out \in Outputs
      BY <2>1 DEF LocalOK, UpstreamOK, OwnOK, ReuseOK, WorkOK, WrittenOK, Generated, Made
    <3>2. [up |-> c.up, out |-> c.out] \in Leaves
      BY <2>3, <3>1 DEF Leaves
    <3>3. leaves[c.stage][c.rev] # None
      BY <3>1, <3>2, NoneIsNothing
    <3> QED
      BY <2>3, <3>1, <3>3 DEF Grow
  <2>13. pc[q] \in {"put report", "stable", "publish"} =>
           root'[c.stage][c.rev] = [up |-> c.up, out |-> c.out, config |-> c.config]
    <3> SUFFICES ASSUME pc[q] \in {"put report", "stable", "publish"}
                 PROVE  root'[c.stage][c.rev] = [up |-> c.up, out |-> c.out, config |-> c.config]
        OBVIOUS
    <3>1. /\ root[c.stage][c.rev] = [up |-> c.up, out |-> c.out, config |-> c.config]
          /\ c.rev \in Revs /\ c.out \in Outputs /\ c.config \in Configs
      BY <2>1 DEF LocalOK, UpstreamOK, OwnOK, ReuseOK, WorkOK, WrittenOK, Generated, Made, Writing, Call
    <3>2. [up |-> c.up, out |-> c.out, config |-> c.config] \in Root
      BY <2>3, <3>1 DEF Root
    <3>3. root[c.stage][c.rev] # None
      BY <3>1, <3>2, NoneIsNothing
    <3> QED
      BY <2>3, <3>1, <3>3 DEF Grow
  <2>14. pc[q] \in {"stable", "publish"} => <<c.stage, c.rev>> \in report'
    BY <2>1 DEF LocalOK, UpstreamOK, OwnOK, ReuseOK, WorkOK, WrittenOK, Grow
  <2>15. /\ pc[q] = "upstream" => c.stage > 4 /\ c.upRef > 0
         /\ pc[q] \in Opening \union {"own ref", "generate", "stable before", "current ref"} =>
              c.ref = 0 /\ c.rev = 0
         /\ pc[q] \in Made /\ c.stage = 4 => c.fresh
    BY <2>1 DEF LocalOK, UpstreamOK, OwnOK, ReuseOK, WorkOK, WrittenOK
  <2>16. UpstreamOK(q)'
    BY <2>2, <2>6, <2>15 DEF UpstreamOK
  <2>17. OwnOK(q)'
    BY <2>2, <2>7, <2>9, <2>10, <2>15 DEF OwnOK
  <2>18. ReuseOK(q)'
    BY <2>2, <2>8 DEF ReuseOK
  <2>19. WorkOK(q)'
    BY <2>2, <2>11, <2>15 DEF WorkOK
  <2>20. WrittenOK(q)'
    BY <2>2, <2>12, <2>13, <2>14 DEF WrittenOK
  <2> QED
    BY <2>16, <2>17, <2>18, <2>19, <2>20 DEF LocalOK
<1> QED
    BY <1>1, <1>2

\* Without a call there is nothing to know.
LEMMA IdleLocal ==
    ASSUME NEW p \in Procs, pc'[p] = "idle"
    PROVE  LocalOK(p)'
PROOF
    BY DEF LocalOK, UpstreamOK, OwnOK, ReuseOK, WorkOK, WrittenOK, Opening, Writing, Made, Generated, Reusing

\* A stage that opens has resolved nothing yet.
LEMMA OpenLocal ==
    ASSUME NEW p \in Procs, pc'[p] \in {"inputs", "upstream ref"}, call'[p].ref = 0, call'[p].rev = 0
    PROVE  LocalOK(p)'
PROOF
    BY DEF LocalOK, UpstreamOK, OwnOK, ReuseOK, WorkOK, WrittenOK, Opening, Writing, Made, Generated, Reusing

\* So has the stage after one that returns.
LEMMA ReturnLocal ==
    ASSUME LocalTypeOK, NEW p \in Procs, NEW c \in Call, Shape(c), NEW reused \in BOOLEAN, NEW h,
           Return(p, c, reused, h)
    PROVE  LocalOK(p)'
PROOF
    BY ReturnMoves, IdleLocal, OpenLocal

\* What a step claims nothing about.
LEMMA VacuousLocal ==
    ASSUME NEW p \in Procs
    PROVE  /\ pc'[p] \in Opening \union Reusing \union {"own ref", "own", "generate"} =>
                  WorkOK(p)' /\ WrittenOK(p)'
           /\ pc'[p] \in {"stable before", "current ref", "current", "alloc", "put leaves"} =>
                  WrittenOK(p)'
           /\ pc'[p] \in Opening \union Generated \union {"own ref", "own", "generate"} =>
                  ReuseOK(p)'
           /\ pc'[p] \in Reusing => OwnOK(p)'
PROOF
    BY DEF WorkOK, WrittenOK, ReuseOK, OwnOK, Opening, Reusing, Generated, Made, Writing

\* A call keeps its upstream when the stores rest and it keeps its positions.
LEMMA SameUpstream ==
    ASSUME NEW p \in Procs, UpstreamOK(p), pc[p] \in Steps \ (Opening \union {"idle"}),
           UNCHANGED <<input, head>>,
           call'[p].stage = call[p].stage, call'[p].up = call[p].up,
           call'[p].upRef = call[p].upRef, pc'[p] # "upstream"
    PROVE  UpstreamOK(p)'
PROOF
    BY DEF UpstreamOK, UpstreamWasCurrent

\* Looking at the chain changes one history variable of the call.
LEMMA StartsKeeps ==
    ASSUME NEW c \in Call
    PROVE  /\ Starts(c) \in Call
           /\ Starts(c).stage = c.stage /\ Starts(c).ref = c.ref /\ Starts(c).rev = c.rev
           /\ Starts(c).first = c.first /\ Starts(c).config = c.config
           /\ Starts(c).answers = c.answers
PROOF
<1>1. Coherent(c, head) \in BOOLEAN
    BY DEF Coherent
<1> QED
    BY <1>1 DEF Starts, Call

\* What the reading and reusing steps establish.
LEMMA ReadingLocal ==
    ASSUME StoreTypeOK, LocalTypeOK, CurrentIsComplete, NEW p \in Procs, LocalOK(p), Reading(p)
    PROVE  LocalOK(p)'
PROOF
<1>0. pc[p] # "idle" /\ UNCHANGED <<input, leaves, root, report, overtaken, head>>
    BY DEF Reading, ReadInputs, ReadUpstreamRef, ReadUpstream, ReadOwnRef, ReadOwn,
           ReuseUpstream, ReuseOwn, store
<1>1. PICK c \in Call : c = call[p] /\ Shape(c)
    BY <1>0, CallTypes
<1>2. /\ c.stage \in Stages /\ c.stage \in 4..6 /\ c.ref \in Nat
      /\ c.stage # 4 => c.stage - 1 \in Stages
    BY DEF Call, Stages
<1>3. \A status : status # "ok" /\ Raise(p, status) => LocalOK(p)'
    BY RaiseMoves, IdleLocal
<1>4. CASE ReadInputs(p)
  <2> DEFINE n == [Starts(c) EXCEPT !.upRef = input, !.up = input]
  <2>1. CASE input = 0
    BY <1>3, <1>4, <2>1 DEF ReadInputs
  <2>2. CASE input # 0
    <3>1. /\ pc[p] = "upstream ref" /\ c.stage = 4
          /\ Continue(p, "own ref", n)
      BY <1>1, <1>4, <2>2 DEF ReadInputs
    <3>2. /\ n.upRef = input /\ n.up = input /\ n.stage = 4
          /\ n.ref = c.ref /\ n.rev = c.rev
      BY <3>1, StartsKeeps DEF Call
    <3> HIDE DEF n
    <3>3. pc'[p] = "own ref" /\ call'[p] = n
      BY <3>1, ContinueMoves
    <3>4. c.ref = 0 /\ c.rev = 0
      BY <1>1, <3>1 DEF LocalOK, OwnOK, Opening
    <3>5. input' \in 1..input'
      BY <1>0, <2>2, BoundsAreNaturals DEF StoreTypeOK
    <3>6. UpstreamOK(p)'
      BY <1>0, <3>2, <3>3, <3>5 DEF UpstreamOK, UpstreamWasCurrent
    <3>7. OwnOK(p)'
      BY <3>2, <3>3, <3>4 DEF OwnOK, Writing, Opening
    <3> QED
      BY <3>3, <3>6, <3>7, VacuousLocal DEF LocalOK
  <2> QED
    BY <2>1, <2>2
<1>5. CASE ReadUpstreamRef(p)
  <2> DEFINE n == [Starts(c) EXCEPT !.upRef = UpRef(c.stage)]
  <2>1. CASE UpRef(c.stage) = 0
    BY <1>1, <1>3, <1>5, <2>1 DEF ReadUpstreamRef
  <2>2. CASE UpRef(c.stage) # 0
    <3>1. pc[p] = "upstream ref" /\ c.stage > 4 /\ Continue(p, "upstream", n)
      BY <1>1, <1>5, <2>2 DEF ReadUpstreamRef
    <3>2. n.upRef = UpRef(c.stage) /\ n.stage = c.stage /\ n.ref = c.ref /\ n.rev = c.rev
      BY StartsKeeps DEF Call
    <3> HIDE DEF n
    <3>3. pc'[p] = "upstream" /\ call'[p] = n
      BY <3>1, ContinueMoves
    <3>4. c.ref = 0 /\ c.rev = 0
      BY <1>1, <3>1 DEF LocalOK, OwnOK, Opening
    <3>5. UpRef(c.stage) > 0
      BY <1>2, <2>2, PointerTypes
    <3>6. UpstreamOK(p)'
      BY <3>1, <3>2, <3>3, <3>5 DEF UpstreamOK, Opening
    <3>7. OwnOK(p)'
      BY <3>2, <3>3, <3>4 DEF OwnOK, Writing, Opening
    <3> QED
      BY <3>3, <3>6, <3>7, VacuousLocal DEF LocalOK, Opening
  <2> QED
    BY <2>1, <2>2
<1>6. CASE ReadUpstream(p)
  <2> DEFINE n == [c EXCEPT !.up = Up(c.stage)]
  <2>1. /\ pc[p] = "upstream"
        /\ \/ Raise(p, "moved")
           \/ Raise(p, "corrupt")
           \/ UpRef(c.stage) = c.upRef /\ Continue(p, "own ref", n)
    BY <1>1, <1>6 DEF ReadUpstream
  <2>2. CASE UpRef(c.stage) = c.upRef /\ Continue(p, "own ref", n)
    <3>1. /\ n.up = Up(c.stage) /\ n.upRef = c.upRef /\ n.stage = c.stage
          /\ n.ref = c.ref /\ n.rev = c.rev
      BY DEF Call
    <3> HIDE DEF n
    <3>2. pc'[p] = "own ref" /\ call'[p] = n
      BY <2>2, ContinueMoves
    <3>3. c.ref = 0 /\ c.rev = 0 /\ c.stage > 4 /\ c.upRef > 0
      BY <1>1, <2>1 DEF LocalOK, OwnOK, UpstreamOK, Opening
    <3>4. c.upRef = Len(head[c.stage - 1]) /\ c.stage - 1 \in Stages
      <4>1. UpRef(c.stage) = c.upRef
        BY <2>2
      <4>2. c.stage # 4
        BY <1>2, <3>3
      <4> QED
        BY <1>2, <4>1, <4>2 DEF UpRef
    <3>5. head[c.stage - 1] # <<>>
      BY <3>3, <3>4
    <3>6. Up(c.stage) = head[c.stage - 1][c.upRef] /\ c.upRef \in DOMAIN head[c.stage - 1]
      BY <3>3, <3>4, <3>5, PointerTypes DEF Up, UpIn
    <3>7. UpstreamOK(p)'
      <4>1. n.stage # 4 /\ n.upRef \in DOMAIN head'[n.stage - 1] /\ n.up = head'[n.stage - 1][n.upRef]
        BY <1>0, <1>2, <3>1, <3>3, <3>6
      <4> QED
        BY <3>2, <4>1 DEF UpstreamOK, UpstreamWasCurrent
    <3>8. OwnOK(p)'
      BY <3>1, <3>2, <3>3 DEF OwnOK, Writing, Opening
    <3> QED
      BY <3>2, <3>7, <3>8, VacuousLocal DEF LocalOK
  <2> QED
    BY <1>3, <2>1, <2>2
<1>7. CASE ReadOwnRef(p)
  <2> DEFINE n == [c EXCEPT !.ref = Len(head[c.stage])]
  <2>1. /\ pc[p] = "own ref"
        /\ \/ Continue(p, "generate", c)
           \/ head[c.stage] # <<>> /\ Continue(p, "own", n)
    BY <1>1, <1>7 DEF ReadOwnRef
  <2>2. c.ref = 0 /\ c.rev = 0
    BY <1>1, <2>1 DEF LocalOK, OwnOK
  <2>3. CASE Continue(p, "generate", c)
    <3>1. pc'[p] = "generate" /\ call'[p] = c
      BY <2>3, ContinueMoves
    <3>2. UpstreamOK(p)'
      BY <1>0, <1>1, <2>1, <3>1, SameUpstream DEF LocalOK, Steps, Opening
    <3>3. OwnOK(p)'
      BY <2>2, <3>1 DEF OwnOK, Writing, Opening
    <3> QED
      BY <3>1, <3>2, <3>3, VacuousLocal DEF LocalOK
  <2>4. CASE head[c.stage] # <<>> /\ Continue(p, "own", n)
    <3>1. n.up = c.up /\ n.upRef = c.upRef /\ n.stage = c.stage /\ n.rev = c.rev /\ n.ref = Len(head[c.stage])
      BY DEF Call
    <3> HIDE DEF n
    <3>2. pc'[p] = "own" /\ call'[p] = n
      BY <2>4, ContinueMoves
    <3>3. UpstreamOK(p)'
      BY <1>0, <1>1, <2>1, <3>1, <3>2, SameUpstream DEF LocalOK, Steps, Opening
    <3>4. n.ref \in DOMAIN head'[n.stage]
      BY <1>0, <1>2, <2>4, <3>1, PointerTypes
    <3>5. OwnOK(p)'
      BY <2>2, <3>1, <3>2, <3>4 DEF OwnOK, Writing, Opening
    <3> QED
      BY <3>2, <3>3, <3>5, VacuousLocal DEF LocalOK
  <2> QED
    BY <2>1, <2>3, <2>4
<1>8. CASE ReadOwn(p)
  <2> DEFINE r == Last(head[c.stage])
             n == [c EXCEPT !.rev = r]
             m == [c EXCEPT !.ref = 0]
  <2>1. /\ pc[p] = "own"
        /\ \/ Raise(p, "moved")
           \/ Raise(p, "corrupt")
           \/ /\ c.stage < 6 => Len(head[c.stage]) = c.ref
              /\ Matches(c.stage, r, c)
              /\ Continue(p, "reuse upstream", n)
           \/ Continue(p, "generate", m)
    BY <1>1, <1>8 DEF ReadOwn
  <2>2. c.rev = 0 /\ c.ref \in DOMAIN head[c.stage]
    BY <1>1, <2>1 DEF LocalOK, OwnOK
  <2>3. CASE Continue(p, "generate", m)
    <3>1. m.up = c.up /\ m.upRef = c.upRef /\ m.stage = c.stage /\ m.rev = c.rev /\ m.ref = 0
      BY DEF Call
    <3> HIDE DEF m
    <3>2. pc'[p] = "generate" /\ call'[p] = m
      BY <2>3, ContinueMoves
    <3>3. UpstreamOK(p)'
      BY <1>0, <1>1, <2>1, <3>1, <3>2, SameUpstream DEF LocalOK, Steps, Opening
    <3>4. OwnOK(p)'
      BY <2>2, <3>1, <3>2 DEF OwnOK, Writing, Opening
    <3> QED
      BY <3>2, <3>3, <3>4, VacuousLocal DEF LocalOK
  <2>4. CASE /\ c.stage < 6 => Len(head[c.stage]) = c.ref
             /\ Matches(c.stage, r, c)
             /\ Continue(p, "reuse upstream", n)
    <3>1. /\ n.up = c.up /\ n.upRef = c.upRef /\ n.stage = c.stage /\ n.config = c.config
          /\ n.rev = r /\ n.ref = c.ref
      BY DEF Call
    <3> HIDE DEF n
    <3>2. pc'[p] = "reuse upstream" /\ call'[p] = n
      BY <2>4, ContinueMoves
    <3>3. UpstreamOK(p)'
      BY <1>0, <1>1, <2>1, <3>1, <3>2, SameUpstream DEF LocalOK, Steps, Opening
    <3>4. head[c.stage] # <<>>
      BY <1>2, <2>2, PointerTypes
    <3>5. r \in ToSet(head[c.stage]) /\ (c.stage < 6 => head[c.stage][c.ref] = r)
      <4>1. r = head[c.stage][Len(head[c.stage])] /\ Len(head[c.stage]) \in 1..Len(head[c.stage])
        BY <1>2, <3>4, PointerTypes
      <4>2. r \in ToSet(head[c.stage])
        BY <1>2, <4>1, PointerTypes
      <4> HIDE DEF r
      <4> QED
        BY <2>4, <4>1, <4>2
    <3> HIDE DEF r
    <3>6. ReuseOK(p)'
      BY <1>0, <2>2, <2>4, <3>1, <3>2, <3>5 DEF ReuseOK, Matches
    <3> QED
      BY <3>2, <3>3, <3>6, VacuousLocal DEF LocalOK, Reusing
  <2> QED
    BY <1>3, <2>1, <2>3, <2>4
<1>9. CASE ReuseUpstream(p)
  <2>1. /\ pc[p] = "reuse upstream"
        /\ Raise(p, "moved") \/ Continue(p, "reuse own", c) \/ Return(p, c, TRUE, head)
    BY <1>1, <1>9 DEF ReuseUpstream
  <2>2. CASE Continue(p, "reuse own", c)
    <3>1. pc'[p] = "reuse own" /\ call'[p] = c
      BY <2>2, ContinueMoves
    <3>2. UpstreamOK(p)'
      BY <1>0, <1>1, <2>1, <3>1, SameUpstream DEF LocalOK, Steps, Opening
    <3>3. ReuseOK(p)'
      BY <1>0, <1>1, <2>1, <3>1 DEF LocalOK, ReuseOK, Matches, Reusing
    <3> QED
      BY <3>1, <3>2, <3>3, VacuousLocal DEF LocalOK, Reusing
  <2> QED
    BY <1>1, <1>3, <2>1, <2>2, ReturnLocal
<1>10. CASE ReuseOwn(p)
    BY <1>1, <1>3, <1>10, ReturnLocal DEF ReuseOwn
<1> QED
    BY <1>4, <1>5, <1>6, <1>7, <1>8, <1>9, <1>10 DEF Reading

\* A call keeps its work when the stores rest.
LEMMA SameWork ==
    ASSUME NEW p \in Procs, WorkOK(p), pc[p] \in Generated, UNCHANGED <<input, head>>,
           call'[p].stage = call[p].stage, call'[p].upRef = call[p].upRef,
           call'[p].out = call[p].out, call'[p].fresh = call[p].fresh,
           pc[p] \in Made
    PROVE  WorkOK(p)'
PROOF
    BY DEF WorkOK, UpRef

\* What the steps in memory establish.
LEMMA PreparingLocal ==
    ASSUME StoreTypeOK, LocalTypeOK, Sorted, NEW p \in Procs, LocalOK(p), Preparing(p)
    PROVE  LocalOK(p)'
PROOF
<1>0. pc[p] # "idle" /\ UNCHANGED <<input, leaves, root, report, overtaken, head>>
    BY DEF Preparing, Generate, StableBefore, ReadCurrentRef, ReadCurrent, Alloc, Stable, store
<1>1. PICK c \in Call : c = call[p] /\ Shape(c)
    BY <1>0, CallTypes
<1>2. /\ c.stage \in Stages /\ c.stage \in 4..6 /\ c.ref \in Nat /\ c.upRef \in Nat /\ c.rev \in Nat
      /\ c.stage # 4 => c.stage - 1 \in Stages
    BY BoundsAreNaturals DEF Call, Stages
<1>3. \A status : status # "ok" /\ Raise(p, status) => LocalOK(p)'
    BY RaiseMoves, IdleLocal
<1>4. UpRef(c.stage) \in Nat
    BY <1>2, PointerTypes
<1>5. CASE Generate(p)
  <2>1. PICK o \in Outputs : Continue(p, IF c.stage = 4 THEN "stable before" ELSE "current ref",
                                 [c EXCEPT !.out = o, !.fresh = UpRef(c.stage) = c.upRef])
    BY <1>1, <1>5 DEF Generate
  <2>2. pc[p] = "generate"
    BY <1>5 DEF Generate
  <2>a. PICK n : n = [c EXCEPT !.out = o, !.fresh = UpRef(c.stage) = c.upRef]
    OBVIOUS
  <2>3. /\ n.up = c.up /\ n.upRef = c.upRef /\ n.stage = c.stage /\ n.ref = c.ref /\ n.rev = c.rev
        /\ n.out = o
    BY <2>a DEF Call
  <2>b. n.fresh = (UpRef(c.stage) = c.upRef)
    BY <2>a DEF Call
  <2>c. ~n.fresh => UpRef(c.stage) # c.upRef
    BY <2>b
  <2>4. /\ pc'[p] = IF c.stage = 4 THEN "stable before" ELSE "current ref"
        /\ call'[p] = n
    <3>1. PICK t : t = IF c.stage = 4 THEN "stable before" ELSE "current ref"
      OBVIOUS
    <3>2. Continue(p, t, n)
      BY <2>1, <2>a, <3>1
    <3> QED
      BY <3>1, <3>2, ContinueMoves
  <2>5. c.ref = 0 /\ c.rev = 0 /\ UpstreamWasCurrent(c)
    BY <1>1, <2>2 DEF LocalOK, OwnOK, UpstreamOK, Steps, Opening
  <2>6. UpstreamOK(p)'
    BY <1>0, <1>1, <2>2, <2>3, <2>4, SameUpstream DEF LocalOK, Steps, Opening
  <2>7. OwnOK(p)'
    BY <2>3, <2>4, <2>5 DEF OwnOK, Writing, Opening
  <2>8. UpRef(c.stage) \geq c.upRef
    <3>1. CASE c.stage = 4
      BY <1>2, <2>5, <3>1, BoundsAreNaturals DEF UpRef, UpstreamWasCurrent, StoreTypeOK
    <3>2. CASE c.stage # 4
      <4>1. c.upRef \in DOMAIN head[c.stage - 1] /\ UpRef(c.stage) = Len(head[c.stage - 1])
        BY <2>5, <3>2 DEF UpRef, UpstreamWasCurrent
      <4> QED
        BY <1>2, <3>2, <4>1, PointerTypes
    <3> QED
      BY <3>1, <3>2
  <2>10. WorkOK(p)'
    <3>1. n.out \in Outputs /\ (~n.fresh => UpRef(c.stage) > n.upRef)
      BY <1>2, <1>4, <2>3, <2>8, <2>c
    <3>2. pc'[p] \in Made => n.stage # 4
      BY <2>3, <2>4 DEF Made, Writing
    <3> QED
      BY <1>0, <2>3, <2>4, <3>1, <3>2 DEF WorkOK, UpRef
  <2>11. pc'[p] \in {"stable before", "current ref"}
    BY <2>4
  <2> QED
    BY <2>6, <2>7, <2>10, <2>11, VacuousLocal DEF LocalOK, Generated, Made
<1>6. CASE StableBefore(p)
  <2>1. pc[p] = "stable before"
    BY <1>6 DEF StableBefore
  <2>2. CASE ~UpstreamUnmoved(c)
    BY <1>1, <1>3, <1>6, <2>2 DEF StableBefore
  <2>3. CASE UpstreamUnmoved(c)
    <3>1. pc'[p] = "current ref" /\ call'[p] = c
      BY <1>1, <1>6, <2>3, ContinueMoves DEF StableBefore
    <3>2. UpstreamOK(p)'
      BY <1>0, <1>1, <2>1, <3>1, SameUpstream DEF LocalOK, Steps, Opening
    <3>3. OwnOK(p)'
      BY <1>1, <2>1, <3>1 DEF LocalOK, OwnOK, Writing, Opening
    <3>4. c.out \in Outputs /\ (~c.fresh => UpRef(c.stage) > c.upRef)
      BY <1>1, <2>1 DEF LocalOK, WorkOK, Generated
    <3>5. c.stage = 4 => c.fresh
      <4>1. c.stage = 4 => UpRef(c.stage) = c.upRef
        BY <2>3 DEF UpstreamUnmoved
      <4> QED
        BY <1>2, <3>4, <4>1
    <3>6. WorkOK(p)'
      BY <1>0, <3>1, <3>4, <3>5 DEF WorkOK, UpRef
    <3> QED
      BY <3>1, <3>2, <3>3, <3>6, VacuousLocal DEF LocalOK, Generated, Made
  <2> QED
    BY <2>2, <2>3
<1>7. CASE ReadCurrentRef(p)
  <2> DEFINE n == [c EXCEPT !.ref = Len(head[c.stage])]
  <2>1. /\ pc[p] = "current ref"
        /\ \/ head[c.stage] = <<>> /\ Continue(p, "alloc", c)
           \/ head[c.stage] # <<>> /\ Continue(p, "current", n)
    BY <1>1, <1>7 DEF ReadCurrentRef
  <2>2. c.ref = 0 /\ c.rev = 0
    BY <1>1, <2>1 DEF LocalOK, OwnOK
  <2>3. CASE head[c.stage] = <<>> /\ Continue(p, "alloc", c)
    <3>1. pc'[p] = "alloc" /\ call'[p] = c
      BY <2>3, ContinueMoves
    <3>2. UpstreamOK(p)'
      BY <1>0, <1>1, <2>1, <3>1, SameUpstream DEF LocalOK, Steps, Opening
    <3>3. c.ref \leq Len(head'[c.stage]) /\ \A x \in ToSet(head'[c.stage]) : FALSE
      <4>1. Len(head[c.stage]) = 0
        BY <1>2, <2>3, PointerTypes
      <4>2. \A x : x \in ToSet(head[c.stage]) <=> \E i \in 1..0 : head[c.stage][i] = x
        BY <1>2, <4>1, PointerTypes
      <4> QED
        BY <1>0, <2>2, <4>1, <4>2
    <3>4. OwnOK(p)'
      BY <3>1, <3>3 DEF OwnOK, Writing, Opening
    <3>5. WorkOK(p)'
      BY <1>0, <1>1, <2>1, <3>1, SameWork DEF LocalOK, Generated, Made
    <3> QED
      BY <3>1, <3>2, <3>4, <3>5, VacuousLocal DEF LocalOK, Generated, Made
  <2>4. CASE head[c.stage] # <<>> /\ Continue(p, "current", n)
    <3>1. /\ n.up = c.up /\ n.upRef = c.upRef /\ n.stage = c.stage /\ n.rev = c.rev
          /\ n.ref = Len(head[c.stage]) /\ n.out = c.out /\ n.fresh = c.fresh
      BY DEF Call
    <3> HIDE DEF n
    <3>2. pc'[p] = "current" /\ call'[p] = n
      BY <2>4, ContinueMoves
    <3>3. UpstreamOK(p)'
      BY <1>0, <1>1, <2>1, <3>1, <3>2, SameUpstream DEF LocalOK, Steps, Opening
    <3>4. n.ref \in DOMAIN head'[n.stage]
      BY <1>0, <1>2, <2>4, <3>1, PointerTypes
    <3>5. OwnOK(p)'
      BY <2>2, <3>1, <3>2, <3>4 DEF OwnOK, Writing, Opening
    <3>6. WorkOK(p)'
      BY <1>0, <1>1, <2>1, <3>1, <3>2, SameWork DEF LocalOK, Generated, Made
    <3> QED
      BY <3>2, <3>3, <3>5, <3>6, VacuousLocal DEF LocalOK, Generated, Made
  <2> QED
    BY <2>1, <2>3, <2>4
<1>8. CASE ReadCurrent(p)
  <2> DEFINE n == [c EXCEPT !.rev = Last(head[c.stage])]
  <2>1. /\ pc[p] = "current"
        /\ Raise(p, "moved") \/ Raise(p, "corrupt") \/ Return(p, n, TRUE, head) \/ Continue(p, "alloc", n)
    BY <1>1, <1>8 DEF ReadCurrent
  <2>2. c.ref \in DOMAIN head[c.stage]
    BY <1>1, <2>1 DEF LocalOK, OwnOK
  <2>3. head[c.stage] # <<>> /\ c.ref \leq Len(head[c.stage])
    BY <1>2, <2>2, PointerTypes
  <2>4. n \in Call /\ Shape(n)
    BY <1>1, <1>2, <2>3, PointerTypes, RevsAreNaturals, SetTypes, SetShapes
  <2>5. CASE Continue(p, "alloc", n)
    <3>1. /\ n.up = c.up /\ n.upRef = c.upRef /\ n.stage = c.stage /\ n.ref = c.ref
          /\ n.rev = Last(head[c.stage]) /\ n.out = c.out /\ n.fresh = c.fresh
      BY DEF Call
    <3> HIDE DEF n
    <3>2. pc'[p] = "alloc" /\ call'[p] = n
      BY <2>5, ContinueMoves
    <3>3. UpstreamOK(p)'
      BY <1>0, <1>1, <2>1, <3>1, <3>2, SameUpstream DEF LocalOK, Steps, Opening
    <3>4. \A x \in ToSet(head[c.stage]) : x \leq n.rev
      BY <1>2, <3>1, LastIsMax
    <3>5. OwnOK(p)'
      BY <1>0, <2>3, <3>1, <3>2, <3>4 DEF OwnOK, Writing, Opening
    <3>6. WorkOK(p)'
      BY <1>0, <1>1, <2>1, <3>1, <3>2, SameWork DEF LocalOK, Generated, Made
    <3> QED
      BY <3>2, <3>3, <3>5, <3>6, VacuousLocal DEF LocalOK, Generated, Made
  <2> QED
    BY <1>3, <2>1, <2>4, <2>5, ReturnLocal
<1>9. CASE Alloc(p)
  <2>1. PICK r \in Revs : r > c.rev /\ Continue(p, "put leaves", [c EXCEPT !.rev = r])
    BY <1>1, <1>9 DEF Alloc, FirstAfter, Free
  <2> DEFINE n == [c EXCEPT !.rev = r]
  <2>2. pc[p] = "alloc"
    BY <1>9 DEF Alloc
  <2>3. /\ n.up = c.up /\ n.upRef = c.upRef /\ n.stage = c.stage /\ n.ref = c.ref
        /\ n.rev = r /\ n.out = c.out /\ n.fresh = c.fresh
    BY DEF Call
  <2>4. pc'[p] = "put leaves" /\ call'[p] = n
    BY <2>1, ContinueMoves
  <2> HIDE DEF n
  <2>5. UpstreamOK(p)'
    BY <1>0, <1>1, <2>2, <2>3, <2>4, SameUpstream DEF LocalOK, Steps, Opening
  <2>6. /\ c.ref \leq Len(head[c.stage])
        /\ c.ref = Len(head[c.stage]) => \A x \in ToSet(head[c.stage]) : x \leq c.rev
    BY <1>1, <2>2 DEF LocalOK, OwnOK
  <2>7. c.ref = Len(head[c.stage]) => \A x \in ToSet(head[c.stage]) : x < r
    <3>1. \A x \in ToSet(head[c.stage]) : x \in Nat
      BY <1>2, PointerTypes, RevsAreNaturals
    <3>2. r \in Nat /\ r > c.rev
      BY <2>1, RevsAreNaturals
    <3> QED
      BY <1>2, <2>6, <3>1, <3>2
  <2>8. OwnOK(p)'
    BY <1>0, <2>1, <2>3, <2>4, <2>6, <2>7 DEF OwnOK, Writing, Opening
  <2>9. WorkOK(p)'
    BY <1>0, <1>1, <2>2, <2>3, <2>4, SameWork DEF LocalOK, Generated, Made
  <2> QED
    BY <2>4, <2>5, <2>8, <2>9, VacuousLocal DEF LocalOK, Generated, Made, Writing
<1>10. CASE Stable(p)
  <2>1. pc[p] = "stable" /\ (Raise(p, "moved") \/ Continue(p, "publish", c))
    BY <1>1, <1>10 DEF Stable
  <2>2. CASE Continue(p, "publish", c)
    <3>1. pc'[p] = "publish" /\ call'[p] = c
      BY <2>2, ContinueMoves
    <3>2. UpstreamOK(p)'
      BY <1>0, <1>1, <2>1, <3>1, SameUpstream DEF LocalOK, Steps, Opening
    <3>3. OwnOK(p)'
      BY <1>0, <1>1, <2>1, <3>1 DEF LocalOK, OwnOK, Writing, Opening
    <3>4. WorkOK(p)'
      BY <1>0, <1>1, <2>1, <3>1, SameWork DEF LocalOK, Generated, Made, Writing
    <3>5. WrittenOK(p)'
      BY <1>0, <1>1, <2>1, <3>1 DEF LocalOK, WrittenOK, Writing
    <3> QED
      BY <3>1, <3>2, <3>3, <3>4, <3>5, VacuousLocal DEF LocalOK, Generated, Made, Writing
  <2> QED
    BY <1>3, <2>1, <2>2
<1> QED
    BY <1>5, <1>6, <1>7, <1>8, <1>9, <1>10 DEF Preparing

\* What the three writes establish.
LEMMA StoringLocal ==
    ASSUME StoreTypeOK, LocalTypeOK, NEW p \in Procs, LocalOK(p), Storing(p)
    PROVE  LocalOK(p)'
PROOF
<1>0. pc[p] # "idle" /\ pc[p] \in {"put leaves", "put root", "put report"} /\ UNCHANGED <<input, head>>
    BY DEF Storing, PutLeaves, PutRoot, PutReport
<1>1. PICK c \in Call : c = call[p] /\ Shape(c)
    BY <1>0, CallTypes
<1>2. c.stage \in Stages /\ c.rev \in Revs
    BY <1>0, <1>1 DEF LocalOK, OwnOK, Writing, Call
<1>3. \A status : status # "ok" /\ Raise(p, status) => LocalOK(p)'
    BY RaiseMoves, IdleLocal
<1>4. ASSUME NEW s \in Writing \ {"put leaves"}, Continue(p, s, c), WrittenOK(p)'
      PROVE  LocalOK(p)'
  <2>1. pc'[p] = s /\ call'[p] = c
    BY <1>4, ContinueMoves
  <2>2. UpstreamOK(p)'
    BY <1>0, <1>1, <1>4, <2>1, SameUpstream DEF LocalOK, Steps, Opening, Writing
  <2>3. OwnOK(p)'
    BY <1>0, <1>1, <1>4, <2>1 DEF LocalOK, OwnOK, Writing, Opening
  <2>4. WorkOK(p)'
    BY <1>0, <1>1, <2>1, SameWork DEF LocalOK, Generated, Made, Writing
  <2> QED
    BY <1>4, <2>1, <2>2, <2>3, <2>4, VacuousLocal DEF LocalOK, Generated, Made
<1>5. CASE PutLeaves(p)
  <2> DEFINE content == [up |-> c.up, out |-> c.out]
  <2>1. \/ Raise(p, "conflict")
        \/ leaves' = [leaves EXCEPT ![c.stage][c.rev] = content] /\ Continue(p, "put root", c)
    BY <1>1, <1>5 DEF PutLeaves
  <2> HIDE DEF content
  <2>2. CASE leaves' = [leaves EXCEPT ![c.stage][c.rev] = content] /\ Continue(p, "put root", c)
    <3>1. leaves \in [Stages -> [Revs -> Leaves \union {None}]]
      BY DEF StoreTypeOK
    <3>2. leaves'[c.stage][c.rev] = content
      BY <1>2, <2>2, <3>1, TableUpdate, ZenonT(60)
    <3>3. pc'[p] = "put root" /\ call'[p] = c
      BY <2>2, ContinueMoves
    <3>4. WrittenOK(p)'
      BY <3>2, <3>3 DEF WrittenOK, content
    <3> QED
      BY <1>4, <2>2, <3>4 DEF Writing
  <2> QED
    BY <1>3, <2>1, <2>2
<1>6. CASE PutRoot(p)
  <2> DEFINE content == [up |-> c.up, out |-> c.out, config |-> c.config]
  <2>1. /\ pc[p] = "put root" /\ leaves' = leaves
        /\ \/ Raise(p, "conflict")
           \/ root' = [root EXCEPT ![c.stage][c.rev] = content] /\ Continue(p, "put report", c)
    BY <1>1, <1>6 DEF PutRoot
  <2> HIDE DEF content
  <2>2. CASE root' = [root EXCEPT ![c.stage][c.rev] = content] /\ Continue(p, "put report", c)
    <3>1. root \in [Stages -> [Revs -> Root \union {None}]]
      BY DEF StoreTypeOK
    <3>2. root'[c.stage][c.rev] = content
      BY <1>2, <2>2, <3>1, TableUpdate, ZenonT(60)
    <3>3. pc'[p] = "put report" /\ call'[p] = c
      BY <2>2, ContinueMoves
    <3>4. leaves[c.stage][c.rev] = [up |-> c.up, out |-> c.out]
      BY <1>1, <2>1 DEF LocalOK, WrittenOK, Writing
    <3>5. WrittenOK(p)'
      BY <2>1, <3>2, <3>3, <3>4 DEF WrittenOK, content
    <3> QED
      BY <1>4, <2>2, <3>5 DEF Writing
  <2> QED
    BY <1>3, <2>1, <2>2
<1>7. CASE PutReport(p)
  <2>1. /\ pc[p] = "put report" /\ UNCHANGED <<leaves, root>>
        /\ <<c.stage, c.rev>> \in report'
        /\ Continue(p, "publish", c) \/ Continue(p, "stable", c)
    BY <1>1, <1>7 DEF PutReport
  <2>2. call'[p] = c
    BY <2>1, ContinueMoves
  <2>3. WrittenOK(p)'
    BY <1>1, <2>1, <2>2 DEF LocalOK, WrittenOK, Writing
  <2> QED
    BY <1>4, <2>1, <2>3 DEF Writing
<1> QED
    BY <1>5, <1>6, <1>7 DEF Storing

\* How the call of Publish ends, and what it answers.
LEMMA PublishCases ==
    ASSUME StoreTypeOK, LocalTypeOK, NEW p \in Procs, LocalOK(p), Publish(p),
           NEW n, n = [call[p] EXCEPT !.ref = Len(head'[call[p].stage])]
    PROVE  /\ n \in Call /\ Shape(n)
           /\ \/ /\ Return(p, n, FALSE, head')
                 /\ head'[call[p].stage] # <<>>
                 /\ Last(head'[call[p].stage]) = call[p].rev
              \/ End(p, "failed", call[p], head')
              \/ Raise(p, "conflict")
PROOF
<1> DEFINE c == call[p]
           own == head[c.stage]
<1>1. pc[p] = "publish" /\ pc[p] # "idle"
    BY DEF Publish
<1>2. c \in Call /\ Shape(c) /\ c.stage \in Stages /\ c.rev \in Revs
    BY <1>1, CallTypes DEF LocalOK, OwnOK, Writing
<1>3. StoreTypeOK'
    BY PublishTypes
<1>4. head'[c.stage] \in Seq(Revs) /\ own \in Seq(Revs)
    BY <1>2, <1>3 DEF StoreTypeOK
<1>5. n \in Call /\ Shape(n)
    <2>1. Len(head'[c.stage]) \in Nat
      BY <1>4
    <2> HIDE DEF c
    <2> QED
      BY <1>2, <2>1, SetTypes, SetShapes DEF c
<1> HIDE DEF c
<1>6. \/ /\ Return(p, n, FALSE, head')
         /\ \/ head' = [head EXCEPT ![c.stage] = Append(own, c.rev)]
            \/ head' = head /\ Len(own) = c.ref + 1 /\ Last(own) = c.rev
      \/ End(p, "failed", c, head')
      \/ Raise(p, "conflict")
    BY DEF Publish, c
<1>7. CASE head' = [head EXCEPT ![c.stage] = Append(own, c.rev)]
  <2>1. head'[c.stage] = Append(own, c.rev)
    BY <1>2, <1>7 DEF StoreTypeOK
  <2>2. Len(Append(own, c.rev)) = Len(own) + 1 /\ Append(own, c.rev)[Len(own) + 1] = c.rev /\ Len(own) \in Nat
    BY <1>2, <1>4, AppendProperties
  <2>3. Append(own, c.rev) # <<>>
    <3>1. Append(own, c.rev) \in Seq(Revs) /\ Len(Append(own, c.rev)) # 0
      BY <1>2, <1>4, <2>2, AppendProperties
    <3> QED
      BY <3>1, EmptySeq
  <2>4. Last(head'[c.stage]) = c.rev
    BY <2>1, <2>2 DEF Last
  <2> QED
    BY <1>5, <1>6, <2>1, <2>3, <2>4 DEF c
<1>8. CASE head' = head /\ Len(own) = c.ref + 1 /\ Last(own) = c.rev
  <2>1. own # <<>>
    BY <1>2, <1>8 DEF Call
  <2> QED
    BY <1>5, <1>6, <1>8, <2>1 DEF c
<1> QED
    BY <1>5, <1>6, <1>7, <1>8 DEF c

\* A call that published, or failed to, has no stage half done.
LEMMA PublishLocal ==
    ASSUME StoreTypeOK, LocalTypeOK, NEW p \in Procs, LocalOK(p), Publish(p)
    PROVE  LocalOK(p)'
PROOF
<1>1. PICK n : n = [call[p] EXCEPT !.ref = Len(head'[call[p].stage])]
    OBVIOUS
<1>2. CASE Return(p, n, FALSE, head')
    BY <1>1, <1>2, PublishCases, ReturnLocal
<1>3. CASE End(p, "failed", call[p], head') \/ Raise(p, "conflict")
  <2>1. pc'[p] = "idle"
    BY <1>3, EndMoves, RaiseMoves
  <2> QED
    BY <2>1, IdleLocal
<1> QED
    BY <1>1, <1>2, <1>3, PublishCases

\* A published revision is above those before it.
LEMMA SortedStep ==
    ASSUME StoreTypeOK, LocalTypeOK, CallsAreConsistent, Sorted, NEW p \in Procs, Publish(p)
    PROVE  /\ Sorted'
           /\ \A s \in Stages : \A r \in ToSet(head'[s]) :
                  r \in ToSet(head[s]) \/ (s = call[p].stage /\ r = call[p].rev)
PROOF
<1>1. pc[p] = "publish" /\ pc[p] # "idle" /\ LocalOK(p)
    BY DEF Publish, CallsAreConsistent
<1>2. PICK c \in Call : c = call[p]
    BY <1>1, CallTypes
<1>3. c.stage \in Stages /\ c.rev \in Revs
    BY <1>1, <1>2 DEF LocalOK, OwnOK, Writing, Call
<1>4. CASE head' = head
  <2>1. Sorted'
    BY <1>4 DEF Sorted
  <2> QED
    BY <1>4, <2>1
<1>5. CASE head' = [head EXCEPT ![c.stage] = Append(@, c.rev)] /\ Len(head[c.stage]) = c.ref
  <2>1. \A r \in ToSet(head[c.stage]) : r < c.rev
    BY <1>1, <1>2, <1>5 DEF LocalOK, OwnOK, Writing
  <2>2. head[c.stage] \in Seq(Revs) /\ Len(head[c.stage]) \in Nat
    BY <1>3, PointerTypes
  <2>3. PICK new : new = Append(head[c.stage], c.rev)
    OBVIOUS
  <2>4. /\ Len(new) = Len(head[c.stage]) + 1
        /\ \A i \in 1..Len(head[c.stage]) : new[i] = head[c.stage][i]
        /\ new[Len(head[c.stage]) + 1] = c.rev
        /\ DOMAIN new = 1..Len(new)
    BY <1>3, <2>2, <2>3, AppendProperties
  <2>5. \A s \in Stages : head'[s] = IF s = c.stage THEN new ELSE head[s]
    BY <1>3, <1>5, <2>3 DEF StoreTypeOK
  <2>6. \A i, j \in 1..Len(new) : i < j => new[i] < new[j]
    <3> SUFFICES ASSUME NEW i \in 1..Len(new), NEW j \in 1..Len(new), i < j
                 PROVE  new[i] < new[j]
        OBVIOUS
    <3>a. i \in 1..Len(head[c.stage])
      BY <2>2, <2>4
    <3>1. i \in 1..Len(head[c.stage]) /\ new[i] = head[c.stage][i] /\ new[i] \in ToSet(head[c.stage])
      BY <1>3, <2>4, <3>a, PointerTypes
    <3>2. CASE j = Len(head[c.stage]) + 1
      BY <2>1, <2>4, <3>1, <3>2
    <3>3. CASE j # Len(head[c.stage]) + 1
      <4>1. j \in 1..Len(head[c.stage]) /\ new[j] = head[c.stage][j]
        BY <2>2, <2>4, <3>3
      <4> QED
        BY <1>3, <3>1, <4>1 DEF Sorted
    <3> QED
      BY <3>2, <3>3
  <2>7. Sorted'
    BY <2>5, <2>6 DEF Sorted
  <2>8. ASSUME NEW r \in ToSet(new)
        PROVE  r \in ToSet(head[c.stage]) \/ r = c.rev
    <3>1. PICK i \in 1..Len(new) : new[i] = r
      BY <2>4, <2>8 DEF ToSet
    <3>2. CASE i = Len(head[c.stage]) + 1
      BY <2>4, <3>1, <3>2
    <3>3. CASE i # Len(head[c.stage]) + 1
      <4>1. i \in 1..Len(head[c.stage])
        BY <2>2, <2>4, <3>1, <3>3
      <4> QED
        BY <1>3, <2>4, <3>1, <4>1, PointerTypes
    <3> QED
      BY <3>2, <3>3
  <2>9. ASSUME NEW s \in Stages, NEW r \in ToSet(head'[s])
        PROVE  r \in ToSet(head[s]) \/ (s = call[p].stage /\ r = call[p].rev)
    BY <1>2, <2>5, <2>8, <2>9
  <2> QED
    BY <2>7, <2>9
<1> QED
    BY <1>1, <1>2, <1>4, <1>5, PublishGrows

-----------------------------------------------------------------------------
(* What is published, or about to be, is complete and was not overtaken.   *)

\* p's stage is over.
Ends(p) == pc'[p] \in {"idle", "upstream ref"} /\ OthersRest(p)

\* Raising, ending and returning close the stage.
LEMMA EndingMoves ==
    ASSUME LocalTypeOK, NEW p \in Procs
    PROVE  /\ \A c, reused, h : Return(p, c, reused, h) => Ends(p)
           /\ \A status, c, h : End(p, status, c, h) => Ends(p)
           /\ \A status : Raise(p, status) => Ends(p)
PROOF
<1>1. \A status, c, h : End(p, status, c, h) => Ends(p)
    BY EndMoves DEF Ends
<1>2. ASSUME NEW c, NEW reused, NEW h, Return(p, c, reused, h)
      PROVE  Ends(p)
  <2>1. PICK done : End(p, "ok", done, h) \/ \E n : Continue(p, "upstream ref", n)
    BY <1>2 DEF Return
  <2>2. ASSUME NEW n, Continue(p, "upstream ref", n)
        PROVE  Ends(p)
    BY <2>2, ContinueMoves DEF Ends
  <2> QED
    BY <1>1, <2>1, <2>2
<1>3. \A status : Raise(p, status) => Ends(p)
    BY <1>1 DEF Raise
<1> QED
    BY <1>1, <1>2, <1>3

\* The steps that neither take a revision nor write an artifact.
Quiet(p) ==
    \/ Start(p) \/ Inputs(p) \/ Reading(p) \/ Generate(p) \/ StableBefore(p)
    \/ ReadCurrentRef(p) \/ ReadCurrent(p) \/ Publish(p) \/ Fails(p)

\* Most steps neither take a revision, nor write, nor come to publish.
LEMMA QuietSteps ==
    ASSUME LocalTypeOK, NEW p \in Procs, Quiet(p)
    PROVE  /\ pc'[p] \notin {"put leaves", "put root", "publish"}
           /\ OthersRest(p)
           /\ UNCHANGED <<leaves, root, report, overtaken>>
PROOF
<1>1. UNCHANGED <<leaves, root, report, overtaken>>
    BY DEF Quiet, Start, Inputs, Reading, ReadInputs, ReadUpstreamRef, ReadUpstream, ReadOwnRef,
           ReadOwn, ReuseUpstream, ReuseOwn, Generate, StableBefore, ReadCurrentRef, ReadCurrent,
           Publish, Fails, store
<1> DEFINE Good == pc'[p] \notin {"put leaves", "put root", "publish"} /\ OthersRest(p)
           Passive == Steps \ {"put leaves", "put root", "publish"}
<1> SUFFICES Good
    BY <1>1
<1>2. Ends(p) => Good
    BY DEF Ends
<1>3. ASSUME NEW s \in Passive, NEW c, Continue(p, s, c)
      PROVE  Good
    BY <1>3, ContinueMoves
<1>4. {"upstream ref", "upstream", "own ref", "own", "generate", "reuse upstream", "reuse own",
       "stable before", "current ref", "current", "alloc"} \subseteq Passive
    BY DEF Steps
<1> HIDE DEF Good, Passive
<1>5. CASE Start(p)
    BY <1>5, StartMoves DEF Good
<1>6. CASE Inputs(p)
    BY <1>3, <1>4, <1>6 DEF Inputs
<1>7. CASE ReadInputs(p) \/ ReadUpstreamRef(p) \/ ReadUpstream(p)
    BY <1>2, <1>3, <1>4, <1>7, EndingMoves DEF ReadInputs, ReadUpstreamRef, ReadUpstream
<1>8. CASE ReadOwnRef(p) \/ ReadOwn(p)
    BY <1>2, <1>3, <1>4, <1>8, EndingMoves DEF ReadOwnRef, ReadOwn
<1>9. CASE ReuseUpstream(p) \/ ReuseOwn(p)
    BY <1>2, <1>3, <1>4, <1>9, EndingMoves DEF ReuseUpstream, ReuseOwn
<1>10. CASE Generate(p)
  <2>1. PICK o : \E s \in {"stable before", "current ref"} : Continue(p, s, o)
    BY <1>10 DEF Generate
  <2> QED
    BY <1>3, <1>4, <2>1
<1>11. CASE StableBefore(p) \/ ReadCurrentRef(p)
    BY <1>2, <1>3, <1>4, <1>11, EndingMoves DEF StableBefore, ReadCurrentRef
<1>12. CASE ReadCurrent(p)
    BY <1>2, <1>3, <1>4, <1>12, EndingMoves DEF ReadCurrent
<1>13. CASE Publish(p)
    BY <1>2, <1>13, EndingMoves DEF Publish
<1>14. CASE Fails(p)
    BY <1>2, <1>14, EndingMoves DEF Fails
<1> QED
    BY <1>5, <1>6, <1>7, <1>8, <1>9, <1>10, <1>11, <1>12, <1>13, <1>14 DEF Quiet, Reading

\* The other steps.
LEMMA BusySteps ==
    ASSUME LocalTypeOK, NEW p \in Procs, pc[p] # "idle",
           Alloc(p) \/ Stable(p) \/ PutLeaves(p) \/ PutRoot(p) \/ PutReport(p)
    PROVE  /\ OthersRest(p)
           /\ pc'[p] = "publish" =>
                  /\ call'[p] = call[p]
                  /\ \/ Stable(p) /\ UpstreamUnmoved(call[p])
                     \/ PutReport(p) /\ call[p].stage = 4
           /\ pc'[p] = "put leaves" => Alloc(p)
           /\ pc'[p] = "put root" => PutLeaves(p) /\ call'[p] = call[p]
           /\ ~PutRoot(p) => overtaken' = overtaken
PROOF
<1>1. CASE Alloc(p)
  <2>1. PICK n : Continue(p, "put leaves", n)
    BY <1>1 DEF Alloc
  <2>2. pc'[p] = "put leaves" /\ OthersRest(p)
    BY <2>1, ContinueMoves
  <2> QED
    BY <1>1, <2>2 DEF Alloc, store
<1>2. CASE Stable(p)
  <2>1. overtaken' = overtaken
    BY <1>2 DEF Stable, store
  <2>2. CASE UpstreamUnmoved(call[p])
    <3>1. pc'[p] = "publish" /\ call'[p] = call[p] /\ OthersRest(p)
      BY <1>2, <2>2, ContinueMoves DEF Stable
    <3> QED
      BY <1>2, <2>1, <2>2, <3>1
  <2>3. CASE ~UpstreamUnmoved(call[p])
    <3>1. Ends(p)
      BY <1>2, <2>3, EndingMoves DEF Stable
    <3> QED
      BY <2>1, <3>1 DEF Ends
  <2> QED
    BY <2>2, <2>3
<1>3. CASE PutLeaves(p)
  <2>1. overtaken' = overtaken /\ (Ends(p) \/ Continue(p, "put root", call[p]))
    BY <1>3, EndingMoves DEF PutLeaves
  <2>2. CASE Ends(p)
    BY <2>1, <2>2 DEF Ends
  <2>3. CASE Continue(p, "put root", call[p])
    <3>1. pc'[p] = "put root" /\ call'[p] = call[p] /\ OthersRest(p)
      BY <2>3, ContinueMoves
    <3> QED
      BY <1>3, <2>1, <3>1
  <2> QED
    BY <2>1, <2>2, <2>3
<1>4. CASE PutRoot(p)
  <2>1. Ends(p) \/ Continue(p, "put report", call[p])
    BY <1>4, EndingMoves DEF PutRoot
  <2>2. CASE Ends(p)
    BY <1>4, <2>2 DEF Ends
  <2>3. CASE Continue(p, "put report", call[p])
    <3>1. pc'[p] = "put report" /\ OthersRest(p)
      BY <2>3, ContinueMoves
    <3> QED
      BY <1>4, <3>1
  <2> QED
    BY <2>1, <2>2, <2>3
<1>5. CASE PutReport(p)
  <2>1. /\ overtaken' = overtaken
        /\ Continue(p, IF call[p].stage = 4 THEN "publish" ELSE "stable", call[p])
    BY <1>5 DEF PutReport
  <2>2. CASE call[p].stage = 4
    <3>1. pc'[p] = "publish" /\ call'[p] = call[p] /\ OthersRest(p)
      BY <2>1, <2>2, ContinueMoves
    <3> QED
      BY <1>5, <2>1, <2>2, <3>1
  <2>3. CASE call[p].stage # 4
    <3>1. pc'[p] = "stable" /\ OthersRest(p)
      BY <2>1, <2>3, ContinueMoves
    <3> QED
      BY <2>1, <3>1
  <2> QED
    BY <2>2, <2>3
<1> QED
    BY <1>1, <1>2, <1>3, <1>4, <1>5

\* The steps from the revision to the pointer.
Busy(p) == Alloc(p) \/ Stable(p) \/ PutLeaves(p) \/ PutRoot(p) \/ PutReport(p)

\* Every step is one of these.
LEMMA StepKinds ==
    ASSUME [Next]_vars
    PROVE  \/ UNCHANGED <<input, leaves, root, report, overtaken, head, pc, call, result>>
           \/ MoveInput
           \/ \E p \in Procs : Quiet(p) \/ (Busy(p) /\ pc[p] # "idle")
PROOF
    BY ZenonT(60) DEF Next, Step, Quiet, Busy, Reading, vars, store, Alloc, Stable, PutLeaves, PutRoot, PutReport

\* Every step lets the stores grow, and only Publish moves a pointer.
LEMMA StoresGrow ==
    ASSUME StoreTypeOK, LocalTypeOK, CallsAreConsistent, [Next]_vars
    PROVE  Grow /\ (head' = head \/ \E p \in Procs : Publish(p))
PROOF
<1>1. CASE UNCHANGED <<input, leaves, root, report, head>>
    BY <1>1, SameStoresGrow
<1>2. CASE /\ UNCHANGED <<leaves, root, report, head>>
           /\ input' \in Nat /\ input \leq input'
  <2>1. \A s \in Stages : Len(head[s]) \in Nat
    BY PointerTypes
  <2> QED
    BY <1>2, <2>1 DEF Grow
<1>3. input \in Nat
    BY BoundsAreNaturals DEF StoreTypeOK
<1>4. CASE MoveInput
    BY <1>2, <1>3, <1>4 DEF MoveInput, store
<1>5. ASSUME NEW p \in Procs, Inputs(p)
      PROVE  Grow /\ head' = head
  <2>1. UNCHANGED <<leaves, root, report, head>> /\ input' \in {input, input + 1}
    BY <1>5 DEF Inputs, store
  <2> QED
    BY <1>2, <1>3, <2>1
<1>6. ASSUME NEW p \in Procs,
             Start(p) \/ Reading(p) \/ Generate(p) \/ StableBefore(p) \/ ReadCurrentRef(p)
                 \/ ReadCurrent(p) \/ Alloc(p) \/ Stable(p) \/ Fails(p)
      PROVE  Grow /\ head' = head
  <2>1. UNCHANGED <<input, leaves, root, report, head>>
    BY <1>6 DEF Start, Reading, ReadInputs, ReadUpstreamRef, ReadUpstream, ReadOwnRef, ReadOwn,
                ReuseUpstream, ReuseOwn, Generate, StableBefore, ReadCurrentRef, ReadCurrent,
                Alloc, Stable, Fails, store
  <2> QED
    BY <1>1, <2>1
<1>7. ASSUME NEW p \in Procs, Storing(p)
      PROVE  Grow /\ head' = head
    BY <1>7, StoringGrows DEF CallsAreConsistent
<1>8. ASSUME NEW p \in Procs, Publish(p)
      PROVE  Grow
    BY <1>8, PublishGrows DEF CallsAreConsistent
<1> QED
    BY <1>1, <1>4, <1>5, <1>6, <1>7, <1>8, StepKinds DEF Quiet, Busy, Storing, MoveInput

\* Revision r of stage s is complete and was not overtaken, and no call that would
\* write the same under the same number is.
SettledAt(s, r) ==
    /\ Complete(s, r)
    /\ <<s, r>> \notin overtaken
    /\ \A q \in Procs :
           /\ pc[q] \in {"put leaves", "put root"}
           /\ call[q].stage = s /\ call[q].rev = r /\ call[q].up = root[s][r].up
           => call[q].fresh

\* What was CURRENT is settled, and so is what a call is about to publish.
CurrentIsSettled == \A s \in Stages : \A r \in ToSet(head[s]) : SettledAt(s, r)
WorkIsSettled ==
    \A p \in Procs : pc[p] = "publish" => SettledAt(call[p].stage, call[p].rev)

\* A revision that was overtaken is older than the input that is current.
OvertakenIsOld ==
    \A s \in Stages, r \in Revs : <<s, r>> \in overtaken =>
        /\ s # 4
        /\ root[s][r] # None
        /\ head[s - 1] # <<>>
        /\ root[s][r].up < Last(head[s - 1])

\* No step unsettles a revision: nobody takes it, and the calls that took it
\* with it and write the same are fresh.
LEMMA SettledStays ==
    ASSUME StoreTypeOK, LocalTypeOK, CallsAreConsistent, [Next]_vars,
           NEW s \in Stages, NEW r \in Revs, SettledAt(s, r)
    PROVE  SettledAt(s, r)'
PROOF
<1>1. /\ root[s][r] # None
      /\ leaves[s][r] = [up |-> root[s][r].up, out |-> root[s][r].out]
      /\ <<s, r>> \in report
    BY DEF SettledAt, Complete
<1>2. leaves[s][r] # None
  <2>1. root[s][r] \in Root
    BY <1>1 DEF StoreTypeOK
  <2>2. [up |-> root[s][r].up, out |-> root[s][r].out] \in Leaves
    BY <2>1 DEF Root, Leaves
  <2> QED
    BY <1>1, <2>2, NoneIsNothing
<1>3. /\ root'[s][r] = root[s][r]
      /\ leaves'[s][r] = leaves[s][r]
      /\ <<s, r>> \in report'
    BY <1>1, <1>2, StoresGrow DEF Grow
<1>4. Complete(s, r)'
    BY <1>1, <1>3 DEF Complete
<1>5. SUFFICES /\ <<s, r>> \notin overtaken'
               /\ \A q \in Procs :
                      /\ pc'[q] \in {"put leaves", "put root"}
                      /\ call'[q].stage = s /\ call'[q].rev = r /\ call'[q].up = root[s][r].up
                      => call'[q].fresh
    BY <1>3, <1>4 DEF SettledAt
<1>6. \A q \in Procs :
         /\ pc[q] \in {"put leaves", "put root"}
         /\ call[q].stage = s /\ call[q].rev = r /\ call[q].up = root[s][r].up
         => call[q].fresh
    BY DEF SettledAt
<1>7. <<s, r>> \notin overtaken
    BY DEF SettledAt
<1>8. CASE UNCHANGED <<overtaken, pc, call>>
    BY <1>6, <1>7, <1>8
<1>9. CASE MoveInput
    BY <1>8, <1>9 DEF MoveInput, store
<1>10. ASSUME NEW p \in Procs, Quiet(p)
       PROVE  /\ <<s, r>> \notin overtaken'
              /\ \A q \in Procs :
                     /\ pc'[q] \in {"put leaves", "put root"}
                     /\ call'[q].stage = s /\ call'[q].rev = r /\ call'[q].up = root[s][r].up
                     => call'[q].fresh
    BY <1>6, <1>7, <1>10, QuietSteps DEF OthersRest
<1>11. ASSUME NEW p \in Procs, Busy(p), pc[p] # "idle"
       PROVE  /\ <<s, r>> \notin overtaken'
              /\ \A q \in Procs :
                     /\ pc'[q] \in {"put leaves", "put root"}
                     /\ call'[q].stage = s /\ call'[q].rev = r /\ call'[q].up = root[s][r].up
                     => call'[q].fresh
  <2>1. /\ OthersRest(p)
        /\ pc'[p] = "put leaves" => Alloc(p)
        /\ pc'[p] = "put root" => PutLeaves(p) /\ call'[p] = call[p]
        /\ ~PutRoot(p) => overtaken' = overtaken
    BY <1>11, BusySteps DEF Busy
  <2>2. <<s, r>> \notin overtaken'
    <3>1. CASE ~PutRoot(p)
      BY <1>7, <2>1, <3>1
    <3>2. CASE PutRoot(p)
      <4> DEFINE c == call[p]
                 content == [up |-> c.up, out |-> c.out, config |-> c.config]
      <4>1. /\ pc[p] = "put root"
            /\ overtaken' \in {overtaken, overtaken \union {<<c.stage, c.rev>>}}
            /\ overtaken' # overtaken => ~c.fresh /\ root[c.stage][c.rev] \in {None, content}
        BY <3>2 DEF PutRoot
      <4> SUFFICES ASSUME <<s, r>> \in overtaken' PROVE FALSE
          OBVIOUS
      <4> HIDE DEF c, content
      <4>a. /\ overtaken' # overtaken
            /\ <<s, r>> \in overtaken \union {<<c.stage, c.rev>>}
        BY <1>7, <4>1
      <4>b. c.stage = s /\ c.rev = r
        BY <1>7, <4>a
      <4>2. c.stage = s /\ c.rev = r /\ ~c.fresh /\ root[s][r] = content
        BY <1>1, <4>1, <4>a, <4>b
      <4>3. root[s][r].up = c.up
        BY <4>2 DEF content
      <4> QED
        BY <1>6, <4>1, <4>2, <4>3 DEF c
    <3> QED
      BY <3>1, <3>2
  <2>3. ASSUME NEW q \in Procs, pc'[q] \in {"put leaves", "put root"},
               call'[q].stage = s, call'[q].rev = r, call'[q].up = root[s][r].up
        PROVE  call'[q].fresh
    <3>1. CASE q # p
      BY <1>6, <2>1, <2>3, <3>1 DEF OthersRest
    <3>2. CASE q = p /\ pc'[q] = "put root"
      BY <1>6, <2>1, <2>3, <3>2 DEF PutLeaves
    <3>3. CASE q = p /\ pc'[q] = "put leaves"
      <4>1. PICK x \in Free(call[p].stage) : Continue(p, "put leaves", [call[p] EXCEPT !.rev = x])
        BY <2>1, <3>3 DEF Alloc, FirstAfter
      <4>2. call[p] \in Call
        BY <1>11, CallTypes
      <4>3. call'[p].stage = call[p].stage /\ call'[p].rev = x
        <5>1. call'[p] = [call[p] EXCEPT !.rev = x]
          BY <4>1, ContinueMoves
        <5> QED
          BY <4>2, <5>1 DEF Call
      <4>4. root[s][r] = None
        BY <2>3, <3>3, <4>1, <4>3 DEF Free
      <4> QED
        BY <1>1, <4>4
    <3> QED
      BY <2>3, <3>1, <3>2, <3>3
  <2> QED
    BY <2>2, <2>3
<1> QED
    BY <1>8, <1>9, <1>10, <1>11, StepKinds

\* What was resolved before the pointer moved on is older than what it names.
LEMMA UnfreshIsOld ==
    ASSUME StoreTypeOK, Sorted, NEW c \in Call, UpstreamWasCurrent(c), c.stage # 4,
           UpRef(c.stage) > c.upRef
    PROVE  head[c.stage - 1] # <<>> /\ c.up < Last(head[c.stage - 1])
PROOF
<1>1. PICK s \in Stages : s = c.stage - 1
    BY DEF Call, Stages
<1>2. /\ c.upRef \in DOMAIN head[s] /\ c.up = head[s][c.upRef]
      /\ Len(head[s]) > c.upRef
    BY <1>1 DEF UpstreamWasCurrent, UpRef
<1>3. /\ Len(head[s]) \in Nat
      /\ DOMAIN head[s] = 1..Len(head[s])
      /\ head[s] # <<>> => Last(head[s]) = head[s][Len(head[s])]
      /\ head[s] = <<>> => Len(head[s]) = 0
    BY PointerTypes
<1>4. c.upRef \in 1..Len(head[s]) /\ Len(head[s]) \in 1..Len(head[s])
    BY <1>2, <1>3
<1>5. head[s] # <<>>
    BY <1>3, <1>4
<1>6. head[s][c.upRef] < head[s][Len(head[s])]
    BY <1>2, <1>4 DEF Sorted
<1> QED
    BY <1>1, <1>2, <1>3, <1>5, <1>6

\* When A5 or A6 has looked at its upstream for the last time, its revision is
\* settled: whoever shares it resolved what is current.
LEMMA StableIsSettled ==
    ASSUME StoreTypeOK, LocalTypeOK, CallsAreConsistent, Sorted, OvertakenIsOld,
           NEW p \in Procs, pc[p] \in {"stable", "publish"},
           call[p].stage = 4 \/ UpstreamUnmoved(call[p])
    PROVE  SettledAt(call[p].stage, call[p].rev)
PROOF
<1>1. PICK c \in Call : c = call[p]
    BY CallTypes
<1>a. c.stage \in 4..6 /\ c.up \in Nat
    BY DEF Call, Stages
<1>b. c.rev \in Revs
    BY <1>1 DEF CallsAreConsistent, LocalOK, OwnOK, Writing
<1>2. /\ c.stage \in Stages /\ c.rev \in Revs /\ c.up \in Nat
      /\ c.stage # 4 => c.stage - 1 \in Stages
    BY <1>a, <1>b DEF Stages
<1>3. /\ leaves[c.stage][c.rev] = [up |-> c.up, out |-> c.out]
      /\ root[c.stage][c.rev] = [up |-> c.up, out |-> c.out, config |-> c.config]
      /\ <<c.stage, c.rev>> \in report
    BY <1>1 DEF CallsAreConsistent, LocalOK, WrittenOK, Writing
<1>4. root[c.stage][c.rev] # None
  <2>1. c.out \in Outputs /\ c.config \in Configs
    BY <1>1 DEF CallsAreConsistent, LocalOK, WorkOK, Generated, Made, Writing, Call
  <2>2. [up |-> c.up, out |-> c.out, config |-> c.config] \in Root
    BY <1>2, <2>1 DEF Root
  <2> QED
    BY <1>3, <2>2, NoneIsNothing
<1>5. root[c.stage][c.rev].up = c.up /\ root[c.stage][c.rev].out = c.out
    BY <1>3
<1>6. Complete(c.stage, c.rev)
    BY <1>3, <1>4, <1>5 DEF Complete
<1>7. c.stage # 4 /\ head[c.stage - 1] # <<>> => c.up = Last(head[c.stage - 1])
  <2> SUFFICES ASSUME c.stage # 4, head[c.stage - 1] # <<>>
               PROVE  c.up = Last(head[c.stage - 1])
      OBVIOUS
  <2>1. UpstreamUnmoved(c)
    BY <1>1
  <2>2. CASE c.stage = 5
    BY <2>1, <2>2 DEF UpstreamUnmoved, Up, UpIn
  <2>3. CASE c.stage # 5
    <3>1. Len(head[c.stage - 1]) = c.upRef
      BY <2>1, <2>3 DEF UpstreamUnmoved, UpRef
    <3>2. c.up = head[c.stage - 1][c.upRef]
      BY <1>1 DEF CallsAreConsistent, LocalOK, UpstreamOK, UpstreamWasCurrent, Steps, Opening
    <3> QED
      BY <1>2, <3>1, <3>2, PointerTypes
  <2> QED
    BY <2>2, <2>3
<1>8. <<c.stage, c.rev>> \notin overtaken
  <2> SUFFICES ASSUME <<c.stage, c.rev>> \in overtaken PROVE FALSE
      OBVIOUS
  <2>1. c.stage # 4 /\ head[c.stage - 1] # <<>> /\ c.up < Last(head[c.stage - 1])
    BY <1>2, <1>5 DEF OvertakenIsOld
  <2> QED
    BY <1>2, <1>7, <2>1
<1>9. ASSUME NEW q \in Procs, pc[q] \in {"put leaves", "put root"},
             call[q].stage = c.stage, call[q].rev = c.rev, call[q].up = c.up
      PROVE  call[q].fresh
  <2>1. PICK d \in Call : d = call[q]
    BY <1>9, CallTypes
  <2>2. /\ ~d.fresh => UpRef(d.stage) > d.upRef
        /\ d.stage = 4 => d.fresh
        /\ UpstreamWasCurrent(d)
    BY <1>9, <2>1
       DEF CallsAreConsistent, LocalOK, WorkOK, UpstreamOK, Generated, Made, Writing, Steps, Opening
  <2> SUFFICES ASSUME ~d.fresh PROVE FALSE
      BY <2>1
  <2>3. head[d.stage - 1] # <<>> /\ d.up < Last(head[d.stage - 1]) /\ d.stage # 4
    BY <2>2, UnfreshIsOld
  <2>4. head[c.stage - 1] # <<>> /\ c.up < Last(head[c.stage - 1]) /\ c.stage # 4
    BY <1>9, <2>1, <2>3
  <2> QED
    BY <1>2, <1>7, <2>4
<1> QED
    BY <1>1, <1>5, <1>6, <1>8, <1>9 DEF SettledAt

\* A call comes to publish only with a settled revision.
LEMMA WorkStep ==
    ASSUME StoreTypeOK, LocalTypeOK, CallsAreConsistent, Sorted, OvertakenIsOld, WorkIsSettled,
           StoreTypeOK', LocalTypeOK', CallsAreConsistent', Sorted', OvertakenIsOld',
           [Next]_vars
    PROVE  WorkIsSettled'
PROOF
<1> SUFFICES ASSUME NEW q \in Procs, pc'[q] = "publish"
             PROVE  SettledAt(call[q].stage, call[q].rev)'
    BY DEF WorkIsSettled
<1>1. PICK c \in Call : c = call'[q]
    BY DEF LocalTypeOK
<1>2. c.stage \in Stages /\ c.rev \in Revs
    BY <1>1 DEF CallsAreConsistent, LocalOK, OwnOK, Writing, Call
<1>3. SUFFICES SettledAt(c.stage, c.rev)'
    BY <1>1 DEF SettledAt, Complete
<1>4. CASE pc[q] = "publish" /\ call'[q] = call[q]
  <2>1. SettledAt(c.stage, c.rev)
    BY <1>1, <1>4 DEF WorkIsSettled
  <2> QED
    BY <1>2, <2>1, SettledStays
<1>5. CASE UNCHANGED <<pc, call>>
    BY <1>4, <1>5
<1>6. CASE MoveInput
    BY <1>5, <1>6 DEF MoveInput
<1>7. ASSUME NEW p \in Procs, Quiet(p)
      PROVE  SettledAt(c.stage, c.rev)'
    BY <1>4, <1>7, QuietSteps DEF OthersRest
<1>8. ASSUME NEW p \in Procs, Busy(p), pc[p] # "idle"
      PROVE  SettledAt(c.stage, c.rev)'
  <2>1. CASE q # p
    BY <1>4, <1>8, <2>1, BusySteps DEF OthersRest, Busy
  <2>2. CASE q = p /\ Stable(p) /\ UpstreamUnmoved(call[p]) /\ call'[p] = call[p]
    <3>1. pc[p] = "stable"
      BY <2>2 DEF Stable
    <3>2. SettledAt(c.stage, c.rev)
      BY <1>1, <2>2, <3>1, StableIsSettled
    <3> QED
      BY <1>2, <3>2, SettledStays
  <2>3. CASE q = p /\ PutReport(p) /\ call[p].stage = 4 /\ call'[p] = call[p]
    <3>1. c.stage = 4 /\ c = call'[q]
      BY <1>1, <2>3
    <3>2. /\ leaves'[c.stage][c.rev] = [up |-> c.up, out |-> c.out]
          /\ root'[c.stage][c.rev] = [up |-> c.up, out |-> c.out, config |-> c.config]
          /\ <<c.stage, c.rev>> \in report'
      BY <3>1 DEF CallsAreConsistent, LocalOK, WrittenOK, Writing
    <3>3. c.out \in Outputs /\ c.config \in Configs /\ c.up \in Nat
      BY <3>1 DEF CallsAreConsistent, LocalOK, WorkOK, Generated, Made, Writing, Call
    <3>4. [up |-> c.up, out |-> c.out, config |-> c.config] \in Root
      BY <3>3 DEF Root
    <3>5. Complete(c.stage, c.rev)'
      BY <3>2, <3>4, NoneIsNothing DEF Complete
    <3>6. <<c.stage, c.rev>> \notin overtaken'
      BY <1>2, <3>1 DEF OvertakenIsOld
    <3>7. ASSUME NEW x \in Procs, pc'[x] \in {"put leaves", "put root"}, call'[x].stage = 4
          PROVE  call'[x].fresh
      BY <3>7 DEF CallsAreConsistent, LocalOK, WorkOK, Made, Writing
    <3> QED
      BY <3>1, <3>5, <3>6, <3>7 DEF SettledAt
  <2> QED
    BY <1>8, <2>1, <2>2, <2>3, BusySteps DEF Busy
<1> QED
    BY <1>5, <1>6, <1>7, <1>8, StepKinds

\* Only settled revisions become current.
LEMMA CurrentStep ==
    ASSUME StoreTypeOK, LocalTypeOK, CallsAreConsistent, Sorted, WorkIsSettled, CurrentIsSettled,
           [Next]_vars
    PROVE  CurrentIsSettled'
PROOF
<1> SUFFICES ASSUME NEW s \in Stages, NEW r \in ToSet(head'[s])
             PROVE  SettledAt(s, r)'
    BY DEF CurrentIsSettled
<1>1. CASE r \in ToSet(head[s])
  <2>1. r \in Revs /\ SettledAt(s, r)
    BY <1>1, PointerTypes DEF CurrentIsSettled
  <2> QED
    BY <2>1, SettledStays
<1>2. CASE head' = head
    BY <1>1, <1>2
<1>3. ASSUME NEW p \in Procs, Publish(p)
      PROVE  SettledAt(s, r)'
  <2>1. CASE s = call[p].stage /\ r = call[p].rev
    <3>1. pc[p] = "publish"
      BY <1>3 DEF Publish
    <3>2. r \in Revs
      BY <2>1, <3>1 DEF CallsAreConsistent, LocalOK, OwnOK, Writing
    <3>3. SettledAt(s, r)
      BY <2>1, <3>1 DEF WorkIsSettled
    <3> QED
      BY <3>2, <3>3, SettledStays
  <2> QED
    BY <1>1, <1>3, <2>1, SortedStep
<1> QED
    BY <1>2, <1>3, StoresGrow

\* A revision that is overtaken stays older than the current input, and only a
\* call that is not fresh writes one.
LEMMA OvertakenStep ==
    ASSUME StoreTypeOK, StoreTypeOK', LocalTypeOK, CallsAreConsistent, Sorted, Sorted', OvertakenIsOld,
           [Next]_vars
    PROVE  OvertakenIsOld'
PROOF
<1> SUFFICES ASSUME NEW s \in Stages, NEW r \in Revs, <<s, r>> \in overtaken'
             PROVE  /\ s # 4
                    /\ root'[s][r] # None
                    /\ head'[s - 1] # <<>>
                    /\ root'[s][r].up < Last(head'[s - 1])
    BY DEF OvertakenIsOld
<1>1. Grow
    BY StoresGrow
<1>2. ASSUME NEW t \in Stages, head[t] # <<>>
      PROVE  /\ head'[t] # <<>>
             /\ Last(head[t]) \in Nat /\ Last(head'[t]) \in Nat
             /\ Last(head[t]) \leq Last(head'[t])
  <2>1. /\ Len(head[t]) \in Nat /\ Len(head[t]) > 0
        /\ Last(head[t]) = head[t][Len(head[t])]
        /\ Last(head[t]) \in Revs
    BY <1>2, PointerTypes
  <2>2. /\ Len(head[t]) \leq Len(head'[t])
        /\ head'[t][Len(head[t])] = Last(head[t])
    BY <1>1, <2>1 DEF Grow
  <2>3. head'[t] \in Seq(Revs) /\ Len(head'[t]) \in Nat
    BY DEF StoreTypeOK
  <2>4. head'[t] # <<>>
    BY <2>1, <2>2, <2>3
  <2>5. Last(head'[t]) = head'[t][Len(head'[t])] /\ Last(head'[t]) \in Revs
    BY <2>1, <2>2, <2>3 DEF Last
  <2>6. CASE Len(head[t]) = Len(head'[t])
    BY <2>1, <2>2, <2>4, <2>5, <2>6, RevsAreNaturals
  <2>7. CASE Len(head[t]) < Len(head'[t])
    <3>1. Len(head[t]) \in 1..Len(head'[t]) /\ Len(head'[t]) \in 1..Len(head'[t])
      BY <2>1, <2>3, <2>7
    <3>2. head'[t][Len(head[t])] < head'[t][Len(head'[t])]
      BY <2>7, <3>1 DEF Sorted
    <3> QED
      BY <2>1, <2>2, <2>4, <2>5, <3>2, RevsAreNaturals
  <2> QED
    BY <2>1, <2>2, <2>3, <2>6, <2>7
<1>3. CASE <<s, r>> \in overtaken
  <2>1. /\ s # 4 /\ root[s][r] # None /\ head[s - 1] # <<>>
        /\ root[s][r].up < Last(head[s - 1])
    BY <1>3 DEF OvertakenIsOld
  <2>2. root'[s][r] = root[s][r]
    BY <1>1, <2>1 DEF Grow
  <2>3. s - 1 \in Stages
    BY <2>1 DEF Stages
  <2>4. root[s][r].up \in Nat
    BY <2>1 DEF StoreTypeOK, Root
  <2>5. /\ head'[s - 1] # <<>>
        /\ Last(head[s - 1]) \in Nat /\ Last(head'[s - 1]) \in Nat
        /\ Last(head[s - 1]) \leq Last(head'[s - 1])
    BY <1>2, <2>1, <2>3
  <2> QED
    BY <2>1, <2>2, <2>4, <2>5
<1>4. CASE overtaken' = overtaken
    BY <1>3, <1>4
<1>5. ASSUME NEW p \in Procs, PutRoot(p), <<s, r>> \notin overtaken
      PROVE  /\ s # 4
             /\ root'[s][r] # None
             /\ head'[s - 1] # <<>>
             /\ root'[s][r].up < Last(head'[s - 1])
  <2>1. pc[p] = "put root" /\ pc[p] # "idle" /\ LocalOK(p)
    BY <1>5 DEF PutRoot, CallsAreConsistent
  <2>2. PICK c \in Call : c = call[p]
    BY <2>1, CallTypes
  <2> DEFINE content == [up |-> c.up, out |-> c.out, config |-> c.config]
  <2> HIDE DEF content
  <2>3. /\ overtaken' \in {overtaken, overtaken \union {<<c.stage, c.rev>>}}
        /\ overtaken' # overtaken => ~c.fresh /\ root' = [root EXCEPT ![c.stage][c.rev] = content]
        /\ head' = head
    BY <1>5, <2>2 DEF PutRoot, content
  <2>4. overtaken' # overtaken /\ <<s, r>> \in overtaken \union {<<c.stage, c.rev>>}
    BY <1>5, <2>3
  <2>5. s = c.stage /\ r = c.rev
    BY <1>5, <2>4
  <2>6. ~c.fresh /\ root' = [root EXCEPT ![s][r] = content]
    BY <2>3, <2>4, <2>5
  <2>7. root \in [Stages -> [Revs -> Root \union {None}]]
    BY DEF StoreTypeOK
  <2>8. root'[s][r] = content
    BY <2>6, <2>7, TableUpdate
  <2>9. c.stage # 4 /\ UpRef(c.stage) > c.upRef /\ UpstreamWasCurrent(c) /\ c.out \in Outputs
    BY <2>1, <2>2, <2>6
       DEF LocalOK, WorkOK, UpstreamOK, Generated, Made, Writing, Steps, Opening
  <2>10. head[s - 1] # <<>> /\ c.up < Last(head[s - 1])
    BY <2>5, <2>9, UnfreshIsOld
  <2>11. content \in Root
    BY <2>9 DEF Root, Call, content
  <2> QED
    BY <2>3, <2>5, <2>8, <2>9, <2>10, <2>11, NoneIsNothing DEF content
<1>6. ASSUME NEW p \in Procs, ~PutRoot(p), Quiet(p) \/ (Busy(p) /\ pc[p] # "idle")
      PROVE  overtaken' = overtaken
    BY <1>6, QuietSteps, BusySteps DEF Busy
<1>7. CASE MoveInput
    BY <1>4, <1>7 DEF MoveInput, store
<1> QED
    BY <1>3, <1>4, <1>5, <1>6, <1>7, StepKinds

-----------------------------------------------------------------------------
(* What every call knows, and what every stage answers.                    *)

\* No step, of the call or of another, falsifies what a call knows.
LEMMA LocalStep ==
    ASSUME StoreTypeOK, StoreTypeOK', LocalTypeOK, CallsAreConsistent, Sorted, CurrentIsComplete,
           [Next]_vars
    PROVE  CallsAreConsistent'
PROOF
<1>1. Grow
    BY StoresGrow
<1>2. CASE UNCHANGED <<pc, call>>
    BY <1>1, <1>2, LocalFrame DEF CallsAreConsistent
<1>3. CASE MoveInput
    BY <1>2, <1>3 DEF MoveInput
<1>4. ASSUME NEW p \in Procs, OthersRest(p), LocalOK(p)'
      PROVE  CallsAreConsistent'
  <2> SUFFICES ASSUME NEW q \in Procs PROVE LocalOK(q)'
      BY DEF CallsAreConsistent
  <2>1. CASE q # p
    BY <1>1, <1>4, <2>1, LocalFrame DEF OthersRest, CallsAreConsistent
  <2> QED
    BY <1>4, <2>1
<1>5. ASSUME NEW p \in Procs, Quiet(p)
      PROVE  LocalOK(p)'
  <2>1. CASE Start(p)
    BY <2>1, StartMoves, OpenLocal
  <2>2. CASE Inputs(p)
    <3>1. pc'[p] = "upstream ref" /\ call'[p] = call[p]
      BY <2>2, ContinueMoves DEF Inputs
    <3>2. call[p].ref = 0 /\ call[p].rev = 0
      BY <2>2 DEF Inputs, CallsAreConsistent, LocalOK, OwnOK, Opening
    <3> QED
      BY <3>1, <3>2, OpenLocal
  <2>3. CASE Reading(p)
    BY <2>3, ReadingLocal DEF CallsAreConsistent
  <2>4. CASE Generate(p) \/ StableBefore(p) \/ ReadCurrentRef(p) \/ ReadCurrent(p)
    BY <2>4, PreparingLocal DEF Preparing, CallsAreConsistent
  <2>5. CASE Publish(p)
    BY <2>5, PublishLocal DEF CallsAreConsistent
  <2>6. CASE Fails(p)
    BY <2>6, RaiseMoves, IdleLocal DEF Fails
  <2> QED
    BY <1>5, <2>1, <2>2, <2>3, <2>4, <2>5, <2>6 DEF Quiet
<1>6. ASSUME NEW p \in Procs, Busy(p)
      PROVE  LocalOK(p)'
    BY <1>6, PreparingLocal, StoringLocal DEF Busy, Preparing, Storing, CallsAreConsistent
<1> QED
    BY <1>2, <1>3, <1>4, <1>5, <1>6, StepKinds, QuietSteps, BusySteps DEF Busy

\* What AnswersAreTrue says of one answer; of those of a call under way, and of a
\* call that ended.
AnswerIsTrue(s, config, a) ==
    /\ a.rev \in ToSet(head[s])
    /\ root[s][a.rev].up = a.up
    /\ root[s][a.rev].config = config
    /\ s < 6 \/ ~a.reused => a.ref \in DOMAIN head[s] /\ head[s][a.ref] = a.rev
    /\ ~a.called => a.reused

CallAnswers(p) ==
    pc[p] # "idle" =>
        \A i \in DOMAIN call[p].answers :
            AnswerIsTrue(FirstStage(call[p]) + i - 1, call[p].config, call[p].answers[i])
ResultAnswers(p) ==
    result[p] # None =>
        \A i \in DOMAIN result[p].answers :
            AnswerIsTrue(FirstStage(result[p]) + i - 1, result[p].config, result[p].answers[i])

AnswersHold == \A p \in Procs : CallAnswers(p) /\ ResultAnswers(p)

\* What was CURRENT stays in the history of CURRENT, with what it pins.
LEMMA AnswerStays ==
    ASSUME StoreTypeOK, StoreTypeOK', CurrentIsComplete, Grow,
           NEW s \in Stages, NEW k, NEW a, AnswerIsTrue(s, k, a)
    PROVE  AnswerIsTrue(s, k, a)'
PROOF
<1>1. a.rev \in Revs /\ root[s][a.rev] # None
    BY PointerTypes, ZenonT(60) DEF AnswerIsTrue, CurrentIsComplete, Complete
<1>2. root'[s][a.rev] = root[s][a.rev]
    BY <1>1 DEF Grow
<1>3. /\ ToSet(head[s]) \subseteq ToSet(head'[s])
      /\ DOMAIN head[s] \subseteq DOMAIN head'[s]
      /\ \A i \in DOMAIN head[s] : head'[s][i] = head[s][i]
    BY GrowthOfStage
<1> QED
    BY <1>2, <1>3 DEF AnswerIsTrue

\* The stages of the answers of a call or a result.
LEMMA AnswerStages ==
    ASSUME NEW f \in 3..6, NEW given \in Seq(Answer),
           NEW x, x.first = f, x.answers = given, FirstStage(x) + Len(given) \leq 7
    PROVE  \A i \in DOMAIN given : FirstStage(x) + i - 1 \in Stages
PROOF
    BY DEF FirstStage, Stages

\* A call that keeps its answers keeps them true.
LEMMA CallAnswersStay ==
    ASSUME StoreTypeOK, StoreTypeOK', LocalTypeOK, CurrentIsComplete, Grow,
           NEW p \in Procs, pc[p] # "idle", CallAnswers(p),
           call'[p].first = call[p].first, call'[p].config = call[p].config,
           call'[p].answers = call[p].answers
    PROVE  CallAnswers(p)'
PROOF
<1>1. PICK c \in Call : c = call[p] /\ Shape(c)
    BY CallTypes
<1>2. PICK d : d = call'[p]
    OBVIOUS
<1>3. c.first \in 3..6 /\ c.answers \in Seq(Answer) /\ c.stage \in 4..6
    BY DEF Call, Stages
<1>4. FirstStage(c) + Len(c.answers) \leq 7
    BY <1>1, <1>3 DEF Shape, FirstStage
<1>5. \A i \in DOMAIN c.answers : FirstStage(c) + i - 1 \in Stages
    BY <1>3, <1>4, AnswerStages
<1>6. FirstStage(d) = FirstStage(c) /\ d.config = c.config /\ d.answers = c.answers
    BY <1>1, <1>2 DEF FirstStage
<1>7. ASSUME NEW i \in DOMAIN c.answers
      PROVE  AnswerIsTrue(FirstStage(c) + i - 1, c.config, c.answers[i])'
  <2>1. AnswerIsTrue(FirstStage(c) + i - 1, c.config, c.answers[i])
    BY <1>1 DEF CallAnswers
  <2> QED
    BY <1>5, <2>1, AnswerStays
<1>8. \A i \in DOMAIN d.answers : AnswerIsTrue(FirstStage(d) + i - 1, d.config, d.answers[i])'
    BY <1>6, <1>7 DEF AnswerIsTrue
<1> QED
    BY <1>2, <1>8 DEF CallAnswers, AnswerIsTrue, FirstStage

\* So does a result.
LEMMA ResultAnswersStay ==
    ASSUME StoreTypeOK, StoreTypeOK', LocalTypeOK, CurrentIsComplete, Grow,
           NEW p \in Procs, ResultAnswers(p), result'[p] = result[p]
    PROVE  ResultAnswers(p)'
PROOF
<1>1. CASE result[p] = None
    BY <1>1 DEF ResultAnswers
<1>2. CASE result[p] # None
  <2>1. PICK c \in Result : c = result[p] /\ FirstStage(c) + Len(c.answers) \leq 7
    BY <1>2 DEF LocalTypeOK
  <2>2. c.first \in 3..6 /\ c.answers \in Seq(Answer)
    BY DEF Result
  <2>3. \A i \in DOMAIN c.answers : FirstStage(c) + i - 1 \in Stages
    BY <2>1, <2>2, AnswerStages
  <2>4. ASSUME NEW i \in DOMAIN c.answers
        PROVE  AnswerIsTrue(FirstStage(c) + i - 1, c.config, c.answers[i])'
    <3>1. AnswerIsTrue(FirstStage(c) + i - 1, c.config, c.answers[i])
      BY <1>2, <2>1 DEF ResultAnswers
    <3> QED
      BY <2>3, <3>1, AnswerStays
  <2>5. c = result'[p]
    BY <2>1
  <2> QED
    BY <2>4, <2>5, ZenonT(60) DEF ResultAnswers, AnswerIsTrue, FirstStage
<1> QED
    BY <1>1, <1>2

\* A call that ends without an answer says nothing false.
LEMMA NoAnswers ==
    ASSUME NEW p \in Procs, pc'[p] = "idle", result'[p].answers = <<>>
    PROVE  CallAnswers(p)' /\ ResultAnswers(p)'
PROOF
    BY DEF CallAnswers, ResultAnswers

\* A stage that returns adds its answer to those of the stages before it.
LEMMA ReturnAnswers ==
    ASSUME StoreTypeOK, StoreTypeOK', LocalTypeOK, CurrentIsComplete, Grow,
           NEW p \in Procs, pc[p] # "idle", CallAnswers(p), ResultAnswers(p),
           NEW c \in Call, Shape(c), c.first = call[p].first, c.config = call[p].config,
           c.answers = call[p].answers,
           NEW reused \in BOOLEAN, NEW h, Return(p, c, reused, h),
           NEW a, a = Added(c, reused), AnswerIsTrue(c.stage, c.config, a)'
    PROVE  CallAnswers(p)' /\ ResultAnswers(p)'
PROOF
<1>1. a \in Answer /\ c.answers \in Seq(Answer) /\ c.first \in 3..6 /\ c.stage \in 4..6
    BY DEF Added, Answer, Call, Stages
<1>2. FirstStage(c) + Len(c.answers) = c.stage /\ Len(c.answers) \in Nat
    BY <1>1 DEF Shape
<1>3. \A i \in DOMAIN c.answers : FirstStage(c) + i - 1 \in Stages
  <2>1. FirstStage(c) + Len(c.answers) \leq 7
    BY <1>1, <1>2
  <2> QED
    BY <1>1, <2>1, AnswerStages
<1> DEFINE given == Append(c.answers, a)
<1>4. /\ given \in Seq(Answer) /\ DOMAIN given = 1..(Len(c.answers) + 1)
      /\ \A i \in 1..Len(c.answers) : given[i] = c.answers[i]
      /\ given[Len(c.answers) + 1] = a
      /\ DOMAIN c.answers = 1..Len(c.answers)
    BY <1>1, <1>2, AppendProperties
<1> HIDE DEF given
<1>5. ASSUME NEW i \in DOMAIN given
      PROVE  AnswerIsTrue(FirstStage(c) + i - 1, c.config, given[i])'
  <2>1. CASE i \in DOMAIN c.answers
    <3>1. FirstStage(c) = FirstStage(call[p])
      BY DEF FirstStage
    <3>2. AnswerIsTrue(FirstStage(c) + i - 1, c.config, c.answers[i])
      BY <2>1, <3>1 DEF CallAnswers
    <3>3. AnswerIsTrue(FirstStage(c) + i - 1, c.config, c.answers[i])'
      BY <1>3, <2>1, <3>2, AnswerStays
    <3>4. given[i] = c.answers[i]
      BY <1>4, <2>1
    <3> QED
      BY <3>3, <3>4 DEF AnswerIsTrue
  <2>2. CASE i = Len(c.answers) + 1
    <3>1. FirstStage(c) + i - 1 = c.stage /\ given[i] = a
      BY <1>1, <1>2, <1>4, <2>2 DEF FirstStage
    <3> QED
      BY <3>1
  <2> QED
    BY <1>2, <1>4, <2>1, <2>2
<1>6. /\ OthersRest(p)
      /\ \/ /\ pc'[p] = "idle"
            /\ result'[p].first = c.first
            /\ result'[p].config = c.config
            /\ result'[p].answers = given
         \/ /\ pc'[p] = "upstream ref"
            /\ result'[p] = result[p]
            /\ call'[p].first = c.first
            /\ call'[p].config = c.config
            /\ call'[p].answers = given
    BY ReturnMoves DEF given
<1>7. CASE /\ pc'[p] = "idle" /\ result'[p].first = c.first /\ result'[p].config = c.config
           /\ result'[p].answers = given
  <2>1. PICK r : r = result'[p]
    OBVIOUS
  <2>2. FirstStage(r) = FirstStage(c) /\ r.config = c.config /\ r.answers = given
    BY <1>7, <2>1 DEF FirstStage
  <2>3. \A i \in DOMAIN r.answers : AnswerIsTrue(FirstStage(r) + i - 1, r.config, r.answers[i])'
    BY <1>5, <2>2 DEF AnswerIsTrue
  <2> QED
    BY <1>7, <2>1, <2>3 DEF CallAnswers, ResultAnswers, AnswerIsTrue, FirstStage
<1>8. CASE /\ pc'[p] = "upstream ref" /\ result'[p] = result[p]
           /\ call'[p].first = c.first /\ call'[p].config = c.config /\ call'[p].answers = given
  <2>1. PICK r : r = call'[p]
    OBVIOUS
  <2>2. FirstStage(r) = FirstStage(c) /\ r.config = c.config /\ r.answers = given
    BY <1>8, <2>1 DEF FirstStage
  <2>3. \A i \in DOMAIN r.answers : AnswerIsTrue(FirstStage(r) + i - 1, r.config, r.answers[i])'
    BY <1>5, <2>2 DEF AnswerIsTrue
  <2>4. CallAnswers(p)'
    BY <2>1, <2>3 DEF CallAnswers, AnswerIsTrue, FirstStage
  <2> QED
    BY <1>8, <2>4, ResultAnswersStay
<1> QED
    BY <1>6, <1>7, <1>8

\* A call that goes on with the given it has keeps them true.
LEMMA ContinueAnswers ==
    ASSUME StoreTypeOK, StoreTypeOK', LocalTypeOK, CurrentIsComplete, Grow,
           NEW p \in Procs, pc[p] # "idle", CallAnswers(p), ResultAnswers(p),
           NEW s, NEW c, Continue(p, s, c),
           c.first = call[p].first, c.config = call[p].config, c.answers = call[p].answers
    PROVE  CallAnswers(p)' /\ ResultAnswers(p)'
PROOF
<1>1. call'[p] = c /\ result'[p] = result[p]
    BY ContinueMoves
<1>2. /\ call'[p].first = call[p].first /\ call'[p].config = call[p].config
      /\ call'[p].answers = call[p].answers
    BY <1>1
<1> QED
    BY <1>1, <1>2, CallAnswersStay, ResultAnswersStay

\* A call that raises answers nothing.
LEMMA RaiseAnswers ==
    ASSUME LocalTypeOK, NEW p \in Procs, NEW status, status # "ok", Raise(p, status)
    PROVE  CallAnswers(p)' /\ ResultAnswers(p)'
PROOF
    BY RaiseMoves, NoAnswers

\* Only the stage, the revisions and the work of a call change between answers.
LEMMA SetKeeps ==
    ASSUME NEW c \in Call
    PROVE  \A n, m :
               LET K(d) == d.first = c.first /\ d.config = c.config /\ d.answers = c.answers
               IN /\ K([c EXCEPT !.upRef = n, !.up = m])
                  /\ K([c EXCEPT !.upRef = n])
                  /\ K([c EXCEPT !.up = n])
                  /\ K([c EXCEPT !.ref = n])
                  /\ K([c EXCEPT !.rev = n])
                  /\ K([c EXCEPT !.out = n, !.fresh = m])
                  /\ K(Starts(c))
                  /\ K([Starts(c) EXCEPT !.upRef = n, !.up = m])
                  /\ K([Starts(c) EXCEPT !.upRef = n])
PROOF
<1>1. Starts(c) \in Call /\ Starts(c).first = c.first /\ Starts(c).config = c.config
      /\ Starts(c).answers = c.answers
    BY StartsKeeps
<1>2. PICK d : d = Starts(c)
    OBVIOUS
<1>3. d \in Call /\ d.first = c.first /\ d.config = c.config /\ d.answers = c.answers
    BY <1>1, <1>2
<1>4. \A n, m :
          LET K(e) == e.first = c.first /\ e.config = c.config /\ e.answers = c.answers
          IN K(d) /\ K([d EXCEPT !.upRef = n, !.up = m]) /\ K([d EXCEPT !.upRef = n])
    BY <1>3 DEF Call
<1> QED
    BY <1>2, <1>4 DEF Call

\* What reading and reusing leave is true.
LEMMA ReadingAnswers ==
    ASSUME StoreTypeOK, StoreTypeOK', LocalTypeOK, CurrentIsComplete, Grow,
           NEW p \in Procs, LocalOK(p), CallAnswers(p), ResultAnswers(p), Reading(p)
    PROVE  CallAnswers(p)' /\ ResultAnswers(p)'
PROOF
<1> DEFINE Good == CallAnswers(p)' /\ ResultAnswers(p)'
<1> SUFFICES Good
    OBVIOUS
<1>0. pc[p] # "idle" /\ UNCHANGED <<root, head>>
    BY DEF Reading, ReadInputs, ReadUpstreamRef, ReadUpstream, ReadOwnRef, ReadOwn, ReuseUpstream, ReuseOwn,
           store
<1>1. PICK c \in Call : c = call[p] /\ Shape(c) /\ c.stage \in Stages
    BY <1>0, CallTypes
<1>2. ASSUME NEW s, NEW d, d.first = c.first, d.config = c.config, d.answers = c.answers,
             Continue(p, s, d)
      PROVE  Good
    BY <1>0, <1>1, <1>2, ContinueAnswers
<1>3. \A status : status # "ok" /\ Raise(p, status) => Good
    BY RaiseAnswers
<1>4. ASSUME Return(p, c, TRUE, head), pc[p] \in Reusing
      PROVE  Good
  <2>1. PICK a : a = Added(c, TRUE)
    OBVIOUS
  <2>2. /\ c.ref \in DOMAIN head[c.stage]
        /\ c.rev \in ToSet(head[c.stage])
        /\ root[c.stage][c.rev].up = c.up /\ root[c.stage][c.rev].config = c.config
        /\ c.stage < 6 => head[c.stage][c.ref] = c.rev
    BY <1>1, <1>4 DEF LocalOK, ReuseOK, Matches
  <2>3. a.rev = c.rev /\ a.up = c.up /\ a.ref = c.ref /\ a.reused
    BY <2>1 DEF Added
  <2>4. AnswerIsTrue(c.stage, c.config, a)'
    BY <1>0, <2>2, <2>3 DEF AnswerIsTrue
  <2>5. PICK h : h = head
    OBVIOUS
  <2>6. Return(p, c, TRUE, h)
    BY <1>4, <2>5
  <2> QED
    BY <1>0, <1>1, <2>1, <2>4, <2>6, ReturnAnswers
<1> HIDE DEF Good
<1>5. CASE ReadInputs(p)
  <2>1. PICK d : d = [Starts(c) EXCEPT !.upRef = input, !.up = input]
    OBVIOUS
  <2>2. Raise(p, "missing") \/ Continue(p, "own ref", d)
    BY <1>1, <1>5, <2>1 DEF ReadInputs
  <2>3. d.first = c.first /\ d.config = c.config /\ d.answers = c.answers
    BY <2>1, SetKeeps
  <2> QED
    BY <1>2, <1>3, <2>2, <2>3
<1>6. CASE ReadUpstreamRef(p)
  <2>1. PICK d : d = [Starts(c) EXCEPT !.upRef = UpRef(c.stage)]
    OBVIOUS
  <2>2. Raise(p, "missing") \/ Continue(p, "upstream", d)
    BY <1>1, <1>6, <2>1 DEF ReadUpstreamRef
  <2>3. d.first = c.first /\ d.config = c.config /\ d.answers = c.answers
    BY <2>1, SetKeeps
  <2> QED
    BY <1>2, <1>3, <2>2, <2>3
<1>7. CASE ReadUpstream(p)
  <2>1. PICK d : d = [c EXCEPT !.up = Up(c.stage)]
    OBVIOUS
  <2>2. Raise(p, "moved") \/ Raise(p, "corrupt") \/ Continue(p, "own ref", d)
    BY <1>1, <1>7, <2>1 DEF ReadUpstream
  <2>3. d.first = c.first /\ d.config = c.config /\ d.answers = c.answers
    BY <2>1, SetKeeps
  <2> QED
    BY <1>2, <1>3, <2>2, <2>3
<1>8. CASE ReadOwnRef(p)
  <2>1. PICK d : d = [c EXCEPT !.ref = Len(head[c.stage])]
    OBVIOUS
  <2>2. Continue(p, "generate", c) \/ Continue(p, "own", d)
    BY <1>1, <1>8, <2>1 DEF ReadOwnRef
  <2>3. d.first = c.first /\ d.config = c.config /\ d.answers = c.answers
    BY <2>1, SetKeeps
  <2> QED
    BY <1>2, <2>2, <2>3
<1>9. CASE ReadOwn(p)
  <2>1. PICK d : d = [c EXCEPT !.rev = Last(head[c.stage])]
    OBVIOUS
  <2>2. PICK e : e = [c EXCEPT !.ref = 0]
    OBVIOUS
  <2>3. \/ Raise(p, "moved") \/ Raise(p, "corrupt")
        \/ Continue(p, "reuse upstream", d) \/ Continue(p, "generate", e)
    BY <1>1, <1>9, <2>1, <2>2 DEF ReadOwn
  <2>4. d.first = c.first /\ d.config = c.config /\ d.answers = c.answers
    BY <2>1, SetKeeps
  <2>5. e.first = c.first /\ e.config = c.config /\ e.answers = c.answers
    BY <2>2, SetKeeps
  <2> QED
    BY <1>2, <1>3, <2>3, <2>4, <2>5
<1>10. CASE ReuseUpstream(p)
  <2>1. Raise(p, "moved") \/ Continue(p, "reuse own", c) \/ Return(p, c, TRUE, head)
    BY <1>1, <1>10 DEF ReuseUpstream
  <2>2. pc[p] \in Reusing
    BY <1>10 DEF ReuseUpstream, Reusing
  <2> QED
    BY <1>2, <1>3, <1>4, <2>1, <2>2
<1>11. CASE ReuseOwn(p)
  <2>1. Raise(p, "moved") \/ Return(p, c, TRUE, head)
    BY <1>1, <1>11 DEF ReuseOwn
  <2>2. pc[p] \in Reusing
    BY <1>11 DEF ReuseOwn, Reusing
  <2> QED
    BY <1>3, <1>4, <2>1, <2>2
<1> QED
    BY <1>5, <1>6, <1>7, <1>8, <1>9, <1>10, <1>11 DEF Reading

\* So is what preparing and writing leave.
LEMMA WorkingAnswers ==
    ASSUME StoreTypeOK, StoreTypeOK', LocalTypeOK, CurrentIsComplete, Grow,
           NEW p \in Procs, LocalOK(p), CallAnswers(p), ResultAnswers(p), Preparing(p) \/ Storing(p)
    PROVE  CallAnswers(p)' /\ ResultAnswers(p)'
PROOF
<1> DEFINE Good == CallAnswers(p)' /\ ResultAnswers(p)'
<1> SUFFICES Good
    OBVIOUS
<1>0. pc[p] # "idle"
    BY DEF Preparing, Generate, StableBefore, ReadCurrentRef, ReadCurrent, Alloc, Stable,
           Storing, PutLeaves, PutRoot, PutReport
<1>1. PICK c \in Call : c = call[p] /\ Shape(c) /\ c.stage \in Stages
    BY <1>0, CallTypes
<1>2. ASSUME NEW s, NEW d, d.first = c.first, d.config = c.config, d.answers = c.answers,
             Continue(p, s, d)
      PROVE  Good
    BY <1>0, <1>1, <1>2, ContinueAnswers
<1>3. \A status : status # "ok" /\ Raise(p, status) => Good
    BY RaiseAnswers
<1> HIDE DEF Good
<1>4. CASE Generate(p)
  <2>1. PICK d, s : (\E o, f : d = [c EXCEPT !.out = o, !.fresh = f]) /\ Continue(p, s, d)
    BY <1>1, <1>4 DEF Generate
  <2>2. d.first = c.first /\ d.config = c.config /\ d.answers = c.answers
    BY <2>1, SetKeeps
  <2> QED
    BY <1>2, <2>1, <2>2
<1>5. CASE StableBefore(p) \/ Stable(p)
  <2>1. Raise(p, "moved") \/ Continue(p, "current ref", c) \/ Continue(p, "publish", c)
    BY <1>1, <1>5 DEF StableBefore, Stable
  <2> QED
    BY <1>2, <1>3, <2>1
<1>6. CASE ReadCurrentRef(p)
  <2>1. PICK d : d = [c EXCEPT !.ref = Len(head[c.stage])]
    OBVIOUS
  <2>2. Continue(p, "alloc", c) \/ Continue(p, "current", d)
    BY <1>1, <1>6, <2>1 DEF ReadCurrentRef
  <2>3. d.first = c.first /\ d.config = c.config /\ d.answers = c.answers
    BY <2>1, SetKeeps
  <2> QED
    BY <1>2, <2>2, <2>3
<1>7. CASE ReadCurrent(p)
  <2>1. PICK r : r = Last(head[c.stage])
    OBVIOUS
  <2>2. PICK d : d = [c EXCEPT !.rev = r]
    OBVIOUS
  <2>3. \/ Raise(p, "moved") \/ Raise(p, "corrupt") \/ Continue(p, "alloc", d)
        \/ /\ Return(p, d, TRUE, head) /\ Len(head[4]) = c.ref /\ c.stage = 4 /\ Matches(4, r, c)
    <3>1. IF c.stage < 6 /\ Len(head[c.stage]) # c.ref THEN Raise(p, "moved")
          ELSE IF ~Complete(c.stage, r) THEN Raise(p, "corrupt")
          ELSE IF c.stage = 4 /\ Matches(4, r, c) THEN Return(p, d, TRUE, head)
          ELSE Continue(p, "alloc", d)
      BY <1>1, <1>7, <2>1, <2>2, Zenon DEF ReadCurrent
    <3>2. c.stage = 4 => c.stage < 6 /\ head[c.stage] = head[4]
      OBVIOUS
    <3> QED
      BY <3>1, <3>2
  <2>4. d.first = c.first /\ d.config = c.config /\ d.answers = c.answers
    BY <2>2, SetKeeps
  <2>5. CASE Return(p, d, TRUE, head) /\ Len(head[4]) = c.ref /\ c.stage = 4 /\ Matches(4, r, c)
    <3>1. c.ref \in DOMAIN head[4] /\ pc[p] = "current"
      BY <1>1, <1>7, <2>5 DEF LocalOK, OwnOK, ReadCurrent
    <3>2. head[4] # <<>>
      BY <2>5, <3>1, PointerTypes DEF Stages
    <3>3. /\ r \in Revs /\ r = head[4][c.ref] /\ r \in ToSet(head[4])
      <4>1. 4 \in Stages
        BY DEF Stages
      <4> QED
        BY <2>1, <2>5, <3>1, <3>2, <4>1, PointerTypes, ZenonT(60)
    <3>4. d \in Call /\ Shape(d) /\ d.stage = 4 /\ d.rev = r /\ d.ref = c.ref /\ d.up = c.up
      <4>1. r \in 0..MaxRev
        BY <3>3, RevsAreNaturals
      <4>2. d \in Call
        BY <2>2, <4>1, SetTypes
      <4>3. Shape(d)
        BY <1>1, <2>2, SetShapes
      <4> QED
        BY <2>2, <2>5, <4>2, <4>3 DEF Call
    <3>5. PICK a : a = Added(d, TRUE)
      OBVIOUS
    <3>6. a.rev = r /\ a.up = c.up /\ a.ref = c.ref /\ a.reused
      BY <3>4, <3>5 DEF Added
    <3>7. UNCHANGED <<root, head>>
      BY <1>7 DEF ReadCurrent, store
    <3>8. AnswerIsTrue(d.stage, d.config, a)'
      BY <2>4, <2>5, <3>1, <3>3, <3>4, <3>6, <3>7 DEF AnswerIsTrue, Matches
    <3>9. PICK h : h = head
      OBVIOUS
    <3>10. Return(p, d, TRUE, h)
      BY <2>5, <3>9
    <3>11. Good
      BY <1>0, <1>1, <2>4, <3>4, <3>5, <3>8, <3>10, ReturnAnswers DEF Good
    <3> QED
      BY <3>11
  <2> QED
    BY <1>2, <1>3, <2>3, <2>4, <2>5
<1>8. CASE Alloc(p)
  <2>1. PICK r : Continue(p, "put leaves", [c EXCEPT !.rev = r])
    BY <1>1, <1>8 DEF Alloc
  <2> DEFINE d == [c EXCEPT !.rev = r]
  <2>2. d.first = c.first /\ d.config = c.config /\ d.answers = c.answers
    BY SetKeeps
  <2> QED
    BY <1>2, <2>1, <2>2
<1>9. CASE Storing(p)
  <2>1. Raise(p, "conflict") \/ \E s : Continue(p, s, c)
    BY <1>1, <1>9 DEF Storing, PutLeaves, PutRoot, PutReport
  <2> QED
    BY <1>2, <1>3, <2>1
<1> QED
    BY <1>4, <1>5, <1>6, <1>7, <1>8, <1>9 DEF Preparing

\* And what publishing leaves.
LEMMA PublishAnswers ==
    ASSUME StoreTypeOK, StoreTypeOK', LocalTypeOK, CurrentIsComplete, Grow,
           NEW p \in Procs, LocalOK(p), CallAnswers(p), ResultAnswers(p), Publish(p)
    PROVE  CallAnswers(p)' /\ ResultAnswers(p)'
PROOF
<1>0. pc[p] = "publish" /\ pc[p] # "idle" /\ root' = root
    BY DEF Publish, store
<1>1. PICK c \in Call : c = call[p] /\ Shape(c) /\ c.stage \in Stages
    BY <1>0, CallTypes
<1>2. PICK h : h = head'
    OBVIOUS
<1>3. PICK n : n = [call[p] EXCEPT !.ref = Len(head'[call[p].stage])]
    OBVIOUS
<1>4. /\ n \in Call /\ Shape(n)
      /\ \/ /\ Return(p, n, FALSE, head')
            /\ head'[c.stage] # <<>>
            /\ Last(head'[c.stage]) = c.rev
         \/ End(p, "failed", call[p], head')
         \/ Raise(p, "conflict")
    BY <1>1, <1>3, PublishCases
<1>5. CASE Raise(p, "conflict")
    BY <1>5, RaiseAnswers
<1>6. CASE End(p, "failed", call[p], head')
  <2>1. End(p, "failed", c, h)
    BY <1>1, <1>2, <1>6
  <2>2. pc'[p] = "idle" /\ result'[p].answers = <<>>
    BY <2>1, EndMoves
  <2> QED
    BY <2>2, NoAnswers
<1>7. CASE Return(p, n, FALSE, head') /\ head'[c.stage] # <<>> /\ Last(head'[c.stage]) = c.rev
  <2>1. Return(p, n, FALSE, h)
    BY <1>2, <1>7
  <2>2. /\ n.stage = c.stage /\ n.rev = c.rev /\ n.up = c.up /\ n.out = c.out /\ n.config = c.config
        /\ n.first = c.first /\ n.answers = c.answers /\ n.ref = Len(head'[c.stage])
    BY <1>1, <1>3 DEF Call
  <2>3. head'[c.stage] \in Seq(Revs)
    BY <1>1 DEF StoreTypeOK
  <2>4. /\ Len(head'[c.stage]) \in DOMAIN head'[c.stage]
        /\ head'[c.stage][Len(head'[c.stage])] = c.rev
    BY <1>7, <2>3, EmptySeq DEF Last
  <2>5. c.rev \in ToSet(head'[c.stage])
    BY <2>3, <2>4 DEF ToSet
  <2>6. root[c.stage][c.rev] = [up |-> c.up, out |-> c.out, config |-> c.config]
    BY <1>0, <1>1 DEF LocalOK, WrittenOK
  <2>7. c.out \in Outputs
    BY <1>0, <1>1 DEF LocalOK, WorkOK, Generated, Made, Writing
  <2>8. PICK a : a = Added(n, FALSE)
    OBVIOUS
  <2>9. a.rev = c.rev /\ a.up = c.up /\ a.ref = Len(head'[c.stage]) /\ a.called
    BY <2>2, <2>7, <2>8, NoneIsNothing DEF Added
  <2>10. AnswerIsTrue(n.stage, n.config, a)'
    BY <1>0, <2>2, <2>4, <2>5, <2>6, <2>9 DEF AnswerIsTrue
  <2> QED
    BY <1>0, <1>1, <1>4, <2>1, <2>2, <2>8, <2>10, ReturnAnswers
<1> QED
    BY <1>4, <1>5, <1>6, <1>7

\* What any step leaves.
LEMMA AnswersStep ==
    ASSUME StoreTypeOK, StoreTypeOK', LocalTypeOK, CallsAreConsistent, CurrentIsComplete, AnswersHold,
           [Next]_vars
    PROVE  AnswersHold'
PROOF
<1>1. Grow
    BY StoresGrow
<1>2. SUFFICES ASSUME NEW q \in Procs
               PROVE  CallAnswers(q)' /\ ResultAnswers(q)'
    BY DEF AnswersHold
<1>3. CallAnswers(q) /\ ResultAnswers(q)
    BY DEF AnswersHold
<1>4. CASE pc'[q] = pc[q] /\ call'[q] = call[q] /\ result'[q] = result[q]
  <2>1. CASE pc[q] = "idle"
    <3>1. CallAnswers(q)'
      BY <1>4, <2>1 DEF CallAnswers
    <3> QED
      BY <1>1, <1>3, <1>4, <3>1, ResultAnswersStay
  <2>2. CASE pc[q] # "idle"
    BY <1>1, <1>3, <1>4, <2>2, CallAnswersStay, ResultAnswersStay
  <2> QED
    BY <2>1, <2>2
<1>5. CASE UNCHANGED <<pc, call, result>>
    BY <1>4, <1>5
<1>6. CASE MoveInput
    BY <1>5, <1>6 DEF MoveInput
<1>7. ASSUME NEW p \in Procs, Quiet(p) \/ (Busy(p) /\ pc[p] # "idle")
      PROVE  CallAnswers(q)' /\ ResultAnswers(q)'
  <2>1. CASE q # p
    BY <1>4, <1>7, <2>1, QuietSteps, BusySteps DEF OthersRest, Busy
  <2>2. CASE q = p
    <3>1. LocalOK(q)
      BY DEF CallsAreConsistent
    <3>2. CASE Start(q)
      <4>1. call'[q].answers = <<>> /\ result'[q] = None
        BY <3>2, StartMoves
      <4> QED
        BY <4>1 DEF CallAnswers, ResultAnswers
    <3>3. CASE Inputs(q)
      <4>1. Continue(q, "upstream ref", call[q]) /\ pc[q] # "idle"
        BY <3>3 DEF Inputs
      <4>2. PICK c : c = call[q]
        OBVIOUS
      <4>3. Continue(q, "upstream ref", c)
        BY <4>1, <4>2
      <4> QED
        BY <1>1, <1>3, <4>1, <4>2, <4>3, ContinueAnswers
    <3>4. CASE Reading(q)
      BY <1>1, <1>3, <3>1, <3>4, ReadingAnswers
    <3>5. CASE Preparing(q) \/ Storing(q)
      BY <1>1, <1>3, <3>1, <3>5, WorkingAnswers
    <3>6. CASE Publish(q)
      BY <1>1, <1>3, <3>1, <3>6, PublishAnswers
    <3>7. CASE Fails(q)
      BY <3>7, RaiseAnswers DEF Fails
    <3> QED
      BY <1>7, <2>2, <3>2, <3>3, <3>4, <3>5, <3>6, <3>7 DEF Quiet, Busy, Preparing, Storing
  <2> QED
    BY <2>1, <2>2
<1> QED
    BY <1>5, <1>6, <1>7, StepKinds

-----------------------------------------------------------------------------
(* The inductive invariant, and what follows from it.                      *)

\* The inductive invariant.
IInv ==
    /\ StoreTypeOK /\ LocalTypeOK /\ CallsAreConsistent
    /\ Sorted /\ CurrentIsSettled /\ WorkIsSettled /\ OvertakenIsOld
    /\ AnswersHold

\* What is settled is complete, and was not overtaken.
LEMMA SettledIsComplete ==
    ASSUME CurrentIsSettled
    PROVE  CurrentIsComplete /\ OvertakenIsNotPublished
PROOF
    BY DEF CurrentIsSettled, SettledAt, CurrentIsComplete, OvertakenIsNotPublished

\* The empty stores satisfy the invariant.
LEMMA InitEstablishes == Init => IInv
PROOF
<1> SUFFICES ASSUME Init PROVE IInv
    OBVIOUS
<1>1. StoreTypeOK
    BY BoundsAreNaturals DEF Init, StoreTypeOK
<1>2. LocalTypeOK
    BY DEF Init, LocalTypeOK, Steps
<1>3. CallsAreConsistent
    BY DEF Init, CallsAreConsistent, LocalOK, UpstreamOK, OwnOK, ReuseOK, WorkOK, WrittenOK,
           Opening, Writing, Made, Generated, Reusing
<1>4. \A s \in Stages : Len(head[s]) = 0 /\ ToSet(head[s]) = {}
    BY DEF Init, ToSet
<1>5. Sorted /\ CurrentIsSettled
  <2>1. \A s \in Stages : 1..Len(head[s]) = {}
    BY <1>4
  <2>2. Sorted
    BY <2>1, Zenon DEF Sorted
  <2>3. CurrentIsSettled
    BY <1>4, Zenon DEF CurrentIsSettled
  <2> QED
    BY <2>2, <2>3
<1>6. WorkIsSettled /\ OvertakenIsOld /\ AnswersHold
    BY DEF Init, WorkIsSettled, OvertakenIsOld, AnswersHold, CallAnswers, ResultAnswers
<1> QED
    BY <1>1, <1>2, <1>3, <1>5, <1>6 DEF IInv

\* Pointers stay sorted: only Publish moves one.
LEMMA SortedStays ==
    ASSUME StoreTypeOK, LocalTypeOK, CallsAreConsistent, Sorted, [Next]_vars
    PROVE  Sorted'
PROOF
<1>1. CASE head' = head
    BY <1>1 DEF Sorted
<1> QED
    BY <1>1, StoresGrow, SortedStep

\* Every step preserves the invariant.
LEMMA NextPreserves == IInv /\ [Next]_vars => IInv'
PROOF
<1> SUFFICES ASSUME IInv, [Next]_vars PROVE IInv'
    OBVIOUS
<1> USE DEF IInv
<1>1. StoreTypeOK' /\ LocalTypeOK'
    BY TypeStep
<1>2. Sorted'
    BY SortedStays
<1>3. CurrentIsComplete
    BY SettledIsComplete
<1>4. CallsAreConsistent'
    BY <1>1, <1>3, LocalStep
<1>5. OvertakenIsOld'
    BY <1>1, <1>2, OvertakenStep
<1>6. WorkIsSettled'
    BY <1>1, <1>2, <1>4, <1>5, WorkStep
<1>7. CurrentIsSettled'
    BY CurrentStep
<1>8. AnswersHold'
    BY <1>1, <1>3, AnswersStep
<1> QED
    BY <1>1, <1>2, <1>4, <1>5, <1>6, <1>7, <1>8

\* The invariant holds in every state.
LEMMA Invariance == Spec => []IInv
PROOF
    BY InitEstablishes, NextPreserves, PTL DEF Spec

\* In every state, each store, each pointer and each call's locals are of their
\* type, and a process is idle exactly when it has no call.
THEOREM TypeCorrectness == Spec => []TypeOK
PROOF
<1>1. IInv => TypeOK
    BY DEF IInv, StoreTypeOK, LocalTypeOK, TypeOK
<1> QED
    BY <1>1, Invariance, PTL

\* Whatever was CURRENT can be verified for ever: leaves, root and PASS report
\* are those of one revision, whoever wrote them and however the calls that
\* raced for the revision ended (compare_and_set after the three writes).
THEOREM CurrentCanBeVerified == Spec => []CurrentIsComplete
PROOF
<1>1. IInv => CurrentIsComplete
    BY SettledIsComplete DEF IInv
<1> QED
    BY <1>1, Invariance, PTL

\* Work whose upstream moved before it was done never becomes CURRENT: A4 looks
\* at its input before it writes, A5 and A6 at theirs after (publish_validated).
THEOREM NothingOvertakenIsPublished == Spec => []OvertakenIsNotPublished
PROOF
<1>1. IInv => OvertakenIsNotPublished
    BY SettledIsComplete DEF IInv
<1> QED
    BY <1>1, Invariance, PTL

\* A call from A1 answers from A4 on.
LEMMA StageOfAnswer ==
    ASSUME NEW f \in 3..6
    PROVE  Max({f, 4}) = IF f = 3 THEN 4 ELSE f
PROOF
<1>1. PICK m : m = IF f = 3 THEN 4 ELSE f
    OBVIOUS
<1>2. m \in {f, 4} /\ \A y \in {f, 4} : m >= y
    BY <1>1
<1>3. \A x \in {f, 4} : (\A y \in {f, 4} : x >= y) => x = m
    BY <1>1
<1> QED
    BY <1>1, <1>2, <1>3 DEF Max

\* What each stage of analyze_story_project answered names a revision that was
\* CURRENT, made from what it resolved, for the configuration of its call.
THEOREM AnswersName == Spec => []AnswersAreTrue
PROOF
<1>1. IInv => AnswersAreTrue
  <2> SUFFICES ASSUME IInv, NEW p \in Procs, NEW i \in DOMAIN Answers(p)
               PROVE  LET a == Answers(p)[i]
                          s == StageOf(p, i)
                      IN /\ a.rev \in ToSet(head[s])
                         /\ root[s][a.rev].up = a.up
                         /\ root[s][a.rev].config = result[p].config
                         /\ s < 6 \/ ~a.reused => a.ref \in DOMAIN head[s] /\ head[s][a.ref] = a.rev
                         /\ ~a.called => a.reused
    BY DEF AnswersAreTrue
  <2>1. result[p] # None /\ Answers(p) = result[p].answers
    BY DEF Answers
  <2>2. result[p].first \in 3..6
    BY <2>1 DEF IInv, LocalTypeOK, Result
  <2>3. StageOf(p, i) = FirstStage(result[p]) + i - 1
    BY <2>2, StageOfAnswer DEF StageOf, FirstStage
  <2>4. AnswerIsTrue(StageOf(p, i), result[p].config, Answers(p)[i])
    BY <2>1, <2>3 DEF IInv, AnswersHold, ResultAnswers
  <2> QED
    BY <2>4 DEF AnswerIsTrue
<1> QED
    BY <1>1, Invariance, PTL

-----------------------------------------------------------------------------
(* A call that is alone.  Nothing it read has moved since, what it takes   *)
(* is its own, the stages it is done with are made one from the other, and *)
(* in a chain that was whole when it started no stage comes to generate.   *)

\* The CURRENT root of stage s is made from what is CURRENT before it, for config.
Linked(s, config) ==
    /\ head[s] # <<>>
    /\ root[s][Last(head[s])].up = Up(s)
    /\ root[s][Last(head[s])].config = config

\* What a call that is alone knows at step s with its local variables c: nothing
\* it read has moved, and the revision it took is its own.
StillTrue(s, c) ==
    LET own == head[c.stage]
    IN /\ s = "upstream" => c.upRef = UpRef(c.stage)
       /\ s \in Steps \ (Opening \union {"idle"}) =>
              c.upRef = UpRef(c.stage) /\ c.up = Up(c.stage)
       /\ s \in {"own", "current", "alloc"} \union Reusing \union Writing => c.ref = Len(own)
       /\ s \in Reusing => c.rev = Last(own)
       /\ s = "reuse own" => c.stage = 5
       /\ s = "put leaves" => leaves[c.stage][c.rev] = None
       /\ s \in {"put leaves", "put root"} => root[c.stage][c.rev] = None

\* The stages it has answered for are made one from the other.
Built(c) == \A t \in FirstStage(c)..(c.stage - 1) : Linked(t, c.config)

\* Only a stage that finds nothing to reuse comes to the provider, and no stage
\* of a chain that was whole does.
Rerun(s, c) ==
    /\ s = "inputs" => c.stage = FirstStage(c) /\ ~c.coherent
    /\ s \notin Generated => c.out = None
    /\ c.coherent =>
           /\ Coherent(c, head)
           /\ s \notin Generated \union {"generate"}
           /\ \A i \in DOMAIN c.answers : ~c.answers[i].called

Solo(s, c) == StillTrue(s, c) /\ Built(c) /\ Rerun(s, c)

\* What AloneIsServed says of p's last call.
Served(p) ==
    result[p] # None /\ ~shared[p] =>
        /\ result[p].status \notin {"moved", "conflict", "corrupt"}
        /\ result[p].status = "ok" =>
            /\ result[p].after
            /\ result[p].before => \A i \in DOMAIN result[p].answers : ~result[p].answers[i].called

\* A call that is not shared is the only one.
Alone(p) ==
    /\ pc[p] # "idle" /\ ~shared[p] =>
           /\ \A q \in Procs \ {p} : pc[q] = "idle"
           /\ Solo(pc[p], call[p])
    /\ Served(p)

AloneInv == \A p \in Procs : Alone(p)

\* A step of p leaves p's call with what it has to know, or ends it well.
StaysSolo(p) == (pc'[p] # "idle" => Solo(pc[p], call[p])') /\ Served(p)'

\* Two states of a call at the same stage.
SameCall(c, d) ==
    /\ d.first = c.first /\ d.last = c.last /\ d.config = c.config
    /\ d.stage = c.stage /\ d.answers = c.answers

\* What is known at a step with some locals is known of the call that has them.
LEMMA SoloAt ==
    ASSUME NEW p, NEW s, NEW d, pc'[p] = s, call'[p] = d, Solo(s, d)'
    PROVE  Solo(pc[p], call[p])'
PROOF
<1>1. StillTrue(pc[p], call[p])'
    BY DEF Solo, StillTrue, UpRef, Up, UpIn
<1>2. Built(call[p])'
    BY DEF Solo, Built, FirstStage, Linked, Up, UpIn
<1>3. Rerun(pc[p], call[p])'
    BY DEF Solo, Rerun, FirstStage, Coherent, UpIn
<1> QED
    BY <1>1, <1>2, <1>3 DEF Solo

\* When the stores do not change, neither does what is known.
LEMMA SoloKept ==
    ASSUME NEW s, NEW d, Solo(s, d), UNCHANGED <<input, leaves, root, head>>
    PROVE  Solo(s, d)'
PROOF
<1>1. StillTrue(s, d)'
    BY DEF Solo, StillTrue, UpRef, Up, UpIn
<1>2. Built(d)'
    BY DEF Solo, Built, Linked, Up, UpIn
<1>3. Rerun(s, d)'
    BY DEF Solo, Rerun, Coherent, UpIn
<1> QED
    BY <1>1, <1>2, <1>3 DEF Solo

\* A call that goes on.
LEMMA SoloContinues ==
    ASSUME LocalTypeOK, NEW p \in Procs, Served(p), NEW s, NEW d, Continue(p, s, d), Solo(s, d)'
    PROVE  StaysSolo(p)
PROOF
<1>1. pc'[p] = s /\ call'[p] = d /\ result'[p] = result[p] /\ shared' = shared
    BY ContinueMoves DEF Continue
<1>2. Solo(pc[p], call[p])'
    BY <1>1, SoloAt
<1>3. Served(p)'
    BY <1>1 DEF Served
<1> QED
    BY <1>2, <1>3 DEF StaysSolo

\* A call that raises for a reason of its own.
LEMMA SoloRaises ==
    ASSUME LocalTypeOK, NEW p \in Procs, NEW c, NEW h,
           NEW status \in {"missing", "failed"}, End(p, status, c, h)
    PROVE  StaysSolo(p)
PROOF
<1>1. pc'[p] = "idle"
    BY EndMoves
<1>2. result'[p].status = status
    BY DEF End, LocalTypeOK
<1> QED
    BY <1>1, <1>2 DEF StaysSolo, Served

\* A chain that is whole links the stage a call is at.
LEMMA CoherentLinks ==
    ASSUME NEW c \in Call, Shape(c), Coherent(c, head)
    PROVE  Linked(c.stage, c.config)
PROOF
<1>1. c.stage \in Stages /\ c.stage \in 4..6 /\ c.first \in 3..6 /\ c.last \in 4..6
    BY DEF Call, Stages
<1>2. Len(c.answers) \in Nat
    BY DEF Call
<1>3. c.stage \in Stages \cap (c.first..c.last)
    BY <1>1, <1>2 DEF Shape, FirstStage
<1> QED
    BY <1>3 DEF Coherent, Linked, Up

\* The stages a call is for.
LEMMA StagesOfCall ==
    ASSUME NEW c \in Call, Shape(c)
    PROVE  /\ Stages \cap (c.first..c.last) = FirstStage(c)..c.last
           /\ FirstStage(c) \in 4..6 /\ c.stage \in FirstStage(c)..c.last
           /\ c.last \in 4..6 /\ c.stage \in 4..6
PROOF
<1>1. c.stage \in 4..6 /\ c.first \in 3..6 /\ c.last \in 4..6 /\ Len(c.answers) \in Nat
    BY DEF Call, Stages
<1> QED
    BY <1>1 DEF Shape, FirstStage, Stages

\* A stage that returns: the call ends well, or it goes on to the next stage.
LEMMA SoloReturns ==
    ASSUME LocalTypeOK, NEW p \in Procs, Served(p), NEW c \in Call, Shape(c),
           NEW reused \in BOOLEAN, NEW h, h = head',
           UNCHANGED <<input, root>>, Return(p, c, reused, h),
           Built(c)', Linked(c.stage, c.config)',
           c.coherent => /\ Coherent(c, head)' /\ c.out = None
                         /\ \A i \in DOMAIN c.answers : ~c.answers[i].called
    PROVE  StaysSolo(p)
PROOF
<1> DEFINE a == Added(c, reused)
           done == [c EXCEPT !.answers = Append(@, a)]
<1>0. a \in Answer /\ c.answers \in Seq(Answer)
    BY DEF Added, Answer, Call
<1>1. PICK d \in Call : d = done
    BY <1>0, AppendProperties DEF Call
<1>2. /\ d.first = c.first /\ d.last = c.last /\ d.config = c.config /\ d.stage = c.stage
      /\ d.coherent = c.coherent /\ d.answers = Append(c.answers, a)
    BY <1>1 DEF Call
<1>3. Append(c.answers, a) \in Seq(Answer) /\ Len(Append(c.answers, a)) = Len(c.answers) + 1
    BY <1>0, AppendProperties
<1>4. c.coherent => \A i \in DOMAIN d.answers : ~d.answers[i].called
  <2> SUFFICES ASSUME c.coherent, NEW i \in DOMAIN d.answers
               PROVE  ~d.answers[i].called
    OBVIOUS
  <2>1. a.called = FALSE
    BY DEF Added
  <2>2. i \in 1..(Len(c.answers) + 1) /\ Len(c.answers) \in Nat
    BY <1>0, <1>2, <1>3
  <2>3. CASE i = Len(c.answers) + 1
    BY <1>0, <1>2, <2>1, <2>3, AppendProperties
  <2>4. CASE i # Len(c.answers) + 1
    <3>1. i \in 1..Len(c.answers)
      BY <2>2, <2>4
    <3>2. d.answers[i] = c.answers[i] /\ i \in DOMAIN c.answers
      BY <1>0, <1>2, <3>1, AppendProperties
    <3> QED
      BY <3>2
  <2> QED
    BY <2>3, <2>4
<1>5. \A t \in FirstStage(c)..c.stage : Linked(t, c.config)'
  <2>1. c.stage \in Int
    BY StagesOfCall
  <2>2. \A t \in FirstStage(c)..(c.stage - 1) : Linked(t, c.config)'
    BY DEF Built
  <2> SUFFICES ASSUME NEW t \in FirstStage(c)..c.stage
               PROVE  Linked(t, c.config)'
    OBVIOUS
  <2>3. t = c.stage \/ t \in FirstStage(c)..(c.stage - 1)
    BY <2>1, StagesOfCall
  <2> QED
    BY <2>2, <2>3
<1>6. Return(p, c, reused, h) =>
          IF c.stage = c.last THEN End(p, "ok", d, h)
          ELSE Continue(p, "upstream ref", AtStage(d, c.stage + 1))
    BY <1>1 DEF Return, Added
<1>7. CASE c.stage = c.last
  <2>1. End(p, "ok", d, h)
    BY <1>6, <1>7
  <2>2. pc'[p] = "idle"
    BY <2>1, EndMoves
  <2>3. Coherent(d, h)
    <3> SUFFICES ASSUME NEW s \in Stages \cap (d.first..d.last)
                 PROVE  h[s] # <<>> /\ root[s][Last(h[s])].up = UpIn(s, h)
                        /\ root[s][Last(h[s])].config = d.config
      BY DEF Coherent
    <3>1. s \in FirstStage(c)..c.stage
      BY <1>2, <1>7, StagesOfCall
    <3> QED
      BY <1>2, <1>5, <3>1 DEF Linked, Up, UpIn
  <2>4. /\ result'[p].status = "ok" /\ result'[p].answers = d.answers
        /\ result'[p].after = TRUE /\ result'[p].before = d.coherent
    <3>1. result'[p] = [status |-> "ok", config |-> d.config, first |-> d.first,
                        answers |-> d.answers, before |-> d.coherent, after |-> TRUE]
      <4>1. d.coherent \in BOOLEAN
        BY DEF Call
      <4> QED
        BY <2>1, <2>3, <4>1 DEF End, LocalTypeOK
    <3> QED
      BY <3>1
  <2> QED
    BY <1>2, <1>4, <2>2, <2>4 DEF StaysSolo, Served
<1>8. CASE c.stage # c.last
  <2>1. PICK n : n = AtStage(d, c.stage + 1)
    OBVIOUS
  <2>2. c.stage + 1 \in Stages
    BY <1>8, StagesOfCall DEF Stages
  <2>3. /\ n.first = c.first /\ n.last = c.last /\ n.config = c.config /\ n.stage = c.stage + 1
        /\ n.answers = d.answers /\ n.coherent = c.coherent /\ n.out = None
    BY <1>2, <2>1, <2>2 DEF AtStage, Call
  <2>4. StillTrue("upstream ref", n)'
    BY DEF StillTrue, Opening, Reusing, Writing
  <2>5. Built(n)'
    <3>1. n.stage - 1 = c.stage /\ FirstStage(n) = FirstStage(c)
      BY <2>3, StagesOfCall DEF FirstStage
    <3> QED
      BY <1>5, <2>3, <3>1 DEF Built
  <2>6. Rerun("upstream ref", n)'
    <3>1. "upstream ref" \notin Generated \union {"generate", "inputs"}
      BY DEF Generated, Made, Writing
    <3>2. c.coherent => Coherent(n, head)'
      BY <2>3 DEF Coherent
    <3> QED
      BY <1>4, <2>3, <3>1, <3>2 DEF Rerun
  <2>7. Solo("upstream ref", n)'
    BY <2>4, <2>5, <2>6 DEF Solo
  <2>8. Continue(p, "upstream ref", n)
    BY <1>6, <1>8, <2>1
  <2> QED
    BY <2>7, <2>8, SoloContinues
<1> QED
    BY <1>7, <1>8

\* A call that goes on, with the stores as they are.
LEMMA SoloGoesOn ==
    ASSUME LocalTypeOK, NEW p \in Procs, Served(p), UNCHANGED <<input, leaves, root, head>>,
           NEW s, NEW d, Continue(p, s, d), StillTrue(s, d), Built(d), Rerun(s, d)
    PROVE  StaysSolo(p)
PROOF
<1>1. Solo(s, d)
    BY DEF Solo
<1> QED
    BY <1>1, SoloKept, SoloContinues

\* The other locals of a call do not matter to the chain.
LEMMA SameChain ==
    ASSUME NEW s, NEW c, Built(c), Rerun(s, c), NEW d, SameCall(c, d), d.coherent = c.coherent,
           NEW t, t # "inputs", t \notin Generated => d.out = None,
           c.coherent => t \notin Generated \union {"generate"}
    PROVE  Built(d) /\ Rerun(t, d)
PROOF
<1>1. Built(d)
    BY DEF Built, SameCall, FirstStage
<1>2. c.coherent => Coherent(d, head) /\ \A i \in DOMAIN d.answers : ~d.answers[i].called
    BY DEF Rerun, SameCall, Coherent
<1> QED
    BY <1>1, <1>2 DEF Rerun

\* A call that is alone finds its upstream unmoved, and verified.
LEMMA SoloUnmoved ==
    ASSUME IInv, NEW p \in Procs, pc[p] \in Steps \ (Opening \union {"idle"}),
           NEW c \in Call, c = call[p], StillTrue(pc[p], c)
    PROVE  UpstreamUnmoved(c)
PROOF
<1>1. c.upRef = UpRef(c.stage) /\ c.up = Up(c.stage)
    BY DEF StillTrue
<1>2. CASE c.stage = 5
  <2>1. UpstreamWasCurrent(c)
    BY DEF IInv, CallsAreConsistent, LocalOK, UpstreamOK
  <2>2. c.upRef \in DOMAIN head[4] /\ c.up = head[4][c.upRef]
    BY <1>2, <2>1 DEF UpstreamWasCurrent
  <2>3. c.up \in ToSet(head[4])
    BY <2>2 DEF ToSet
  <2>4. Complete(4, c.up)
    BY <2>3, SettledIsComplete DEF IInv, CurrentIsComplete, Stages
  <2> QED
    BY <1>1, <1>2, <2>4 DEF UpstreamUnmoved
<1>3. CASE c.stage # 5
    BY <1>1, <1>3 DEF UpstreamUnmoved
<1> QED
    BY <1>2, <1>3

\* What is CURRENT verifies.
LEMMA CurrentVerifies ==
    ASSUME IInv, NEW s \in Stages, head[s] # <<>>
    PROVE  Complete(s, Last(head[s])) /\ Last(head[s]) \in ToSet(head[s])
PROOF
<1>1. Last(head[s]) \in ToSet(head[s])
    BY PointerTypes DEF IInv
<1> QED
    BY <1>1, SettledIsComplete DEF IInv, CurrentIsComplete

\* A1 to A3 find their outputs current or publish new ones: the chain comes after.
LEMMA SoloInputs ==
    ASSUME IInv, NEW p \in Procs, ~shared[p], Alone(p), Inputs(p)
    PROVE  StaysSolo(p)
PROOF
<1>1. pc[p] = "inputs" /\ Served(p) /\ Solo(pc[p], call[p])
    BY DEF Inputs, Alone
<1>2. PICK c \in Call : c = call[p] /\ Shape(c)
    BY <1>1, CallTypes DEF IInv
<1>3. c.stage = FirstStage(c) /\ ~c.coherent /\ c.out = None
    BY <1>1, <1>2 DEF Solo, Rerun, Generated, Made, Writing
<1>4. StillTrue("upstream ref", c)'
    BY DEF StillTrue, Opening, Reusing, Writing
<1>5. Built(c)'
  <2>1. FirstStage(c)..(c.stage - 1) = {}
    BY <1>2, <1>3, StagesOfCall
  <2> QED
    BY <2>1, Zenon DEF Built
<1>6. Rerun("upstream ref", c)'
    BY <1>3 DEF Rerun
<1>7. Solo("upstream ref", c)'
    BY <1>4, <1>5, <1>6 DEF Solo
<1>8. Continue(p, "upstream ref", c)
    BY <1>2 DEF Inputs
<1> QED
    BY <1>1, <1>7, <1>8, SoloContinues DEF IInv

\* What a call sees of the chain when it starts is what it is told of it.
LEMMA StartsChain ==
    ASSUME NEW s, NEW c \in Call, Shape(c), Built(c), Rerun(s, c), s \notin Generated,
           NEW d, d.first = c.first, d.last = c.last, d.config = c.config, d.stage = c.stage,
           d.answers = c.answers, d.out = c.out, d.coherent = Starts(c).coherent,
           NEW t, t # "inputs", t \notin Generated \union {"generate"}
    PROVE  Built(d) /\ Rerun(t, d)
PROOF
<1>1. Built(d)
    BY DEF Built, FirstStage
<1>2. Coherent(c, head) => Coherent(d, head)
    BY DEF Coherent
<1>3. CASE c.answers = <<>>
  <2>1. d.coherent = Coherent(c, head)
    <3>1. Coherent(c, head) \in BOOLEAN
      BY DEF Coherent
    <3> QED
      BY <1>3, <3>1 DEF Starts, Call
  <2>2. DOMAIN d.answers = {}
    BY <1>3
  <2> QED
    BY <1>1, <1>2, <2>1, <2>2 DEF Rerun
<1>4. CASE c.answers # <<>>
    BY <1>1, <1>2, <1>4 DEF Rerun, Starts
<1> QED
    BY <1>3, <1>4

\* What is known of a call that is alone.
LEMMA SoloCall ==
    ASSUME IInv, NEW p \in Procs, pc[p] # "idle", ~shared[p], Alone(p)
    PROVE  /\ Served(p) /\ LocalOK(p) /\ LocalTypeOK /\ StoreTypeOK
           /\ \E c \in Call : /\ c = call[p] /\ Shape(c) /\ c.stage \in Stages
                             /\ StillTrue(pc[p], c) /\ Built(c) /\ Rerun(pc[p], c)
PROOF
    BY CallTypes DEF IInv, CallsAreConsistent, Alone, Solo

\* The upstream is read.
LEMMA SoloReadsUpstream ==
    ASSUME IInv, NEW p \in Procs, ~shared[p], Alone(p),
           ReadInputs(p) \/ ReadUpstreamRef(p) \/ ReadUpstream(p)
    PROVE  StaysSolo(p)
PROOF
<1>0. pc[p] \in {"upstream ref", "upstream"} /\ pc[p] # "idle" /\ UNCHANGED <<input, leaves, root, head>>
    BY DEF ReadInputs, ReadUpstreamRef, ReadUpstream, store
<1>1. Served(p) /\ LocalOK(p) /\ LocalTypeOK /\ StoreTypeOK
    BY <1>0, SoloCall
<1>2. PICK c \in Call : /\ c = call[p] /\ Shape(c) /\ c.stage \in Stages
                       /\ StillTrue(pc[p], c) /\ Built(c) /\ Rerun(pc[p], c)
    BY <1>0, SoloCall
<1>3. pc[p] \notin Generated
    BY <1>0 DEF Generated, Made, Writing
<1>4. PICK e \in Call : e = Starts(c)
    BY StartsKeeps
<1>5. /\ e.first = c.first /\ e.last = c.last /\ e.config = c.config /\ e.stage = c.stage
      /\ e.answers = c.answers /\ e.out = c.out /\ e.coherent = Starts(c).coherent
    BY <1>4 DEF Starts, Call
<1>6. "own ref" \notin {"inputs"} \union Generated \union {"generate"}
      /\ "upstream" \notin {"inputs"} \union Generated \union {"generate"}
    BY DEF Generated, Made, Writing
<1>7. "own ref" \notin {"own", "current", "alloc"} \union Reusing \union Writing
      /\ "upstream" \notin {"own", "current", "alloc"} \union Reusing \union Writing
      /\ "upstream" \in Opening
    BY DEF Opening, Reusing, Writing
<1>8. CASE ReadInputs(p)
  <2>1. c.stage = 4
    BY <1>2, <1>8 DEF ReadInputs
  <2>2. CASE input = 0
    <3>1. Raise(p, "missing")
      BY <1>8, <2>2 DEF ReadInputs
    <3> QED
      BY <1>1, <3>1, SoloRaises DEF Raise
  <2>3. CASE input # 0
    <3>1. PICK d : d = [e EXCEPT !.upRef = input, !.up = input]
      OBVIOUS
    <3>2. Continue(p, "own ref", d)
      BY <1>2, <1>4, <1>8, <2>3, <3>1 DEF ReadInputs
    <3>3. /\ d.first = c.first /\ d.last = c.last /\ d.config = c.config /\ d.stage = c.stage
          /\ d.answers = c.answers /\ d.out = c.out /\ d.coherent = Starts(c).coherent
          /\ d.upRef = input /\ d.up = input
      BY <1>5, <3>1 DEF Call
    <3>4. Built(d) /\ Rerun("own ref", d)
      BY <1>2, <1>3, <1>6, <3>3, StartsChain
    <3>5. StillTrue("own ref", d)
      BY <1>7, <2>1, <3>3 DEF StillTrue, UpRef, Up, UpIn
    <3> QED
      BY <1>0, <1>1, <3>2, <3>4, <3>5, SoloGoesOn
  <2> QED
    BY <2>2, <2>3
<1>9. CASE ReadUpstreamRef(p)
  <2>2. CASE UpRef(c.stage) = 0
    <3>1. Raise(p, "missing")
      BY <1>2, <1>9, <2>2 DEF ReadUpstreamRef
    <3> QED
      BY <1>1, <3>1, SoloRaises DEF Raise
  <2>3. CASE UpRef(c.stage) # 0
    <3>1. PICK d : d = [e EXCEPT !.upRef = UpRef(c.stage)]
      OBVIOUS
    <3>2. Continue(p, "upstream", d)
      BY <1>2, <1>4, <1>9, <2>3, <3>1 DEF ReadUpstreamRef
    <3>3. /\ d.first = c.first /\ d.last = c.last /\ d.config = c.config /\ d.stage = c.stage
          /\ d.answers = c.answers /\ d.out = c.out /\ d.coherent = Starts(c).coherent
          /\ d.upRef = UpRef(c.stage)
      BY <1>5, <3>1 DEF Call
    <3>4. Built(d) /\ Rerun("upstream", d)
      BY <1>2, <1>3, <1>6, <3>3, StartsChain
    <3>5. StillTrue("upstream", d)
      BY <1>7, <3>3 DEF StillTrue
    <3> QED
      BY <1>0, <1>1, <3>2, <3>4, <3>5, SoloGoesOn
  <2> QED
    BY <2>2, <2>3
<1>10. CASE ReadUpstream(p)
  <2>1. pc[p] = "upstream" /\ c.upRef = UpRef(c.stage)
    BY <1>2, <1>10 DEF ReadUpstream, StillTrue
  <2>2. c.stage - 1 \in Stages /\ c.stage # 4 /\ c.upRef > 0
    BY <1>1, <1>2, <2>1 DEF LocalOK, UpstreamOK, Stages
  <2>3. Complete(c.stage - 1, Up(c.stage))
    <3>1. head[c.stage - 1] # <<>>
      BY <1>1, <2>1, <2>2, PointerTypes DEF UpRef
    <3> QED
      BY <2>2, <3>1, CurrentVerifies DEF Up, UpIn
  <2>4. PICK d : d = [c EXCEPT !.up = Up(c.stage)]
    OBVIOUS
  <2>5. Continue(p, "own ref", d)
    BY <1>2, <1>10, <2>1, <2>3, <2>4 DEF ReadUpstream
  <2>6. SameCall(c, d) /\ d.coherent = c.coherent /\ d.out = c.out
        /\ d.upRef = c.upRef /\ d.up = Up(c.stage)
    BY <2>4 DEF SameCall, Call
  <2>7. Built(d) /\ Rerun("own ref", d)
    <3>1. d.out = None
      BY <1>2, <1>3, <2>6 DEF Rerun
    <3> QED
      BY <1>2, <1>6, <2>6, <3>1, SameChain
  <2>8. StillTrue("own ref", d)
    BY <1>7, <2>1, <2>6 DEF StillTrue, SameCall
  <2> QED
    BY <1>0, <1>1, <2>5, <2>7, <2>8, SoloGoesOn
<1> QED
    BY <1>8, <1>9, <1>10

\* The own pointer is read: a chain that was whole is found so, and reused.
LEMMA SoloReadsOwn ==
    ASSUME IInv, NEW p \in Procs, ~shared[p], Alone(p), ReadOwnRef(p) \/ ReadOwn(p)
    PROVE  StaysSolo(p)
PROOF
<1>0. pc[p] \in {"own ref", "own"} /\ pc[p] # "idle" /\ UNCHANGED <<input, leaves, root, head>>
    BY DEF ReadOwnRef, ReadOwn, store
<1>1. Served(p) /\ LocalOK(p) /\ LocalTypeOK /\ StoreTypeOK
    BY <1>0, SoloCall
<1>2. PICK c \in Call : /\ c = call[p] /\ Shape(c) /\ c.stage \in Stages
                       /\ StillTrue(pc[p], c) /\ Built(c) /\ Rerun(pc[p], c)
    BY <1>0, SoloCall
<1>3. pc[p] \notin Generated /\ pc[p] \in Steps \ (Opening \union {"idle"})
    BY <1>0 DEF Generated, Made, Writing, Steps, Opening
<1>4. c.out = None /\ c.upRef = UpRef(c.stage) /\ c.up = Up(c.stage)
    BY <1>2, <1>3 DEF Rerun, StillTrue
<1>5. c.coherent => Linked(c.stage, c.config)
    BY <1>2, CoherentLinks DEF Rerun
<1>6. ASSUME NEW d, SameCall(c, d), d.coherent = c.coherent, d.out = None,
             d.upRef = c.upRef, d.up = c.up,
             NEW s \in {"own", "generate", "reuse upstream"}, Continue(p, s, d),
             s # "generate" => d.ref = Len(head[c.stage]),
             s = "reuse upstream" => d.rev = Last(head[c.stage]),
             s = "generate" => ~c.coherent
      PROVE  StaysSolo(p)
  <2>1. s \notin Generated /\ s # "inputs" /\ s # "upstream"
    BY DEF Generated, Made, Writing
  <2>2. Built(d) /\ Rerun(s, d)
    BY <1>2, <1>6, <2>1, SameChain
  <2>3. s \notin Writing /\ s \notin {"current", "alloc", "put leaves", "put root"}
        /\ (s \in Reusing => s = "reuse upstream") /\ (s = "generate" => s \notin Reusing)
    BY DEF Writing, Reusing
  <2>4. StillTrue(s, d)
    BY <1>4, <1>6, <2>1, <2>3 DEF StillTrue, SameCall
  <2> QED
    BY <1>0, <1>1, <1>6, <2>2, <2>4, SoloGoesOn
<1>7. CASE ReadOwnRef(p)
  <2>1. CASE head[c.stage] = <<>>
    <3>1. Continue(p, "generate", c)
      BY <1>2, <1>7, <2>1 DEF ReadOwnRef
    <3> QED
      BY <1>4, <1>5, <1>6, <2>1, <3>1 DEF SameCall, Linked
  <2>2. CASE head[c.stage] # <<>>
    <3>1. PICK d : d = [c EXCEPT !.ref = Len(head[c.stage])]
      OBVIOUS
    <3>2. Continue(p, "own", d)
      BY <1>2, <1>7, <2>2, <3>1 DEF ReadOwnRef
    <3>3. /\ SameCall(c, d) /\ d.coherent = c.coherent /\ d.out = c.out
          /\ d.upRef = c.upRef /\ d.up = c.up /\ d.ref = Len(head[c.stage])
      BY <3>1 DEF SameCall, Call
    <3> QED
      BY <1>4, <1>6, <3>2, <3>3
  <2> QED
    BY <2>1, <2>2
<1>8. CASE ReadOwn(p)
  <2>1. pc[p] = "own" /\ c.ref = Len(head[c.stage])
    BY <1>2, <1>8 DEF ReadOwn, StillTrue
  <2>2. head[c.stage] # <<>>
    BY <1>1, <1>2, <2>1, PointerTypes DEF LocalOK, OwnOK
  <2>3. Complete(c.stage, Last(head[c.stage]))
    BY <1>2, <2>2, CurrentVerifies
  <2>4. CASE Matches(c.stage, Last(head[c.stage]), c)
    <3>1. PICK d : d = [c EXCEPT !.rev = Last(head[c.stage])]
      OBVIOUS
    <3>2. Continue(p, "reuse upstream", d)
      BY <1>2, <1>8, <2>1, <2>3, <2>4, <3>1 DEF ReadOwn
    <3>3. /\ SameCall(c, d) /\ d.coherent = c.coherent /\ d.out = c.out
          /\ d.upRef = c.upRef /\ d.up = c.up /\ d.ref = c.ref /\ d.rev = Last(head[c.stage])
      BY <3>1 DEF SameCall, Call
    <3> QED
      BY <1>4, <1>6, <2>1, <3>2, <3>3
  <2>5. CASE ~Matches(c.stage, Last(head[c.stage]), c)
    <3>1. PICK d : d = [c EXCEPT !.ref = 0]
      OBVIOUS
    <3>2. Continue(p, "generate", d)
      BY <1>2, <1>8, <2>1, <2>3, <2>5, <3>1 DEF ReadOwn
    <3>3. /\ SameCall(c, d) /\ d.coherent = c.coherent /\ d.out = c.out
          /\ d.upRef = c.upRef /\ d.up = c.up
      BY <3>1 DEF SameCall, Call
    <3>4. ~c.coherent
      BY <1>4, <1>5, <2>5 DEF Linked, Matches
    <3> QED
      BY <1>4, <1>6, <3>2, <3>3, <3>4
  <2> QED
    BY <2>4, <2>5
<1> QED
    BY <1>7, <1>8

\* A stage that returns with the stores as they are.
LEMMA SoloAnswers ==
    ASSUME LocalTypeOK, NEW p \in Procs, Served(p), NEW c \in Call, Shape(c),
           NEW reused \in BOOLEAN, UNCHANGED <<input, root, head>>, Return(p, c, reused, head),
           Built(c), Linked(c.stage, c.config),
           c.coherent => /\ Coherent(c, head) /\ c.out = None
                         /\ \A i \in DOMAIN c.answers : ~c.answers[i].called
    PROVE  StaysSolo(p)
PROOF
<1>1. PICK h : h = head
    OBVIOUS
<1>2. h = head' /\ Return(p, c, reused, h)
    BY <1>1
<1>3. Built(c)' /\ Linked(c.stage, c.config)'
    BY DEF Built, Linked, Up, UpIn
<1>4. Coherent(c, head) => Coherent(c, head)'
    BY DEF Coherent, UpIn
<1> QED
    BY <1>2, <1>3, <1>4, SoloReturns

\* What is reused is CURRENT, made from what is CURRENT.
LEMMA SoloReuses ==
    ASSUME IInv, NEW p \in Procs, ~shared[p], Alone(p), ReuseUpstream(p) \/ ReuseOwn(p)
    PROVE  StaysSolo(p)
PROOF
<1>0. /\ pc[p] \in {"reuse upstream", "reuse own"} /\ pc[p] # "idle"
      /\ UNCHANGED <<input, leaves, root, head>>
    BY DEF ReuseUpstream, ReuseOwn, store
<1>1. Served(p) /\ LocalOK(p) /\ LocalTypeOK /\ StoreTypeOK
    BY <1>0, SoloCall
<1>2. PICK c \in Call : /\ c = call[p] /\ Shape(c) /\ c.stage \in Stages
                       /\ StillTrue(pc[p], c) /\ Built(c) /\ Rerun(pc[p], c)
    BY <1>0, SoloCall
<1>3. pc[p] \notin Generated /\ pc[p] \in Steps \ (Opening \union {"idle"}) /\ pc[p] \in Reusing
    BY <1>0 DEF Generated, Made, Writing, Steps, Opening, Reusing
<1>4. /\ c.out = None /\ c.up = Up(c.stage) /\ c.upRef = UpRef(c.stage)
      /\ c.ref = Len(head[c.stage]) /\ c.rev = Last(head[c.stage])
    BY <1>2, <1>3 DEF Rerun, StillTrue
<1>5. Linked(c.stage, c.config)
  <2>1. c.rev \in ToSet(head[c.stage]) /\ Matches(c.stage, c.rev, c)
    BY <1>1, <1>2, <1>3 DEF LocalOK, ReuseOK
  <2>2. head[c.stage] # <<>>
    <3>1. PICK i \in 1..Len(head[c.stage]) : head[c.stage][i] = c.rev
      BY <1>1, <1>2, <2>1, PointerTypes
    <3> QED
      BY <1>1, <1>2, <3>1, PointerTypes
  <2> QED
    BY <1>4, <2>1, <2>2 DEF Linked, Matches
<1>6. ASSUME Return(p, c, TRUE, head)
      PROVE  StaysSolo(p)
    BY <1>0, <1>1, <1>2, <1>4, <1>5, <1>6, SoloAnswers DEF Rerun
<1>7. CASE ReuseUpstream(p)
  <2>1. UpstreamUnmoved(c)
    BY <1>2, <1>3, SoloUnmoved
  <2>2. CASE c.stage = 5
    <3>1. Continue(p, "reuse own", c)
      BY <1>2, <1>7, <2>1, <2>2 DEF ReuseUpstream
    <3>2. "reuse own" \notin {"inputs"} \union Generated \union {"generate"}
      BY DEF Generated, Made, Writing
    <3>3. Built(c) /\ Rerun("reuse own", c)
      BY <1>2, <1>4, <3>2, SameChain DEF SameCall
    <3>4. StillTrue("reuse own", c)
      <4>1. "reuse own" \notin {"upstream", "put leaves", "put root"}
        OBVIOUS
      <4> QED
        BY <1>4, <2>2, <4>1 DEF StillTrue
    <3> QED
      BY <1>0, <1>1, <3>1, <3>3, <3>4, SoloGoesOn
  <2>3. CASE c.stage # 5
    BY <1>2, <1>6, <1>7, <2>1, <2>3 DEF ReuseUpstream
  <2> QED
    BY <2>2, <2>3
<1>8. CASE ReuseOwn(p)
  <2>1. pc[p] = "reuse own" /\ c.stage = 5
    BY <1>2, <1>8 DEF ReuseOwn, StillTrue
  <2>2. Return(p, c, TRUE, head) \/ (Raise(p, "moved") /\ Len(head[5]) # c.ref)
    BY <1>2, <1>8 DEF ReuseOwn
  <2> QED
    BY <1>4, <1>6, <2>1, <2>2
<1> QED
    BY <1>7, <1>8

\* The work in memory, and the looks at the stores before and after the writes.
LEMMA SoloPrepares ==
    ASSUME IInv, NEW p \in Procs, ~shared[p], Alone(p), Preparing(p)
    PROVE  StaysSolo(p)
PROOF
<1>0. /\ pc[p] \in {"generate", "stable before", "current ref", "current", "alloc", "stable"}
      /\ pc[p] # "idle" /\ UNCHANGED <<input, leaves, root, head>>
    BY DEF Preparing, Generate, StableBefore, ReadCurrentRef, ReadCurrent, Alloc, Stable, store
<1>1. Served(p) /\ LocalOK(p) /\ LocalTypeOK /\ StoreTypeOK
    BY <1>0, SoloCall
<1>2. PICK c \in Call : /\ c = call[p] /\ Shape(c) /\ c.stage \in Stages
                       /\ StillTrue(pc[p], c) /\ Built(c) /\ Rerun(pc[p], c)
    BY <1>0, SoloCall
<1>3. pc[p] \in Generated \union {"generate"} /\ pc[p] \in Steps \ (Opening \union {"idle"})
    BY <1>0 DEF Generated, Made, Writing, Steps, Opening
<1>4. c.up = Up(c.stage) /\ c.upRef = UpRef(c.stage) /\ ~c.coherent
    BY <1>2, <1>3 DEF Rerun, StillTrue
<1>5. UpstreamUnmoved(c)
    BY <1>2, <1>3, SoloUnmoved
<1>6. ASSUME NEW d, SameCall(c, d), d.coherent = c.coherent, d.upRef = c.upRef, d.up = c.up,
             NEW s \in Generated, Continue(p, s, d),
             s \notin {"stable before", "current ref"} => d.ref = Len(head[c.stage]),
             s = "put leaves" => leaves[c.stage][d.rev] = None /\ root[c.stage][d.rev] = None,
             s # "put root"
      PROVE  StaysSolo(p)
  <2>1. s # "inputs" /\ s # "upstream" /\ s \notin Reusing
    BY DEF Generated, Made, Writing, Reusing
  <2>2. Built(d) /\ Rerun(s, d)
    BY <1>2, <1>4, <1>6, <2>1, SameChain
  <2>3. s \in {"own", "current", "alloc"} \union Reusing \union Writing =>
            s \notin {"stable before", "current ref"}
    BY DEF Reusing, Writing
  <2>4. s # "reuse own"
    BY <2>1 DEF Reusing
  <2>5. StillTrue(s, d)
    BY <1>4, <1>6, <2>1, <2>3, <2>4 DEF StillTrue, SameCall
  <2> QED
    BY <1>0, <1>1, <1>6, <2>2, <2>5, SoloGoesOn
<1>7. {"stable before", "current ref", "current", "alloc", "put leaves", "publish"} \subseteq Generated
    BY DEF Generated, Made, Writing
<1>8. CASE Generate(p)
  <2>1. PICK o \in Outputs :
            Continue(p, IF c.stage = 4 THEN "stable before" ELSE "current ref",
                     [c EXCEPT !.out = o, !.fresh = UpRef(c.stage) = c.upRef])
    BY <1>2, <1>8 DEF Generate
  <2>2. PICK d : d = [c EXCEPT !.out = o, !.fresh = UpRef(c.stage) = c.upRef]
    OBVIOUS
  <2>3. SameCall(c, d) /\ d.coherent = c.coherent /\ d.upRef = c.upRef /\ d.up = c.up
    BY <2>2 DEF SameCall, Call
  <2>4. PICK s : s = IF c.stage = 4 THEN "stable before" ELSE "current ref"
    OBVIOUS
  <2>5. Continue(p, s, d) /\ s \in Generated /\ s \in {"stable before", "current ref"}
    BY <1>7, <2>1, <2>2, <2>4
  <2> QED
    BY <1>6, <2>3, <2>5
<1>9. CASE StableBefore(p)
  <2>1. Continue(p, "current ref", c)
    BY <1>2, <1>5, <1>9 DEF StableBefore
  <2> QED
    BY <1>6, <1>7, <2>1 DEF SameCall
<1>10. CASE ReadCurrentRef(p)
  <2>1. CASE head[c.stage] = <<>>
    <3>1. Continue(p, "alloc", c)
      BY <1>2, <1>10, <2>1 DEF ReadCurrentRef
    <3>2. c.ref = Len(head[c.stage])
      BY <1>1, <1>2, <1>10, <2>1 DEF ReadCurrentRef, LocalOK, OwnOK
    <3> QED
      BY <1>6, <1>7, <3>1, <3>2 DEF SameCall
  <2>2. CASE head[c.stage] # <<>>
    <3>1. PICK d : d = [c EXCEPT !.ref = Len(head[c.stage])]
      OBVIOUS
    <3>2. Continue(p, "current", d)
      BY <1>2, <1>10, <2>2, <3>1 DEF ReadCurrentRef
    <3>3. /\ SameCall(c, d) /\ d.coherent = c.coherent /\ d.upRef = c.upRef /\ d.up = c.up
          /\ d.ref = Len(head[c.stage])
      BY <3>1 DEF SameCall, Call
    <3> QED
      BY <1>6, <1>7, <3>2, <3>3
  <2> QED
    BY <2>1, <2>2
<1>11. CASE ReadCurrent(p)
  <2>1. pc[p] = "current" /\ c.ref = Len(head[c.stage])
    BY <1>2, <1>11 DEF ReadCurrent, StillTrue
  <2>2. head[c.stage] # <<>>
    BY <1>1, <1>2, <2>1, PointerTypes DEF LocalOK, OwnOK
  <2>3. Complete(c.stage, Last(head[c.stage]))
    BY <1>2, <2>2, CurrentVerifies
  <2>4. PICK d : d = [c EXCEPT !.rev = Last(head[c.stage])]
    OBVIOUS
  <2>5. /\ SameCall(c, d) /\ d.coherent = c.coherent /\ d.upRef = c.upRef /\ d.up = c.up
        /\ d.ref = c.ref /\ d.rev = Last(head[c.stage])
    BY <2>4 DEF SameCall, Call
  <2>6. CASE c.stage = 4 /\ Matches(4, Last(head[c.stage]), c)
    <3>1. Return(p, d, TRUE, head)
      BY <1>2, <1>11, <2>1, <2>3, <2>4, <2>6 DEF ReadCurrent
    <3>2. Linked(d.stage, d.config)
      BY <1>4, <2>2, <2>5, <2>6 DEF Linked, Matches, SameCall
    <3>3. d \in Call /\ Shape(d)
      <4>1. Last(head[c.stage]) \in 0..MaxRev
        BY <1>1, <1>2, <2>2, PointerTypes, RevsAreNaturals
      <4> QED
        BY <1>2, <2>4, <4>1, SetTypes, SetShapes
    <3>4. Built(d)
      BY <1>2, <2>5 DEF Built, SameCall, FirstStage
    <3> QED
      BY <1>0, <1>1, <1>4, <2>5, <3>1, <3>2, <3>3, <3>4, SoloAnswers
  <2>7. CASE ~(c.stage = 4 /\ Matches(4, Last(head[c.stage]), c))
    <3>1. Continue(p, "alloc", d)
      BY <1>2, <1>11, <2>1, <2>3, <2>4, <2>7 DEF ReadCurrent
    <3> QED
      BY <1>6, <1>7, <2>1, <2>5, <3>1
  <2> QED
    BY <2>6, <2>7
<1>12. CASE Alloc(p)
  <2>1. pc[p] = "alloc" /\ c.ref = Len(head[c.stage])
    BY <1>2, <1>12 DEF Alloc, StillTrue
  <2>2. PICK r \in FirstAfter(c.rev, Free(c.stage)) : Continue(p, "put leaves", [c EXCEPT !.rev = r])
    BY <1>2, <1>12 DEF Alloc
  <2>3. PICK d : d = [c EXCEPT !.rev = r]
    OBVIOUS
  <2>4. /\ SameCall(c, d) /\ d.coherent = c.coherent /\ d.upRef = c.upRef /\ d.up = c.up
        /\ d.ref = c.ref /\ d.rev = r
    BY <2>3 DEF SameCall, Call
  <2>5. leaves[c.stage][r] = None /\ root[c.stage][r] = None
    BY <2>2 DEF FirstAfter, Free
  <2> QED
    BY <1>6, <1>7, <2>1, <2>2, <2>3, <2>4, <2>5
<1>13. CASE Stable(p)
  <2>1. pc[p] = "stable" /\ c.ref = Len(head[c.stage])
    BY <1>2, <1>13 DEF Stable, StillTrue, Writing
  <2>2. Continue(p, "publish", c)
    BY <1>2, <1>5, <1>13 DEF Stable
  <2> QED
    BY <1>6, <1>7, <2>1, <2>2 DEF SameCall
<1> QED
    BY <1>8, <1>9, <1>10, <1>11, <1>12, <1>13 DEF Preparing

\* A revision that was free is written without a conflict.
LEMMA SoloStores ==
    ASSUME IInv, NEW p \in Procs, ~shared[p], Alone(p), Storing(p)
    PROVE  StaysSolo(p)
PROOF
<1>0. /\ pc[p] \in {"put leaves", "put root", "put report"} /\ pc[p] # "idle"
      /\ UNCHANGED <<input, head>>
    BY DEF Storing, PutLeaves, PutRoot, PutReport
<1>1. Served(p) /\ LocalOK(p) /\ LocalTypeOK /\ StoreTypeOK
    BY <1>0, SoloCall
<1>2. PICK c \in Call : /\ c = call[p] /\ Shape(c) /\ c.stage \in Stages
                       /\ StillTrue(pc[p], c) /\ Built(c) /\ Rerun(pc[p], c)
    BY <1>0, SoloCall
<1>3. /\ pc[p] \in Writing /\ pc[p] \in Generated /\ pc[p] \in Steps \ (Opening \union {"idle"})
    BY <1>0 DEF Generated, Made, Writing, Steps, Opening
<1>4. /\ c.up = Up(c.stage) /\ c.upRef = UpRef(c.stage) /\ ~c.coherent
      /\ c.ref = Len(head[c.stage])
    BY <1>2, <1>3 DEF Rerun, StillTrue
<1>5. ASSUME NEW s \in {"put root", "put report", "stable", "publish"}, Continue(p, s, c),
             \A t \in FirstStage(c)..(c.stage - 1) : root'[t] = root[t],
             s = "put root" => root'[c.stage][c.rev] = None
      PROVE  StaysSolo(p)
  <2>1. s \in Generated /\ s \notin Opening \union Reusing \union {"inputs", "upstream", "put leaves"}
        /\ s # "reuse own"
    BY DEF Generated, Made, Writing, Opening, Reusing
  <2>2. StillTrue(s, c)'
    BY <1>0, <1>4, <1>5, <2>1 DEF StillTrue, UpRef, Up, UpIn
  <2>3. Built(c)'
    <3> SUFFICES ASSUME NEW t \in FirstStage(c)..(c.stage - 1)
                 PROVE  Linked(t, c.config)'
      BY DEF Built
    <3>1. Linked(t, c.config) /\ root'[t] = root[t] /\ head' = head /\ input' = input
      BY <1>0, <1>2, <1>5 DEF Built
    <3> QED
      BY <3>1 DEF Linked, Up, UpIn
  <2>4. Rerun(s, c)'
    BY <1>4, <2>1 DEF Rerun
  <2>5. Solo(s, c)'
    BY <2>2, <2>3, <2>4 DEF Solo
  <2> QED
    BY <1>1, <1>5, <2>5, SoloContinues
<1>6. CASE PutLeaves(p)
  <2>1. pc[p] = "put leaves" /\ leaves[c.stage][c.rev] = None /\ root[c.stage][c.rev] = None
    BY <1>2, <1>6 DEF PutLeaves, StillTrue
  <2>2. Continue(p, "put root", c) /\ root' = root
    BY <1>2, <1>6, <2>1 DEF PutLeaves
  <2> QED
    BY <1>5, <2>1, <2>2
<1>7. CASE PutRoot(p)
  <2>1. pc[p] = "put root" /\ root[c.stage][c.rev] = None
    BY <1>2, <1>7 DEF PutRoot, StillTrue
  <2>2. Continue(p, "put report", c)
        /\ root' = [root EXCEPT ![c.stage][c.rev] =
                        [up |-> c.up, out |-> c.out, config |-> c.config]]
    BY <1>2, <1>7, <2>1 DEF PutRoot
  <2>3. \A t \in FirstStage(c)..(c.stage - 1) : t \in Stages /\ t # c.stage
    BY <1>2, StagesOfCall DEF Stages
  <2>4. \A t \in FirstStage(c)..(c.stage - 1) : root'[t] = root[t]
    BY <1>1, <2>2, <2>3 DEF StoreTypeOK
  <2> QED
    BY <1>5, <2>2, <2>4
<1>8. CASE PutReport(p)
  <2>1. PICK s : s = IF c.stage = 4 THEN "publish" ELSE "stable"
    OBVIOUS
  <2>2. Continue(p, s, c) /\ root' = root /\ s \in {"publish", "stable"}
    BY <1>2, <1>8, <2>1 DEF PutReport
  <2> QED
    BY <1>5, <2>2
<1> QED
    BY <1>6, <1>7, <1>8 DEF Storing

\* The pointer is set: the revision is made from what is CURRENT.
LEMMA SoloPublishes ==
    ASSUME IInv, NEW p \in Procs, ~shared[p], Alone(p), Publish(p)
    PROVE  StaysSolo(p)
PROOF
<1>0. pc[p] = "publish" /\ pc[p] # "idle" /\ UNCHANGED <<input, leaves, root>>
    BY DEF Publish, store
<1>1. Served(p) /\ LocalOK(p) /\ LocalTypeOK /\ StoreTypeOK
    BY <1>0, SoloCall
<1>2. PICK c \in Call : /\ c = call[p] /\ Shape(c) /\ c.stage \in Stages
                       /\ StillTrue(pc[p], c) /\ Built(c) /\ Rerun(pc[p], c)
    BY <1>0, SoloCall
<1>3. pc[p] \in Writing /\ pc[p] \in Generated /\ pc[p] \in Steps \ (Opening \union {"idle"})
    BY <1>0 DEF Generated, Made, Writing, Steps, Opening
<1>4. c.up = Up(c.stage) /\ ~c.coherent /\ c.ref = Len(head[c.stage])
    BY <1>2, <1>3 DEF Rerun, StillTrue
<1>5. PICK own : own = head[c.stage]
    OBVIOUS
<1>6. own \in Seq(Revs) /\ Len(own) \in Nat
    BY <1>1, <1>2, <1>5, PointerTypes
<1>7. c.rev \in Revs /\ c.rev \in Nat /\ (own # <<>> => Last(own) # c.rev)
  <2>1. c.rev \in Revs /\ \A r \in ToSet(own) : r < c.rev
    BY <1>1, <1>2, <1>3, <1>4, <1>5 DEF LocalOK, OwnOK
  <2>2. own # <<>> => Last(own) \in ToSet(own)
    BY <1>2, <1>5, CurrentVerifies
  <2> QED
    BY <2>1, <2>2, RevsAreNaturals
<1>8. PICK h : h = [head EXCEPT ![c.stage] = Append(own, c.rev)]
    OBVIOUS
<1>9. /\ head' = h
      /\ \/ Return(p, [c EXCEPT !.ref = Len(h[c.stage])], FALSE, h)
         \/ End(p, "failed", c, h)
    BY <1>2, <1>4, <1>5, <1>6, <1>7, <1>8 DEF Publish
<1>10. CASE End(p, "failed", c, h)
    BY <1>1, <1>10, SoloRaises
<1>11. CASE Return(p, [c EXCEPT !.ref = Len(h[c.stage])], FALSE, h)
  <2>1. h[c.stage] = Append(own, c.rev) /\ \A t \in Stages \ {c.stage} : h[t] = head[t]
    BY <1>1, <1>2, <1>8 DEF StoreTypeOK
  <2>2. /\ h[c.stage] # <<>> /\ Last(h[c.stage]) = c.rev
        /\ Len(h[c.stage]) = Len(own) + 1
    BY <1>6, <1>7, <2>1, AppendProperties DEF Last
  <2>3. PICK d : d = [c EXCEPT !.ref = Len(h[c.stage])]
    OBVIOUS
  <2>4. d \in Call /\ Shape(d)
    <3>1. PICK n \in Nat : n = Len(h[c.stage])
      BY <1>6, <2>2
    <3>2. d = [c EXCEPT !.ref = n]
      BY <2>3, <3>1
    <3> QED
      BY <1>2, <3>2, SetTypes, SetShapes
  <2>5. SameCall(c, d) /\ d.coherent = c.coherent
    BY <2>3 DEF SameCall, Call
  <2>6. c.stage \in 4..6 /\ c.stage - 1 # c.stage /\ FirstStage(c) \in 4..6
    BY <1>2, StagesOfCall
  <2>7. Linked(d.stage, d.config)'
    <3>1. root[c.stage][c.rev] = [up |-> c.up, out |-> c.out, config |-> c.config]
      BY <1>0, <1>1, <1>2 DEF LocalOK, WrittenOK
    <3>2. root'[c.stage][c.rev].up = c.up /\ root'[c.stage][c.rev].config = c.config
      BY <1>0, <3>1
    <3>3. c.stage # 4 => head'[c.stage - 1] = head[c.stage - 1]
      BY <1>9, <2>1, <2>6 DEF Stages
    <3>4. Up(c.stage)' = Up(c.stage)
      BY <1>0, <3>3 DEF Up, UpIn
    <3> QED
      BY <1>4, <1>9, <2>2, <2>5, <3>2, <3>4 DEF Linked, SameCall
  <2>8. Built(d)'
    <3> SUFFICES ASSUME NEW t \in FirstStage(c)..(c.stage - 1)
                 PROVE  Linked(t, c.config)'
      BY <2>5 DEF Built, SameCall, FirstStage
    <3>1. Linked(t, c.config)
      BY <1>2 DEF Built
    <3>2. t \in Stages /\ t # c.stage /\ (t # 4 => t - 1 \in Stages /\ t - 1 # c.stage)
      BY <2>6 DEF Stages
    <3>3. head'[t] = head[t] /\ (t # 4 => head'[t - 1] = head[t - 1])
      BY <1>9, <2>1, <3>2
    <3> QED
      BY <1>0, <3>1, <3>3 DEF Linked, Up, UpIn
  <2> QED
    BY <1>0, <1>1, <1>4, <1>9, <1>11, <2>3, <2>4, <2>5, <2>7, <2>8, SoloReturns
<1> QED
    BY <1>9, <1>10, <1>11

\* Only p's call takes a step of p, and nobody starts.
LEMMA StepsShareNothing ==
    ASSUME LocalTypeOK, NEW p \in Procs, Step(p) \/ Fails(p)
    PROVE  pc[p] # "idle" /\ shared' = shared /\ OthersRest(p)
PROOF
<1>1. pc[p] # "idle"
    BY DEF Step, Fails, Active, Inputs, ReadInputs, ReadUpstreamRef, ReadUpstream, ReadOwnRef,
           ReadOwn, ReuseUpstream, ReuseOwn, Generate, StableBefore, ReadCurrentRef, ReadCurrent,
           Alloc, PutLeaves, PutRoot, PutReport, Stable, Publish
<1>2. OthersRest(p)
    BY <1>1, QuietSteps, BusySteps DEF Step, Quiet, Reading
<1>3. \A s, c : Continue(p, s, c) => shared' = shared
    BY DEF Continue
<1>4. \A status, c, h : End(p, status, c, h) => shared' = shared
    BY DEF End
<1>5. \A status : Raise(p, status) => shared' = shared
    BY <1>4 DEF Raise
<1>6. \A c, reused, h : Return(p, c, reused, h) => shared' = shared
    BY <1>3, <1>4 DEF Return
<1>7. shared' = shared
  <2>1. CASE Inputs(p) \/ ReadInputs(p) \/ ReadUpstreamRef(p) \/ ReadUpstream(p)
    BY <1>3, <1>5, <2>1 DEF Inputs, ReadInputs, ReadUpstreamRef, ReadUpstream
  <2>2. CASE ReadOwnRef(p) \/ ReadOwn(p)
    BY <1>3, <1>5, <2>2 DEF ReadOwnRef, ReadOwn
  <2>3. CASE ReuseUpstream(p) \/ ReuseOwn(p)
    BY <1>3, <1>5, <1>6, <2>3 DEF ReuseUpstream, ReuseOwn
  <2>4. CASE Generate(p) \/ StableBefore(p) \/ ReadCurrentRef(p)
    BY <1>3, <1>5, <2>4 DEF Generate, StableBefore, ReadCurrentRef
  <2>5. CASE ReadCurrent(p) \/ Alloc(p) \/ Stable(p)
    BY <1>3, <1>5, <1>6, <2>5 DEF ReadCurrent, Alloc, Stable
  <2>6. CASE PutLeaves(p) \/ PutRoot(p) \/ PutReport(p)
    BY <1>3, <1>5, <2>6 DEF PutLeaves, PutRoot, PutReport
  <2>7. CASE Publish(p) \/ Fails(p)
    BY <1>4, <1>5, <1>6, <2>7 DEF Publish, Fails
  <2> QED
    BY <2>1, <2>2, <2>3, <2>4, <2>5, <2>6, <2>7 DEF Step
<1> QED
    BY <1>1, <1>2, <1>7

\* A step of a call that is alone.
LEMMA SoloStep ==
    ASSUME IInv, NEW p \in Procs, ~shared[p], Alone(p), Step(p) \/ Fails(p)
    PROVE  StaysSolo(p)
PROOF
<1>1. CASE Fails(p)
    BY <1>1, SoloRaises DEF Fails, Raise, IInv
<1>2. CASE Step(p)
    BY <1>2, SoloInputs, SoloReadsUpstream, SoloReadsOwn, SoloReuses, SoloPrepares, SoloStores,
       SoloPublishes DEF Step, Preparing, Storing
<1> QED
    BY <1>1, <1>2

\* A call that starts while no other is active.
LEMMA SoloStart ==
    ASSUME IInv, AloneInv, NEW p \in Procs, Start(p)
    PROVE  AloneInv'
PROOF
<1>0. LocalTypeOK /\ pc[p] = "idle"
    BY DEF IInv, Start
<1>1. PICK x \in Calls :
         /\ Goto(p, IF x[3] = 3 THEN "inputs" ELSE "upstream ref")
         /\ call' = [call EXCEPT ![p] =
                [config |-> x[2], first |-> x[3], last |-> x[4],
                 stage |-> IF x[3] = 3 THEN 4 ELSE x[3],
                 up |-> 0, upRef |-> 0, ref |-> 0, rev |-> NoRev,
                 out |-> None, fresh |-> FALSE, coherent |-> FALSE, answers |-> <<>>]]
    BY DEF Start
<1>2. /\ result' = [result EXCEPT ![p] = None]
      /\ shared' = [q \in Procs |-> IF q = p THEN Active # {} ELSE shared[q] \/ q \in Active]
      /\ OthersRest(p)
    BY <1>0, StartMoves DEF Start
<1>3. ASSUME NEW q \in Procs \ {p}
      PROVE  Alone(q)'
  <2>1. pc'[q] = pc[q] /\ result'[q] = result[q] /\ (~shared'[q] => ~shared[q] /\ pc[q] = "idle")
    BY <1>2 DEF OthersRest, Active
  <2>2. Served(q)
    BY DEF AloneInv, Alone
  <2>3. Served(q)'
    BY <2>1, <2>2 DEF Served
  <2> QED
    BY <2>1, <2>3 DEF Alone
<1>4. Alone(p)'
  <2>1. result'[p] = None
    BY <1>0, <1>2 DEF LocalTypeOK
  <2>2. ASSUME ~shared'[p]
        PROVE  \A q \in Procs \ {p} : pc'[q] = "idle"
    <3>1. Active = {}
      BY <1>2, <2>2
    <3> QED
      BY <1>2, <3>1 DEF Active, OthersRest
  <2>3. PICK d : d = call'[p]
    OBVIOUS
  <2>4. d = [config |-> x[2], first |-> x[3], last |-> x[4],
             stage |-> IF x[3] = 3 THEN 4 ELSE x[3],
             up |-> 0, upRef |-> 0, ref |-> 0, rev |-> NoRev,
             out |-> None, fresh |-> FALSE, coherent |-> FALSE, answers |-> <<>>]
    BY <1>0, <1>1, <2>3 DEF LocalTypeOK
  <2>5. d.stage = FirstStage(d) /\ d.out = None /\ d.coherent = FALSE /\ d.stage \in Int
    BY <2>4, CallsAreRanges DEF FirstStage
  <2>6. PICK s : s = pc'[p] /\ s \in {"inputs", "upstream ref"}
    BY <1>0, StartMoves
  <2>7. StillTrue(s, d)'
    BY <2>6 DEF StillTrue, Opening, Reusing, Writing
  <2>8. Built(d)'
    <3>1. FirstStage(d)..(d.stage - 1) = {}
      BY <2>5
    <3> QED
      BY <3>1, Zenon DEF Built
  <2>9. Rerun(s, d)'
    BY <2>5 DEF Rerun
  <2>10. Solo(s, d)'
    BY <2>7, <2>8, <2>9 DEF Solo
  <2>11. Solo(pc[p], call[p])'
    BY <2>3, <2>6, <2>10, SoloAt
  <2> QED
    BY <2>1, <2>2, <2>11 DEF Alone, Served
<1> QED
    BY <1>3, <1>4 DEF AloneInv

\* A call that is alone stays so, and knows what it has to.
LEMMA AloneStep == IInv /\ AloneInv /\ [Next]_vars => AloneInv'
PROOF
<1> SUFFICES ASSUME IInv, AloneInv, [Next]_vars PROVE AloneInv'
    OBVIOUS
<1>0. LocalTypeOK
    BY DEF IInv
<1>1. CASE UNCHANGED vars
  <2>1. UNCHANGED <<input, leaves, root, report, head, pc, call, result, shared>>
    BY <1>1 DEF vars, store
  <2>2. ASSUME NEW p \in Procs
        PROVE  Alone(p)'
    <3>1. Alone(p)
      BY DEF AloneInv
    <3>2. PICK c : c = call[p]
      OBVIOUS
    <3>3. PICK s : s = pc[p]
      OBVIOUS
    <3>4. Solo(s, c) => Solo(s, c)'
      BY <2>1, SoloKept
    <3>5. pc'[p] = s /\ call'[p] = c
      BY <2>1, <3>2, <3>3
    <3>6. Solo(pc[p], call[p]) => Solo(pc[p], call[p])'
      BY <3>2, <3>3, <3>4, <3>5, SoloAt
    <3>7. Served(p)'
      BY <2>1, <3>1 DEF Alone, Served
    <3> QED
      BY <2>1, <3>1, <3>6, <3>7 DEF Alone
  <2> QED
    BY <2>2 DEF AloneInv
<1>2. CASE MoveInput
  <2>1. /\ UNCHANGED <<pc, call, result>>
        /\ shared' = [q \in Procs |-> shared[q] \/ q \in Active]
    BY <1>2 DEF MoveInput
  <2>2. ASSUME NEW p \in Procs
        PROVE  Alone(p)'
    <3>1. Served(p)
      BY DEF AloneInv, Alone
    <3>2. ~shared'[p] => ~shared[p] /\ pc'[p] = "idle"
      BY <2>1 DEF Active
    <3>3. Served(p)'
      BY <2>1, <3>1, <3>2 DEF Served
    <3> QED
      BY <3>2, <3>3 DEF Alone
  <2> QED
    BY <2>2 DEF AloneInv
<1>3. ASSUME NEW p \in Procs, Step(p) \/ Fails(p)
      PROVE  AloneInv'
  <2>1. pc[p] # "idle" /\ shared' = shared /\ OthersRest(p)
    BY <1>0, <1>3, StepsShareNothing
  <2>2. ASSUME NEW q \in Procs \ {p}
        PROVE  Alone(q)'
    <3>1. Alone(q)
      BY DEF AloneInv
    <3>2. pc'[q] = pc[q] /\ result'[q] = result[q]
      BY <2>1 DEF OthersRest
    <3>3. pc[q] # "idle" => shared'[q]
      BY <2>1, <3>1 DEF Alone
    <3>4. Served(q)'
      BY <2>1, <3>1, <3>2 DEF Alone, Served
    <3> QED
      BY <3>2, <3>3, <3>4 DEF Alone
  <2>3. Alone(p)'
    <3>1. Alone(p)
      BY DEF AloneInv
    <3>2. CASE shared[p]
      BY <2>1, <3>2 DEF Alone, Served
    <3>3. CASE ~shared[p]
      <4>1. StaysSolo(p)
        BY <1>3, <3>1, <3>3, SoloStep
      <4>2. \A q \in Procs \ {p} : pc'[q] = "idle"
        BY <2>1, <3>1, <3>3 DEF Alone, OthersRest
      <4> QED
        BY <4>1, <4>2 DEF StaysSolo, Alone
    <3> QED
      BY <3>2, <3>3
  <2> QED
    BY <2>2, <2>3 DEF AloneInv
<1> QED
    BY <1>1, <1>2, <1>3, SoloStart DEF Next

\* A call that runs alone is never refused for what others left behind; when it
\* ends well its stages are made one from the other, up to the input, and if they
\* were so before, no provider was called (analyze_story_project run again).
THEOREM AloneIsAlwaysServed == Spec => []AloneIsServed
PROOF
<1>1. Init => AloneInv
    BY DEF Init, AloneInv, Alone, Served
<1>2. Spec => []AloneInv
    BY <1>1, AloneStep, Invariance, PTL DEF Spec
<1>3. AloneInv => AloneIsServed
  <2> SUFFICES ASSUME AloneInv, NEW p \in Procs, result[p] # None, ~shared[p]
               PROVE  /\ result[p].status \notin {"moved", "conflict", "corrupt"}
                      /\ result[p].status = "ok" =>
                          /\ result[p].after
                          /\ result[p].before => \A i \in DOMAIN Answers(p) : ~Answers(p)[i].called
    BY DEF AloneIsServed
  <2>1. Served(p) /\ Answers(p) = result[p].answers
    BY DEF AloneInv, Alone, Answers
  <2> QED
    BY <2>1 DEF Served
<1> QED
    BY <1>2, <1>3, PTL

-----------------------------------------------------------------------------
(* The publication of the stages is the lineage of Lineage.tla.            *)

\* What the revisions that were CURRENT of stage s were made from.
MadeOf(s) == [i \in DOMAIN head[s] |-> root[s][head[s][i]].up]

\* A step moves the input, or a pointer, or neither.
LEMMA PointerSteps ==
    ASSUME [Next]_vars
    PROVE  \/ head' = head /\ input' = input
           \/ head' = head /\ input' = input + 1
           \/ \E p \in Procs : Publish(p)
PROOF
<1>1. CASE MoveInput
    BY <1>1 DEF MoveInput
<1>2. ASSUME NEW p \in Procs, Inputs(p)
      PROVE  head' = head /\ input' \in {input, input + 1}
    BY <1>2 DEF Inputs
<1>3. ASSUME NEW p \in Procs,
             Start(p) \/ Reading(p) \/ Generate(p) \/ StableBefore(p) \/ ReadCurrentRef(p)
                 \/ ReadCurrent(p) \/ Fails(p) \/ Busy(p)
      PROVE  head' = head /\ input' = input
    BY <1>3 DEF Start, Reading, ReadInputs, ReadUpstreamRef, ReadUpstream, ReadOwnRef, ReadOwn,
                ReuseUpstream, ReuseOwn, Generate, StableBefore, ReadCurrentRef, ReadCurrent,
                Fails, Busy, Alloc, Stable, PutLeaves, PutRoot, PutReport
<1> QED
    BY <1>1, <1>2, <1>3, StepKinds DEF Quiet

\* What a CURRENT revision was made from stays as it is.
LEMMA MadeStays ==
    ASSUME StoreTypeOK, CurrentIsComplete, Grow, NEW s \in Stages, head'[s] = head[s]
    PROVE  MadeOf(s)' = MadeOf(s)
PROOF
<1>1. \A i \in DOMAIN head[s] : head[s][i] \in Revs /\ head[s][i] \in ToSet(head[s])
    BY PointerTypes
<1>2. \A i \in DOMAIN head[s] : root'[s][head[s][i]] = root[s][head[s][i]]
    BY <1>1 DEF CurrentIsComplete, Complete, Grow
<1> QED
    BY <1>2 DEF MadeOf

\* Append, as a function.
LEMMA AppendFunction ==
    ASSUME NEW S, NEW n \in Nat, NEW m \in [1..n -> S], NEW u \in S
    PROVE  [i \in 1..(n + 1) |-> IF i = n + 1 THEN u ELSE m[i]] = Append(m, u)
PROOF
<1>1. m \in Seq(S)
    BY SeqDef
<1>2. Len(m) = n
    BY <1>1, LenProperties
<1>3. /\ Append(m, u) \in Seq(S) /\ Len(Append(m, u)) = n + 1
      /\ \A i \in 1..n : Append(m, u)[i] = m[i]
      /\ Append(m, u)[n + 1] = u
    BY <1>1, <1>2, AppendProperties
<1>4. Append(m, u) = [i \in 1..(n + 1) |-> Append(m, u)[i]]
    BY <1>3, LenProperties
<1> QED
    BY <1>3, <1>4

\* A pointer that moves publishes what the call knows it may.
LEMMA PublicationMaps ==
    ASSUME IInv, IInv', [Next]_vars, NEW p \in Procs, Publish(p)
    PROVE  [Chain!Next]_(Chain!vars)
PROOF
<1>0. pc[p] = "publish" /\ pc[p] # "idle" /\ UNCHANGED <<input, root>> /\ CurrentIsComplete
    BY SettledIsComplete DEF Publish, store, IInv
<1>1. PICK c \in Call : c = call[p] /\ c.stage \in Stages
    BY <1>0, CallTypes DEF IInv
<1> PICK s \in Stages : s = c.stage
    BY <1>1
<1>2. PICK r, u : s = c.stage /\ r = c.rev /\ u = c.up
    OBVIOUS
<1>3. Grow /\ StoreTypeOK /\ StoreTypeOK'
    BY StoresGrow DEF IInv
<1>4. CASE head' = head
  <2>1. \A t \in Stages : MadeOf(t)' = MadeOf(t)
    BY <1>0, <1>3, <1>4, MadeStays
  <2> QED
    BY <1>0, <1>4, <2>1 DEF Chain!vars, MadeOf
<1>5. CASE head' = [head EXCEPT ![s] = Append(@, r)] /\ Len(head[s]) = c.ref
  <2>1. /\ r \in Revs
        /\ \A q \in ToSet(head[s]) : q < r
        /\ UpstreamWasCurrent(c)
        /\ root[s][r] = [up |-> c.up, out |-> c.out, config |-> c.config]
    BY <1>0, <1>1, <1>2, <1>5
       DEF IInv, CallsAreConsistent, LocalOK, OwnOK, UpstreamOK, WrittenOK, Writing, Steps, Opening
  <2>2. /\ head[s] \in Seq(Revs) /\ Len(head[s]) \in Nat /\ DOMAIN head[s] = 1..Len(head[s])
        /\ head'[s] = Append(head[s], r)
    BY <1>3, <1>5, PointerTypes DEF StoreTypeOK
  <2>3. u \in Chain!Upstream(s)
    <3>1. Chain!First(s) <=> s = 4
      BY DEF Chain!First, Stages
    <3>2. CASE s = 4
      BY <1>2, <2>1, <3>1, <3>2 DEF Chain!Upstream, UpstreamWasCurrent
    <3>3. CASE s # 4
      <4>1. s - 1 \in Stages
        BY <3>3 DEF Stages
      <4>2. c.upRef \in DOMAIN head[s - 1] /\ u = head[s - 1][c.upRef]
        BY <1>2, <2>1, <3>3 DEF UpstreamWasCurrent
      <4>3. u \in ToSet(head[s - 1])
        BY <4>2 DEF ToSet
      <4>4. Chain!Upstream(s) = ToSet(head[s - 1])
        BY <3>1, <3>3 DEF Chain!Upstream, Chain!ToSet, ToSet
      <4> QED
        BY <4>3, <4>4
    <3> QED
      BY <3>2, <3>3
  <2>4. \A t \in Stages : t # s => MadeOf(t)' = MadeOf(t)
    <3>1. \A t \in Stages : t # s => head'[t] = head[t]
      BY <1>5, <1>3 DEF StoreTypeOK
    <3> QED
      BY <1>0, <1>3, <3>1, MadeStays
  <2>5. MadeOf(s)' = Append(MadeOf(s), u)
    <3>1. /\ Len(head'[s]) = Len(head[s]) + 1
          /\ DOMAIN head'[s] = 1..(Len(head[s]) + 1)
          /\ \A i \in 1..Len(head[s]) : head'[s][i] = head[s][i]
          /\ head'[s][Len(head[s]) + 1] = r
      BY <2>1, <2>2, AppendProperties
    <3>2. \A i \in 1..Len(head[s]) : MadeOf(s)[i] = root[s][head[s][i]].up
      BY <2>2 DEF MadeOf
    <3>3. PICK n \in Nat : n = Len(head[s])
      BY <2>2
    <3>4. /\ MadeOf(s) = [i \in 1..n |-> root[s][head[s][i]].up]
          /\ MadeOf(s)' = [i \in 1..(n + 1) |-> root[s][head'[s][i]].up]
      BY <1>0, <2>2, <3>1, <3>3 DEF MadeOf
    <3>5. root[s][r].up = u
      BY <1>2, <2>1
    <3>6. PICK m : m = MadeOf(s)
      OBVIOUS
    <3>7. PICK d : d = MadeOf(s)'
      OBVIOUS
    <3>8. /\ m = [i \in 1..n |-> root[s][head[s][i]].up]
          /\ d = [i \in 1..(n + 1) |-> root[s][head'[s][i]].up]
      BY <3>4, <3>6, <3>7
    <3>9. d = [i \in 1..(n + 1) |-> IF i = n + 1 THEN u ELSE m[i]]
      <4>1. ASSUME NEW i \in 1..(n + 1)
            PROVE  root[s][head'[s][i]].up = IF i = n + 1 THEN u ELSE m[i]
        <5>1. CASE i = n + 1
          BY <3>1, <3>3, <3>5, <5>1
        <5>2. CASE i \in 1..n
          <6>1. head'[s][i] = head[s][i] /\ i # n + 1 /\ m[i] = root[s][head[s][i]].up
            BY <3>1, <3>3, <3>8, <5>2, SMTT(30)
          <6> QED
            BY <6>1
        <5> QED
          BY <5>1, <5>2
      <4> QED
        BY <3>8, <4>1
    <3>10. PICK S : S = {m[j] : j \in 1..n} \union {u}
      OBVIOUS
    <3>11. m \in [1..n -> S] /\ u \in S
      BY <3>8, <3>10
    <3>12. d = Append(m, u)
      BY <3>3, <3>9, <3>11, AppendFunction
    <3> QED
      BY <3>6, <3>7, <3>12
  <2>6. [t \in Stages |-> MadeOf(t)]' = [[t \in Stages |-> MadeOf(t)] EXCEPT ![s] = Append(@, u)]
    <3>1. PICK F : F = [t \in Stages |-> MadeOf(t)]
      OBVIOUS
    <3>2. PICK G : G = [t \in Stages |-> MadeOf(t)]'
      OBVIOUS
    <3>3. G = [t \in Stages |-> IF t = s THEN Append(F[s], u) ELSE F[t]]
      BY <2>4, <2>5, <3>1, <3>2
    <3>4. G = [F EXCEPT ![s] = Append(@, u)]
      BY <3>1, <3>3
    <3> QED
      BY <3>1, <3>2, <3>4
  <2>7. Chain!Publish(s, r, u)
    BY <1>0, <1>5, <2>1, <2>6 DEF Chain!Publish, MadeOf, Chain!ToSet, ToSet
  <2> QED
    BY <2>1, <2>3, <2>7 DEF Chain!Next
<1>6. \/ head' = head
      \/ head' = [head EXCEPT ![s] = Append(@, r)] /\ Len(head[s]) = c.ref
    BY <1>1, <1>2 DEF Publish
<1> QED
    BY <1>4, <1>5, <1>6

\* Every stage has one history of CURRENT revisions; a revision enters it once,
\* above all before it, and is made from an upstream revision that was CURRENT:
\* the calls of any number of processes refine the abstract lineage.
THEOREM PublicationIsLineage == Spec => ImplementsLineage
PROOF
<1>1. Init => Chain!Init
  <2> SUFFICES ASSUME Init PROVE Chain!Init
    OBVIOUS
  <2>1. \A s \in Stages : head[s] = <<>> /\ DOMAIN head[s] = {}
    BY DEF Init
  <2>2. \A s \in Stages : [i \in DOMAIN head[s] |-> root[s][head[s][i]].up] = <<>>
    BY <2>1
  <2> QED
    BY <2>2 DEF Init, Chain!Init
<1>2. IInv /\ IInv' /\ [Next]_vars => [Chain!Next]_(Chain!vars)
  <2> SUFFICES ASSUME IInv, IInv', [Next]_vars PROVE [Chain!Next]_(Chain!vars)
    OBVIOUS
  <2>1. Grow /\ StoreTypeOK /\ CurrentIsComplete
    BY StoresGrow, SettledIsComplete DEF IInv
  <2>2. CASE head' = head
    <3>1. \A t \in Stages : MadeOf(t)' = MadeOf(t)
      BY <2>1, <2>2, MadeStays
    <3>2. [t \in Stages |-> MadeOf(t)]' = [t \in Stages |-> MadeOf(t)]
      BY <3>1
    <3>3. CASE input' = input
      BY <2>2, <3>2, <3>3 DEF Chain!vars, MadeOf
    <3>4. CASE input' = input + 1
      BY <2>2, <3>2, <3>4 DEF Chain!Next, Chain!MoveInput, MadeOf
    <3>5. CASE \E p \in Procs : Publish(p)
      BY <3>5, PublicationMaps
    <3> QED
      BY <3>3, <3>4, <3>5, PointerSteps
  <2> QED
    BY <2>2, PointerSteps, PublicationMaps
<1> QED
    BY <1>1, <1>2, Invariance, PTL DEF Spec, ImplementsLineage, Chain!Spec

-----------------------------------------------------------------------------
(***************************************************************************)
(* A6 in memory.  The windows are what the plan makes them and never       *)
(* change; what is kept of each pass is what its request may cite; and the *)
(* calls are counted by the requests that were answered.                   *)
(***************************************************************************)
Running == {"characters", "windows", "skeleton", "gate", "bible", "check", "done"}
HasOutline == {"gate", "bible", "check", "done"}
HasBible == {"check", "done"}

StoryOK == \E i \in Cases : story = i.story /\ policy = i.policy

WindowsOK ==
    /\ stage \in {"plan"} \union Running \union {"refused", "failed", "exhausted", "unloadable"}
    /\ stage = "plan" => windows = <<>> /\ calls = 0
    /\ stage # "plan" => windows = PlanWindows

CeilingsOK ==
    /\ stage # "plan" /\ TooLarge => stage = "refused" /\ calls = 0
    /\ stage = "refused" =>
           \/ TooLarge
           \/ outline = Unset /\ ~Within(SkeletonSize, policy.skeleton)
           \/ outline # Unset /\ ~Within(BibleSize, policy.bible)

DossiersOK ==
    /\ dossiers \in Seq(ToSet(dossiers)) /\ Len(dossiers) <= story.cast
    /\ \A k \in DOMAIN dossiers : dossiers[k] \subseteq Citable(PackageOf(k))
    /\ stage = "plan" => dossiers = <<>>
    /\ stage \in Running \ {"characters"} => Len(dossiers) = story.cast

ReadingsOK ==
    /\ readings \in Seq(ToSet(readings)) /\ Len(readings) <= Len(windows)
    /\ \A k \in DOMAIN readings : readings[k] \subseteq Citable(PacketOf(windows[k]))
    /\ stage \in {"plan", "characters"} => readings = <<>>
    /\ stage \in Running \ {"characters", "windows"} => Len(readings) = Len(windows)

IsOutline == \E o \in Outlines : ValidOutline(o) /\ outline = BuildOutline(o)
IsBible == ValidBible(bible) /\ bible.major = outline.major

WholeOK ==
    /\ stage \in HasOutline => IsOutline
    /\ stage \in {"plan", "characters", "windows", "skeleton"} => outline = Unset
    /\ stage \in HasBible => IsBible
    /\ stage \notin HasBible => bible = Unset

Answered ==
    Len(dossiers) + Len(readings)
    + (IF stage \in HasOutline THEN 1 ELSE 0) + (IF stage \in HasBible THEN 1 ELSE 0)
Requests == story.cast + Len(windows) + 2

AccountsOK ==
    /\ calls \in Nat /\ rounds \in Nat /\ round \in {1, 2}
    /\ stage \in {"plan"} \union Running =>
           /\ calls + 1 = rounds + round
           /\ Answered <= rounds /\ rounds <= 2 * Answered
    /\ stage \in {"plan", "gate", "check", "done"} => round = 1
    /\ calls <= 2 * Requests

AnalysisInv ==
    StoryOK /\ WindowsOK /\ CeilingsOK /\ DossiersOK /\ ReadingsOK /\ WholeOK /\ AccountsOK

-----------------------------------------------------------------------------
(* The plan.                                                               *)

LEMMA CaseFacts ==
    ASSUME StoryOK
    PROVE  /\ story.cast \in Nat
           /\ IsFiniteSet(DOMAIN story.events) /\ IsFiniteSet(DOMAIN story.facts)
           /\ IsFiniteSet(DOMAIN story.rels) /\ IsFiniteSet(DOMAIN story.changes)
           /\ IsFiniteSet(DOMAIN story.conflicts)
           /\ Len(story.events) \in Nat /\ Events = 1..Len(story.events)
           /\ policy.owned \in Nat \ {0} /\ policy.context \in Nat
           /\ policy.character \in Nat /\ policy.window \in Nat
           /\ \A k \in DOMAIN story.conflicts : story.conflicts[k] # {}
PROOF
<1>1. PICK i \in Cases : story = i.story /\ policy = i.policy
    BY DEF StoryOK
<1>2. ASSUME NEW list \in {"events", "facts", "rels", "changes", "conflicts"}
      PROVE  /\ Len(story[list]) \in Nat /\ DOMAIN story[list] = 1..Len(story[list])
             /\ IsFiniteSet(DOMAIN story[list])
  <2>1. story[list] \in Seq(ToSet(story[list]))
    BY <1>1, StoriesAreCanonical
  <2>2. Len(story[list]) \in Nat /\ DOMAIN story[list] = 1..Len(story[list])
    BY <2>1
  <2> QED
    BY <2>2, FS_Interval
<1>3. /\ policy.owned \in Nat \ {0} /\ policy.context \in Nat
      /\ policy.character \in Nat /\ policy.window \in Nat
    BY <1>1, PoliciesAreValid
<1>4. story.cast \in Nat /\ \A k \in DOMAIN story.conflicts : story.conflicts[k] # {}
    BY <1>1, StoriesAreCanonical
<1> QED
    BY <1>2, <1>3, <1>4 DEF Events

LEMMA TouchingIsFinite ==
    ASSUME NEW seq, NEW kind, NEW S, IsFiniteSet(DOMAIN seq)
    PROVE  IsFiniteSet(Touching(seq, kind, S))
PROOF
<1>1. IsFiniteSet({kind} \X DOMAIN seq)
    BY FS_Product, FS_Singleton
<1>2. Touching(seq, kind, S) \subseteq {kind} \X DOMAIN seq
    BY DEF Touching
<1> QED
    BY <1>1, <1>2, FS_Subset

LEMMA PacketsAreFinite ==
    ASSUME StoryOK
    PROVE  /\ \A c : Cardinality(PackageOf(c)) \in Nat
           /\ \A w : Shown(w) \subseteq Events => Cardinality(PacketOf(w)) \in Nat
PROOF
<1>1. ASSUME NEW S PROVE IsFiniteSet(About(S))
  <2> DEFINE named == Touching(story.facts, "fact", S) \union Touching(story.rels, "rel", S)
  <2>1. IsFiniteSet(named)
    BY CaseFacts, TouchingIsFinite, FS_Union
  <2>2. IsFiniteSet(named \union Touching(story.changes, "trans", S))
    BY <2>1, CaseFacts, TouchingIsFinite, FS_Union
  <2>3. IsFiniteSet(Touching(story.conflicts, "conf", named))
    BY CaseFacts, TouchingIsFinite
  <2>4. IsFiniteSet(named \union Touching(story.changes, "trans", S)
                    \union Touching(story.conflicts, "conf", named))
    BY <2>2, <2>3, FS_Union
  <2> QED
    BY <2>4 DEF About
<1>2. ASSUME NEW E, E \subseteq Events PROVE IsFiniteSet({<<"evt", e>> : e \in E})
  <2>1. IsFiniteSet({"evt"} \X Events)
    BY CaseFacts, FS_Product, FS_Singleton DEF Events
  <2>2. {<<"evt", e>> : e \in E} \subseteq {"evt"} \X Events
    BY <1>2
  <2> QED
    BY <2>1, <2>2, FS_Subset
<1>3. ASSUME NEW c PROVE Cardinality(PackageOf(c)) \in Nat
  <2>1. IsFiniteSet({<<"evt", e>> : e \in {e \in Events : c \in story.events[e].who}})
    BY <1>2
  <2> QED
    BY <2>1, <1>1, FS_Union, FS_CardinalityType DEF PackageOf
<1>4. ASSUME NEW w, Shown(w) \subseteq Events PROVE Cardinality(PacketOf(w)) \in Nat
  <2>1. IsFiniteSet({<<"evt", e>> : e \in Shown(w)})
    BY <1>4, <1>2
  <2> QED
    BY <2>1, <1>1, FS_Union, FS_CardinalityType DEF PacketOf
<1> QED
    BY <1>3, <1>4

\* Where the n events are when they are cut into pieces of w.
LEMMA Multiples ==
    ASSUME NEW a \in Nat, NEW b \in Nat, NEW w \in Nat \ {0}
    PROVE  /\ a * w \in Nat /\ (a + 1) * w = a * w + w
           /\ a < b => (a + 1) * w <= b * w
PROOF
<1>1. a * w \in Nat /\ (a + 1) * w = a * w + w
    OBVIOUS
<1>2. ASSUME a < b PROVE (a + 1) * w <= b * w
  <2>1. PICK d \in Nat : b = (a + 1) + d
    BY <1>2
  <2>2. d * w \in Nat /\ b * w = (a + 1) * w + d * w
    BY <2>1
  <2> QED
    BY <2>2
<1> QED
    BY <1>1, <1>2

LEMMA Quotients ==
    ASSUME NEW m \in Nat, NEW w \in Nat \ {0}
    PROVE  /\ m \div w \in Nat /\ (m \div w) * w <= m
           /\ m < (m \div w) * w + w
PROOF
<1>1. m \div w \in Int /\ m % w \in 0..(w - 1) /\ m = w * (m \div w) + (m % w)
    OBVIOUS
<1>2. m \div w \in Nat
    BY Z3
<1> QED
    BY <1>1, <1>2

FirstOf(k) == (k - 1) * policy.owned + 1
LastOf(k) == Min({k * policy.owned, Len(story.events)})

LEMMA WindowBounds ==
    ASSUME StoryOK, NEW k \in DOMAIN PlanWindows
    PROVE  /\ k \in Nat \ {0}
           /\ FirstOf(k) \in Nat \ {0} /\ LastOf(k) \in Nat
           /\ FirstOf(k) <= LastOf(k)
           /\ LastOf(k) <= k * policy.owned /\ LastOf(k) <= Len(story.events)
           /\ k * policy.owned \in Nat
           /\ LastOf(k) = k * policy.owned \/ LastOf(k) = Len(story.events)
PROOF
<1> DEFINE w == policy.owned
           n == Len(story.events)
           pieces == (n + w - 1) \div w
<1>1. w \in Nat \ {0} /\ n \in Nat /\ n + w - 1 \in Nat
    BY CaseFacts
<1>2. pieces \in Nat /\ pieces * w <= n + w - 1
    BY <1>1, Quotients
<1>3. k \in 1..pieces
    BY DEF PlanWindows
<1>4. k \in Nat \ {0} /\ k - 1 \in Nat /\ k <= pieces
    BY <1>3, <1>2
<1>5. /\ (k - 1) * w \in Nat /\ k * w \in Nat /\ pieces * w \in Nat
      /\ k * w = (k - 1) * w + w
  <2> HIDE DEF w, pieces
  <2>1. ((k - 1) + 1) * w = (k - 1) * w + w /\ (k - 1) * w \in Nat
    BY <1>1, <1>4, Multiples
  <2>2. (k - 1) + 1 = k
    BY <1>4
  <2>3. k * w \in Nat /\ pieces * w \in Nat
    BY <1>1, <1>4, <1>2, Multiples
  <2> QED
    BY <2>1, <2>2, <2>3
<1>6. k * w <= pieces * w
  <2> HIDE DEF w, pieces
  <2>1. CASE k = pieces
    BY <2>1, <1>5
  <2>2. CASE k < pieces
    <3>1. (k + 1) * w <= pieces * w /\ (k + 1) * w = k * w + w
        BY <2>2, <1>1, <1>2, <1>4, Multiples
    <3> QED
        BY <3>1, <1>1, <1>5
  <2> QED
    BY <2>1, <2>2, <1>4, <1>2
<1>7. (k - 1) * w + 1 <= n /\ (k - 1) * w + 1 <= k * w
  <2> HIDE DEF w, pieces, n
  <2> QED
    BY <1>1, <1>2, <1>5, <1>6
<1>8. LastOf(k) \in {k * w, n} /\ LastOf(k) <= k * w /\ LastOf(k) <= n
  <2> HIDE DEF w, n
  <2>1. \E x \in {k * w, n} : \A y \in {k * w, n} : x <= y
    BY <1>1, <1>5
  <2>2. LastOf(k) = CHOOSE x \in {k * w, n} : \A y \in {k * w, n} : x <= y
    BY DEF LastOf, Min, w, n
  <2> QED
    BY <2>1, <2>2
<1>9. LastOf(k) \in Nat /\ (k - 1) * w + 1 <= LastOf(k)
  <2> HIDE DEF w, n
  <2> QED
    BY <1>1, <1>5, <1>7, <1>8
<1>10. FirstOf(k) = (k - 1) * w + 1 /\ FirstOf(k) \in Nat \ {0}
  <2>1. FirstOf(k) = (k - 1) * w + 1
    BY DEF FirstOf
  <2> HIDE DEF w, n
  <2> QED
    BY <2>1, <1>5
<1> QED
    BY <1>4, <1>5, <1>8, <1>9, <1>10

LEMMA WindowsAre ==
    ASSUME StoryOK, NEW k \in DOMAIN PlanWindows
    PROVE  /\ PlanWindows[k].owned = FirstOf(k)..LastOf(k)
           /\ PlanWindows[k].context =
                  {e \in Events \ (FirstOf(k)..LastOf(k)) :
                       e + policy.context >= FirstOf(k) /\ e <= LastOf(k) + policy.context}
PROOF
<1>1. PlanWindows[k] = Window(k)
    BY DEF PlanWindows
<1> QED
    BY <1>1 DEF Window, FirstOf, LastOf

LEMMA WindowsFollow ==
    ASSUME StoryOK, NEW k \in DOMAIN PlanWindows, NEW l \in DOMAIN PlanWindows, k < l,
           NEW e \in PlanWindows[k].owned, NEW f \in PlanWindows[l].owned
    PROVE  e < f
PROOF
<1> DEFINE w == policy.owned
<1>1. /\ k \in Nat \ {0} /\ LastOf(k) \in Nat /\ LastOf(k) <= k * w /\ k * w \in Nat
      /\ l \in Nat \ {0} /\ FirstOf(l) \in Nat /\ LastOf(l) \in Nat
    BY WindowBounds
<1>2. w \in Nat \ {0}
    BY CaseFacts
<1>3. k * w <= (l - 1) * w /\ (l - 1) * w \in Nat
  <2> HIDE DEF w
  <2>1. l - 1 \in Nat /\ (k = l - 1 \/ k < l - 1)
    BY <1>1
  <2>2. (l - 1) * w \in Nat
    BY <2>1, <1>2, Multiples
  <2>3. CASE k < l - 1
    <3>1. (k + 1) * w <= (l - 1) * w /\ (k + 1) * w = k * w + w
        BY <2>1, <2>3, <1>1, <1>2, Multiples
    <3> QED
        BY <3>1, <2>2, <1>1, <1>2
  <2> QED
    BY <2>1, <2>2, <2>3, <1>1
<1>4. LastOf(k) < FirstOf(l)
  <2>1. FirstOf(l) = (l - 1) * w + 1
    BY DEF FirstOf
  <2> HIDE DEF w
  <2> QED
    BY <2>1, <1>1, <1>3
<1>5. e \in FirstOf(k)..LastOf(k) /\ f \in FirstOf(l)..LastOf(l)
    BY WindowsAre
<1> QED
    BY <1>1, <1>4, <1>5, WindowBounds

LEMMA EveryEventHasAWindow ==
    ASSUME StoryOK, NEW e \in Events
    PROVE  \E k \in DOMAIN PlanWindows : e \in PlanWindows[k].owned
PROOF
<1> DEFINE w == policy.owned
           n == Len(story.events)
           pieces == (n + w - 1) \div w
           q == (e - 1) \div w
<1>1. w \in Nat \ {0} /\ n \in Nat /\ n + w - 1 \in Nat /\ e \in 1..n /\ e - 1 \in Nat
    BY CaseFacts
<1>2. pieces \in Nat /\ n + w - 1 < pieces * w + w
    BY <1>1, Quotients
<1>3. q \in Nat /\ q * w <= e - 1 /\ e - 1 < q * w + w
    BY <1>1, Quotients
<1>4. q < pieces
  <2> HIDE DEF w, n, pieces, q
  <2>1. q * w \in Nat /\ pieces * w \in Nat
    BY <1>1, <1>2, <1>3, Multiples
  <2>2. pieces * w > q * w
    BY <2>1, <1>1, <1>2, <1>3
  <2>3. pieces < q => (pieces + 1) * w <= q * w /\ (pieces + 1) * w = pieces * w + w
    BY <1>1, <1>2, <1>3, Multiples
  <2> QED
    BY <2>1, <2>2, <2>3, <1>1, <1>2, <1>3
<1>5. q + 1 \in DOMAIN PlanWindows
    BY <1>2, <1>3, <1>4 DEF PlanWindows
<1>6. /\ FirstOf(q + 1) = q * w + 1
      /\ LastOf(q + 1) = q * w + w \/ LastOf(q + 1) = n
  <2>1. (q + 1) - 1 = q
    BY <1>3
  <2>2. (q + 1) * w = q * w + w
    BY <1>1, <1>3, Multiples
  <2>3. LastOf(q + 1) = (q + 1) * w \/ LastOf(q + 1) = n
    BY <1>5, WindowBounds
  <2> QED
    BY <2>1, <2>2, <2>3 DEF FirstOf
<1>7. q * w \in Nat
    BY <1>1, <1>3, Multiples
<1>8. e \in FirstOf(q + 1)..LastOf(q + 1)
  <2> HIDE DEF w, n, pieces, q
  <2> QED
    BY <1>1, <1>3, <1>6, <1>7
<1> QED
    BY <1>5, <1>8, WindowsAre

LEMMA WindowsShow ==
    ASSUME StoryOK, NEW k \in DOMAIN PlanWindows
    PROVE  /\ Shown(PlanWindows[k]) \subseteq Events
           /\ PlanWindows[k].owned \intersect PlanWindows[k].context = {}
           /\ Shown(PlanWindows[k]) = Near(PlanWindows[k])
PROOF
<1> DEFINE a == FirstOf(k)
           b == LastOf(k)
           c == policy.context
<1>1. /\ a \in Nat \ {0} /\ b \in Nat /\ a <= b /\ b <= Len(story.events)
      /\ c \in Nat /\ Len(story.events) \in Nat /\ Events = 1..Len(story.events)
    BY WindowBounds, CaseFacts
<1>2. /\ PlanWindows[k].owned = a..b
      /\ PlanWindows[k].context = {e \in Events \ (a..b) : e + c >= a /\ e <= b + c}
    BY WindowsAre
<1>3. a..b \subseteq Events
  <2> HIDE DEF a, b, c
  <2> QED
    BY <1>1
<1>4. Shown(PlanWindows[k]) \subseteq Events
    BY <1>2, <1>3 DEF Shown
<1>5. ASSUME NEW e \in Events
      PROVE  (\E o \in a..b : e <= o + c /\ o <= e + c) <=>
             (e \in a..b \/ (e + c >= a /\ e <= b + c))
  <2> HIDE DEF a, b, c
  <2>1. e \in Nat
    BY <1>1
  <2>2. ASSUME NEW o \in a..b, e <= o + c, o <= e + c PROVE e + c >= a /\ e <= b + c
    BY <2>1, <2>2, <1>1
  <2>3. CASE e \in a..b
    BY <2>3, <2>1, <1>1
  <2>4. ASSUME e \notin a..b, e + c >= a, e <= b + c
        PROVE  \E o \in a..b : e <= o + c /\ o <= e + c
    <3>1. CASE e < a
        BY <3>1, <2>4, <2>1, <1>1
    <3>2. CASE e > b
        BY <3>2, <2>4, <2>1, <1>1
    <3> QED
        BY <3>1, <3>2, <2>1, <2>4, <1>1
  <2> QED
    BY <2>2, <2>3, <2>4
<1>6. Near(PlanWindows[k]) = {e \in Events : \E o \in a..b : e <= o + c /\ o <= e + c}
    BY <1>2 DEF Near
<1>7. Shown(PlanWindows[k]) = (a..b) \union {e \in Events \ (a..b) : e + c >= a /\ e <= b + c}
    BY <1>2 DEF Shown
<1>8. Shown(PlanWindows[k]) = Near(PlanWindows[k])
  <2> HIDE DEF a, b, c
  <2> QED
    BY <1>3, <1>5, <1>6, <1>7
<1> QED
    BY <1>2, <1>4, <1>8

LEMMA OneOwner ==
    ASSUME StoryOK, NEW e \in Events
    PROVE  \E k \in DOMAIN PlanWindows :
               /\ e \in PlanWindows[k].owned
               /\ \A l \in DOMAIN PlanWindows : e \in PlanWindows[l].owned => l = k
PROOF
<1>1. PICK k \in DOMAIN PlanWindows : e \in PlanWindows[k].owned
    BY EveryEventHasAWindow
<1>2. ASSUME NEW l \in DOMAIN PlanWindows, e \in PlanWindows[l].owned PROVE l = k
  <2>1. k \in Nat /\ l \in Nat /\ e \in Nat
    BY WindowBounds, CaseFacts DEF Events
  <2>2. k < l => e < e
    BY <1>1, <1>2, WindowsFollow
  <2>3. l < k => e < e
    BY <1>1, <1>2, WindowsFollow
  <2> QED
    BY <2>1, <2>2, <2>3
<1> QED
    BY <1>1, <1>2

LEMMA PlanOwns ==
    ASSUME StoryOK
    PROVE  OwnershipHolds(PlanWindows)
PROOF
<1>1. ASSUME NEW e \in Events
      PROVE  Cardinality({k \in DOMAIN PlanWindows : e \in PlanWindows[k].owned}) = 1
  <2>1. PICK k \in DOMAIN PlanWindows :
            /\ e \in PlanWindows[k].owned
            /\ \A l \in DOMAIN PlanWindows : e \in PlanWindows[l].owned => l = k
    BY OneOwner
  <2>2. {l \in DOMAIN PlanWindows : e \in PlanWindows[l].owned} = {k}
    BY <2>1
  <2> QED
    BY <2>2, FS_Singleton
<1> QED
    BY <1>1, WindowsShow DEF OwnershipHolds

LEMMA PlanIsAList ==
    ASSUME StoryOK
    PROVE  Len(PlanWindows) \in Nat /\ DOMAIN PlanWindows = 1..Len(PlanWindows)
PROOF
<1> DEFINE pieces == (Len(story.events) + policy.owned - 1) \div policy.owned
<1>1. /\ policy.owned \in Nat \ {0}
      /\ Len(story.events) + policy.owned - 1 \in Nat
    BY CaseFacts
<1>2. pieces \in Nat
    BY <1>1, Quotients
<1>3. PlanWindows = [k \in 1..pieces |-> Window(k)]
    BY DEF PlanWindows
<1> HIDE DEF pieces
<1>4. PlanWindows \in Seq({Window(k) : k \in 1..pieces}) /\ DOMAIN PlanWindows = 1..pieces
    BY <1>2, <1>3
<1> QED
    BY <1>2, <1>4

-----------------------------------------------------------------------------
(* What may be cited.                                                      *)

LEMMA RecordsOfTheStory ==
    /\ \A k \in DOMAIN story.facts : <<"fact", k>> \in Universe
    /\ \A k \in DOMAIN story.rels : <<"rel", k>> \in Universe
    /\ \A k \in DOMAIN story.conflicts : <<"conf", k>> \in Universe
    /\ \A e \in Events : <<"evt", e>> \in Universe
PROOF
    BY DEF Universe, GlobalIndex

LEMMA TouchingOne ==
    ASSUME NEW seq, NEW kind, NEW S, NEW r \in Touching(seq, kind, S)
    PROVE  \E k \in DOMAIN seq : r = <<kind, k>> /\ seq[k] \intersect S # {}
PROOF
    BY DEF Touching

LEMMA NamedAre ==
    ASSUME NEW S, NEW r,
           r \in Touching(story.facts, "fact", S) \union Touching(story.rels, "rel", S)
    PROVE  /\ r[1] \in {"fact", "rel"}
           /\ r \in Universe /\ Naming(r) \intersect S # {}
PROOF
<1>1. CASE r \in Touching(story.facts, "fact", S)
  <2>1. PICK k \in DOMAIN story.facts : r = <<"fact", k>> /\ story.facts[k] \intersect S # {}
    BY <1>1, TouchingOne
  <2>2. r[1] = "fact" /\ r[2] = k
    BY <2>1
  <2>3. Naming(r) = story.facts[k]
    BY <2>2 DEF Naming
  <2> QED
    BY <2>1, <2>2, <2>3, RecordsOfTheStory
<1>2. CASE r \in Touching(story.rels, "rel", S)
  <2>1. PICK k \in DOMAIN story.rels : r = <<"rel", k>> /\ story.rels[k] \intersect S # {}
    BY <1>2, TouchingOne
  <2>2. r[1] = "rel" /\ r[2] = k
    BY <2>1
  <2>3. Naming(r) = story.rels[k]
    BY <2>2 DEF Naming
  <2> QED
    BY <2>1, <2>2, <2>3, RecordsOfTheStory
<1> QED
    BY <1>1, <1>2

LEMMA AboutIsGrounded ==
    ASSUME NEW S, NEW r \in About(S), r[1] # "trans"
    PROVE  r[1] # "evt" /\ r \in Universe /\ Of(r, S)
PROOF
<1> DEFINE named == Touching(story.facts, "fact", S) \union Touching(story.rels, "rel", S)
<1>1. CASE r \in named
  <2>1. r[1] \in {"fact", "rel"} /\ r \in Universe /\ Naming(r) \intersect S # {}
    BY <1>1, NamedAre
  <2> QED
    BY <2>1 DEF Of
<1>2. CASE r \in Touching(story.changes, "trans", S)
  <2>1. PICK k \in DOMAIN story.changes : r = <<"trans", k>>
    BY <1>2, TouchingOne
  <2> QED
    BY <2>1
<1>3. CASE r \in Touching(story.conflicts, "conf", named)
  <2>1. PICK k \in DOMAIN story.conflicts :
            r = <<"conf", k>> /\ story.conflicts[k] \intersect named # {}
    BY <1>3, TouchingOne
  <2>2. PICK q \in story.conflicts[k] : q \in named
    BY <2>1
  <2>3. Naming(q) \intersect S # {}
    BY <2>2, NamedAre
  <2>4. r[1] = "conf" /\ r[2] = k
    BY <2>1
  <2> QED
    BY <2>1, <2>2, <2>3, <2>4, RecordsOfTheStory DEF Of
<1> QED
    BY <1>1, <1>2, <1>3 DEF About

LEMMA CharactersAreGrounded ==
    ASSUME NEW c, NEW r \in Citable(PackageOf(c))
    PROVE  r \in Universe /\ Of(r, {c})
PROOF
<1>1. r \in PackageOf(c) /\ r[1] # "trans"
    BY DEF Citable
<1>2. CASE r \in About({c})
    BY <1>1, <1>2, AboutIsGrounded
<1>3. ASSUME NEW e \in Events, r = <<"evt", e>>, c \in story.events[e].who
      PROVE  r \in Universe /\ Of(r, {c})
  <2>1. r[1] = "evt" /\ r[2] = e
    BY <1>3
  <2>2. Naming(r) = story.events[e].who
    BY <2>1 DEF Naming
  <2> QED
    BY <1>3, <2>1, <2>2, RecordsOfTheStory DEF Of
<1> QED
    BY <1>1, <1>2, <1>3 DEF PackageOf

LEMMA WindowsAreGrounded ==
    ASSUME NEW w, Shown(w) \subseteq Events, NEW r \in Citable(PacketOf(w))
    PROVE  /\ r \in Universe
           /\ IF r[1] = "evt" THEN r[2] \in Shown(w) ELSE Of(r, Bound(w))
PROOF
<1>1. r \in PacketOf(w) /\ r[1] # "trans"
    BY DEF Citable
<1>2. CASE r \in About(Bound(w))
    BY <1>1, <1>2, AboutIsGrounded
<1>3. ASSUME NEW e \in Shown(w), r = <<"evt", e>>
      PROVE  r \in Universe /\ r[1] = "evt" /\ r[2] \in Shown(w)
    BY <1>3, RecordsOfTheStory
<1> QED
    BY <1>1, <1>2, <1>3 DEF PacketOf

-----------------------------------------------------------------------------
(* What a step leaves as it is.                                            *)

LEMMA AppendToList ==
    ASSUME NEW s, s \in Seq(ToSet(s)), NEW x
    PROVE  /\ Append(s, x) \in Seq(ToSet(Append(s, x)))
           /\ Len(s) \in Nat /\ Len(Append(s, x)) = Len(s) + 1
           /\ DOMAIN s = 1..Len(s) /\ DOMAIN Append(s, x) = 1..(Len(s) + 1)
           /\ \A k \in 1..Len(s) : Append(s, x)[k] = s[k]
           /\ Append(s, x)[Len(s) + 1] = x
PROOF
<1>1. Append(s, x) \in Seq(ToSet(s) \union {x})
    BY DEF ToSet
<1>2. /\ Len(s) \in Nat /\ DOMAIN s = 1..Len(s) /\ Len(Append(s, x)) = Len(s) + 1
      /\ DOMAIN Append(s, x) = 1..(Len(s) + 1)
      /\ \A k \in 1..Len(s) : Append(s, x)[k] = s[k]
      /\ Append(s, x)[Len(s) + 1] = x
    OBVIOUS
<1>3. Append(s, x) \in Seq(ToSet(Append(s, x)))
  <2> DEFINE t == Append(s, x)
  <2>1. t \in [1..Len(t) -> ToSet(s) \union {x}] /\ Len(t) = Len(s) + 1 /\ Len(s) + 1 \in Nat
    <3>1. t \in Seq(ToSet(s) \union {x})
        BY <1>1
    <3>2. Len(t) = Len(s) + 1 /\ Len(s) \in Nat
        BY <1>2
    <3> HIDE DEF t
    <3> QED
        BY <3>1, <3>2
  <2>2. \A k \in 1..(Len(s) + 1) : t[k] \in ToSet(t)
    BY <2>1 DEF ToSet
  <2> HIDE DEF t
  <2>3. t \in [1..(Len(s) + 1) -> ToSet(t)]
    BY <2>1, <2>2
  <2> QED
    BY <2>1, <2>3, SeqDef DEF t
<1> QED
    BY <1>2, <1>3

LEMMA PlanStays ==
    ASSUME story' = story, policy' = policy, StoryOK
    PROVE  /\ StoryOK' /\ PlanWindows' = PlanWindows
           /\ Universe' = Universe
           /\ \A c : PackageOf(c)' = PackageOf(c)
           /\ \A w : PacketOf(w)' = PacketOf(w)
PROOF
<1>1. StoryOK'
    BY DEF StoryOK
<1>2. \A k : Window(k)' = Window(k)
    BY DEF Window, Events
<1>3. PlanWindows' = PlanWindows
    BY <1>2 DEF PlanWindows
<1>4. Universe' = Universe
    BY DEF Universe, GlobalIndex, Cast, Events
<1>5. \A S : About(S)' = About(S)
    BY DEF About, Touching
<1>6. \A c : PackageOf(c)' = PackageOf(c)
    BY <1>5 DEF PackageOf, Events
<1>7. \A w : Bound(w)' = Bound(w)
    BY DEF Bound, Shown
<1>8. ASSUME NEW w PROVE PacketOf(w)' = PacketOf(w)
  <2> DEFINE S == Bound(w)
  <2>1. S' = S /\ About(S)' = About(S)
    BY <1>5, <1>7
  <2> QED
    BY <2>1, <1>7, <1>5 DEF PacketOf, Shown
<1> QED
    BY <1>1, <1>3, <1>4, <1>6, <1>8

LEMMA CeilingsStay ==
    ASSUME story' = story, policy' = policy, windows' = windows, StoryOK
    PROVE  TooLarge' = TooLarge
PROOF
<1>1. /\ \A c : PackageOf(c)' = PackageOf(c)
      /\ \A w : PacketOf(w)' = PacketOf(w)
    BY PlanStays
<1> QED
    BY <1>1 DEF TooLarge, Cast

LEMMA DossiersStay ==
    ASSUME StoryOK, DossiersOK, story' = story, policy' = policy, dossiers' = dossiers,
           stage' = "plan" => stage = "plan",
           stage' \in Running \ {"characters"} => Len(dossiers) = story.cast
    PROVE  DossiersOK'
PROOF
    BY PlanStays DEF DossiersOK, Citable

LEMMA ReadingsStay ==
    ASSUME StoryOK, ReadingsOK, story' = story, policy' = policy, readings' = readings,
           windows' = windows,
           stage' \in {"plan", "characters"} => stage \in {"plan", "characters"},
           stage' \in Running \ {"characters", "windows"} => Len(readings) = Len(windows)
    PROVE  ReadingsOK'
PROOF
    BY PlanStays DEF ReadingsOK, Citable

LEMMA WholeStays ==
    ASSUME StoryOK, WholeOK, story' = story, policy' = policy, outline' = outline, bible' = bible,
           stage' \in HasOutline => stage \in HasOutline,
           stage' \in {"plan", "characters", "windows", "skeleton"} =>
               stage \in {"plan", "characters", "windows", "skeleton"},
           stage' \in HasBible <=> stage \in HasBible
    PROVE  WholeOK'
PROOF
<1>1. \A o : ValidOutline(o)' <=> ValidOutline(o)
    BY PlanStays DEF ValidOutline, ValidProposals, ValidSections, Events, Cast
<1>2. IsOutline => IsOutline'
    BY <1>1 DEF IsOutline
<1>3. IsBible => IsBible'
    BY PlanStays DEF IsBible, ValidBible, SummaryHolds, Conflicts, Cast
<1> QED
    BY <1>2, <1>3 DEF WholeOK

-----------------------------------------------------------------------------
(* The steps.                                                              *)

LEMMA AnalysisBegins ==
    ASSUME AnalysisInit
    PROVE  AnalysisInv
PROOF
<1>1. StoryOK /\ story.cast \in Nat
    BY CaseFacts DEF AnalysisInit, StoryOK
<1>2. windows = <<>> /\ Len(windows) = 0
    BY DEF AnalysisInit
<1>3. /\ dossiers = <<>> /\ readings = <<>> /\ Len(dossiers) = 0 /\ Len(readings) = 0
      /\ dossiers \in Seq(ToSet(dossiers)) /\ readings \in Seq(ToSet(readings))
      /\ DOMAIN dossiers = {} /\ DOMAIN readings = {}
    BY DEF AnalysisInit
<1>4. stage = "plan" /\ calls = 0 /\ rounds = 0 /\ round = 1 /\ outline = Unset /\ bible = Unset
    BY DEF AnalysisInit
<1>5. WindowsOK /\ CeilingsOK
    BY <1>2, <1>4 DEF WindowsOK, CeilingsOK
<1>6. DossiersOK /\ ReadingsOK
    BY <1>1, <1>2, <1>3, <1>4 DEF DossiersOK, ReadingsOK, Running
<1>7. WholeOK
    BY <1>4 DEF WholeOK, HasOutline, HasBible
<1>8. Answered = 0
    BY <1>3, <1>4 DEF Answered, HasOutline, HasBible
<1>9. AccountsOK
    BY <1>1, <1>2, <1>4, <1>8 DEF AccountsOK, Requests
<1> QED
    BY <1>1, <1>5, <1>6, <1>7, <1>9 DEF AnalysisInv

LEMMA PlanStep ==
    ASSUME AnalysisInv, Plan
    PROVE  AnalysisInv'
PROOF
<1>1. /\ stage = "plan" /\ windows' = PlanWindows
      /\ stage' = IF /\ OwnershipHolds(windows')
                     /\ \A c \in Cast : Cardinality(PackageOf(c)) <= policy.character
                     /\ \A k \in DOMAIN windows' :
                            Cardinality(PacketOf(windows'[k])) <= policy.window
                  THEN "characters" ELSE "refused"
      /\ story' = story /\ policy' = policy /\ dossiers' = dossiers /\ readings' = readings
      /\ outline' = outline /\ bible' = bible
      /\ round' = round /\ calls' = calls /\ rounds' = rounds
    BY DEF Plan, answers
<1>2. StoryOK /\ WindowsOK /\ DossiersOK /\ ReadingsOK /\ WholeOK /\ AccountsOK
    BY DEF AnalysisInv
<1>3. /\ StoryOK' /\ PlanWindows' = PlanWindows
      /\ \A c : PackageOf(c)' = PackageOf(c)
      /\ \A w : PacketOf(w)' = PacketOf(w)
    BY <1>1, <1>2, PlanStays
<1>4. calls = 0 /\ dossiers = <<>> /\ readings = <<>> /\ outline = Unset /\ bible = Unset
    BY <1>1, <1>2 DEF WindowsOK, DossiersOK, ReadingsOK, WholeOK, HasBible
<1>5. stage' \in {"characters", "refused"}
    BY <1>1
<1>6. WindowsOK'
    BY <1>1, <1>3, <1>5 DEF WindowsOK, Running
<1>7. CeilingsOK'
  <2>1. OwnershipHolds(windows')
    BY <1>1, <1>2, PlanOwns
  <2>2. /\ policy.character \in Nat /\ policy.window \in Nat
        /\ \A c \in Cast : Cardinality(PackageOf(c)) \in Nat
        /\ \A k \in DOMAIN windows' : Cardinality(PacketOf(windows'[k])) \in Nat
    BY <1>1, <1>2, CaseFacts, PacketsAreFinite, WindowsShow
  <2>3. TooLarge' <=> \/ \E c \in Cast : Cardinality(PackageOf(c)) > policy.character
                      \/ \E k \in DOMAIN windows' :
                             Cardinality(PacketOf(windows'[k])) > policy.window
    BY <1>1, <1>3 DEF TooLarge, Cast
  <2>4. stage' = "refused" <=> TooLarge'
    BY <1>1, <2>1, <2>2, <2>3
  <2> QED
    BY <2>4, <1>1, <1>4 DEF CeilingsOK
<1>8. DossiersOK'
    BY <1>1, <1>2, <1>5, DossiersStay DEF Running
<1>9. ReadingsOK'
  <2>1. Len(windows') \in Nat
    BY <1>1, <1>2, PlanIsAList
  <2>2. Len(readings) = 0 /\ DOMAIN readings = {}
    BY <1>4
  <2> QED
    BY <2>1, <2>2, <1>1, <1>2, <1>4, <1>5 DEF ReadingsOK, Running
<1>10. WholeOK'
    BY <1>1, <1>2, <1>5, WholeStays DEF HasOutline, HasBible
<1>11. AccountsOK'
  <2>1. Len(windows') \in Nat /\ story.cast \in Nat
    BY <1>1, <1>2, PlanIsAList, CaseFacts
  <2>2. Answered' = Answered
    BY <1>1, <1>5 DEF Answered, HasOutline, HasBible
  <2>3. calls + 1 = rounds + round /\ Answered <= rounds /\ rounds <= 2 * Answered
    BY <1>1, <1>2 DEF AccountsOK
  <2>4. calls <= 2 * Requests'
    BY <2>1, <1>1, <1>4 DEF Requests
  <2> QED
    BY <2>2, <2>3, <2>4, <1>1, <1>2, <1>5 DEF AccountsOK, Running
<1> QED
    BY <1>3, <1>6, <1>7, <1>8, <1>9, <1>10, <1>11 DEF AnalysisInv

\* A request of the provider that is not answered yet.
Pending ==
    \/ stage = "characters" /\ Len(dossiers) < story.cast
    \/ stage = "windows" /\ Len(readings) < Len(windows)
    \/ stage \in {"skeleton", "bible"}

LEMMA WindowsAreAList ==
    ASSUME StoryOK, WindowsOK
    PROVE  Len(windows) \in Nat /\ DOMAIN windows = 1..Len(windows)
PROOF
    BY PlanIsAList DEF WindowsOK

LEMMA PendingCounts ==
    ASSUME AnalysisInv, Pending
    PROVE  /\ Answered \in Nat /\ Answered + 1 <= Requests /\ Requests \in Nat
           /\ calls + 1 <= 2 * Requests /\ stage \in Running
           /\ Len(dossiers) \in Nat /\ Len(readings) \in Nat
PROOF
<1>1. story.cast \in Nat /\ Len(windows) \in Nat
    BY CaseFacts, WindowsAreAList DEF AnalysisInv
<1>2. /\ Len(dossiers) \in Nat /\ Len(dossiers) <= story.cast
      /\ Len(readings) \in Nat /\ Len(readings) <= Len(windows)
    BY DEF AnalysisInv, DossiersOK, ReadingsOK
<1>3. stage \in Running /\ stage \notin HasBible
    BY DEF Pending, Running, HasBible
<1>4. stage = "characters" => Len(readings) = 0
    BY DEF AnalysisInv, ReadingsOK
<1>5. Answered \in Nat /\ Answered + 1 <= Requests /\ Requests \in Nat
    BY <1>1, <1>2, <1>4 DEF Pending, Answered, Requests, HasOutline, HasBible
<1>6. /\ calls \in Nat /\ rounds \in Nat /\ round \in {1, 2}
      /\ calls + 1 = rounds + round /\ rounds <= 2 * Answered
    BY <1>3 DEF AnalysisInv, AccountsOK
<1>7. calls + 1 <= 2 * Requests
    BY <1>5, <1>6
<1> QED
    BY <1>2, <1>3, <1>5, <1>7

LEMMA PendingStays ==
    ASSUME AnalysisInv, Pending, story' = story, policy' = policy, windows' = windows,
           dossiers' = dossiers, readings' = readings, outline' = outline, bible' = bible,
           stage' \in {stage, "failed", "exhausted", "unloadable"}
    PROVE  StoryOK' /\ WindowsOK' /\ CeilingsOK' /\ DossiersOK' /\ ReadingsOK' /\ WholeOK'
PROOF
<1>1. StoryOK /\ WindowsOK /\ CeilingsOK /\ DossiersOK /\ ReadingsOK /\ WholeOK
    BY DEF AnalysisInv
<1>2. StoryOK' /\ PlanWindows' = PlanWindows /\ (TooLarge' <=> TooLarge)
    BY <1>1, PlanStays, CeilingsStay
<1>3. stage \in {"characters", "windows", "skeleton", "bible"}
    BY DEF Pending
<1>4. WindowsOK'
    BY <1>1, <1>2, <1>3 DEF WindowsOK, Running
<1>5. CeilingsOK'
    BY <1>1, <1>2, <1>3 DEF CeilingsOK
<1>6. DossiersOK'
    BY <1>1, <1>3, DossiersStay DEF DossiersOK, Running
<1>7. ReadingsOK'
    BY <1>1, <1>3, ReadingsStay DEF ReadingsOK, Running
<1>8. WholeOK'
    BY <1>1, <1>3, WholeStays DEF HasOutline, HasBible
<1> QED
    BY <1>2, <1>4, <1>5, <1>6, <1>7, <1>8

LEMMA GivenUp ==
    ASSUME AnalysisInv, Pending, story' = story, policy' = policy, windows' = windows,
           dossiers' = dossiers, readings' = readings, outline' = outline, bible' = bible,
           stage' \in {"failed", "exhausted", "unloadable"},
           calls' = calls + 1, rounds' = rounds, round' \in {1, 2}
    PROVE  AnalysisInv'
PROOF
<1>1. StoryOK' /\ WindowsOK' /\ CeilingsOK' /\ DossiersOK' /\ ReadingsOK' /\ WholeOK'
    BY PendingStays
<1>2. calls' <= 2 * Requests' /\ calls \in Nat /\ rounds \in Nat
    BY PendingCounts DEF AnalysisInv, AccountsOK, Requests
<1>3. AccountsOK'
  <2>1. calls' \in Nat /\ rounds' \in Nat /\ round' \in {1, 2}
    BY <1>2
  <2>2. stage' \notin {"plan"} \union Running
    BY DEF Running
  <2>3. stage' \notin {"plan", "gate", "check", "done"}
    OBVIOUS
  <2> QED
    BY <1>2, <2>1, <2>2, <2>3 DEF AccountsOK
<1> QED
    BY <1>1, <1>3 DEF AnalysisInv

LEMMA Rejected ==
    ASSUME AnalysisInv, Pending, Reject, story' = story, policy' = policy, windows' = windows
    PROVE  AnalysisInv'
PROOF
<1>1. /\ calls' = calls + 1 /\ round' = 2 /\ rounds' = rounds
      /\ stage' = IF round = 1 THEN stage ELSE "exhausted"
      /\ dossiers' = dossiers /\ readings' = readings /\ outline' = outline /\ bible' = bible
    BY DEF Reject, answers
<1>2. CASE round # 1
    BY <1>1, <1>2, GivenUp
<1>3. CASE round = 1
  <2>1. stage' = stage
    BY <1>1, <1>3
  <2>2. StoryOK' /\ WindowsOK' /\ CeilingsOK' /\ DossiersOK' /\ ReadingsOK' /\ WholeOK'
    BY <1>1, <2>1, PendingStays
  <2>3. calls' <= 2 * Requests' /\ stage \in {"characters", "windows", "skeleton", "bible"}
    BY <1>1, PendingCounts DEF Requests, Pending
  <2>4. Answered' = Answered
    BY <1>1, <2>1 DEF Answered
  <2>5. /\ calls \in Nat /\ rounds \in Nat /\ calls + 1 = rounds + round
        /\ Answered <= rounds /\ rounds <= 2 * Answered
    BY <2>3 DEF AnalysisInv, AccountsOK, Running
  <2>6. AccountsOK'
    BY <1>1, <1>3, <2>1, <2>3, <2>4, <2>5 DEF AccountsOK
  <2> QED
    BY <2>2, <2>6 DEF AnalysisInv
<1> QED
    BY <1>2, <1>3

LEMMA AcceptedCounts ==
    ASSUME AnalysisInv, Pending, Accept, Answered' = Answered + 1, Requests' = Requests
    PROVE  AccountsOK'
PROOF
<1>1. calls' = calls + 1 /\ rounds' = rounds + round /\ round' = 1
    BY DEF Accept
<1>2. Answered \in Nat /\ calls + 1 <= 2 * Requests /\ stage \in Running
    BY PendingCounts
<1>3. /\ calls \in Nat /\ rounds \in Nat /\ round \in {1, 2} /\ calls + 1 = rounds + round
      /\ Answered <= rounds /\ rounds <= 2 * Answered
    BY <1>2 DEF AnalysisInv, AccountsOK
<1>4. /\ calls' \in Nat /\ rounds' \in Nat /\ round' \in {1, 2} /\ calls' + 1 = rounds' + round'
      /\ Answered' <= rounds' /\ rounds' <= 2 * Answered'
    BY <1>1, <1>2, <1>3
<1>5. calls' <= 2 * Requests'
    BY <1>1, <1>2
<1> QED
    BY <1>1, <1>4, <1>5 DEF AccountsOK

LEMMA ReadCharacterStep ==
    ASSUME AnalysisInv, ReadCharacter
    PROVE  AnalysisInv'
PROOF
<1>1. /\ stage = "characters" /\ Len(dossiers) < story.cast
      /\ story' = story /\ policy' = policy /\ windows' = windows
    BY DEF ReadCharacter
<1>2. Pending
    BY <1>1 DEF Pending
<1>3. PICK who \in Cast, cited \in Citations, loads \in BOOLEAN :
          IF loads /\ ValidDossier(Len(dossiers) + 1, who, cited)
          THEN /\ Accept
               /\ dossiers' = Append(dossiers, cited)
               /\ UNCHANGED <<readings, outline, bible, stage>>
          ELSE Reject
    BY DEF ReadCharacter
<1>4. CASE ~(loads /\ ValidDossier(Len(dossiers) + 1, who, cited))
    BY <1>1, <1>2, <1>3, <1>4, Rejected
<1>5. CASE loads /\ ValidDossier(Len(dossiers) + 1, who, cited)
  <2>1. /\ Accept /\ dossiers' = Append(dossiers, cited)
        /\ readings' = readings /\ outline' = outline /\ bible' = bible /\ stage' = stage
    BY <1>3, <1>5
  <2>2. StoryOK /\ WindowsOK /\ CeilingsOK /\ DossiersOK /\ ReadingsOK /\ WholeOK
    BY DEF AnalysisInv
  <2>3. /\ StoryOK' /\ PlanWindows' = PlanWindows /\ (TooLarge' <=> TooLarge)
        /\ \A c : PackageOf(c)' = PackageOf(c)
    BY <1>1, <2>2, PlanStays, CeilingsStay
  <2>4. WindowsOK' /\ CeilingsOK'
    BY <1>1, <2>1, <2>2, <2>3 DEF WindowsOK, CeilingsOK, Running
  <2>5. /\ dossiers' \in Seq(ToSet(dossiers')) /\ Len(dossiers) \in Nat
        /\ Len(dossiers') = Len(dossiers) + 1
        /\ DOMAIN dossiers = 1..Len(dossiers) /\ DOMAIN dossiers' = 1..(Len(dossiers) + 1)
        /\ \A k \in 1..Len(dossiers) : dossiers'[k] = dossiers[k]
        /\ dossiers'[Len(dossiers) + 1] = cited
    BY <2>1, <2>2, AppendToList DEF DossiersOK
  <2>6. ASSUME NEW k \in DOMAIN dossiers' PROVE dossiers'[k] \subseteq Citable(PackageOf(k))
    <3>1. CASE k \in DOMAIN dossiers
        BY <3>1, <2>2, <2>5 DEF DossiersOK
    <3>2. CASE k = Len(dossiers) + 1
        BY <3>2, <2>5, <1>5 DEF ValidDossier
    <3> QED
        BY <3>1, <3>2, <2>5
  <2>7. story.cast \in Nat
    BY <2>2, CaseFacts
  <2>8. DossiersOK'
    BY <1>1, <2>1, <2>3, <2>5, <2>6, <2>7 DEF DossiersOK, Citable, Running
  <2>9. ReadingsOK'
    BY <1>1, <2>1, <2>2, ReadingsStay DEF ReadingsOK, Running
  <2>10. WholeOK'
    BY <1>1, <2>1, <2>2, WholeStays
  <2>11. Len(readings) \in Nat
    BY <2>2 DEF ReadingsOK
  <2>12. Answered' = Answered + 1 /\ Requests' = Requests
    BY <1>1, <2>1, <2>5, <2>11 DEF Answered, Requests, HasOutline, HasBible
  <2>13. AccountsOK'
    BY <1>2, <2>1, <2>12, AcceptedCounts
  <2> QED
    BY <2>3, <2>4, <2>8, <2>9, <2>10, <2>13 DEF AnalysisInv
<1> QED
    BY <1>4, <1>5

LEMMA CharactersReadStep ==
    ASSUME AnalysisInv, CharactersRead
    PROVE  AnalysisInv'
PROOF
<1>1. /\ stage = "characters" /\ Len(dossiers) = story.cast /\ stage' = "windows"
      /\ story' = story /\ policy' = policy /\ windows' = windows
      /\ dossiers' = dossiers /\ readings' = readings /\ outline' = outline /\ bible' = bible
      /\ round' = round /\ calls' = calls /\ rounds' = rounds
    BY DEF CharactersRead, answers
<1>2. StoryOK /\ WindowsOK /\ CeilingsOK /\ DossiersOK /\ ReadingsOK /\ WholeOK /\ AccountsOK
    BY DEF AnalysisInv
<1>3. StoryOK' /\ PlanWindows' = PlanWindows /\ (TooLarge' <=> TooLarge)
    BY <1>1, <1>2, PlanStays, CeilingsStay
<1>4. WindowsOK' /\ CeilingsOK'
    BY <1>1, <1>2, <1>3 DEF WindowsOK, CeilingsOK, Running
<1>5. DossiersOK'
    BY <1>1, <1>2, DossiersStay
<1>6. ReadingsOK'
    BY <1>1, <1>2, ReadingsStay
<1>7. WholeOK'
    BY <1>1, <1>2, WholeStays DEF HasOutline, HasBible
<1>8. Answered' = Answered /\ Requests' = Requests
    BY <1>1 DEF Answered, Requests, HasOutline, HasBible
<1>9. AccountsOK'
    BY <1>1, <1>2, <1>8 DEF AccountsOK, Running
<1> QED
    BY <1>3, <1>4, <1>5, <1>6, <1>7, <1>9 DEF AnalysisInv

LEMMA ReadWindowStep ==
    ASSUME AnalysisInv, ReadWindow
    PROVE  AnalysisInv'
PROOF
<1>1. /\ stage = "windows" /\ Len(readings) < Len(windows)
      /\ story' = story /\ policy' = policy /\ windows' = windows
    BY DEF ReadWindow
<1>2. Pending
    BY <1>1 DEF Pending
<1>3. PICK who \in DOMAIN windows, cited \in Citations, loads \in BOOLEAN :
          IF loads /\ ValidReading(Len(readings) + 1, who, cited)
          THEN /\ Accept
               /\ readings' = Append(readings, cited)
               /\ UNCHANGED <<dossiers, outline, bible, stage>>
          ELSE Reject
    BY DEF ReadWindow
<1>4. CASE ~(loads /\ ValidReading(Len(readings) + 1, who, cited))
    BY <1>1, <1>2, <1>3, <1>4, Rejected
<1>5. CASE loads /\ ValidReading(Len(readings) + 1, who, cited)
  <2>1. /\ Accept /\ readings' = Append(readings, cited)
        /\ dossiers' = dossiers /\ outline' = outline /\ bible' = bible /\ stage' = stage
    BY <1>3, <1>5
  <2>2. StoryOK /\ WindowsOK /\ CeilingsOK /\ DossiersOK /\ ReadingsOK /\ WholeOK
    BY DEF AnalysisInv
  <2>3. /\ StoryOK' /\ PlanWindows' = PlanWindows /\ (TooLarge' <=> TooLarge)
        /\ \A w : PacketOf(w)' = PacketOf(w)
    BY <1>1, <2>2, PlanStays, CeilingsStay
  <2>4. WindowsOK' /\ CeilingsOK'
    BY <1>1, <2>1, <2>2, <2>3 DEF WindowsOK, CeilingsOK, Running
  <2>5. /\ readings' \in Seq(ToSet(readings')) /\ Len(readings) \in Nat
        /\ Len(readings') = Len(readings) + 1
        /\ DOMAIN readings = 1..Len(readings) /\ DOMAIN readings' = 1..(Len(readings) + 1)
        /\ \A k \in 1..Len(readings) : readings'[k] = readings[k]
        /\ readings'[Len(readings) + 1] = cited
    BY <2>1, <2>2, AppendToList DEF ReadingsOK
  <2>6. ASSUME NEW k \in DOMAIN readings'
        PROVE  readings'[k] \subseteq Citable(PacketOf(windows[k]))
    <3>1. CASE k \in DOMAIN readings
        BY <3>1, <2>2, <2>5 DEF ReadingsOK
    <3>2. CASE k = Len(readings) + 1
        BY <3>2, <2>5, <1>5 DEF ValidReading
    <3> QED
        BY <3>1, <3>2, <2>5
  <2>7. Len(windows) \in Nat
    BY <2>2, WindowsAreAList
  <2>8. ReadingsOK'
    BY <1>1, <2>1, <2>3, <2>5, <2>6, <2>7 DEF ReadingsOK, Citable, Running
  <2>9. DossiersOK'
    BY <1>1, <2>1, <2>2, DossiersStay DEF DossiersOK, Running
  <2>10. WholeOK'
    BY <1>1, <2>1, <2>2, WholeStays
  <2>11. Len(dossiers) \in Nat
    BY <2>2 DEF DossiersOK
  <2>12. Answered' = Answered + 1 /\ Requests' = Requests
    BY <1>1, <2>1, <2>5, <2>11 DEF Answered, Requests, HasOutline, HasBible
  <2>13. AccountsOK'
    BY <1>2, <2>1, <2>12, AcceptedCounts
  <2> QED
    BY <2>3, <2>4, <2>8, <2>9, <2>10, <2>13 DEF AnalysisInv
<1> QED
    BY <1>4, <1>5

\* The main proposals are found by the ordinals the provider gave them.
LEMMA MainProposals ==
    ASSUME NEW o \in Outlines, ValidOutline(o), NEW kind \in Major
    PROVE  /\ Len(BuildOutline(o).major[kind]) = Len(o.major[kind])
           /\ DOMAIN BuildOutline(o).major[kind] = DOMAIN o.major[kind]
           /\ \A k \in DOMAIN o.major[kind] :
                  /\ BuildOutline(o).major[kind][k] \in DOMAIN o.proposals[kind]
                  /\ o.proposals[kind][BuildOutline(o).major[kind][k]].ordinal = o.major[kind][k]
PROOF
<1> DEFINE asked == o.major[kind]
           proposals == o.proposals[kind]
           ids == [k \in DOMAIN asked |-> IdOf(proposals, asked[k])]
<1>1. BuildOutline(o).major[kind] = ids
    BY DEF BuildOutline, MajorIds
<1>2. asked \in Seq(ToSet(asked)) /\ ToSet(asked) \subseteq Ordinals(proposals)
    BY OutlinesAreAnswers DEF ValidOutline
<1>3. ASSUME NEW k \in DOMAIN asked
      PROVE  ids[k] \in DOMAIN proposals /\ proposals[ids[k]].ordinal = asked[k]
  <2>1. asked[k] \in Ordinals(proposals)
    BY <1>2 DEF ToSet
  <2>2. \E j \in DOMAIN proposals : proposals[j].ordinal = asked[k]
    BY <2>1 DEF Ordinals, ToSet
  <2>3. /\ IdOf(proposals, asked[k]) \in DOMAIN proposals
        /\ proposals[IdOf(proposals, asked[k])].ordinal = asked[k]
    BY <2>2 DEF IdOf
  <2> QED
    BY <2>3
<1>4. DOMAIN ids = DOMAIN asked
    OBVIOUS
<1>5. Len(asked) \in Nat /\ DOMAIN asked = 1..Len(asked)
  <2> HIDE DEF asked
  <2> QED
    BY <1>2
<1>6. Len(ids) = Len(asked)
  <2> HIDE DEF ids
  <2>1. ids \in [1..Len(asked) -> {ids[k] : k \in 1..Len(asked)}]
    BY <1>4, <1>5 DEF ids
  <2> HIDE DEF asked
  <2>2. ids \in Seq({ids[k] : k \in 1..Len(asked)})
    BY <2>1, <1>5, SeqDef
  <2> QED
    BY <2>2, <1>4, <1>5
<1> QED
    BY <1>1, <1>3, <1>4, <1>6

LEMMA OutlineIsSomething ==
    ASSUME IsOutline
    PROVE  outline # Unset
PROOF
    BY OutlinesAreAnswers DEF IsOutline, ValidOutline

LEMMA WindowsReadStep ==
    ASSUME AnalysisInv, WindowsRead
    PROVE  AnalysisInv'
PROOF
<1>1. /\ stage = "windows" /\ Len(readings) = Len(windows)
      /\ stage' = IF Within(SkeletonSize, policy.skeleton) THEN "skeleton" ELSE "refused"
      /\ story' = story /\ policy' = policy /\ windows' = windows
      /\ dossiers' = dossiers /\ readings' = readings /\ outline' = outline /\ bible' = bible
      /\ round' = round /\ calls' = calls /\ rounds' = rounds
    BY DEF WindowsRead, answers
<1>2. StoryOK /\ WindowsOK /\ CeilingsOK /\ DossiersOK /\ ReadingsOK /\ WholeOK /\ AccountsOK
    BY DEF AnalysisInv
<1>3. StoryOK' /\ PlanWindows' = PlanWindows /\ (TooLarge' <=> TooLarge)
    BY <1>1, <1>2, PlanStays, CeilingsStay
<1>4. stage' \in {"skeleton", "refused"}
    BY <1>1
<1>5. WindowsOK'
    BY <1>1, <1>2, <1>3, <1>4 DEF WindowsOK, Running
<1>6. CeilingsOK'
  <2>1. outline = Unset /\ ~TooLarge
    BY <1>1, <1>2 DEF WholeOK, CeilingsOK
  <2>2. SkeletonSize' = SkeletonSize
    BY <1>1 DEF SkeletonSize, GlobalIndex, Cast, Events
  <2>3. stage' = "refused" => ~Within(SkeletonSize', policy'.skeleton)
    BY <1>1, <2>2
  <2> QED
    BY <2>1, <2>3, <1>1, <1>3, <1>4 DEF CeilingsOK
<1>7. DossiersOK'
    BY <1>1, <1>2, <1>4, DossiersStay DEF DossiersOK, Running
<1>8. ReadingsOK'
    BY <1>1, <1>2, <1>4, ReadingsStay
<1>9. WholeOK'
    BY <1>1, <1>2, <1>4, WholeStays DEF HasOutline, HasBible
<1>10. Answered' = Answered /\ Requests' = Requests
    BY <1>1, <1>4 DEF Answered, Requests, HasOutline, HasBible
<1>11. AccountsOK'
    BY <1>1, <1>2, <1>4, <1>10 DEF AccountsOK, Running
<1> QED
    BY <1>3, <1>5, <1>6, <1>7, <1>8, <1>9, <1>11 DEF AnalysisInv

LEMMA OutlineStep ==
    ASSUME AnalysisInv, Outline
    PROVE  AnalysisInv'
PROOF
<1>1. /\ stage = "skeleton" /\ story' = story /\ policy' = policy /\ windows' = windows
    BY DEF Outline
<1>2. Pending
    BY <1>1 DEF Pending
<1>3. PICK o \in Outlines, loads \in BOOLEAN :
          IF ~ValidOutline(o)
          THEN Reject
          ELSE IF loads
          THEN /\ Accept
               /\ outline' = BuildOutline(o)
               /\ stage' = "gate"
               /\ UNCHANGED <<dossiers, readings, bible>>
          ELSE /\ calls' = calls + 1
               /\ stage' = "unloadable"
               /\ UNCHANGED <<answers, round, rounds>>
    BY DEF Outline
<1>4. StoryOK /\ WindowsOK /\ CeilingsOK /\ DossiersOK /\ ReadingsOK /\ WholeOK /\ AccountsOK
    BY DEF AnalysisInv
<1>5. CASE ~ValidOutline(o)
    BY <1>1, <1>2, <1>3, <1>5, Rejected
<1>6. CASE ValidOutline(o) /\ ~loads
  <2>1. /\ calls' = calls + 1 /\ stage' = "unloadable" /\ round' = round /\ rounds' = rounds
        /\ dossiers' = dossiers /\ readings' = readings /\ outline' = outline /\ bible' = bible
    BY <1>3, <1>6 DEF answers
  <2>2. round' \in {1, 2}
    BY <1>4, <2>1 DEF AccountsOK
  <2> QED
    BY <1>1, <1>2, <2>1, <2>2, GivenUp
<1>7. CASE ValidOutline(o) /\ loads
  <2>1. /\ Accept /\ outline' = BuildOutline(o) /\ stage' = "gate"
        /\ dossiers' = dossiers /\ readings' = readings /\ bible' = bible
    BY <1>3, <1>7
  <2>2. /\ StoryOK' /\ PlanWindows' = PlanWindows /\ (TooLarge' <=> TooLarge)
        /\ Universe' = Universe
    BY <1>1, <1>4, PlanStays, CeilingsStay
  <2>3. WindowsOK' /\ CeilingsOK'
    BY <1>1, <1>4, <2>1, <2>2 DEF WindowsOK, CeilingsOK, Running
  <2>4. DossiersOK'
    BY <1>1, <1>4, <2>1, DossiersStay DEF DossiersOK, Running
  <2>5. ReadingsOK'
    BY <1>1, <1>4, <2>1, ReadingsStay DEF ReadingsOK, Running
  <2>6. ValidOutline(o)'
    BY <1>1, <1>7, <2>2 DEF ValidOutline, ValidProposals, ValidSections, Events, Cast
  <2>7. bible' = Unset
    BY <1>1, <1>4, <2>1 DEF WholeOK, HasBible
  <2>8. WholeOK'
    BY <2>1, <2>6, <2>7 DEF WholeOK, IsOutline, HasBible
  <2>9. Len(dossiers) \in Nat /\ Len(readings) \in Nat
    BY <1>4 DEF DossiersOK, ReadingsOK
  <2>10. Answered' = Answered + 1 /\ Requests' = Requests
    BY <1>1, <2>1, <2>9 DEF Answered, Requests, HasOutline, HasBible
  <2>11. AccountsOK'
    BY <1>2, <2>1, <2>10, AcceptedCounts
  <2> QED
    BY <2>2, <2>3, <2>4, <2>5, <2>8, <2>11 DEF AnalysisInv
<1> QED
    BY <1>5, <1>6, <1>7

LEMMA BibleGateStep ==
    ASSUME AnalysisInv, BibleGate
    PROVE  AnalysisInv'
PROOF
<1>1. /\ stage = "gate"
      /\ stage' = IF Within(BibleSize, policy.bible) THEN "bible" ELSE "refused"
      /\ story' = story /\ policy' = policy /\ windows' = windows
      /\ dossiers' = dossiers /\ readings' = readings /\ outline' = outline /\ bible' = bible
      /\ round' = round /\ calls' = calls /\ rounds' = rounds
    BY DEF BibleGate, answers
<1>2. StoryOK /\ WindowsOK /\ CeilingsOK /\ DossiersOK /\ ReadingsOK /\ WholeOK /\ AccountsOK
    BY DEF AnalysisInv
<1>3. StoryOK' /\ PlanWindows' = PlanWindows /\ (TooLarge' <=> TooLarge)
    BY <1>1, <1>2, PlanStays, CeilingsStay
<1>4. stage' \in {"bible", "refused"}
    BY <1>1
<1>5. WindowsOK'
    BY <1>1, <1>2, <1>3, <1>4 DEF WindowsOK, Running
<1>6. CeilingsOK'
  <2>1. outline # Unset /\ ~TooLarge
    BY <1>1, <1>2, OutlineIsSomething DEF WholeOK, CeilingsOK, HasOutline
  <2>2. BibleSize' = BibleSize
    BY <1>1 DEF BibleSize, SkeletonSize, GlobalIndex, Cast, Events
  <2>3. stage' = "refused" => ~Within(BibleSize', policy'.bible)
    BY <1>1, <2>2
  <2> QED
    BY <2>1, <2>3, <1>1, <1>3, <1>4 DEF CeilingsOK
<1>7. DossiersOK'
    BY <1>1, <1>2, <1>4, DossiersStay DEF DossiersOK, Running
<1>8. ReadingsOK'
    BY <1>1, <1>2, <1>4, ReadingsStay DEF ReadingsOK, Running
<1>9. WholeOK'
    BY <1>1, <1>2, <1>4, WholeStays DEF HasOutline, HasBible
<1>10. Requests' = Requests /\ calls' <= 2 * Requests'
    BY <1>1, <1>2 DEF Requests, AccountsOK
<1>11. stage' = "bible" => Answered' = Answered
    BY <1>1 DEF Answered, HasOutline, HasBible
<1>12. AccountsOK'
    BY <1>1, <1>2, <1>4, <1>10, <1>11 DEF AccountsOK, Running
<1> QED
    BY <1>3, <1>5, <1>6, <1>7, <1>8, <1>9, <1>12 DEF AnalysisInv

LEMMA BibleStep ==
    ASSUME AnalysisInv, Bible
    PROVE  AnalysisInv'
PROOF
<1>1. /\ stage = "bible" /\ story' = story /\ policy' = policy /\ windows' = windows
    BY DEF Bible
<1>2. Pending
    BY <1>1 DEF Pending
<1>3. PICK cited \in Citations, summary \in CitationsUpTo(MaxCited + 1), loads \in BOOLEAN :
          LET b == BuildBible(cited, summary)
          IN  IF loads /\ ValidBible(b)
              THEN /\ Accept
                   /\ bible' = b
                   /\ stage' = "check"
                   /\ UNCHANGED <<dossiers, readings, outline>>
              ELSE Reject
    BY DEF Bible
<1>4. StoryOK /\ WindowsOK /\ CeilingsOK /\ DossiersOK /\ ReadingsOK /\ WholeOK /\ AccountsOK
    BY DEF AnalysisInv
<1> DEFINE b == BuildBible(cited, summary)
<1>5. CASE ~(loads /\ ValidBible(b))
    BY <1>1, <1>2, <1>3, <1>5, Rejected
<1>6. CASE loads /\ ValidBible(b)
  <2>1. /\ Accept /\ bible' = b /\ stage' = "check"
        /\ dossiers' = dossiers /\ readings' = readings /\ outline' = outline
    BY <1>3, <1>6
  <2>2. /\ StoryOK' /\ PlanWindows' = PlanWindows /\ (TooLarge' <=> TooLarge)
        /\ Universe' = Universe
    BY <1>1, <1>4, PlanStays, CeilingsStay
  <2>3. WindowsOK' /\ CeilingsOK'
    BY <1>1, <1>4, <2>1, <2>2 DEF WindowsOK, CeilingsOK, Running
  <2>4. DossiersOK'
    BY <1>1, <1>4, <2>1, DossiersStay DEF DossiersOK, Running
  <2>5. ReadingsOK'
    BY <1>1, <1>4, <2>1, ReadingsStay DEF ReadingsOK, Running
  <2>6. IsOutline'
    <3>1. PICK o \in Outlines : ValidOutline(o) /\ outline = BuildOutline(o)
        BY <1>1, <1>4 DEF WholeOK, IsOutline, HasOutline
    <3>2. ValidOutline(o)'
        BY <1>1, <3>1, <2>2 DEF ValidOutline, ValidProposals, ValidSections, Events, Cast
    <3> QED
        BY <3>1, <3>2, <2>1 DEF IsOutline
  <2>7. b.major = outline.major
    BY DEF BuildBible
  <2>8. IsBible'
    <3> HIDE DEF b
    <3>1. /\ b.cited \union b.summary \subseteq Universe
          /\ b.main \subseteq Cast
          /\ \A kind \in Major : ToSet(b.major[kind]) \subseteq DOMAIN outline.proposals[kind]
          /\ SummaryHolds(b.summary)
        BY <1>6 DEF ValidBible
    <3>2. SummaryHolds(bible.summary)'
        BY <3>1, <1>1, <2>1 DEF SummaryHolds, Conflicts
    <3> QED
        BY <3>1, <3>2, <2>1, <2>2, <2>7, <1>1 DEF IsBible, ValidBible, Cast
  <2>9. WholeOK'
    BY <2>1, <2>6, <2>8 DEF WholeOK, HasOutline, HasBible
  <2>10. Len(dossiers) \in Nat /\ Len(readings) \in Nat
    BY <1>4 DEF DossiersOK, ReadingsOK
  <2>11. Answered' = Answered + 1 /\ Requests' = Requests
    BY <1>1, <2>1, <2>10 DEF Answered, Requests, HasOutline, HasBible
  <2>12. AccountsOK'
    BY <1>2, <2>1, <2>11, AcceptedCounts
  <2> QED
    BY <2>2, <2>3, <2>4, <2>5, <2>9, <2>12 DEF AnalysisInv
<1> QED
    BY <1>5, <1>6

\* What was accepted one by one passes the last check.
LEMMA AnswersAreCoherent ==
    ASSUME AnalysisInv, stage = "check"
    PROVE  IsCoherent
PROOF
<1>1. StoryOK /\ WindowsOK /\ DossiersOK /\ ReadingsOK /\ WholeOK
    BY DEF AnalysisInv
<1>2. windows = PlanWindows /\ OwnershipHolds(windows)
    BY <1>1, PlanOwns DEF WindowsOK
<1>3. Len(dossiers) = story.cast /\ Len(readings) = Len(windows)
    BY <1>1 DEF DossiersOK, ReadingsOK, Running
<1>4. \A cited \in ToSet(dossiers) : cited \subseteq Universe
  <2>1. \A k \in DOMAIN dossiers : dossiers[k] \subseteq Universe
    BY <1>1, CharactersAreGrounded DEF DossiersOK
  <2> QED
    BY <2>1 DEF ToSet
<1>5. \A cited \in ToSet(readings) : cited \subseteq Universe
  <2>1. ASSUME NEW k \in DOMAIN readings PROVE readings[k] \subseteq Universe
    <3>1. k \in DOMAIN PlanWindows
        BY <1>1, <1>2, <1>3, WindowsAreAList DEF ReadingsOK
    <3>2. readings[k] \subseteq Citable(PacketOf(windows[k]))
        BY <1>1 DEF ReadingsOK
    <3> QED
        BY <3>1, <3>2, <1>1, <1>2, WindowsShow, WindowsAreGrounded
  <2> QED
    BY <2>1 DEF ToSet
<1>6. PICK o \in Outlines : ValidOutline(o) /\ outline = BuildOutline(o)
    BY <1>1 DEF WholeOK, IsOutline, HasOutline
<1>7. /\ outline.overlay = o.overlay /\ outline.proposals = o.proposals
      /\ outline.sections = o.sections /\ outline.cited = o.cited /\ outline.main = o.main
    BY <1>6 DEF BuildOutline
<1>8. ValidBible(bible) /\ bible.major = outline.major
    BY <1>1 DEF WholeOK, IsBible, HasBible
<1>9. ToSet(outline.overlay) \subseteq Events
    BY <1>6, <1>7 DEF ValidOutline
<1>10. \A kind \in Kinds : \A p \in ToSet(outline.proposals[kind]) :
          /\ p.cited \subseteq Universe
          /\ kind = "arc" => {p.from, p.to} \subseteq Events
    BY <1>6, <1>7 DEF ValidOutline, ValidProposals
<1>11. \A s \in ToSet(outline.sections) : s.cited \subseteq Universe
    BY <1>6, <1>7 DEF ValidOutline, ValidSections, ToSet
<1>12. outline.cited \union bible.cited \union bible.summary \subseteq Universe
    BY <1>6, <1>7, <1>8 DEF ValidOutline, ValidBible
<1>13. outline.main \union bible.main \subseteq Cast
    BY <1>6, <1>7, <1>8 DEF ValidOutline, ValidBible
<1>14. \A kind \in Major :
          ToSet(outline.major[kind]) \union ToSet(bible.major[kind])
              \subseteq DOMAIN outline.proposals[kind]
    BY <1>8 DEF ValidBible
<1> QED
    BY <1>2, <1>3, <1>4, <1>5, <1>9, <1>10, <1>11, <1>12, <1>13, <1>14 DEF IsCoherent

LEMMA CheckStep ==
    ASSUME AnalysisInv, Check
    PROVE  AnalysisInv'
PROOF
<1>1. /\ stage = "check" /\ stage' = IF IsCoherent THEN "done" ELSE "incoherent"
      /\ story' = story /\ policy' = policy /\ windows' = windows
      /\ dossiers' = dossiers /\ readings' = readings /\ outline' = outline /\ bible' = bible
      /\ round' = round /\ calls' = calls /\ rounds' = rounds
    BY DEF Check, answers
<1>2. StoryOK /\ WindowsOK /\ CeilingsOK /\ DossiersOK /\ ReadingsOK /\ WholeOK /\ AccountsOK
    BY DEF AnalysisInv
<1>3. StoryOK' /\ PlanWindows' = PlanWindows /\ (TooLarge' <=> TooLarge)
    BY <1>1, <1>2, PlanStays, CeilingsStay
<1>4. stage' = "done"
    BY <1>1, AnswersAreCoherent
<1>5. WindowsOK' /\ CeilingsOK'
    BY <1>1, <1>2, <1>3, <1>4 DEF WindowsOK, CeilingsOK, Running
<1>6. DossiersOK'
    BY <1>1, <1>2, <1>4, DossiersStay DEF DossiersOK, Running
<1>7. ReadingsOK'
    BY <1>1, <1>2, <1>4, ReadingsStay DEF ReadingsOK, Running
<1>8. WholeOK'
    BY <1>1, <1>2, <1>4, WholeStays DEF HasOutline, HasBible
<1>9. Answered' = Answered /\ Requests' = Requests
    BY <1>1, <1>4 DEF Answered, Requests, HasOutline, HasBible
<1>10. AccountsOK'
    BY <1>1, <1>2, <1>4, <1>9 DEF AccountsOK, Running
<1> QED
    BY <1>3, <1>5, <1>6, <1>7, <1>8, <1>10 DEF AnalysisInv

LEMMA FailStep ==
    ASSUME AnalysisInv, Fail
    PROVE  AnalysisInv'
PROOF
<1>1. /\ Pending /\ calls' = calls + 1 /\ stage' = "failed"
      /\ story' = story /\ policy' = policy /\ windows' = windows
      /\ dossiers' = dossiers /\ readings' = readings /\ outline' = outline /\ bible' = bible
      /\ round' = round /\ rounds' = rounds
    BY DEF Fail, Pending, answers
<1>2. round' \in {1, 2}
    BY <1>1 DEF AnalysisInv, AccountsOK
<1> QED
    BY <1>1, <1>2, GivenUp

LEMMA AnalysisStands ==
    ASSUME AnalysisInv, UNCHANGED analysisVars
    PROVE  AnalysisInv'
PROOF
<1>1. /\ story' = story /\ policy' = policy /\ windows' = windows /\ stage' = stage
      /\ dossiers' = dossiers /\ readings' = readings /\ outline' = outline /\ bible' = bible
      /\ round' = round /\ calls' = calls /\ rounds' = rounds
    BY DEF analysisVars, answers
<1>2. StoryOK /\ WindowsOK /\ CeilingsOK /\ DossiersOK /\ ReadingsOK /\ WholeOK /\ AccountsOK
    BY DEF AnalysisInv
<1>3. StoryOK' /\ PlanWindows' = PlanWindows /\ (TooLarge' <=> TooLarge)
    BY <1>1, <1>2, PlanStays, CeilingsStay
<1>4. SkeletonSize' = SkeletonSize /\ BibleSize' = BibleSize
    BY <1>1 DEF BibleSize, SkeletonSize, GlobalIndex, Cast, Events
<1>5. WindowsOK' /\ CeilingsOK'
    BY <1>1, <1>2, <1>3, <1>4 DEF WindowsOK, CeilingsOK
<1>6. DossiersOK'
    BY <1>1, <1>2, DossiersStay DEF DossiersOK
<1>7. ReadingsOK'
    BY <1>1, <1>2, ReadingsStay DEF ReadingsOK
<1>8. WholeOK'
    BY <1>1, <1>2, WholeStays
<1>9. AccountsOK'
    BY <1>1, <1>2 DEF AccountsOK, Answered, Requests
<1> QED
    BY <1>3, <1>5, <1>6, <1>7, <1>8, <1>9 DEF AnalysisInv

(***************************************************************************)
(* AnalysisInv is inductive: the work of A6 in memory is what the plan and *)
(* the checks of each pass make it, after any answers and rejections.      *)
(***************************************************************************)
THEOREM AnalysisIsConsistent == AnalysisSpec => []AnalysisInv
PROOF
<1>1. AnalysisInit => AnalysisInv
    BY AnalysisBegins
<1>2. AnalysisInv /\ [AnalysisNext]_analysisVars => AnalysisInv'
  <2> SUFFICES ASSUME AnalysisInv, [AnalysisNext]_analysisVars PROVE AnalysisInv'
    OBVIOUS
  <2>1. CASE Plan
    BY <2>1, PlanStep
  <2>2. CASE ReadCharacter
    BY <2>2, ReadCharacterStep
  <2>3. CASE CharactersRead
    BY <2>3, CharactersReadStep
  <2>4. CASE ReadWindow
    BY <2>4, ReadWindowStep
  <2>5. CASE WindowsRead
    BY <2>5, WindowsReadStep
  <2>6. CASE Outline
    BY <2>6, OutlineStep
  <2>7. CASE BibleGate
    BY <2>7, BibleGateStep
  <2>8. CASE Bible
    BY <2>8, BibleStep
  <2>9. CASE Check
    BY <2>9, CheckStep
  <2>10. CASE Fail
    BY <2>10, FailStep
  <2>11. CASE UNCHANGED analysisVars
    BY <2>11, AnalysisStands
  <2> QED
    BY <2>1, <2>2, <2>3, <2>4, <2>5, <2>6, <2>7, <2>8, <2>9, <2>10, <2>11 DEF AnalysisNext
<1> QED
    BY <1>1, <1>2, PTL DEF AnalysisSpec

(***************************************************************************)
(* EveryEventIsReadOnce: the windows of plan_plot_windows partition the    *)
(* narrative and show exactly the neighbours of what they own, whatever    *)
(* the sizes of a profile; a run is refused for a ceiling and nothing      *)
(* else, and before the first call if the plan already shows it.           *)
(***************************************************************************)
THEOREM EventsAreReadOnce == AnalysisSpec => []EveryEventIsReadOnce
PROOF
<1>1. AnalysisInv => EveryEventIsReadOnce
  <2> SUFFICES ASSUME AnalysisInv, stage # "plan"
               PROVE  /\ \A e \in Events : \E k \in DOMAIN windows :
                             /\ e \in windows[k].owned
                             /\ \A l \in DOMAIN windows : e \in windows[l].owned => l = k
                      /\ \A k, l \in DOMAIN windows : k < l =>
                             \A e \in windows[k].owned, f \in windows[l].owned : e < f
                      /\ \A k \in DOMAIN windows : Shown(windows[k]) = Near(windows[k])
                      /\ TooLarge => stage = "refused" /\ calls = 0
                      /\ stage = "refused" =>
                             \/ TooLarge
                             \/ outline = Unset /\ ~Within(SkeletonSize, policy.skeleton)
                             \/ outline # Unset /\ ~Within(BibleSize, policy.bible)
    BY DEF EveryEventIsReadOnce
  <2>1. StoryOK /\ windows = PlanWindows
    BY DEF AnalysisInv, WindowsOK
  <2>2. \A e \in Events : \E k \in DOMAIN windows :
            /\ e \in windows[k].owned
            /\ \A l \in DOMAIN windows : e \in windows[l].owned => l = k
    BY <2>1, OneOwner
  <2>3. \A k, l \in DOMAIN windows : k < l =>
            \A e \in windows[k].owned, f \in windows[l].owned : e < f
    BY <2>1, WindowsFollow
  <2>4. \A k \in DOMAIN windows : Shown(windows[k]) = Near(windows[k])
    BY <2>1, WindowsShow
  <2>5. /\ TooLarge => stage = "refused" /\ calls = 0
        /\ stage = "refused" =>
               \/ TooLarge
               \/ outline = Unset /\ ~Within(SkeletonSize, policy.skeleton)
               \/ outline # Unset /\ ~Within(BibleSize, policy.bible)
    BY DEF AnalysisInv, CeilingsOK
  <2> QED
    BY <2>2, <2>3, <2>4, <2>5
<1> QED
    BY <1>1, AnalysisIsConsistent, PTL

(***************************************************************************)
(* ReadingsStayGrounded: whatever was answered and rejected, a dossier     *)
(* rests on records that name its character, a reading on the events and   *)
(* records around its window, and the bible tells all conflicts of A5 and  *)
(* no others (the validators of the A6 passes).                            *)
(***************************************************************************)
THEOREM ReadingsAreGrounded == AnalysisSpec => []ReadingsStayGrounded
PROOF
<1>1. AnalysisInv => ReadingsStayGrounded
  <2> SUFFICES ASSUME AnalysisInv PROVE ReadingsStayGrounded
    OBVIOUS
  <2>1. StoryOK /\ WindowsOK /\ DossiersOK /\ ReadingsOK /\ WholeOK
    BY DEF AnalysisInv
  <2>2. ASSUME NEW k \in DOMAIN dossiers, NEW r \in dossiers[k]
        PROVE  r \in Universe /\ Of(r, {k})
    <3>1. r \in Citable(PackageOf(k))
        BY <2>1 DEF DossiersOK
    <3> QED
        BY <3>1, CharactersAreGrounded
  <2>3. ASSUME NEW k \in DOMAIN readings, NEW r \in readings[k]
        PROVE  IF r[1] = "evt" THEN r[2] \in Near(windows[k])
               ELSE r \in Universe /\ Of(r, Bound(windows[k]))
    <3>1. r \in Citable(PacketOf(windows[k]))
        BY <2>1 DEF ReadingsOK
    <3>2. windows = PlanWindows /\ k \in DOMAIN PlanWindows
      <4>1. stage # "plan"
        BY <2>1 DEF ReadingsOK
      <4>2. windows = PlanWindows /\ k \in 1..Len(readings) /\ Len(readings) <= Len(windows)
        BY <4>1, <2>1 DEF WindowsOK, ReadingsOK
      <4>3. Len(readings) \in Nat
        BY <2>1 DEF ReadingsOK
      <4> QED
        BY <4>2, <4>3, <2>1, PlanIsAList
    <3>3. Shown(windows[k]) \subseteq Events /\ Shown(windows[k]) = Near(windows[k])
        BY <3>2, <2>1, WindowsShow
    <3>4. /\ r \in Universe
          /\ IF r[1] = "evt" THEN r[2] \in Shown(windows[k]) ELSE Of(r, Bound(windows[k]))
        BY <3>1, <3>3, WindowsAreGrounded
    <3> QED
        BY <3>3, <3>4
  <2>4. ASSUME bible # Unset
        PROVE  /\ \A k \in DOMAIN story.conflicts : <<"conf", k>> \in bible.summary
               /\ \A r \in bible.summary : \E k \in DOMAIN story.conflicts :
                      r \in {<<"conf", k>>} \union story.conflicts[k]
    <3>1. ValidBible(bible)
        BY <2>1, <2>4 DEF WholeOK, IsBible
    <3>2. /\ {r \in bible.summary : r[1] = "conf"} = Conflicts
          /\ bible.summary \ Conflicts \subseteq UNION ToSet(story.conflicts)
        BY <3>1 DEF ValidBible, SummaryHolds
    <3>3. \A k \in DOMAIN story.conflicts : <<"conf", k>> \in bible.summary
        BY <3>2 DEF Conflicts
    <3>4. ASSUME NEW r \in bible.summary
          PROVE  \E k \in DOMAIN story.conflicts : r \in {<<"conf", k>>} \union story.conflicts[k]
      <4>1. CASE r \in Conflicts
        BY <4>1 DEF Conflicts
      <4>2. CASE r \notin Conflicts
        BY <4>2, <3>2 DEF ToSet
      <4> QED
        BY <4>1, <4>2
    <3> QED
        BY <3>3, <3>4
  <2> QED
    BY <2>2, <2>3, <2>4 DEF ReadingsStayGrounded
<1> QED
    BY <1>1, AnalysisIsConsistent, PTL

(***************************************************************************)
(* MeaningSurvives: the main proposals of the bible are the ones meant by  *)
(* the provider's ordinals, nothing accepted is lost to the last check,    *)
(* and every request costs two calls at most, all of them reported.        *)
(***************************************************************************)
THEOREM MeaningIsKept == AnalysisSpec => []MeaningSurvives
PROOF
<1>1. AnalysisInv => MeaningSurvives
  <2> SUFFICES ASSUME AnalysisInv PROVE MeaningSurvives
    OBVIOUS
  <2>1. StoryOK /\ WindowsOK /\ DossiersOK /\ ReadingsOK /\ WholeOK /\ AccountsOK
    BY DEF AnalysisInv
  <2>2. stage # "incoherent"
    BY <2>1 DEF WindowsOK, Running
  <2>3. ASSUME bible # Unset, NEW kind \in Major
        PROVE  /\ Len(bible.major[kind]) = Len(outline.asked[kind])
               /\ \A k \in DOMAIN bible.major[kind] :
                      outline.proposals[kind][bible.major[kind][k]].ordinal
                          = outline.asked[kind][k]
    <3>1. stage \in HasBible /\ stage \in HasOutline
        BY <2>1, <2>3 DEF WholeOK, HasBible, HasOutline
    <3>2. PICK o \in Outlines : ValidOutline(o) /\ outline = BuildOutline(o)
        BY <2>1, <3>1 DEF WholeOK, IsOutline
    <3>3. bible.major = outline.major
        BY <2>1, <3>1 DEF WholeOK, IsBible
    <3>4. outline.asked = o.major /\ outline.proposals = o.proposals
        BY <3>2 DEF BuildOutline
    <3> QED
        BY <3>2, <3>3, <3>4, MainProposals
  <2>4. calls <= 2 * (story.cast + Len(windows) + 2)
    BY <2>1 DEF AccountsOK, Requests
  <2>5. ASSUME stage = "done"
        PROVE  rounds = calls /\ story.cast + Len(windows) + 2 <= rounds
    <3>1. /\ calls \in Nat /\ rounds \in Nat /\ round = 1 /\ calls + 1 = rounds + round
          /\ Answered <= rounds
        BY <2>1, <2>5 DEF AccountsOK, Running
    <3>2. Len(dossiers) = story.cast /\ Len(readings) = Len(windows)
        BY <2>1, <2>5 DEF DossiersOK, ReadingsOK, Running
    <3>3. story.cast \in Nat /\ Len(windows) \in Nat
        BY <2>1, CaseFacts, WindowsAreAList
    <3>4. Answered = story.cast + Len(windows) + 1 + 1
        BY <3>2, <3>3, <2>5 DEF Answered, HasOutline, HasBible
    <3> QED
        BY <3>1, <3>3, <3>4
  <2> QED
    BY <2>2, <2>3, <2>4, <2>5 DEF MeaningSurvives
<1> QED
    BY <1>1, AnalysisIsConsistent, PTL
=============================================================================

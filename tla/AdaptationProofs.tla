--------------------------- MODULE AdaptationProofs ---------------------------
(***************************************************************************)
(* The safety properties of B1, for any studies, callers, moves, windows   *)
(* and processes: first of the callers of Adaptation, who share pointers   *)
(* and a source that moves, and of the plans they publish, then of the     *)
(* windows' run of B13Runner.                                              *)
(***************************************************************************)
EXTENDS Adaptation, B13Runner, FiniteSetTheorems, SequenceTheorems,
        WellFoundedInduction, TLAPS

(***************************************************************************)
(* The callers.  Sources, pointers and the log only grow.                  *)
(***************************************************************************)
IsSequence(s) == \E S : s \in Seq(S)
Extends(t, s) == Len(s) <= Len(t) /\ \A k \in 1..Len(s) : t[k] = s[k]

LEMMA SequenceTypes ==
    ASSUME NEW s, IsSequence(s)
    PROVE  Len(s) \in Nat /\ DOMAIN s = 1..Len(s) /\ (s = <<>> <=> Len(s) = 0)
PROOF
    BY DEF IsSequence

LEMMA AppendExtends ==
    ASSUME NEW s, IsSequence(s), NEW x
    PROVE  /\ IsSequence(Append(s, x)) /\ Extends(Append(s, x), s)
           /\ Len(Append(s, x)) = Len(s) + 1 /\ Append(s, x)[Len(s) + 1] = x
PROOF
<1>1. PICK S : s \in Seq(S)
    BY DEF IsSequence
<1>2. PICK T : T = S \union {x}
    OBVIOUS
<1>3. s \in Seq(T) /\ x \in T
    BY <1>1, <1>2
<1>4. Append(s, x) \in Seq(T)
    BY <1>3
<1> QED
    BY <1>3, <1>4 DEF IsSequence, Extends

LEMMA ExtendsItself ==
    ASSUME NEW s, IsSequence(s)
    PROVE  Extends(s, s)
PROOF
    BY SequenceTypes DEF Extends

\* A step grows what callers share.
Grow ==
    /\ source <= source' /\ Extends(log', log)
    /\ Extends(current12', current12) /\ Extends(current13', current13)
    /\ DOMAIN publications \subseteq DOMAIN publications'
    /\ \A slot \in DOMAIN publications : publications'[slot] = publications[slot]

\* What the log has said is over, and its last entry is now.
LogOK ==
    /\ Len(log) \in Nat \ {0}
    /\ \A k \in 1..Len(log) : /\ log[k][1] \in Nat /\ log[k][2] \in Nat /\ log[k][3] \in Nat
                              /\ log[k][1] <= source
                              /\ log[k][2] <= Len(current12)
                              /\ log[k][3] <= Len(current13)
    /\ \A j, k \in 1..Len(log) : j <= k => /\ log[j][1] <= log[k][1]
                                           /\ log[j][2] <= log[k][2]
                                           /\ log[j][3] <= log[k][3]
    /\ log[Len(log)] = <<source, Len(current12), Len(current13)>>

SharedInv ==
    /\ source \in Nat
    /\ IsSequence(log) /\ IsSequence(current12) /\ IsSequence(current13)
    /\ LogOK

CallerFields == DOMAIN Idle("target")
Making12 == {"begin12", "peek12", "read12", "reused12", "round12", "ask12", "asked12", "claim12",
             "slot12", "put12", "guard12", "cas12"}
Checking == {"source13", "select13", "again13", "confirm13"}
Checked == {"peek13", "match13", "recheck13", "ask13", "judge13", "same13", "stable13", "done13"}
Making13 == Checking \union Checked
                \union {"preflight13", "review13", "publish13", "slot13", "put13", "cas13", "mine13"}

\* The invariant of one caller, of its record m.  The checks of an authority
\* that come after the first have a selection to compare with.
HasSelected(m) ==
    m.pc \in Making13 /\ ~(m.pc \in {"source13", "select13"} /\ m.then = "peek13")

\* The caller has read B1.3's pointer.
HasPeeked(m) ==
    m.pc \in Making13 \ {"peek13"} /\ ~(m.pc \in Checking /\ m.then = "peek13")

\* The instant a selection of a strategy was made at.
Selection(m, k) ==
    /\ k \in m.since..Len(log)
    /\ m.current => log[k][2] = m.pinned
    /\ HasPeeked(m) => m.seen <= log[k][3]

\* The reference the caller keeps was the pointer's, at an instant up to k.
PeekedBy(m, k) == m.seen # 0 /\ \E j \in m.since..k : log[j][2] = m.seen

WasPeeked(m) == PeekedBy(m, Len(log))

WasStrategy(m) ==
    \E k \in m.since..Len(log) : /\ log[k][2] # 0
                                 /\ current12[log[k][2]] = m.selected
                                 /\ PeekedBy(m, k)

SlotOf(m) == <<m.source, m.revision>>
HasPublished(m) ==
    /\ SlotOf(m) \in DOMAIN publications
    /\ publications[SlotOf(m)].source = m.source
    /\ publications[SlotOf(m)].selected = m.selected

\* What B1.2 answered was the current strategy at the instant k.
StrategyHolds(m, k) ==
    /\ log[k][2] # 0
    /\ current12[log[k][2]] = m.selected
    /\ IF m.answered.reused
       THEN /\ log[k][1] = m.source
            /\ m.answered.pointer # 0
            /\ \E j \in m.since..k : log[j][2] = m.answered.pointer
       ELSE log[k][2] = m.answered.pointer

AnswerHolds(m) ==
    \E k \in m.since..Len(log) :
        \/ m.answered.stage = 12 /\ StrategyHolds(m, k)
        \/ /\ m.answered.stage = 13
           /\ log[k][1] = m.source /\ log[k][3] = m.answered.pointer
           /\ log[k][3] # 0
           /\ current13[log[k][3]] \in DOMAIN publications
           /\ PlanAt(log[k][3]).source = m.source
           /\ PlanAt(log[k][3]).selected = m.selected
           /\ m.current => log[k][2] = m.pinned

FieldsOK(m) ==
    /\ DOMAIN m = CallerFields
    /\ m.source \in Nat /\ m.source <= source
    /\ m.since \in 1..Len(log)
    /\ m.seen \in Nat /\ (HasPeeked(m) => m.seen <= Len(current13))
    /\ m.pinned \in 0..Len(current12)

PlaceOK(m) ==
    /\ m.pc \in Making12 \union Making13 \union {"have12"} => m.source <= log[m.since][1]
    /\ m.pc \in {"read12", "have12"} \union Making13 => current12 # <<>>
    /\ m.pc \in Making12 \union {"target", "prepare12", "have12"} => m.pinned = 0
    /\ m.pc \in Checking => m.then \in Checked

SelectionOK(m) ==
    /\ m.pinned # 0 => current12[m.pinned] = m.selected
    /\ HasSelected(m) /\ m.current => m.pinned # 0
    /\ m.pc = "read12" => WasPeeked(m)
    /\ m.pc = "reused12" => WasStrategy(m)
    /\ m.pc = "again13" => \E k \in 1..Len(log) : Selection(m, k)
    /\ m.pc \in {"confirm13", "recheck13", "same13", "done13"} /\ ~(m.pc = "recheck13" /\ m.seen = 0) =>
           \E k \in 1..Len(log) : Selection(m, k) /\ log[k][1] = m.source

PublicationOK(m) ==
    /\ m.pc \in Checking /\ m.then = "stable13" => HasPublished(m)
    /\ m.pc \in {"stable13", "cas13", "mine13", "done13"} => HasPublished(m)
    /\ m.pc \in Checking /\ m.then = "done13" => HasPublished(m)
    /\ m.pc \in {"mine13", "done13"} \/ (m.pc \in Checking /\ m.then = "done13") =>
           m.seen # 0 /\ current13[m.seen] = SlotOf(m)

AnswerOK(m) ==
    m.answered # None => m.pc \in {"have12", "have13", "ordered", "refused"} /\ AnswerHolds(m)

CallerInv(m) == FieldsOK(m) /\ PlaceOK(m) /\ SelectionOK(m) /\ PublicationOK(m) /\ AnswerOK(m)

PointersHold == \A k \in 1..Len(current13) : current13[k] \in DOMAIN publications

CallersInv ==
    /\ SharedInv /\ PointersHold
    /\ callers = [c \in DOMAIN callers |-> callers[c]]
    /\ \A c \in DOMAIN callers : CallerInv(callers[c])

-----------------------------------------------------------------------------
\* What holds of a caller still holds when the others have taken a step.
LEMMA LengthsGrow ==
    ASSUME SharedInv, SharedInv', Grow
    PROVE  /\ Len(log) \in Nat /\ Len(log') \in Nat /\ Len(log) <= Len(log')
           /\ Len(current12) \in Nat /\ Len(current12') \in Nat
           /\ Len(current12) <= Len(current12')
           /\ Len(current13) \in Nat /\ Len(current13') \in Nat
           /\ Len(current13) <= Len(current13')
           /\ source \in Nat /\ source' \in Nat /\ source <= source'
PROOF
<1>1. IsSequence(log) /\ IsSequence(current12) /\ IsSequence(current13) /\ source \in Nat
    BY DEF SharedInv
<1>2. IsSequence(log') /\ IsSequence(current12') /\ IsSequence(current13') /\ source' \in Nat
    BY DEF SharedInv
<1>3. /\ Len(log) <= Len(log') /\ Len(current12) <= Len(current12')
      /\ Len(current13) <= Len(current13') /\ source <= source'
    BY DEF Grow, Extends
<1> QED
    BY <1>1, <1>2, <1>3, SequenceTypes

LEMMA InstantStays ==
    ASSUME SharedInv, SharedInv', Grow, NEW k \in 1..Len(log)
    PROVE  /\ log'[k] = log[k] /\ k \in 1..Len(log')
           /\ log[k][2] \in Nat /\ log[k][2] <= Len(current12)
           /\ log[k][3] \in Nat /\ log[k][3] <= Len(current13)
PROOF
<1>1. Len(log) \in Nat /\ Len(log') \in Nat /\ Len(log) <= Len(log')
    BY LengthsGrow
<1>2. log'[k] = log[k]
    BY DEF Grow, Extends
<1>3. /\ log[k][2] \in Nat /\ log[k][2] <= Len(current12)
      /\ log[k][3] \in Nat /\ log[k][3] <= Len(current13)
    BY DEF SharedInv, LogOK
<1> QED
    BY <1>1, <1>2, <1>3

LEMMA AtMost ==
    ASSUME NEW a \in Nat, NEW b \in Nat, NEW c \in Nat, a <= b, b <= c
    PROVE  a <= c
PROOF
    OBVIOUS

LEMMA PointedStays ==
    ASSUME SharedInv, SharedInv', Grow, NEW k \in 1..Len(log)
    PROVE  /\ log[k][2] # 0 => current12'[log[k][2]] = current12[log[k][2]]
           /\ log[k][3] # 0 => current13'[log[k][3]] = current13[log[k][3]]
PROOF
<1>1. /\ log[k][2] \in Nat /\ log[k][2] <= Len(current12) /\ Len(current12) \in Nat
      /\ log[k][3] \in Nat /\ log[k][3] <= Len(current13) /\ Len(current13) \in Nat
    BY InstantStays, LengthsGrow
<1>2. /\ \A j \in 1..Len(current12) : current12'[j] = current12[j]
      /\ \A j \in 1..Len(current13) : current13'[j] = current13[j]
    BY DEF Grow, Extends
<1>3. /\ log[k][2] # 0 => log[k][2] \in 1..Len(current12)
      /\ log[k][3] # 0 => log[k][3] \in 1..Len(current13)
    BY ONLY <1>1
<1> QED
    BY <1>2, <1>3

LEMMA StrategyHoldsOn ==
    ASSUME NEW m, SharedInv, SharedInv', Grow, m.since \in 1..Len(log),
           NEW k \in m.since..Len(log), StrategyHolds(m, k)
    PROVE  StrategyHolds(m, k)'
PROOF
<1>1. Len(log) \in Nat /\ k \in 1..Len(log) /\ m.since..k \subseteq 1..Len(log)
    BY LengthsGrow
<1>2. log'[k] = log[k]
    BY <1>1, InstantStays
<1>3. log[k][2] # 0 => current12'[log[k][2]] = current12[log[k][2]]
    BY <1>1, PointedStays
<1>4. ASSUME NEW j \in m.since..k PROVE log'[j] = log[j]
  <2>1. j \in 1..Len(log)
    BY <1>1, <1>4
  <2> QED
    BY <2>1, InstantStays
<1>5. (\E j \in m.since..k : log[j][2] = m.answered.pointer) =>
          \E j \in m.since..k : log'[j][2] = m.answered.pointer
    BY <1>4
<1> QED
    BY <1>2, <1>3, <1>5 DEF StrategyHolds

LEMMA PeekedHoldsOn ==
    ASSUME NEW m, SharedInv, SharedInv', Grow, m.since \in 1..Len(log),
           NEW k \in Nat, k \leq Len(log), NEW n \in Nat, k \leq n, PeekedBy(m, k)
    PROVE  PeekedBy(m, n)'
PROOF
<1>1. m.seen # 0
    BY DEF PeekedBy
<1>2. PICK j \in m.since..k : log[j][2] = m.seen
    BY DEF PeekedBy
<1>3. Len(log) \in Nat
    BY LengthsGrow
<1>4. j \in 1..Len(log) /\ j \in m.since..n
    BY <1>3
<1>5. log'[j] = log[j]
    BY <1>4, InstantStays
<1> QED
    BY <1>1, <1>2, <1>4, <1>5 DEF PeekedBy

LEMMA AnswerHoldsOn ==
    ASSUME NEW m, SharedInv, SharedInv', Grow, m.since \in 1..Len(log), AnswerHolds(m)
    PROVE  AnswerHolds(m)'
PROOF
<1>1. PICK k \in m.since..Len(log) :
        \/ m.answered.stage = 12 /\ StrategyHolds(m, k)
        \/ /\ m.answered.stage = 13
           /\ log[k][1] = m.source /\ log[k][3] = m.answered.pointer
           /\ log[k][3] # 0
           /\ current13[log[k][3]] \in DOMAIN publications
           /\ PlanAt(log[k][3]).source = m.source
           /\ PlanAt(log[k][3]).selected = m.selected
           /\ m.current => log[k][2] = m.pinned
    BY DEF AnswerHolds
<1>2. k \in 1..Len(log) /\ k \in m.since..Len(log')
    BY LengthsGrow
<1>3. log'[k] = log[k]
    BY <1>2, InstantStays
<1>4. /\ log[k][2] # 0 => current12'[log[k][2]] = current12[log[k][2]]
      /\ log[k][3] # 0 => current13'[log[k][3]] = current13[log[k][3]]
    BY <1>2, PointedStays
<1>5. log[k][3] # 0 /\ current13[log[k][3]] \in DOMAIN publications =>
          /\ current13'[log[k][3]] \in DOMAIN publications'
          /\ PlanAt(log[k][3])' = PlanAt(log[k][3])
    BY <1>4, <1>3 DEF Grow, PlanAt
<1>6. CASE m.answered.stage = 12 /\ StrategyHolds(m, k)
    BY <1>2, <1>6, StrategyHoldsOn DEF AnswerHolds
<1>7. CASE /\ m.answered.stage = 13
           /\ log[k][1] = m.source /\ log[k][3] = m.answered.pointer
           /\ log[k][3] # 0
           /\ current13[log[k][3]] \in DOMAIN publications
           /\ PlanAt(log[k][3]).source = m.source
           /\ PlanAt(log[k][3]).selected = m.selected
           /\ m.current => log[k][2] = m.pinned
  <2>1. /\ current13'[log[k][3]] \in DOMAIN publications'
        /\ PlanAt(log[k][3])' = PlanAt(log[k][3])
    BY <1>7, <1>5
  <2>2. /\ m.answered.stage = 13
        /\ log'[k][1] = m.source /\ log'[k][3] = m.answered.pointer
        /\ log'[k][3] # 0
        /\ m.current => log'[k][2] = m.pinned
    BY <1>7, <1>3
  <2>3. /\ current13'[log'[k][3]] \in DOMAIN publications'
        /\ PlanAt(log[k][3])'.source = m.source
        /\ PlanAt(log[k][3])'.selected = m.selected
    BY <2>1, <1>7, <1>3
  <2> QED
    BY <2>2, <2>3, <1>2 DEF AnswerHolds
<1> QED
    BY <1>1, <1>6, <1>7

LEMMA SelectionHoldsOn ==
    ASSUME NEW m, SharedInv, SharedInv', Grow, NEW k, k \in 1..Len(log), Selection(m, k)
    PROVE  Selection(m, k)' /\ log'[k] = log[k] /\ k \in 1..Len(log')
PROOF
<1>1. log'[k] = log[k] /\ k \in 1..Len(log')
    BY InstantStays
<1> QED
    BY <1>1 DEF Selection, HasPeeked

LEMMA WasStrategyOn ==
    ASSUME NEW m, SharedInv, SharedInv', Grow, m.since \in 1..Len(log), WasStrategy(m)
    PROVE  WasStrategy(m)'
PROOF
<1>1. PICK k \in m.since..Len(log) : /\ log[k][2] # 0 /\ current12[log[k][2]] = m.selected
                                     /\ PeekedBy(m, k)
    BY DEF WasStrategy
<1>2. k \in 1..Len(log) /\ k \in m.since..Len(log') /\ k \in Nat /\ k \leq Len(log)
    BY LengthsGrow
<1>3. /\ k \in 1..Len(log) /\ log'[k] = log[k] /\ k \in m.since..Len(log')
      /\ log[k][2] \in Nat /\ log[k][2] <= Len(current12)
    BY <1>2, InstantStays
<1>4. current12'[log[k][2]] = current12[log[k][2]]
    BY <1>1, <1>3, PointedStays
<1>5. PeekedBy(m, k)'
    BY <1>1, <1>2, PeekedHoldsOn
<1> QED
    BY <1>1, <1>3, <1>4, <1>5 DEF WasStrategy

LEMMA HoldsOn ==
    ASSUME NEW m, SharedInv, SharedInv', Grow, CallerInv(m)
    PROVE  CallerInv(m)'
PROOF
<1>1. /\ Len(log) \in Nat /\ Len(log') \in Nat /\ Len(log) <= Len(log')
      /\ Len(current12) \in Nat /\ Len(current12') \in Nat /\ Len(current12) <= Len(current12')
      /\ Len(current13) \in Nat /\ Len(current13') \in Nat /\ Len(current13) <= Len(current13')
      /\ source \in Nat /\ source' \in Nat /\ source <= source'
      /\ (current12 = <<>> <=> Len(current12) = 0) /\ (current12' = <<>> <=> Len(current12') = 0)
    BY SequenceTypes DEF SharedInv, Grow, Extends
<1>2. m.since \in 1..Len(log) /\ m.seen \in Nat /\ m.pinned \in 0..Len(current12)
    BY DEF CallerInv, FieldsOK
<1>3. FieldsOK(m)'
  <2>1. /\ DOMAIN m = CallerFields /\ m.source \in Nat /\ m.source <= source
        /\ HasPeeked(m) => m.seen <= Len(current13)
    BY DEF CallerInv, FieldsOK
  <2>2. m.since \in 1..Len(log') /\ m.pinned \in 0..Len(current12')
    BY ONLY <1>1, <1>2
  <2>3. m.source <= source'
    BY ONLY <2>1, <1>1, AtMost
  <2>4. HasPeeked(m)' => m.seen <= Len(current13')
    BY <2>1, <1>1, <1>2, AtMost DEF HasPeeked
  <2> QED
    BY <2>1, <2>2, <2>3, <2>4, <1>2 DEF FieldsOK
<1>4. log'[m.since] = log[m.since]
    BY <1>2 DEF Grow, Extends
<1>5. PlaceOK(m)'
    BY <1>1, <1>4 DEF CallerInv, PlaceOK
<1>6. SelectionOK(m)'
  <2>1. m.pinned # 0 => current12'[m.pinned] = m.selected
    BY <1>1, <1>2 DEF CallerInv, SelectionOK, Grow, Extends
  <2>2. m.pc = "again13" => \E k \in 1..Len(log') : Selection(m, k)'
    BY SelectionHoldsOn DEF CallerInv, SelectionOK
  <2>3. m.pc \in {"confirm13", "recheck13", "same13", "done13"}
        /\ ~(m.pc = "recheck13" /\ m.seen = 0) =>
           \E k \in 1..Len(log') : Selection(m, k)' /\ log'[k][1] = m.source
    BY SelectionHoldsOn DEF CallerInv, SelectionOK
  <2>4. m.pc = "reused12" => WasStrategy(m)'
    BY <1>2, WasStrategyOn DEF CallerInv, SelectionOK
  <2>5. HasSelected(m) /\ m.current => m.pinned # 0
    BY DEF CallerInv, SelectionOK
  <2>6. m.pc = "read12" => WasPeeked(m)'
    BY <1>1, <1>2, PeekedHoldsOn DEF CallerInv, SelectionOK, WasPeeked
  <2> QED
    BY <2>1, <2>2, <2>3, <2>4, <2>5, <2>6 DEF SelectionOK, HasSelected
<1>7. PublicationOK(m)'
  <2>1. HasPublished(m) => HasPublished(m)'
    BY DEF HasPublished, Grow, SlotOf
  <2>2. m.pc \in {"mine13", "done13"} \/ (m.pc \in Checking /\ m.then = "done13") =>
           m.seen # 0 /\ m.seen <= Len(current13) /\ current13[m.seen] = SlotOf(m)
    BY DEF CallerInv, PublicationOK, FieldsOK, HasPeeked, Making13, Checking, Checked
  <2>3. m.pc \in {"mine13", "done13"} \/ (m.pc \in Checking /\ m.then = "done13") =>
           m.seen # 0 /\ current13'[m.seen] = SlotOf(m)
    BY <1>1, <1>2, <2>2 DEF Grow, Extends
  <2> QED
    BY <2>1, <2>3 DEF CallerInv, PublicationOK, SlotOf
<1>8. AnswerOK(m)'
    BY <1>2, AnswerHoldsOn DEF CallerInv, AnswerOK
<1> QED
    BY <1>3, <1>5, <1>6, <1>7, <1>8 DEF CallerInv

-----------------------------------------------------------------------------
\* What callers share is not changed by most of their steps.
LEMMA SharedStays ==
    ASSUME SharedInv, UNCHANGED <<source, current12, publications, current13, log>>
    PROVE  SharedInv' /\ Grow
PROOF
<1>1. SharedInv'
    BY DEF SharedInv, LogOK
<1>2. Grow
    BY ExtendsItself DEF SharedInv, Grow
<1> QED
    BY <1>1, <1>2

\* A step that is logged moves the source or sets a pointer.
Lengthened(t, s) == t = s \/ \E x : t = Append(s, x)

LEMMA LengthenedExtends ==
    ASSUME NEW s, NEW t, IsSequence(s), Lengthened(t, s)
    PROVE  IsSequence(t) /\ Extends(t, s)
PROOF
    BY AppendExtends, ExtendsItself DEF Lengthened

LEMMA LoggedStep ==
    ASSUME SharedInv, Logged, source' \in Nat, source <= source',
           Lengthened(current12', current12), Lengthened(current13', current13),
           publications' = publications
    PROVE  SharedInv' /\ Grow
PROOF
<1>1. /\ IsSequence(current12') /\ Extends(current12', current12)
      /\ IsSequence(current13') /\ Extends(current13', current13)
    BY LengthenedExtends DEF SharedInv
<1>2. /\ IsSequence(log') /\ Extends(log', log) /\ Len(log') = Len(log) + 1
      /\ log'[Len(log) + 1] = <<source', Len(current12'), Len(current13')>>
    BY AppendExtends DEF SharedInv, Logged
<1>3. Grow
    BY <1>1, <1>2 DEF Grow
<1>4. /\ Len(log) \in Nat \ {0}
      /\ Len(current12) \in Nat /\ Len(current12') \in Nat /\ Len(current12) <= Len(current12')
      /\ Len(current13) \in Nat /\ Len(current13') \in Nat /\ Len(current13) <= Len(current13')
    BY <1>1, SequenceTypes DEF SharedInv, LogOK, Extends
<1>5. \A k \in 1..Len(log) : log'[k] = log[k]
    BY <1>2 DEF Extends
<1>6. \A k \in 1..Len(log') : k \in 1..Len(log) \/ k = Len(log) + 1
    BY <1>2, <1>4
<1>7. ASSUME NEW k \in 1..Len(log')
      PROVE  /\ log'[k][1] \in Nat /\ log'[k][2] \in Nat /\ log'[k][3] \in Nat
             /\ log'[k][1] <= source' /\ log'[k][2] <= Len(current12')
             /\ log'[k][3] <= Len(current13')
  <2>1. CASE k \in 1..Len(log)
    <3>1. /\ log'[k] = log[k]
          /\ log[k][1] \in Nat /\ log[k][2] \in Nat /\ log[k][3] \in Nat
          /\ log[k][1] <= source /\ log[k][2] <= Len(current12)
          /\ log[k][3] <= Len(current13) /\ source \in Nat
        BY <2>1, <1>5 DEF SharedInv, LogOK
    <3>2. log'[k][1] \in Nat /\ log'[k][2] \in Nat /\ log'[k][3] \in Nat
        BY <3>1
    <3>3. log'[k][1] <= source /\ log'[k][2] <= Len(current12) /\ log'[k][3] <= Len(current13)
        BY <3>1
    <3>4. source \in Nat /\ source' \in Nat /\ source <= source'
        BY <3>1
    <3>5. /\ log'[k][1] <= source' /\ log'[k][2] <= Len(current12')
          /\ log'[k][3] <= Len(current13')
        BY ONLY <3>2, <3>3, <3>4, <1>4, AtMost
    <3> QED
        BY ONLY <3>2, <3>5
  <2>2. CASE k = Len(log) + 1
    BY <2>2, <1>2, <1>4
  <2> QED
    BY <2>1, <2>2, <1>6
<1>8. ASSUME NEW j \in 1..Len(log'), NEW k \in 1..Len(log'), j <= k
      PROVE  /\ log'[j][1] <= log'[k][1] /\ log'[j][2] <= log'[k][2]
             /\ log'[j][3] <= log'[k][3]
  <2>1. CASE k = Len(log) + 1
    BY <2>1, <1>2, <1>7
  <2>2. CASE k \in 1..Len(log)
    <3>1. j \in 1..Len(log)
        BY <2>2, <1>2, <1>4, <1>8
    <3>2. /\ log[j][1] <= log[k][1] /\ log[j][2] <= log[k][2] /\ log[j][3] <= log[k][3]
        BY <3>1, <2>2, <1>8 DEF SharedInv, LogOK
    <3> QED
        BY ONLY <3>1, <3>2, <2>2, <1>5
  <2> QED
    BY <2>1, <2>2, <1>6
<1>9. LogOK'
    BY <1>2, <1>4, <1>7, <1>8 DEF LogOK
<1> QED
    BY <1>1, <1>2, <1>3, <1>9 DEF SharedInv

-----------------------------------------------------------------------------
\* A caller's step: its record before and after.
Becomes(c, me, m) == c \in DOMAIN callers /\ me = callers[c] /\ m = callers'[c]

LEMMA GoesOn ==
    ASSUME NEW c, NEW me, NEW m, Becomes(c, me, m), NEW changes, Goes(c, changes),
           DOMAIN changes \subseteq DOMAIN me
    PROVE  /\ DOMAIN m = DOMAIN me
           /\ \A f \in DOMAIN changes : m[f] = changes[f]
           /\ \A f \in DOMAIN me \ DOMAIN changes : m[f] = me[f]
PROOF
<1>1. m = Updated(me, changes)
    BY DEF Becomes, Goes
<1> QED
    BY <1>1 DEF Updated

Relevant == {"pc", "then", "source", "since", "seen", "revision", "selected", "pinned",
             "current", "answered"}
\* Only the fields fs, of those the invariant is about, may have changed.
Keeps(m, me, fs) ==
    DOMAIN m = DOMAIN me /\ \A f \in Relevant \ fs : m[f] = me[f]

LEMMA GoesKeeps ==
    ASSUME NEW c, NEW me, NEW m, Becomes(c, me, m), NEW changes, Goes(c, changes),
           DOMAIN changes \subseteq CallerFields, DOMAIN me = CallerFields,
           NEW fs, DOMAIN changes \intersect Relevant \subseteq fs
    PROVE  /\ Keeps(m, me, fs)
           /\ \A f \in DOMAIN changes : m[f] = changes[f]
PROOF
<1>1. Relevant \subseteq CallerFields
    BY DEF Relevant, CallerFields, Idle
<1> QED
    BY <1>1, GoesOn DEF Keeps

LEMMA AnswerStays ==
    ASSUME NEW me, NEW m, AnswerHolds(me), m.since = me.since, m.answered = me.answered,
           m.source = me.source, m.selected = me.selected, m.current = me.current,
           m.pinned = me.pinned
    PROVE  AnswerHolds(m)
PROOF
    BY DEF AnswerHolds, StrategyHolds

\* A caller that stops keeps nothing to be wrong about.
LEMMA Stopping ==
    ASSUME NEW me, NEW m, SharedInv, CallerInv(me), Keeps(m, me, {"pc", "then"}),
           \/ m.pc = "failed" /\ me.answered = None
           \/ m.pc = "rejected" /\ me.answered = None
           \/ m.pc \in {"refused", "ordered"}
    PROVE  CallerInv(m)
PROOF
<1>1. /\ DOMAIN m = DOMAIN me /\ m.source = me.source /\ m.since = me.since
      /\ m.seen = me.seen /\ m.revision = me.revision /\ m.selected = me.selected
      /\ m.pinned = me.pinned /\ m.current = me.current /\ m.answered = me.answered
    BY DEF Keeps, Relevant
<1>2. /\ m.pc \notin Making12 \union Making13 \union {"have12", "read12", "reused12"}
      /\ ~HasPeeked(m) /\ ~HasSelected(m) /\ m.pc \notin Checking
    BY DEF Making12, Making13, Checking, Checked, HasPeeked, HasSelected
<1>3. FieldsOK(m)
    BY <1>1, <1>2 DEF CallerInv, FieldsOK
<1>4. PlaceOK(m)
    BY <1>2 DEF PlaceOK
<1>5. SelectionOK(m)
    BY <1>1, <1>2 DEF CallerInv, SelectionOK, Making13, Checking, Checked
<1>6. PublicationOK(m)
    BY <1>2 DEF PublicationOK, Making13, Checking, Checked
<1>7. AnswerOK(m)
  <2>1. SUFFICES ASSUME m.answered # None
                 PROVE  m.pc \in {"have12", "have13", "ordered", "refused"} /\ AnswerHolds(m)
    BY DEF AnswerOK
  <2>2. me.answered # None /\ AnswerHolds(me)
    BY <2>1, <1>1 DEF CallerInv, AnswerOK
  <2> QED
    BY <2>1, <2>2, <1>1, AnswerStays
<1> QED
    BY <1>3, <1>4, <1>5, <1>6, <1>7 DEF CallerInv

\* B1.2's steps, but those that read the current strategy.
LEMMA Making ==
    ASSUME NEW me, NEW m, SharedInv, CallerInv(me),
           me.pc \in Making12, m.pc \in Making12 \ {"read12", "reused12"},
           Keeps(m, me, {"pc", "seen", "revision"}), m.seen \in Nat
    PROVE  CallerInv(m)
PROOF
<1>1. /\ DOMAIN m = DOMAIN me /\ m.source = me.source /\ m.since = me.since
      /\ m.selected = me.selected
      /\ m.pinned = me.pinned /\ m.current = me.current /\ m.answered = me.answered
    BY DEF Keeps, Relevant
<1>2. /\ m.pc \notin Making13 \union {"have12", "read12", "reused12"}
      /\ ~HasPeeked(m) /\ ~HasSelected(m) /\ m.pc \notin Checking
    BY DEF Making12, Making13, Checking, Checked, HasPeeked, HasSelected
<1>3. FieldsOK(m)
    BY <1>1, <1>2 DEF CallerInv, FieldsOK
<1>4. PlaceOK(m)
    BY <1>1, <1>2 DEF CallerInv, PlaceOK
<1>5. SelectionOK(m)
    BY <1>1, <1>2 DEF CallerInv, SelectionOK, Making13, Checking, Checked
<1>6. PublicationOK(m)
    BY <1>2 DEF PublicationOK, Making13, Checking, Checked
<1>7. AnswerOK(m)
    BY <1>1 DEF CallerInv, AnswerOK, Making12
<1> QED
    BY <1>3, <1>4, <1>5, <1>6, <1>7 DEF CallerInv

\* The steps of B1.1 and B1.2.
CallerSteps(c, me, m) == Becomes(c, me, m) /\ SharedInv /\ CallerInv(me)

LEMMA GoesTo ==
    ASSUME NEW c, NEW me, NEW m, CallerSteps(c, me, m), NEW pc0, Goes(c, To(pc0))
    PROVE  Keeps(m, me, {"pc"}) /\ m.pc = pc0
PROOF
<1>1. DOMAIN me = CallerFields
    BY DEF CallerSteps, CallerInv, FieldsOK
<1>2. DOMAIN To(pc0) = {"pc"} /\ To(pc0)["pc"] = pc0
    BY DEF To
<1>3. {"pc"} \subseteq CallerFields
    BY DEF CallerFields, Idle
<1> QED
    BY <1>1, <1>2, <1>3, GoesKeeps DEF CallerSteps

LEMMA KeepsMore ==
    ASSUME NEW me, NEW m, NEW fs, Keeps(m, me, fs), NEW gs, fs \subseteq gs
    PROVE  Keeps(m, me, gs)
PROOF
    BY DEF Keeps

LEMMA FailingStep ==
    ASSUME NEW c, NEW me, NEW m, CallerSteps(c, me, m), Goes(c, Fails), me.answered = None
    PROVE  CallerInv(m)
PROOF
<1>1. Keeps(m, me, {"pc"}) /\ m.pc = "failed"
    BY GoesTo DEF Fails
<1>2. Keeps(m, me, {"pc", "then"})
    BY <1>1, KeepsMore
<1> QED
    BY <1>1, <1>2, Stopping DEF CallerSteps

LEMMA RefusingStep ==
    ASSUME NEW c, NEW me, NEW m, CallerSteps(c, me, m), Goes(c, To("refused"))
    PROVE  CallerInv(m)
PROOF
<1>1. Keeps(m, me, {"pc"}) /\ m.pc = "refused"
    BY GoesTo
<1>2. Keeps(m, me, {"pc", "then"})
    BY <1>1, KeepsMore
<1> QED
    BY <1>1, <1>2, Stopping DEF CallerSteps

LEMMA MakingStep ==
    ASSUME NEW c, NEW me, NEW m, CallerSteps(c, me, m), me.pc \in Making12,
           NEW pc0 \in Making12 \ {"read12", "reused12"}, Goes(c, To(pc0))
    PROVE  CallerInv(m)
PROOF
<1>1. Keeps(m, me, {"pc"}) /\ m.pc = pc0
    BY GoesTo
<1>2. Keeps(m, me, {"pc", "seen", "revision"})
    BY <1>1, KeepsMore
<1>3. m.seen = me.seen /\ me.seen \in Nat
    BY <1>1 DEF Keeps, Relevant, CallerSteps, CallerInv, FieldsOK
<1> QED
    BY <1>1, <1>2, <1>3, Making DEF CallerSteps

LEMMA UnansweredWhileMaking ==
    ASSUME NEW me, CallerInv(me),
           me.pc \in Making12 \union Making13 \union {"target", "prepare12"}
    PROVE  me.answered = None
PROOF
    BY DEF CallerInv, AnswerOK, Making12, Making13, Checking, Checked

LEMMA GuardStep ==
    ASSUME NEW c, NEW me, NEW m, CallerSteps(c, me, m), NEW from \in Making12,
           NEW to \in Making12 \ {"read12", "reused12"}, Guard(c, from, to)
    PROVE  CallerInv(m)
PROOF
<1>1. me.pc \in Making12 /\ (Goes(c, To(to)) \/ Goes(c, Fails))
    BY DEF Guard, At, CallerSteps, Becomes
<1> QED
    BY <1>1, MakingStep, FailingStep, UnansweredWhileMaking DEF CallerSteps

LEMMA ResolveTargetStep ==
    ASSUME NEW c, NEW me, NEW m, CallerSteps(c, me, m), ResolveTarget(c)
    PROVE  CallerInv(m)
PROOF
<1>1. me.pc = "target" /\ me.answered = None
    BY UnansweredWhileMaking DEF ResolveTarget, At, CallerSteps, Becomes
<1>2. PICK t : \/ Goes(c, [pc |-> "prepare12", target |-> t, source |-> source])
               \/ Goes(c, To("rejected"))
    BY DEF ResolveTarget
<1>3. CASE Goes(c, [pc |-> "prepare12", target |-> t, source |-> source])
  <2> DEFINE ch == [pc |-> "prepare12", target |-> t, source |-> source]
  <2>1. DOMAIN ch = {"pc", "target", "source"} /\ ch.pc = "prepare12" /\ ch.source = source
    OBVIOUS
  <2>2. Goes(c, ch)
    BY <1>3
  <2> HIDE DEF ch
  <2>3. DOMAIN ch \subseteq CallerFields /\ DOMAIN ch \intersect Relevant \subseteq {"pc", "source"}
    BY <2>1 DEF CallerFields, Idle, Relevant
  <2>4. Keeps(m, me, {"pc", "source"}) /\ \A f \in DOMAIN ch : m[f] = ch[f]
    <3>1. DOMAIN me = CallerFields /\ Becomes(c, me, m)
        BY DEF CallerSteps, CallerInv, FieldsOK
    <3> QED
        BY <3>1, <2>2, <2>3, GoesKeeps
  <2>5. /\ m.pc = "prepare12" /\ m.source = source /\ DOMAIN m = DOMAIN me
        /\ m.since = me.since /\ m.seen = me.seen /\ m.selected = me.selected
        /\ m.pinned = me.pinned /\ m.answered = None
    BY <2>1, <2>4, <1>1 DEF Keeps, Relevant
  <2>6. FieldsOK(m)
    BY <2>5 DEF CallerSteps, CallerInv, FieldsOK, SharedInv, HasPeeked, Making13, Checking, Checked
  <2>7. PlaceOK(m)
    BY <1>1, <2>5 DEF CallerSteps, CallerInv, PlaceOK, Making12, Making13, Checking, Checked
  <2>8. SelectionOK(m)
    BY <2>5 DEF CallerSteps, CallerInv, SelectionOK, HasSelected, Making13, Checking, Checked
  <2>9. PublicationOK(m) /\ AnswerOK(m)
    BY <2>5 DEF PublicationOK, AnswerOK, Making13, Checking, Checked
  <2> QED
    BY <2>6, <2>7, <2>8, <2>9 DEF CallerInv
<1>4. CASE Goes(c, To("rejected"))
  <2>1. Keeps(m, me, {"pc"}) /\ m.pc = "rejected"
    BY <1>4, GoesTo
  <2>2. Keeps(m, me, {"pc", "then"})
    BY <2>1, KeepsMore
  <2> QED
    BY <2>1, <2>2, <1>1, Stopping DEF CallerSteps
<1> QED
    BY <1>2, <1>3, <1>4

LEMMA GoesChanged ==
    ASSUME NEW c, NEW me, NEW m, CallerSteps(c, me, m), NEW changes, Goes(c, changes),
           DOMAIN changes \subseteq CallerFields,
           NEW fs, DOMAIN changes \intersect Relevant \subseteq fs
    PROVE  Keeps(m, me, fs) /\ \A f \in DOMAIN changes : m[f] = changes[f]
PROOF
<1>1. DOMAIN me = CallerFields /\ Becomes(c, me, m)
    BY DEF CallerSteps, CallerInv, FieldsOK
<1> QED
    BY <1>1, GoesKeeps

LEMMA Prepare12Step ==
    ASSUME NEW c, NEW me, NEW m, CallerSteps(c, me, m), Prepare12(c)
    PROVE  CallerInv(m)
PROOF
<1>1. me.pc = "prepare12" /\ me.answered = None
    BY UnansweredWhileMaking DEF Prepare12, At, CallerSteps, Becomes
<1>2. CASE /\ IsCurrentSource(c) /\ Goes(c, [pc |-> "begin12", since |-> Len(log)])
  <2> DEFINE ch == [pc |-> "begin12", since |-> Len(log)]
  <2>1. DOMAIN ch = {"pc", "since"} /\ ch.pc = "begin12" /\ ch.since = Len(log)
    OBVIOUS
  <2>2. Goes(c, ch) /\ me.source = source
    BY <1>2 DEF IsCurrentSource, CallerSteps, Becomes
  <2> HIDE DEF ch
  <2>3. DOMAIN ch \subseteq CallerFields /\ DOMAIN ch \intersect Relevant \subseteq {"pc", "since"}
    BY <2>1 DEF CallerFields, Idle, Relevant
  <2>4. Keeps(m, me, {"pc", "since"}) /\ \A f \in DOMAIN ch : m[f] = ch[f]
    BY <2>2, <2>3, GoesChanged
  <2>5. /\ m.pc = "begin12" /\ m.source = source /\ DOMAIN m = DOMAIN me
        /\ m.since = Len(log) /\ m.seen = me.seen /\ m.selected = me.selected
        /\ m.pinned = me.pinned /\ m.answered = None
    BY <2>1, <2>2, <2>4, <1>1 DEF Keeps, Relevant
  <2>6. FieldsOK(m)
    BY <2>5 DEF CallerSteps, CallerInv, FieldsOK, SharedInv, LogOK, HasPeeked,
                Making13, Checking, Checked
  <2>7. log[Len(log)][1] = source /\ source \in Nat
    BY DEF CallerSteps, SharedInv, LogOK
  <2>8. PlaceOK(m)
    BY <1>1, <2>5, <2>7 DEF CallerSteps, CallerInv, PlaceOK, Making12, Making13, Checking, Checked
  <2>9. SelectionOK(m)
    BY <2>5 DEF CallerSteps, CallerInv, SelectionOK, HasSelected, Making13, Checking, Checked
  <2>10. PublicationOK(m) /\ AnswerOK(m)
    BY <2>5 DEF PublicationOK, AnswerOK, Making13, Checking, Checked
  <2> QED
    BY <2>6, <2>8, <2>9, <2>10 DEF CallerInv
<1>3. CASE Goes(c, To("refused"))
    BY <1>3, RefusingStep
<1> QED
    BY <1>2, <1>3 DEF Prepare12

LEMMA PeekStrategyStep ==
    ASSUME NEW c, NEW me, NEW m, CallerSteps(c, me, m), PeekStrategy(c)
    PROVE  CallerInv(m)
PROOF
<1>1. me.pc = "peek12" /\ me.pc \in Making12
    BY DEF PeekStrategy, At, CallerSteps, Becomes, Making12
<1>2. CASE Goes(c, To("round12"))
    BY <1>1, <1>2, MakingStep DEF Making12
<1>3. CASE current12 # <<>> /\ Goes(c, [pc |-> "read12", seen |-> Len(current12)])
  <2>1. PICK ch : ch = [pc |-> "read12", seen |-> Len(current12)]
    OBVIOUS
  <2>2. /\ DOMAIN ch = {"pc", "seen"} /\ ch.pc = "read12" /\ ch.seen = Len(current12)
        /\ Goes(c, ch)
    BY <2>1, <1>3
  <2>3. /\ m.pc = "read12" /\ m.seen = Len(current12)
        /\ DOMAIN m = DOMAIN me /\ m.source = me.source /\ m.since = me.since
        /\ m.selected = me.selected
        /\ m.pinned = me.pinned /\ m.current = me.current /\ m.answered = me.answered
    <3>1. DOMAIN ch \subseteq CallerFields /\ DOMAIN ch \intersect Relevant \subseteq {"pc", "seen"}
        BY <2>2 DEF CallerFields, Idle, Relevant
    <3>2. Keeps(m, me, {"pc", "seen"}) /\ m.pc = "read12" /\ m.seen = Len(current12)
        BY <2>2, <3>1, GoesChanged
    <3> QED
        BY <3>2 DEF Keeps, Relevant
  <2>4. me.answered = None
    BY <1>1, UnansweredWhileMaking DEF CallerSteps
  <2>5. /\ Len(current12) \in Nat /\ Len(current12) # 0
        /\ Len(log) \in Nat /\ log[Len(log)][2] = Len(current12)
    BY <1>3, SequenceTypes DEF CallerSteps, SharedInv, LogOK
  <2>6. FieldsOK(m)
    BY <2>3, <2>5 DEF CallerSteps, CallerInv, FieldsOK, HasPeeked, Making13, Checking, Checked
  <2>7. PlaceOK(m)
    BY <1>1, <1>3, <2>3 DEF CallerSteps, CallerInv, PlaceOK, Making12, Making13, Checking
  <2>8. WasPeeked(m)
    <3>1. Len(log) \in m.since..Len(log)
        BY <2>6, <2>5 DEF FieldsOK
    <3> QED
        BY <3>1, <2>3, <2>5 DEF WasPeeked, PeekedBy
  <2>9. SelectionOK(m)
    BY <2>3, <2>8 DEF CallerSteps, CallerInv, SelectionOK, HasSelected, Making13, Checking, Checked
  <2>10. PublicationOK(m) /\ AnswerOK(m)
    BY <2>3, <2>4 DEF PublicationOK, AnswerOK, Making13, Checking, Checked
  <2> QED
    BY <2>6, <2>7, <2>9, <2>10 DEF CallerInv
<1> QED
    BY <1>2, <1>3 DEF PeekStrategy

LEMMA ReadStrategyStep ==
    ASSUME NEW c, NEW me, NEW m, CallerSteps(c, me, m), ReadStrategy(c)
    PROVE  CallerInv(m)
PROOF
<1>1. me.pc = "read12" /\ me.pc \in Making12
    BY DEF ReadStrategy, At, CallerSteps, Becomes, Making12
<1>2. me.answered = None
    BY <1>1, UnansweredWhileMaking DEF CallerSteps
<1>3. CASE Goes(c, To("round12"))
    BY <1>1, <1>3, MakingStep DEF Making12
<1>4. CASE Goes(c, [pc |-> "reused12", selected |-> Last(current12)])
  <2> DEFINE ch == [pc |-> "reused12", selected |-> Last(current12)]
  <2>1. DOMAIN ch = {"pc", "selected"} /\ ch.pc = "reused12" /\ ch.selected = Last(current12)
    OBVIOUS
  <2>2. Goes(c, ch)
    BY <1>4
  <2> HIDE DEF ch
  <2>3. DOMAIN ch \subseteq CallerFields /\ DOMAIN ch \intersect Relevant \subseteq {"pc", "selected"}
    BY <2>1 DEF CallerFields, Idle, Relevant
  <2>4. Keeps(m, me, {"pc", "selected"}) /\ \A f \in DOMAIN ch : m[f] = ch[f]
    BY <2>2, <2>3, GoesChanged
  <2>5. /\ m.pc = "reused12" /\ m.source = me.source /\ DOMAIN m = DOMAIN me
        /\ m.since = me.since /\ m.seen = me.seen /\ m.selected = Last(current12)
        /\ m.pinned = me.pinned /\ m.answered = None
    BY <2>1, <2>4, <1>2 DEF Keeps, Relevant
  <2>6. FieldsOK(m)
    BY <2>5 DEF CallerSteps, CallerInv, FieldsOK, HasPeeked, Making13, Checking, Checked
  <2>7. PlaceOK(m)
    BY <1>1, <2>5 DEF CallerSteps, CallerInv, PlaceOK, Making12, Making13, Checking, Checked
  <2>8. current12 # <<>> /\ Last(current12) = current12[Len(current12)]
    BY <1>1 DEF CallerSteps, CallerInv, PlaceOK, Last
  <2>9. WasStrategy(m)
    <3>1. /\ Len(log) \in m.since..Len(log) /\ log[Len(log)][2] = Len(current12)
          /\ Len(current12) # 0
        BY <2>5, <2>6, <2>8, SequenceTypes DEF FieldsOK, CallerSteps, SharedInv, LogOK
    <3>2. PeekedBy(me, Len(log))
        BY <1>1 DEF CallerSteps, CallerInv, SelectionOK, WasPeeked
    <3>3. PeekedBy(m, Len(log))
        BY <3>2, <2>5 DEF PeekedBy
    <3> QED
        BY <3>1, <3>3, <2>5, <2>8 DEF WasStrategy
  <2>10. m.pinned = 0
    BY <1>1, <2>5 DEF CallerSteps, CallerInv, PlaceOK
  <2>11. SelectionOK(m)
    BY <2>5, <2>9, <2>10 DEF CallerSteps, CallerInv, SelectionOK, HasSelected, Making13, Checking, Checked
  <2>12. PublicationOK(m) /\ AnswerOK(m)
    BY <2>5 DEF PublicationOK, AnswerOK, Making13, Checking, Checked
  <2> QED
    BY <2>6, <2>7, <2>11, <2>12 DEF CallerInv
<1>5. CASE Goes(c, Fails)
    BY <1>2, <1>5, FailingStep
<1> QED
    BY <1>3, <1>4, <1>5 DEF ReadStrategy

LEMMA AnswerReusedStep ==
    ASSUME NEW c, NEW me, NEW m, CallerSteps(c, me, m), AnswerReused(c)
    PROVE  CallerInv(m)
PROOF
<1>1. me.pc = "reused12" /\ me.pc \in Making12
    BY DEF AnswerReused, At, CallerSteps, Becomes, Making12
<1>2. me.answered = None
    BY <1>1, UnansweredWhileMaking DEF CallerSteps
<1>3. CASE Goes(c, Fails)
    BY <1>2, <1>3, FailingStep
<1>4. CASE IsCurrentSource(c) /\ Goes(c, Reused(c))
  <2> DEFINE ch == Reused(c)
  <2>1. DOMAIN ch = {"pc", "answered"} /\ ch.pc = "have12"
        /\ ch.answered = [stage |-> 12, reused |-> TRUE, pointer |-> me.seen]
    BY DEF Reused, CallerSteps, Becomes
  <2>2. Goes(c, ch) /\ me.source = source
    BY <1>4 DEF IsCurrentSource, CallerSteps, Becomes
  <2> HIDE DEF ch
  <2>3. DOMAIN ch \subseteq CallerFields /\ DOMAIN ch \intersect Relevant \subseteq {"pc", "answered"}
    BY <2>1 DEF CallerFields, Idle, Relevant
  <2>4. Keeps(m, me, {"pc", "answered"}) /\ \A f \in DOMAIN ch : m[f] = ch[f]
    BY <2>2, <2>3, GoesChanged
  <2>5. /\ m.pc = "have12" /\ m.source = me.source /\ DOMAIN m = DOMAIN me
        /\ m.since = me.since /\ m.seen = me.seen /\ m.selected = me.selected
        /\ m.pinned = me.pinned /\ m.current = me.current
        /\ m.selected = me.selected
        /\ m.answered = [stage |-> 12, reused |-> TRUE, pointer |-> me.seen]
    BY <2>1, <2>4 DEF Keeps, Relevant
  <2>6. FieldsOK(m)
    BY <2>5 DEF CallerSteps, CallerInv, FieldsOK, HasPeeked, Making13, Checking, Checked
  <2>7. PICK k \in me.since..Len(log) : /\ log[k][2] # 0 /\ current12[log[k][2]] = me.selected
                                        /\ PeekedBy(me, k)
    BY <1>1 DEF CallerSteps, CallerInv, SelectionOK, WasStrategy
  <2>8. /\ me.since \in 1..Len(log) /\ k \in 1..Len(log) /\ me.since <= k
        /\ Len(log) \in Nat /\ source \in Nat /\ me.source <= log[me.since][1]
    BY <1>1 DEF CallerSteps, CallerInv, FieldsOK, PlaceOK, SharedInv, LogOK
  <2>9. log[k][1] \in Nat /\ log[me.since][1] <= log[k][1] /\ log[k][1] <= source
        /\ log[me.since][1] \in Nat /\ log[k][2] \in Nat /\ log[k][2] <= Len(current12)
    BY <2>8 DEF CallerSteps, SharedInv, LogOK
  <2>10. log[k][1] = me.source
    BY <2>2, <2>8, <2>9
  <2>11. current12 # <<>>
    BY <2>7, <2>9, SequenceTypes DEF CallerSteps, SharedInv
  <2>12. PlaceOK(m)
    BY <1>1, <2>5, <2>11 DEF CallerSteps, CallerInv, PlaceOK, Making12, Making13, Checking, Checked
  <2>13. SelectionOK(m)
    BY <2>5 DEF CallerSteps, CallerInv, SelectionOK, HasSelected, Making13, Checking, Checked
  <2>14. AnswerHolds(m)
    <3>1. StrategyHolds(m, k)
        BY <2>5, <2>7, <2>10 DEF StrategyHolds, PeekedBy
    <3> QED
        BY <3>1, <2>5 DEF AnswerHolds
  <2>15. PublicationOK(m) /\ AnswerOK(m)
    BY <2>5, <2>14 DEF PublicationOK, AnswerOK, Making13, Checking, Checked
  <2> QED
    BY <2>6, <2>12, <2>13, <2>15 DEF CallerInv
<1> QED
    BY <1>3, <1>4 DEF AnswerReused

LEMMA BeginRoundStep ==
    ASSUME NEW c, NEW me, NEW m, CallerSteps(c, me, m), BeginRound(c)
    PROVE  CallerInv(m)
PROOF
<1>1. me.pc \in Making12 /\ (Goes(c, To("ask12")) \/ Goes(c, Fails))
    BY DEF BeginRound, At, CallerSteps, Becomes, Making12
<1>2. "ask12" \in Making12 \ {"read12", "reused12"}
    BY DEF Making12
<1> QED
    BY <1>1, <1>2, MakingStep, FailingStep, UnansweredWhileMaking DEF CallerSteps

LEMMA AskStrategyStep ==
    ASSUME NEW c, NEW me, NEW m, CallerSteps(c, me, m), AskStrategy(c)
    PROVE  CallerInv(m)
PROOF
<1>1. me.pc \in Making12
    BY DEF AskStrategy, At, CallerSteps, Becomes, Making12
<1>2. PICK strategy : \/ Goes(c, [pc |-> "asked12", strategy |-> strategy])
                      \/ Goes(c, [pc |-> "round12", round |-> callers[c].round + 1])
                      \/ Goes(c, Fails)
    BY DEF AskStrategy
<1>3. ASSUME NEW ch, Goes(c, ch), "pc" \in DOMAIN ch, DOMAIN ch \subseteq {"pc", "strategy", "round"},
             ch.pc \in {"asked12", "round12"}
      PROVE  CallerInv(m)
  <2>1. DOMAIN ch \subseteq CallerFields /\ DOMAIN ch \intersect Relevant \subseteq {"pc"}
    BY <1>3 DEF CallerFields, Idle, Relevant
  <2>2. Keeps(m, me, {"pc"}) /\ m.pc = ch.pc
    BY <1>3, <2>1, GoesChanged
  <2>3. Keeps(m, me, {"pc", "seen", "revision"}) /\ m.seen = me.seen /\ me.seen \in Nat
    BY <2>2, KeepsMore DEF Keeps, Relevant, CallerSteps, CallerInv, FieldsOK
  <2> QED
    BY <1>1, <1>3, <2>2, <2>3, Making DEF CallerSteps, Making12
<1>4. CASE Goes(c, [pc |-> "asked12", strategy |-> strategy])
  <2>1. PICK ch : ch = [pc |-> "asked12", strategy |-> strategy]
    OBVIOUS
  <2> QED
    BY <2>1, <1>3, <1>4
<1>5. CASE Goes(c, [pc |-> "round12", round |-> callers[c].round + 1])
  <2>1. PICK ch : ch = [pc |-> "round12", round |-> callers[c].round + 1]
    OBVIOUS
  <2> QED
    BY <2>1, <1>3, <1>5
<1> QED
    BY <1>1, <1>2, <1>4, <1>5, FailingStep, UnansweredWhileMaking DEF CallerSteps

LEMMA ClaimStrategyStep ==
    ASSUME NEW c, NEW me, NEW m, CallerSteps(c, me, m), ClaimStrategy(c) \/ AllocateStrategy(c)
    PROVE  CallerInv(m)
PROOF
<1>1. me.pc \in Making12
    BY DEF ClaimStrategy, AllocateStrategy, At, CallerSteps, Becomes, Making12
<1>2. CASE ClaimStrategy(c)
  <2>1. PICK ch : ch = [pc |-> "slot12", seen |-> Len(current12)]
    OBVIOUS
  <2>2. /\ DOMAIN ch = {"pc", "seen"} /\ ch.pc = "slot12" /\ ch.seen = Len(current12)
        /\ Goes(c, ch)
    BY <2>1, <1>2 DEF ClaimStrategy
  <2>3. DOMAIN ch \subseteq CallerFields /\ DOMAIN ch \intersect Relevant \subseteq {"pc", "seen", "revision"}
    BY <2>2 DEF CallerFields, Idle, Relevant
  <2>4. Keeps(m, me, {"pc", "seen", "revision"}) /\ m.pc = "slot12" /\ m.seen = Len(current12)
    BY <2>2, <2>3, GoesChanged
  <2>5. Len(current12) \in Nat
    BY SequenceTypes DEF CallerSteps, SharedInv
  <2> QED
    BY <1>1, <2>4, <2>5, Making DEF CallerSteps, Making12
<1>3. CASE AllocateStrategy(c)
  <2>1. PICK ch : ch = [pc |-> "put12", revision |-> Len(strategies) + 1]
    OBVIOUS
  <2>2. DOMAIN ch = {"pc", "revision"} /\ ch.pc = "put12" /\ Goes(c, ch)
    BY <2>1, <1>3 DEF AllocateStrategy
  <2>3. /\ DOMAIN ch \subseteq CallerFields
        /\ DOMAIN ch \intersect Relevant \subseteq {"pc", "revision"}
    BY <2>2 DEF CallerFields, Idle, Relevant
  <2>4. Keeps(m, me, {"pc", "revision"}) /\ m.pc = "put12"
    BY <2>2, <2>3, GoesChanged
  <2>5. Keeps(m, me, {"pc", "seen", "revision"}) /\ m.seen = me.seen /\ me.seen \in Nat
    BY <2>4, KeepsMore DEF Keeps, Relevant, CallerSteps, CallerInv, FieldsOK
  <2> QED
    BY <1>1, <2>4, <2>5, Making DEF CallerSteps, Making12
<1> QED
    BY <1>2, <1>3

LEMMA PutStrategyStep ==
    ASSUME NEW c, NEW me, NEW m, CallerSteps(c, me, m), PutStrategy(c)
    PROVE  CallerInv(m)
PROOF
<1>1. me.pc \in Making12 /\ (Goes(c, To("guard12")) \/ Goes(c, Fails))
    BY DEF PutStrategy, At, CallerSteps, Becomes, Making12
<1>2. "guard12" \in Making12 \ {"read12", "reused12"}
    BY DEF Making12
<1> QED
    BY <1>1, <1>2, MakingStep, FailingStep, UnansweredWhileMaking DEF CallerSteps

LEMMA SetStrategyStep ==
    ASSUME NEW c, NEW me, NEW m, CallerSteps(c, me, m), SetStrategy(c), SharedInv', Grow
    PROVE  CallerInv(m)'
PROOF
<1>1. me.pc \in Making12 /\ me.answered = None
    BY UnansweredWhileMaking DEF SetStrategy, At, CallerSteps, Becomes, Making12
<1>2. CASE Goes(c, Fails)
    BY <1>1, <1>2, FailingStep, HoldsOn DEF CallerSteps
<1>3. CASE /\ Len(current12) = callers[c].seen
           /\ current12' = Append(current12, callers[c].revision)
           /\ Goes(c, [pc |-> "have12", selected |-> callers[c].revision,
                       answered |-> [stage |-> 12, reused |-> FALSE,
                                     pointer |-> callers[c].seen + 1]])
  <2>1. PICK ch : ch = [pc |-> "have12", selected |-> callers[c].revision,
                        answered |-> [stage |-> 12, reused |-> FALSE,
                                      pointer |-> callers[c].seen + 1]]
    OBVIOUS
  <2>2. /\ DOMAIN ch = {"pc", "selected", "answered"} /\ ch.pc = "have12" /\ Goes(c, ch)
        /\ ch.selected = callers[c].revision
        /\ ch.answered = [stage |-> 12, reused |-> FALSE, pointer |-> Len(current12) + 1]
    BY <2>1, <1>3
  <2>3. /\ DOMAIN ch \subseteq CallerFields
        /\ DOMAIN ch \intersect Relevant \subseteq {"pc", "selected", "answered"}
    BY <2>2 DEF CallerFields, Idle, Relevant
  <2>4. Keeps(m, me, {"pc", "selected", "answered"}) /\ \A f \in DOMAIN ch : m[f] = ch[f]
    BY <2>2, <2>3, GoesChanged
  <2>5. /\ m.pc = "have12" /\ m.source = me.source /\ DOMAIN m = DOMAIN me
        /\ m.since = me.since /\ m.seen = me.seen /\ m.pinned = me.pinned
        /\ m.selected = callers[c].revision
        /\ m.answered = [stage |-> 12, reused |-> FALSE, pointer |-> Len(current12) + 1]
    BY <2>2, <2>4 DEF Keeps, Relevant
  <2>6. me.pinned = 0 /\ me.since \in 1..Len(log) /\ me.source <= log[me.since][1]
    BY <1>1 DEF CallerSteps, CallerInv, FieldsOK, PlaceOK
  <2>7. /\ log'[me.since] = log[me.since] /\ me.since \in 1..Len(log') /\ Len(log') \in Nat
    <3>1. Len(log) \in Nat /\ Len(log') \in Nat
        BY SequenceTypes DEF CallerSteps, SharedInv
    <3>2. Len(log) <= Len(log') /\ log'[me.since] = log[me.since]
        BY <2>6 DEF Grow, Extends
    <3> QED
        BY ONLY <3>1, <3>2, <2>6
  <2>8. current12' # <<>>
    BY <1>3, AppendExtends, SequenceTypes DEF CallerSteps, SharedInv
  <2>9. /\ Len(current12') \in Nat /\ me.source \in Nat /\ me.source <= source /\ source <= source'
        /\ source \in Nat /\ source' \in Nat /\ me.seen \in Nat /\ DOMAIN me = CallerFields
    BY SequenceTypes DEF CallerSteps, CallerInv, FieldsOK, SharedInv, Grow
  <2>10. m.source \in Nat /\ m.source <= source'
    BY <2>5, <2>9
  <2>11. FieldsOK(m)'
    BY <2>5, <2>6, <2>7, <2>9, <2>10 DEF FieldsOK, HasPeeked, Making13, Checking, Checked
  <2>12. PlaceOK(m)'
    BY <2>5, <2>6, <2>7, <2>8 DEF PlaceOK, Making12, Making13, Checking, Checked
  <2>13. SelectionOK(m)'
    BY <2>5, <2>6 DEF SelectionOK, HasSelected, Making13, Checking, Checked
  <2>14. AnswerHolds(m)'
    <3>1. Len(log') \in m.since..Len(log')
        BY <2>5, <2>7
    <3>2. /\ Len(current12) \in Nat /\ Len(current12') = Len(current12) + 1
          /\ current12'[Len(current12) + 1] = callers[c].revision
        BY <1>3, AppendExtends, SequenceTypes DEF CallerSteps, SharedInv
    <3>3. log'[Len(log')][2] = Len(current12')
        BY DEF SharedInv, LogOK
    <3>4. StrategyHolds(m, Len(log))'
        BY <2>5, <3>2, <3>3 DEF StrategyHolds
    <3> QED
        BY <3>1, <3>4, <2>5 DEF AnswerHolds
  <2>15. PublicationOK(m)' /\ AnswerOK(m)'
    BY <2>5, <2>14 DEF PublicationOK, AnswerOK, Making13, Checking, Checked
  <2> QED
    BY <2>11, <2>12, <2>13, <2>15 DEF CallerInv
<1> QED
    BY <1>2, <1>3 DEF SetStrategy

-----------------------------------------------------------------------------
\* The steps of B1.3.
OnlyChanges(changes, fs) ==
    /\ DOMAIN changes \subseteq CallerFields \ {"pc", "then"}
    /\ DOMAIN changes \intersect Relevant \subseteq fs

LEMMA ChecksChanges ==
    ASSUME NEW c, NEW me, NEW m, CallerSteps(c, me, m), NEW then, NEW changes,
           Checks(c, then, changes), NEW fs, OnlyChanges(changes, fs)
    PROVE  /\ Keeps(m, me, fs \union {"pc", "then"}) /\ m.pc = "source13" /\ m.then = then
           /\ \A f \in DOMAIN changes : m[f] = changes[f]
PROOF
<1>1. PICK ch : ch = Updated(changes, Check(then))
    OBVIOUS
<1>2. Goes(c, ch)
    BY <1>1 DEF Checks
<1>3. /\ DOMAIN Check(then) = {"pc", "then"} /\ Check(then)["pc"] = "source13"
      /\ Check(then)["then"] = then
    BY DEF Check
<1>4. /\ DOMAIN ch = DOMAIN changes \union {"pc", "then"}
      /\ ch["pc"] = "source13" /\ ch["then"] = then
      /\ \A f \in DOMAIN changes : ch[f] = changes[f]
    BY <1>1, <1>3 DEF Updated, OnlyChanges
<1>5. {"pc", "then"} \subseteq CallerFields
    BY DEF CallerFields, Idle
<1>6. /\ DOMAIN ch \subseteq CallerFields
      /\ DOMAIN ch \intersect Relevant \subseteq fs \union {"pc", "then"}
    BY <1>4, <1>5 DEF OnlyChanges
<1>7. Keeps(m, me, fs \union {"pc", "then"}) /\ \A f \in DOMAIN ch : m[f] = ch[f]
    BY <1>2, <1>6, GoesChanged
<1> QED
    BY <1>4, <1>7

LEMMA Moving ==
    ASSUME NEW me, NEW m, SharedInv, CallerInv(me), me.pc \in Making13 \union {"have12"},
           m.pc \in Making13, DOMAIN m = DOMAIN me, m.source = me.source,
           m.since \in 1..Len(log), me.since <= m.since,
           m.seen \in Nat, HasPeeked(m) => m.seen <= Len(current13),
           m.pinned \in 0..Len(current12), m.answered = None,
           m.pc \in Checking => m.then \in Checked, SelectionOK(m), PublicationOK(m)
    PROVE  CallerInv(m)
PROOF
<1>1. FieldsOK(m)
    BY DEF CallerInv, FieldsOK
<1>2. me.since \in 1..Len(log) /\ me.source \in Nat /\ me.source <= log[me.since][1]
    BY DEF CallerInv, FieldsOK, PlaceOK
<1>3. /\ log[me.since][1] \in Nat /\ log[m.since][1] \in Nat
      /\ log[me.since][1] <= log[m.since][1]
    BY <1>2 DEF SharedInv, LogOK
<1>4. m.source <= log[m.since][1]
    BY <1>2, <1>3
<1>5. m.pc \notin Making12 \union {"target", "prepare12", "have12"}
    BY DEF Making12, Making13, Checking, Checked
<1>6. PlaceOK(m)
    BY <1>4, <1>5 DEF CallerInv, PlaceOK
<1>7. AnswerOK(m)
    BY DEF AnswerOK
<1> QED
    BY <1>1, <1>6, <1>7 DEF CallerInv

LEMMA Continuing ==
    ASSUME NEW me, NEW m, SharedInv, CallerInv(me), me.pc \in Making13,
           m.pc \in Making13 \ {"again13", "confirm13", "same13", "done13"},
           m.pc = "recheck13" => m.seen = 0,
           Keeps(m, me, {"pc", "then", "since", "seen", "revision"}),
           m.since = me.since \/ m.since = Len(log),
           m.seen = Len(current13) \/ (m.seen = me.seen /\ (HasPeeked(m) => HasPeeked(me))),
           HasSelected(m) => HasSelected(me),
           m.pc \in Checking => m.then \in Checked, PublicationOK(m)
    PROVE  CallerInv(m)
PROOF
<1>1. /\ DOMAIN m = DOMAIN me /\ m.source = me.source /\ m.selected = me.selected
      /\ m.pinned = me.pinned /\ m.current = me.current /\ m.answered = me.answered
    BY DEF Keeps, Relevant
<1>2. me.answered = None
    BY UnansweredWhileMaking
<1>3. me.since \in 1..Len(log) /\ Len(log) \in Nat \ {0} /\ Len(current13) \in Nat
    BY SequenceTypes DEF SharedInv, LogOK, CallerInv, FieldsOK
<1>4. m.since \in 1..Len(log) /\ me.since <= m.since
    BY <1>3
<1>5. m.seen \in Nat /\ (HasPeeked(m) => m.seen <= Len(current13))
    BY <1>3 DEF CallerInv, FieldsOK
<1>6. m.pinned \in 0..Len(current12)
    BY <1>1 DEF CallerInv, FieldsOK
<1>7. m.pc \notin {"read12", "reused12"}
    BY DEF Making13, Checking, Checked
<1>8. SelectionOK(m)
    BY <1>1, <1>7 DEF CallerInv, SelectionOK
<1> QED
    BY <1>1, <1>2, <1>4, <1>5, <1>6, <1>8, Moving

\* Places of which nothing is said about a publication.
LEMMA Unpublished ==
    ASSUME NEW m, m.pc \notin {"stable13", "cas13", "mine13", "done13"},
           m.pc \in Checking => m.then \notin {"stable13", "done13"}
    PROVE  PublicationOK(m)
PROOF
    BY DEF PublicationOK

LEMMA Prepare13Step ==
    ASSUME NEW c, NEW me, NEW m, CallerSteps(c, me, m), Prepare13(c)
    PROVE  CallerInv(m)
PROOF
<1>1. me.pc = "have12"
    BY DEF Prepare13, At, CallerSteps, Becomes
<1>2. PICK mode \in input.modes :
          Checks(c, "peek13", [current |-> mode = "current", since |-> Len(log),
                               answered |-> None])
    BY DEF Prepare13
<1>3. PICK ch : ch = [current |-> mode = "current", since |-> Len(log), answered |-> None]
    OBVIOUS
<1>4. /\ DOMAIN ch = {"current", "since", "answered"} /\ ch.since = Len(log)
      /\ ch.answered = None /\ Checks(c, "peek13", ch)
    BY <1>2, <1>3
<1>5. OnlyChanges(ch, {"current", "since", "answered"})
    BY <1>4 DEF OnlyChanges, CallerFields, Idle, Relevant
<1>6. /\ Keeps(m, me, {"current", "since", "answered"} \union {"pc", "then"})
      /\ m.pc = "source13" /\ m.then = "peek13" /\ \A f \in DOMAIN ch : m[f] = ch[f]
  <2>1. Checks(c, "peek13", ch)
    BY <1>4
  <2> QED
    BY ONLY CallerSteps(c, me, m), <2>1, <1>5, ChecksChanges
<1>7. /\ DOMAIN m = DOMAIN me /\ m.source = me.source /\ m.seen = me.seen
      /\ m.pinned = me.pinned /\ m.selected = me.selected
      /\ m.since = Len(log) /\ m.answered = None
    BY <1>4, <1>6 DEF Keeps, Relevant
<1>8. m.pc \in Making13 /\ m.then \in Checked
    BY <1>6 DEF Making13, Checking, Checked
<1>9. /\ ~HasSelected(m) /\ ~HasPeeked(m)
      /\ m.pc \notin {"again13", "confirm13", "recheck13", "same13", "done13", "read12", "reused12"}
    BY <1>6 DEF HasSelected, HasPeeked, Checking
<1>10. SelectionOK(m)
    BY <1>7, <1>9 DEF CallerSteps, CallerInv, SelectionOK
<1>11. PublicationOK(m)
    BY <1>6, Unpublished
<1>12. /\ m.since \in 1..Len(log) /\ me.since <= m.since /\ m.seen \in Nat
       /\ m.pinned \in 0..Len(current12)
    BY <1>7 DEF CallerSteps, CallerInv, FieldsOK, SharedInv, LogOK
<1> QED
    BY <1>1, <1>7, <1>8, <1>9, <1>10, <1>11, <1>12, Moving DEF CallerSteps

LEMMA GoesCheck ==
    ASSUME NEW c, NEW me, NEW m, CallerSteps(c, me, m), NEW then, Goes(c, Check(then))
    PROVE  Keeps(m, me, {"pc", "then"}) /\ m.pc = "source13" /\ m.then = then
PROOF
<1>1. PICK ch : ch = Check(then)
    OBVIOUS
<1>2. DOMAIN ch = {"pc", "then"} /\ ch["pc"] = "source13" /\ ch["then"] = then
    BY <1>1 DEF Check
<1>3. /\ DOMAIN ch \subseteq CallerFields
      /\ DOMAIN ch \intersect Relevant \subseteq {"pc", "then"}
    BY <1>2 DEF CallerFields, Idle
<1>4. Keeps(m, me, {"pc", "then"}) /\ \A f \in DOMAIN ch : m[f] = ch[f]
    BY <1>1, <1>3, GoesChanged
<1> QED
    BY <1>2, <1>4

\* A check after the first, that does not lead to a publication's check.
LEMMA CheckingStep ==
    ASSUME NEW c, NEW me, NEW m, CallerSteps(c, me, m), me.pc \in Making13, HasSelected(me),
           NEW then \in Checked \ {"peek13", "stable13", "done13"},
           m.pc = "source13", m.then = then,
           Keeps(m, me, {"pc", "then", "seen"}),
           m.seen = Len(current13) \/ (m.seen = me.seen /\ HasPeeked(me))
    PROVE  CallerInv(m)
PROOF
<1>1. Keeps(m, me, {"pc", "then", "since", "seen", "revision"}) /\ m.since = me.since
    BY KeepsMore DEF Keeps, Relevant
<1>2. PublicationOK(m)
    BY Unpublished DEF Checking
<1>3. m.pc \in Making13 \ {"again13", "confirm13", "same13", "done13", "recheck13"}
    BY DEF Making13, Checking
<1> QED
    BY <1>1, <1>2, <1>3, Continuing DEF CallerSteps

LEMMA GoingOn ==
    ASSUME NEW c, NEW me, NEW m, CallerSteps(c, me, m), me.pc \in Making13,
           NEW pc0 \in Making13 \ {"again13", "confirm13", "same13", "done13"}, Goes(c, To(pc0)),
           pc0 = "recheck13" => me.seen = 0,
           HasPeeked(m) => HasPeeked(me), HasSelected(m) => HasSelected(me),
           pc0 \in Checking => me.then \in Checked, PublicationOK(m)
    PROVE  CallerInv(m)
PROOF
<1>1. Keeps(m, me, {"pc"}) /\ m.pc = pc0
    BY GoesTo
<1>2. /\ Keeps(m, me, {"pc", "then", "since", "seen", "revision"})
      /\ m.since = me.since /\ m.seen = me.seen /\ m.then = me.then
    BY <1>1, KeepsMore DEF Keeps, Relevant
<1> QED
    BY <1>1, <1>2, Continuing DEF CallerSteps

LEMMA UnpublishedTo ==
    ASSUME NEW c, NEW me, NEW m, CallerSteps(c, me, m), me.pc \in Making13,
           me.pc \notin Checking, me.pc # "peek13",
           NEW pc0 \in {"recheck13", "preflight13", "review13", "slot13"}, Goes(c, To(pc0)),
           pc0 = "recheck13" => me.seen = 0
    PROVE  CallerInv(m)
PROOF
<1>1. m.pc = pc0
    BY GoesTo
<1>2. pc0 \in Making13 \ {"again13", "confirm13", "same13", "done13"} /\ pc0 \notin Checking
    BY DEF Making13, Checking, Checked
<1>3. PublicationOK(m)
    BY <1>1, <1>2, Unpublished
<1>4. HasPeeked(me) /\ HasSelected(me)
    BY DEF HasPeeked, HasSelected, Checking
<1> QED
    BY <1>2, <1>3, <1>4, GoingOn

LEMMA FailingStep13 ==
    ASSUME NEW c, NEW me, NEW m, CallerSteps(c, me, m), me.pc \in Making13, Goes(c, Fails)
    PROVE  CallerInv(m)
PROOF
    BY FailingStep, UnansweredWhileMaking DEF CallerSteps

LEMMA ReadSourceStep ==
    ASSUME NEW c, NEW me, NEW m, CallerSteps(c, me, m), ReadSource(c)
    PROVE  CallerInv(m)
PROOF
<1>1. me.pc = "source13" /\ me.pc \in Making13 /\ me.pc \in Checking /\ me.then \in Checked
    BY DEF ReadSource, At, CallerSteps, Becomes, Making13, Checking, CallerInv, PlaceOK
<1>2. CASE Goes(c, To("select13"))
  <2>1. Keeps(m, me, {"pc"}) /\ m.pc = "select13"
    BY <1>2, GoesTo
  <2>2. /\ m.then = me.then /\ m.source = me.source /\ m.seen = me.seen
        /\ m.revision = me.revision /\ m.selected = me.selected
    BY <2>1 DEF Keeps, Relevant
  <2>3. (HasPeeked(m) => HasPeeked(me)) /\ (HasSelected(m) => HasSelected(me))
    BY <1>1, <2>1, <2>2 DEF HasPeeked, HasSelected, Checking
  <2>4. PublicationOK(m)
    BY <1>1, <2>1, <2>2 DEF CallerSteps, CallerInv, PublicationOK, HasPublished, SlotOf
  <2>5. "select13" \in Making13 \ {"again13", "confirm13", "same13", "done13", "recheck13"}
    BY DEF Making13, Checking
  <2> QED
    BY <1>1, <1>2, <2>3, <2>4, <2>5, GoingOn
<1> QED
    BY <1>1, <1>2, FailingStep13 DEF ReadSource

\* What a selection remembers.
LEMMA SelectionStays ==
    ASSUME NEW me, NEW m, NEW k, Selection(me, k), m.since = me.since, m.current = me.current,
           m.pinned = me.pinned, m.seen = me.seen, HasPeeked(m) => HasPeeked(me)
    PROVE  Selection(m, k)
PROOF
    BY DEF Selection

LEMMA SelectStrategyStep ==
    ASSUME NEW c, NEW me, NEW m, CallerSteps(c, me, m), SelectStrategy(c)
    PROVE  CallerInv(m)
PROOF
<1>1. me.pc = "select13" /\ me.pc \in Making13 /\ me.pc \in Checking /\ me.then \in Checked
    BY DEF SelectStrategy, At, CallerSteps, Becomes, Making13, Checking, CallerInv, PlaceOK
<1>2. me.answered = None
    BY <1>1, UnansweredWhileMaking DEF CallerSteps
<1> DEFINE revision == IF me.current THEN Last(current12) ELSE me.selected
           pinned == IF me.current THEN Len(current12) ELSE 0
<1>3. CASE /\ ~(me.pinned # 0 /\ pinned # me.pinned)
           /\ Goes(c, [pc |-> "again13", selected |-> revision, pinned |-> pinned])
  <2>1. PICK ch : ch = [pc |-> "again13", selected |-> revision, pinned |-> pinned]
    OBVIOUS
  <2>2. /\ DOMAIN ch = {"pc", "selected", "pinned"} /\ ch.pc = "again13" /\ Goes(c, ch)
        /\ ch.selected = revision /\ ch.pinned = pinned
    BY <2>1, <1>3
  <2>3. me.pinned = 0 \/ pinned = me.pinned
    BY <1>3
  <2>4. /\ Len(current12) \in Nat \ {0} /\ Last(current12) = current12[Len(current12)]
    BY <1>1, SequenceTypes DEF CallerSteps, SharedInv, CallerInv, PlaceOK, Last
  <2>5. /\ pinned \in 0..Len(current12) /\ (pinned # 0 => current12[pinned] = revision)
        /\ (me.current => pinned # 0) /\ (me.current => pinned = Len(current12))
        /\ (~me.current => revision = me.selected)
    BY <2>4
  <2>6. me.current /\ me.pinned # 0 => revision = me.selected
    BY <2>3, <2>5 DEF CallerSteps, CallerInv, SelectionOK
  <2> HIDE DEF revision, pinned
  <2>7. /\ DOMAIN ch \subseteq CallerFields
        /\ DOMAIN ch \intersect Relevant \subseteq {"pc", "selected", "pinned"}
    BY <2>2 DEF CallerFields, Idle, Relevant
  <2>8. Keeps(m, me, {"pc", "selected", "pinned"}) /\ \A f \in DOMAIN ch : m[f] = ch[f]
    BY <2>2, <2>7, GoesChanged
  <2>9. /\ m.pc = "again13" /\ m.selected = revision /\ m.pinned = pinned
        /\ DOMAIN m = DOMAIN me /\ m.source = me.source /\ m.since = me.since
        /\ m.seen = me.seen /\ m.revision = me.revision /\ m.then = me.then
        /\ m.current = me.current /\ m.answered = None
    BY <1>2, <2>2, <2>8 DEF Keeps, Relevant
  <2>10. HasPeeked(m) => HasPeeked(me)
    BY <1>1, <2>9 DEF HasPeeked, Checking
  <2>11. me.since \in 1..Len(log) /\ me.seen \in Nat /\ (HasPeeked(me) => me.seen <= Len(current13))
    BY DEF CallerSteps, CallerInv, FieldsOK
  <2>12. /\ Len(log) \in Nat \ {0} /\ log[Len(log)][2] = Len(current12)
         /\ log[Len(log)][3] = Len(current13)
    BY DEF CallerSteps, SharedInv, LogOK
  <2>13. Selection(m, Len(log)) /\ Len(log) \in 1..Len(log)
    BY <2>5, <2>9, <2>10, <2>11, <2>12 DEF Selection
  <2>14. SelectionOK(m)
    BY <2>5, <2>9, <2>13 DEF SelectionOK
  <2>15. me.then \in {"stable13", "done13"} => revision = me.selected
    <3>1. me.then \in {"stable13", "done13"} /\ me.current => me.pinned # 0
        BY <1>1 DEF CallerSteps, CallerInv, SelectionOK, HasSelected
    <3> QED
        BY <3>1, <2>5, <2>6
  <2>16. PublicationOK(m)
    BY <1>1, <2>9, <2>15 DEF CallerSteps, CallerInv, PublicationOK, HasPublished, SlotOf
  <2>17. m.pc \in Making13
    BY <2>9 DEF Making13, Checking
  <2> QED
    BY <1>1, <2>5, <2>9, <2>10, <2>11, <2>14, <2>16, <2>17, Moving DEF CallerSteps
<1>4. CASE Goes(c, Fails)
    BY <1>1, <1>4, FailingStep13
<1> QED
    BY <1>3, <1>4 DEF SelectStrategy, CallerSteps, Becomes

LEMMA ReadSourceAgainStep ==
    ASSUME NEW c, NEW me, NEW m, CallerSteps(c, me, m), ReadSourceAgain(c)
    PROVE  CallerInv(m)
PROOF
<1>1. me.pc = "again13" /\ me.pc \in Making13 /\ me.pc \in Checking /\ me.then \in Checked
    BY DEF ReadSourceAgain, At, CallerSteps, Becomes, Making13, Checking, CallerInv, PlaceOK
<1>2. CASE IsCurrentSource(c) /\ Goes(c, To("confirm13"))
  <2>1. Keeps(m, me, {"pc"}) /\ m.pc = "confirm13" /\ me.source = source
    BY <1>2, GoesTo DEF IsCurrentSource, CallerSteps, Becomes
  <2>2. /\ DOMAIN m = DOMAIN me /\ m.then = me.then /\ m.source = me.source /\ m.seen = me.seen
        /\ m.since = me.since /\ m.pinned = me.pinned /\ m.current = me.current
        /\ m.revision = me.revision /\ m.selected = me.selected /\ m.answered = me.answered
    BY <2>1 DEF Keeps, Relevant
  <2>3. (HasPeeked(m) => HasPeeked(me)) /\ (HasSelected(m) => HasSelected(me))
    BY <1>1, <2>1, <2>2 DEF HasPeeked, HasSelected, Checking
  <2>4. PICK k \in 1..Len(log) : Selection(me, k)
    BY <1>1 DEF CallerSteps, CallerInv, SelectionOK
  <2>5. Selection(m, k)
    BY <2>2, <2>3, <2>4, SelectionStays
  <2>6. /\ me.since \in 1..Len(log) /\ me.since <= k /\ me.source <= log[me.since][1]
        /\ Len(log) \in Nat /\ me.source \in Nat
    BY <1>1, <2>4 DEF CallerSteps, CallerInv, FieldsOK, PlaceOK, SharedInv, LogOK, Selection
  <2>7. /\ log[k][1] \in Nat /\ log[me.since][1] \in Nat /\ log[me.since][1] <= log[k][1]
        /\ log[k][1] <= source
    BY <2>4, <2>6 DEF CallerSteps, SharedInv, LogOK
  <2>8. log[k][1] = m.source
    BY <2>1, <2>2, <2>6, <2>7
  <2>9. SelectionOK(m)
    BY <2>1, <2>2, <2>3, <2>4, <2>5, <2>8 DEF CallerSteps, CallerInv, SelectionOK
  <2>10. PublicationOK(m)
    BY <1>1, <2>1, <2>2 DEF CallerSteps, CallerInv, PublicationOK, HasPublished, SlotOf
  <2>11. m.pc \in Making13 /\ m.answered = None
    BY <1>1, <2>1, <2>2, UnansweredWhileMaking DEF Making13, Checking, CallerSteps
  <2>12. /\ me.seen \in Nat /\ (HasPeeked(me) => me.seen <= Len(current13))
         /\ me.pinned \in 0..Len(current12)
    BY DEF CallerSteps, CallerInv, FieldsOK
  <2>13. me.since <= m.since
    BY <2>2, <2>6
  <2> QED
    BY <1>1, <2>2, <2>3, <2>6, <2>9, <2>10, <2>11, <2>12, <2>13, Moving DEF CallerSteps
<1> QED
    BY <1>1, <1>2, FailingStep13 DEF ReadSourceAgain

LEMMA ConfirmSelectionStep ==
    ASSUME NEW c, NEW me, NEW m, CallerSteps(c, me, m), ConfirmSelection(c)
    PROVE  CallerInv(m)
PROOF
<1>1. me.pc = "confirm13" /\ me.pc \in Making13 /\ me.pc \in Checking /\ me.then \in Checked
    BY DEF ConfirmSelection, At, CallerSteps, Becomes, Making13, Checking, CallerInv, PlaceOK
<1>2. CASE Goes(c, To(me.then))
  <2>1. Keeps(m, me, {"pc"}) /\ m.pc = me.then
    BY <1>2, GoesTo
  <2>2. /\ DOMAIN m = DOMAIN me /\ m.then = me.then /\ m.source = me.source /\ m.seen = me.seen
        /\ m.since = me.since /\ m.pinned = me.pinned /\ m.current = me.current
        /\ m.revision = me.revision /\ m.selected = me.selected /\ m.answered = me.answered
    BY <2>1 DEF Keeps, Relevant
  <2>3. m.pc \in Making13 /\ m.pc \notin Checking /\ HasSelected(me)
    BY <1>1, <2>1 DEF Making13, Checking, Checked, HasSelected
  <2>4. HasPeeked(m) => HasPeeked(me)
    BY <1>1, <2>1, <2>2, <2>3 DEF HasPeeked
  <2>5. PICK k \in 1..Len(log) : Selection(me, k) /\ log[k][1] = me.source
    BY <1>1 DEF CallerSteps, CallerInv, SelectionOK
  <2>6. Selection(m, k) /\ log[k][1] = m.source
    BY <2>2, <2>4, <2>5, SelectionStays
  <2>7. SelectionOK(m)
    BY <2>2, <2>3, <2>5, <2>6 DEF CallerSteps, CallerInv, SelectionOK, Checking, Making13, Checked
  <2>8. PublicationOK(m)
    BY <1>1, <2>1, <2>2, <2>3
    DEF CallerSteps, CallerInv, PublicationOK, HasPublished, SlotOf, Checking, Checked
  <2>9. m.answered = None
    BY <1>1, <2>2, UnansweredWhileMaking DEF CallerSteps
  <2>10. /\ me.seen \in Nat /\ (HasPeeked(me) => me.seen <= Len(current13))
         /\ me.pinned \in 0..Len(current12) /\ me.since \in 1..Len(log) /\ me.since <= me.since
    BY DEF CallerSteps, CallerInv, FieldsOK
  <2> QED
    BY <1>1, <2>2, <2>3, <2>4, <2>7, <2>8, <2>9, <2>10, Moving DEF CallerSteps
<1> QED
    BY <1>1, <1>2, FailingStep13 DEF ConfirmSelection, CallerSteps, Becomes

LEMMA PeekPlanStep ==
    ASSUME NEW c, NEW me, NEW m, CallerSteps(c, me, m),
           \/ PeekPlan(c) \/ BeginPublication(c)
    PROVE  CallerInv(m)
PROOF
<1>1. PICK then \in {"match13", "same13"} : Checks(c, then, [seen |-> Len(current13)])
    BY DEF PeekPlan, BeginPublication
<1>2. me.pc \in Making13 /\ HasSelected(me)
    BY DEF PeekPlan, BeginPublication, At, CallerSteps, Becomes, Making13, Checked, HasSelected
<1>3. PICK ch : ch = [seen |-> Len(current13)]
    OBVIOUS
<1>4. Checks(c, then, ch) /\ DOMAIN ch = {"seen"} /\ ch["seen"] = Len(current13)
    BY <1>1, <1>3
<1>5. OnlyChanges(ch, {"seen"})
    BY <1>4 DEF OnlyChanges, CallerFields, Idle
<1>6. /\ Keeps(m, me, {"seen"} \union {"pc", "then"}) /\ m.pc = "source13" /\ m.then = then
      /\ \A f \in DOMAIN ch : m[f] = ch[f]
  <2>1. Checks(c, then, ch)
    BY <1>4
  <2> QED
    BY ONLY CallerSteps(c, me, m), <2>1, <1>5, ChecksChanges
<1>7. Keeps(m, me, {"pc", "then", "seen"}) /\ m.seen = Len(current13)
    BY <1>4, <1>6, KeepsMore
<1>8. then \in Checked \ {"peek13", "stable13", "done13"}
    BY DEF Checked
<1> QED
    BY <1>2, <1>6, <1>7, <1>8, CheckingStep

LEMMA MatchPlanStep ==
    ASSUME NEW c, NEW me, NEW m, CallerSteps(c, me, m), MatchPlan(c)
    PROVE  CallerInv(m)
PROOF
<1>1. /\ me.pc = "match13" /\ me.pc \in Making13 /\ me.pc \notin Checking
      /\ HasSelected(me) /\ HasPeeked(me)
    BY DEF MatchPlan, At, CallerSteps, Becomes, Making13, Checking, Checked, HasSelected, HasPeeked
<1>2. CASE me.seen = 0 /\ Goes(c, To("recheck13"))
    BY <1>1, <1>2, UnpublishedTo
<1>3. CASE Goes(c, Check("recheck13"))
  <2>1. Keeps(m, me, {"pc", "then"}) /\ m.pc = "source13" /\ m.then = "recheck13"
    BY <1>3, GoesCheck
  <2>2. Keeps(m, me, {"pc", "then", "seen"}) /\ m.seen = me.seen
    BY <2>1, KeepsMore DEF Keeps, Relevant
  <2>3. "recheck13" \in Checked \ {"peek13", "stable13", "done13"}
    BY DEF Checked
  <2> QED
    BY <1>1, <2>1, <2>2, <2>3, CheckingStep
<1> QED
    BY <1>2, <1>3 DEF MatchPlan, CallerSteps, Becomes

\* An answer of B1.3: a selection's source, and the publication its pointer names.
LEMMA AnswerStep ==
    ASSUME NEW c, NEW me, NEW m, CallerSteps(c, me, m), me.pc \in {"recheck13", "same13", "done13"},
           me.seen # 0, me.seen = Len(current13), current13[me.seen] \in DOMAIN publications,
           PlanAt(me.seen).source = me.source, PlanAt(me.seen).selected = me.selected,
           Goes(c, [pc |-> "have13", answered |-> [stage |-> 13, pointer |-> me.seen]])
    PROVE  CallerInv(m)
PROOF
<1>1. PICK ch : ch = [pc |-> "have13", answered |-> [stage |-> 13, pointer |-> me.seen]]
    OBVIOUS
<1>2. /\ DOMAIN ch = {"pc", "answered"} /\ ch.pc = "have13"
      /\ ch.answered = [stage |-> 13, pointer |-> me.seen] /\ Goes(c, ch)
    BY <1>1
<1>3. /\ DOMAIN ch \subseteq CallerFields
      /\ DOMAIN ch \intersect Relevant \subseteq {"pc", "answered"}
    BY <1>2 DEF CallerFields, Idle, Relevant
<1>4. Keeps(m, me, {"pc", "answered"}) /\ \A f \in DOMAIN ch : m[f] = ch[f]
  <2>1. Goes(c, ch)
    BY <1>2
  <2> QED
    BY ONLY CallerSteps(c, me, m), <2>1, <1>3, GoesChanged
<1>5. /\ DOMAIN m = DOMAIN me /\ m.source = me.source /\ m.seen = me.seen
      /\ m.since = me.since /\ m.pinned = me.pinned /\ m.current = me.current
      /\ m.selected = me.selected /\ m.pc = "have13"
      /\ m.answered = [stage |-> 13, pointer |-> me.seen]
    BY <1>2, <1>4 DEF Keeps, Relevant
<1>6. PICK k \in 1..Len(log) : Selection(me, k) /\ log[k][1] = me.source
    BY DEF CallerSteps, CallerInv, SelectionOK
<1>7. HasPeeked(me)
    BY DEF HasPeeked, Making13, Checking, Checked
<1>8. /\ log[k][3] \in Nat /\ log[k][3] <= Len(current13) /\ me.seen <= log[k][3]
      /\ Len(current13) \in Nat /\ k \in me.since..Len(log)
      /\ (me.current => log[k][2] = me.pinned)
    BY <1>6, <1>7, SequenceTypes DEF CallerSteps, SharedInv, LogOK, Selection
<1>9. log[k][3] = me.seen
    BY <1>8
<1>10. m.answered.stage = 13 /\ m.answered.pointer = me.seen
    BY <1>5
<1>11. AnswerHolds(m)
    BY <1>5, <1>6, <1>8, <1>9, <1>10 DEF AnswerHolds
<1>12. FieldsOK(m)
    BY <1>5 DEF CallerSteps, CallerInv, FieldsOK, HasPeeked, Making13, Checking, Checked
<1>13. PlaceOK(m)
    BY <1>5 DEF PlaceOK, Making12, Making13, Checking, Checked
<1>14. SelectionOK(m)
    BY <1>5 DEF CallerSteps, CallerInv, SelectionOK, HasSelected, Making13, Checking, Checked
<1>15. PublicationOK(m) /\ AnswerOK(m)
    BY <1>5, <1>11 DEF PublicationOK, AnswerOK, Checking
<1> QED
    BY <1>12, <1>13, <1>14, <1>15 DEF CallerInv

LEMMA RecheckPlanStep ==
    ASSUME NEW c, NEW me, NEW m, CallerSteps(c, me, m), RecheckPlan(c), PointersHold
    PROVE  CallerInv(m)
PROOF
<1>1. /\ me.pc = "recheck13" /\ me.pc \in Making13 /\ me.pc \notin Checking /\ me.pc # "peek13"
      /\ me = callers[c]
    BY DEF RecheckPlan, At, CallerSteps, Becomes, Making13, Checking, Checked
<1>2. \/ Goes(c, Fails)
      \/ Goes(c, To("preflight13"))
      \/ /\ me.seen # 0 /\ me.seen = Len(current13) /\ MatchesRequest(c, PlanAt(me.seen))
         /\ Goes(c, [pc |-> "have13", answered |-> [stage |-> 13, pointer |-> me.seen]])
    BY <1>1 DEF RecheckPlan
<1>3. CASE Goes(c, Fails)
    BY <1>1, <1>3, FailingStep13
<1>4. CASE Goes(c, To("preflight13"))
    BY <1>1, <1>4, UnpublishedTo
<1>5. CASE /\ me.seen # 0 /\ me.seen = Len(current13) /\ MatchesRequest(c, PlanAt(me.seen))
           /\ Goes(c, [pc |-> "have13", answered |-> [stage |-> 13, pointer |-> me.seen]])
  <2>1. me.seen \in 1..Len(current13)
    BY <1>5 DEF CallerSteps, CallerInv, FieldsOK
  <2>2. /\ PlanAt(me.seen).source = me.source /\ PlanAt(me.seen).selected = me.selected
        /\ current13[me.seen] \in DOMAIN publications
    BY <1>1, <1>5, <2>1 DEF MatchesRequest, PointersHold
  <2> QED
    BY <1>1, <1>5, <2>2, AnswerStep
<1> QED
    BY <1>2, <1>3, <1>4, <1>5

LEMMA SameMeaningAgrees ==
    ASSUME NEW p, NEW q, SameMeaning(p, q), {"source", "selected"} \subseteq DOMAIN q
    PROVE  p.source = q.source /\ p.selected = q.selected
PROOF
<1>1. [p EXCEPT !.pinned = 0] = [q EXCEPT !.pinned = 0]
    BY DEF SameMeaning
<1>2. DOMAIN p = DOMAIN q
    BY <1>1
<1>3. ASSUME NEW f \in {"source", "selected"}
      PROVE  p[f] = q[f]
  <2>1. [p EXCEPT !.pinned = 0][f] = p[f] /\ [q EXCEPT !.pinned = 0][f] = q[f]
    BY <1>2
  <2> QED
    BY <1>1, <2>1
<1> QED
    BY <1>3

LEMMA ReusePublicationStep ==
    ASSUME NEW c, NEW me, NEW m, CallerSteps(c, me, m), ReusePublication(c), PointersHold
    PROVE  CallerInv(m)
PROOF
<1>1. /\ me.pc = "same13" /\ me.pc \in Making13 /\ me.pc \notin Checking /\ me.pc # "peek13"
      /\ me = callers[c]
    BY DEF ReusePublication, At, CallerSteps, Becomes, Making13, Checking, Checked
<1>2. \/ Goes(c, Fails)
      \/ Goes(c, To("slot13"))
      \/ /\ me.seen # 0 /\ me.seen = Len(current13)
         /\ SameMeaning(PlanAt(me.seen), Publication(c))
         /\ Goes(c, [pc |-> "have13", answered |-> [stage |-> 13, pointer |-> me.seen]])
    BY <1>1 DEF ReusePublication
<1>3. CASE Goes(c, Fails)
    BY <1>1, <1>3, FailingStep13
<1>4. CASE Goes(c, To("slot13"))
    BY <1>1, <1>4, UnpublishedTo
<1>5. CASE /\ me.seen # 0 /\ me.seen = Len(current13)
           /\ SameMeaning(PlanAt(me.seen), Publication(c))
           /\ Goes(c, [pc |-> "have13", answered |-> [stage |-> 13, pointer |-> me.seen]])
  <2>1. me.seen \in 1..Len(current13)
    BY <1>5 DEF CallerSteps, CallerInv, FieldsOK
  <2>2. /\ Publication(c).source = me.source /\ Publication(c).selected = me.selected
        /\ {"source", "selected"} \subseteq DOMAIN Publication(c)
    BY <1>1 DEF Publication
  <2>3. PICK q : q = Publication(c)
    OBVIOUS
  <2>4. /\ PlanAt(me.seen).source = me.source /\ PlanAt(me.seen).selected = me.selected
    BY <1>5, <2>2, <2>3, SameMeaningAgrees
  <2>5. current13[me.seen] \in DOMAIN publications
    BY <2>1 DEF PointersHold
  <2> QED
    BY <1>1, <1>5, <2>4, <2>5, AnswerStep
<1> QED
    BY <1>2, <1>3, <1>4, <1>5

LEMMA AskingStep ==
    ASSUME NEW c, NEW me, NEW m, CallerSteps(c, me, m),
           me.pc \in Making13, HasSelected(me), HasPeeked(me),
           NEW then \in {"ask13", "judge13"}, NEW ch,
           Checks(c, then, ch), DOMAIN ch \subseteq {"round", "accepted"}
    PROVE  CallerInv(m)
PROOF
<1>1. OnlyChanges(ch, {})
    BY DEF OnlyChanges, CallerFields, Idle, Relevant
<1>2. Keeps(m, me, {} \union {"pc", "then"}) /\ m.pc = "source13" /\ m.then = then
    BY ONLY CallerSteps(c, me, m), Checks(c, then, ch), <1>1, ChecksChanges
<1>3. Keeps(m, me, {"pc", "then", "seen"}) /\ m.seen = me.seen
    BY <1>2, KeepsMore DEF Keeps, Relevant
<1>4. then \in Checked \ {"peek13", "stable13", "done13"}
    BY DEF Checked
<1> QED
    BY <1>2, <1>3, <1>4, CheckingStep

LEMMA PreflightStep ==
    ASSUME NEW c, NEW me, NEW m, CallerSteps(c, me, m), Preflight(c)
    PROVE  CallerInv(m)
PROOF
<1>1. /\ me.pc \in Making13 /\ HasSelected(me) /\ HasPeeked(me)
    BY DEF Preflight, At, CallerSteps, Becomes, Making13, Checking, HasSelected, HasPeeked
<1>2. PICK ch : ch = [round |-> 1]
    OBVIOUS
<1>3. DOMAIN ch \subseteq {"round", "accepted"}
    BY <1>2
<1>4. CASE Checks(c, "ask13", ch)
    BY <1>1, <1>3, <1>4, AskingStep
<1> QED
    BY <1>1, <1>2, <1>4, FailingStep13 DEF Preflight

LEMMA AskWindowStep ==
    ASSUME NEW c, NEW me, NEW m, CallerSteps(c, me, m), AskWindow(c)
    PROVE  CallerInv(m)
PROOF
<1>1. /\ me.pc \in Making13 /\ HasSelected(me) /\ HasPeeked(me)
    BY DEF AskWindow, At, CallerSteps, Becomes, Making13, Checking, Checked, HasSelected, HasPeeked
<1>2. PICK proposal : Checks(c, "judge13", [accepted |-> Append(callers[c].accepted, proposal)])
    BY DEF AskWindow
<1>3. PICK ch : ch = [accepted |-> Append(callers[c].accepted, proposal)]
    OBVIOUS
<1>4. DOMAIN ch \subseteq {"round", "accepted"} /\ Checks(c, "judge13", ch)
    BY <1>2, <1>3
<1> QED
    BY <1>1, <1>4, AskingStep

LEMMA JudgeWindowStep ==
    ASSUME NEW c, NEW me, NEW m, CallerSteps(c, me, m), JudgeWindow(c)
    PROVE  CallerInv(m)
PROOF
<1>1. /\ me.pc = "judge13" /\ me.pc \in Making13 /\ HasSelected(me) /\ HasPeeked(me)
      /\ me.pc \notin Checking /\ me.pc # "peek13"
    BY DEF JudgeWindow, At, CallerSteps, Becomes, Making13, Checking, Checked, HasSelected, HasPeeked
<1>2. \/ Goes(c, Fails)
      \/ Goes(c, To("review13"))
      \/ Checks(c, "ask13", [round |-> 1])
      \/ Checks(c, "ask13", [accepted |-> Front(callers[c].accepted),
                             round |-> callers[c].round + 1])
    BY DEF JudgeWindow
<1>3. CASE Checks(c, "ask13", [round |-> 1])
  <2>1. PICK ch : ch = [round |-> 1]
    OBVIOUS
  <2>2. DOMAIN ch \subseteq {"round", "accepted"} /\ Checks(c, "ask13", ch)
    BY <1>3, <2>1
  <2> QED
    BY <1>1, <2>2, AskingStep
<1>4. CASE Checks(c, "ask13", [accepted |-> Front(callers[c].accepted),
                               round |-> callers[c].round + 1])
  <2>1. PICK ch : ch = [accepted |-> Front(callers[c].accepted), round |-> callers[c].round + 1]
    OBVIOUS
  <2>2. DOMAIN ch \subseteq {"round", "accepted"} /\ Checks(c, "ask13", ch)
    BY <1>4, <2>1
  <2> QED
    BY <1>1, <2>2, AskingStep
<1>5. CASE Goes(c, To("review13"))
    BY <1>1, <1>5, UnpublishedTo
<1> QED
    BY <1>1, <1>2, <1>3, <1>4, <1>5, FailingStep13

LEMMA ReviewStep ==
    ASSUME NEW c, NEW me, NEW m, CallerSteps(c, me, m), Review(c)
    PROVE  CallerInv(m)
PROOF
<1>1. /\ me.pc = "review13" /\ me.pc \in Making13 /\ HasSelected(me) /\ HasPeeked(me)
    BY DEF Review, At, CallerSteps, Becomes, Making13, Checking, Checked, HasSelected, HasPeeked
<1>2. PICK decisions :
        \/ Goes(c, [pc |-> "publish13", decisions |-> decisions, since |-> Len(log)])
        \/ Goes(c, To("refused"))
    BY DEF Review
<1>3. CASE Goes(c, [pc |-> "publish13", decisions |-> decisions, since |-> Len(log)])
  <2>1. PICK ch : ch = [pc |-> "publish13", decisions |-> decisions, since |-> Len(log)]
    OBVIOUS
  <2>2. /\ DOMAIN ch = {"pc", "decisions", "since"} /\ ch.pc = "publish13"
        /\ ch.since = Len(log)
    BY <2>1
  <2>3. /\ DOMAIN ch \subseteq CallerFields
        /\ DOMAIN ch \intersect Relevant \subseteq {"pc", "since"}
    BY <2>2 DEF CallerFields, Idle, Relevant
  <2>4. Goes(c, ch)
    BY <1>3, <2>1
  <2>5. Keeps(m, me, {"pc", "since"}) /\ \A f \in DOMAIN ch : m[f] = ch[f]
    BY ONLY CallerSteps(c, me, m), <2>3, <2>4, GoesChanged
  <2>6. m.pc = "publish13" /\ m.since = Len(log)
    BY <2>2, <2>5
  <2>7. Keeps(m, me, {"pc", "then", "since", "seen", "revision"}) /\ m.seen = me.seen
    BY <2>5, KeepsMore DEF Keeps, Relevant
  <2>8. PublicationOK(m)
    BY <2>6, Unpublished DEF Checking
  <2>9. m.pc \in Making13 \ {"again13", "confirm13", "same13", "done13", "recheck13"} /\ m.pc \notin Checking
    BY <2>6 DEF Making13, Checking
  <2> QED
    BY <1>1, <2>6, <2>7, <2>8, <2>9, Continuing DEF CallerSteps
<1> QED
    BY <1>2, <1>3, RefusingStep

LEMMA AllocatePublicationStep ==
    ASSUME NEW c, NEW me, NEW m, CallerSteps(c, me, m), AllocatePublication(c)
    PROVE  CallerInv(m)
PROOF
<1>1. /\ me.pc = "slot13" /\ me.pc \in Making13 /\ HasSelected(me) /\ HasPeeked(me)
    BY DEF AllocatePublication, At, CallerSteps, Becomes, Making13, Checking, Checked,
           HasSelected, HasPeeked
<1>2. PICK revision : Goes(c, [pc |-> "put13", revision |-> revision])
    BY DEF AllocatePublication
<1>3. PICK ch : ch = [pc |-> "put13", revision |-> revision]
    OBVIOUS
<1>4. DOMAIN ch = {"pc", "revision"} /\ ch.pc = "put13"
    BY <1>3
<1>5. /\ DOMAIN ch \subseteq CallerFields
      /\ DOMAIN ch \intersect Relevant \subseteq {"pc", "revision"}
    BY <1>4 DEF CallerFields, Idle, Relevant
<1>6. Goes(c, ch)
    BY <1>2, <1>3
<1>7. Keeps(m, me, {"pc", "revision"}) /\ \A f \in DOMAIN ch : m[f] = ch[f]
    BY ONLY CallerSteps(c, me, m), <1>5, <1>6, GoesChanged
<1>8. m.pc = "put13"
    BY <1>4, <1>7
<1>9. /\ Keeps(m, me, {"pc", "then", "since", "seen", "revision"}) /\ m.seen = me.seen
      /\ m.since = me.since
    BY <1>7, KeepsMore DEF Keeps, Relevant
<1>10. PublicationOK(m)
    BY <1>8, Unpublished DEF Checking
<1>11. /\ m.pc \in Making13 \ {"again13", "confirm13", "same13", "done13", "recheck13"}
       /\ m.pc \notin Checking
    BY <1>8 DEF Making13, Checking
<1> QED
    BY <1>1, <1>8, <1>9, <1>10, <1>11, Continuing DEF CallerSteps

LEMMA StillObservedStep ==
    ASSUME NEW c, NEW me, NEW m, CallerSteps(c, me, m), StillObserved(c)
    PROVE  CallerInv(m)
PROOF
<1>1. /\ me.pc = "stable13" /\ me.pc \in Making13 /\ HasSelected(me) /\ HasPeeked(me)
    BY DEF StillObserved, At, CallerSteps, Becomes, Making13, Checking, Checked,
           HasSelected, HasPeeked
<1>2. CASE Goes(c, To("cas13"))
  <2>1. Keeps(m, me, {"pc"}) /\ m.pc = "cas13"
    BY <1>2, GoesTo
  <2>2. /\ m.source = me.source /\ m.revision = me.revision /\ m.selected = me.selected
    BY <2>1 DEF Keeps, Relevant
  <2>3. PublicationOK(m)
    BY <1>1, <2>1, <2>2
    DEF CallerSteps, CallerInv, PublicationOK, HasPublished, SlotOf, Checking
  <2>4. "cas13" \in Making13 \ {"again13", "confirm13", "same13", "done13", "recheck13"}
        /\ "cas13" \notin Checking
    BY DEF Making13, Checking
  <2> QED
    BY <1>1, <1>2, <2>3, <2>4, GoingOn
<1> QED
    BY <1>1, <1>2, FailingStep13 DEF StillObserved

LEMMA VerifyMineStep ==
    ASSUME NEW c, NEW me, NEW m, CallerSteps(c, me, m), VerifyMine(c)
    PROVE  CallerInv(m)
PROOF
<1>1. /\ me.pc = "mine13" /\ me.pc \in Making13 /\ HasSelected(me) /\ HasPeeked(me)
    BY DEF VerifyMine, At, CallerSteps, Becomes, Making13, Checking, Checked,
           HasSelected, HasPeeked
<1>2. CASE Goes(c, Check("done13"))
  <2>1. Keeps(m, me, {"pc", "then"}) /\ m.pc = "source13" /\ m.then = "done13"
    BY <1>2, GoesCheck
  <2>2. /\ m.source = me.source /\ m.revision = me.revision /\ m.selected = me.selected
        /\ m.seen = me.seen /\ m.since = me.since
    BY <2>1 DEF Keeps, Relevant
  <2>3. PublicationOK(m)
    BY <1>1, <2>1, <2>2
    DEF CallerSteps, CallerInv, PublicationOK, HasPublished, SlotOf, Checking
  <2>4. /\ m.pc \in Making13 \ {"again13", "confirm13", "same13", "done13", "recheck13"}
        /\ m.then \in Checked
    BY <2>1 DEF Making13, Checking, Checked
  <2>5. Keeps(m, me, {"pc", "then", "since", "seen", "revision"})
    BY <2>1, KeepsMore
  <2> QED
    BY <1>1, <2>2, <2>3, <2>4, <2>5, Continuing DEF CallerSteps
<1> QED
    BY <1>1, <1>2, FailingStep13 DEF VerifyMine

LEMMA VerifySuccessStep ==
    ASSUME NEW c, NEW me, NEW m, CallerSteps(c, me, m), VerifySuccess(c)
    PROVE  CallerInv(m)
PROOF
<1>1. /\ me.pc = "done13" /\ me.pc \in Making13 /\ me = callers[c]
    BY DEF VerifySuccess, At, CallerSteps, Becomes, Making13, Checked
<1>2. CASE /\ Len(current13) = me.seen
           /\ Goes(c, [pc |-> "have13", answered |-> [stage |-> 13, pointer |-> me.seen]])
  <2>1. HasPublished(me) /\ me.seen # 0 /\ current13[me.seen] = SlotOf(me)
    BY <1>1 DEF CallerSteps, CallerInv, PublicationOK
  <2>2. /\ current13[me.seen] \in DOMAIN publications
        /\ PlanAt(me.seen).source = me.source /\ PlanAt(me.seen).selected = me.selected
    BY <2>1 DEF HasPublished, PlanAt
  <2> QED
    BY <1>1, <1>2, <2>1, <2>2, AnswerStep
<1> QED
    BY <1>1, <1>2, FailingStep13 DEF VerifySuccess

LEMMA PutPublicationStep ==
    ASSUME NEW c, NEW me, NEW m, CallerSteps(c, me, m), PutPublication(c), SharedInv', Grow
    PROVE  CallerInv(m)'
PROOF
<1>1. /\ me.pc = "put13" /\ me.pc \in Making13 /\ HasSelected(me) /\ HasPeeked(me)
      /\ me = callers[c] /\ Slot(c) = SlotOf(me)
    BY DEF PutPublication, At, CallerSteps, Becomes, Making13, Checking, Checked,
           HasSelected, HasPeeked, Slot, SlotOf
<1>2. CASE Goes(c, Fails)
    BY <1>1, <1>2, FailingStep13, HoldsOn DEF CallerSteps
<1>3. CASE /\ Goes(c, Check("stable13"))
           /\ SlotOf(me) \in DOMAIN publications'
           /\ publications'[SlotOf(me)] = Publication(c)
  <2>1. Keeps(m, me, {"pc", "then"}) /\ m.pc = "source13" /\ m.then = "stable13"
    BY <1>3, GoesCheck
  <2>2. /\ DOMAIN m = DOMAIN me /\ m.source = me.source /\ m.seen = me.seen
        /\ m.since = me.since /\ m.pinned = me.pinned /\ m.current = me.current
        /\ m.revision = me.revision /\ m.selected = me.selected /\ m.answered = me.answered
    BY <2>1 DEF Keeps, Relevant
  <2>3. Publication(c).source = me.source /\ Publication(c).selected = me.selected
    BY <1>1 DEF Publication
  <2>4. HasPublished(m)'
    BY <1>3, <2>2, <2>3 DEF HasPublished, SlotOf
  <2>5. PublicationOK(m)'
    BY <2>1, <2>4 DEF PublicationOK
  <2>6. CallerInv(me)'
    BY HoldsOn DEF CallerSteps
  <2>7. HasPeeked(m) /\ HasSelected(m) /\ m.pc \in Making13 /\ m.pc \notin Making12
    BY <2>1 DEF HasPeeked, HasSelected, Making13, Making12, Checking
  <2>8. FieldsOK(m)'
    BY <1>1, <2>2, <2>6, <2>7 DEF CallerInv, FieldsOK
  <2>9. PlaceOK(m)'
    BY <1>1, <2>1, <2>2, <2>6, <2>7 DEF CallerInv, PlaceOK, Checked
  <2>10. SelectionOK(m)'
    BY <1>1, <2>1, <2>2, <2>6 DEF CallerInv, SelectionOK
  <2>11. AnswerOK(m)'
    BY <1>1, <2>2, UnansweredWhileMaking DEF AnswerOK, CallerSteps
  <2> QED
    BY <2>5, <2>8, <2>9, <2>10, <2>11 DEF CallerInv
<1>4. \/ Goes(c, Fails)
      \/ /\ Goes(c, Check("stable13"))
         /\ Slot(c) \in DOMAIN publications'
         /\ publications'[Slot(c)] = Publication(c)
  <2>1. CASE Slot(c) \notin DOMAIN publications
    <3>1. publications' = [s \in DOMAIN publications \union {Slot(c)} |->
                              IF s = Slot(c) THEN Publication(c) ELSE publications[s]]
        BY <2>1 DEF PutPublication
    <3> QED
        BY <2>1, <3>1 DEF PutPublication
  <2>2. CASE Slot(c) \in DOMAIN publications
    BY <2>2 DEF PutPublication
  <2> QED
    BY <2>1, <2>2
<1> QED
    BY <1>1, <1>2, <1>3, <1>4

LEMMA SetPublicationStep ==
    ASSUME NEW c, NEW me, NEW m, CallerSteps(c, me, m), SetPublication(c), SharedInv', Grow
    PROVE  CallerInv(m)'
PROOF
<1>1. /\ me.pc = "cas13" /\ me.pc \in Making13 /\ HasSelected(me) /\ HasPeeked(me)
      /\ me = callers[c] /\ Slot(c) = SlotOf(me)
    BY DEF SetPublication, At, CallerSteps, Becomes, Making13, Checking,
           HasSelected, HasPeeked, Slot, SlotOf
<1>2. CASE Goes(c, Fails)
    BY <1>1, <1>2, FailingStep13, HoldsOn DEF CallerSteps
<1>3. CASE /\ Len(current13) = me.seen /\ current13' = Append(current13, SlotOf(me))
           /\ Goes(c, [pc |-> "mine13", seen |-> me.seen + 1])
  <2>1. PICK ch : ch = [pc |-> "mine13", seen |-> me.seen + 1]
    OBVIOUS
  <2>2. DOMAIN ch = {"pc", "seen"} /\ ch.pc = "mine13" /\ ch.seen = me.seen + 1
    BY <2>1
  <2>3. DOMAIN ch \subseteq CallerFields /\ DOMAIN ch \intersect Relevant \subseteq {"pc", "seen"}
    BY <2>2 DEF CallerFields, Idle, Relevant
  <2>4. Goes(c, ch)
    BY <1>3, <2>1
  <2>5. Keeps(m, me, {"pc", "seen"}) /\ \A f \in DOMAIN ch : m[f] = ch[f]
    BY ONLY CallerSteps(c, me, m), <2>3, <2>4, GoesChanged
  <2>6. /\ DOMAIN m = DOMAIN me /\ m.source = me.source /\ m.seen = me.seen + 1
        /\ m.since = me.since /\ m.pinned = me.pinned /\ m.current = me.current /\ m.pc = "mine13"
        /\ m.revision = me.revision /\ m.selected = me.selected /\ m.answered = me.answered
    BY <2>2, <2>5 DEF Keeps, Relevant
  <2>7. /\ Len(current13') = me.seen + 1 /\ current13'[me.seen + 1] = SlotOf(me)
        /\ me.seen \in Nat
    BY <1>3, AppendExtends DEF CallerSteps, SharedInv, CallerInv, FieldsOK
  <2>8. CallerInv(me)'
    BY HoldsOn DEF CallerSteps
  <2>9. /\ HasSelected(m) /\ m.pc \in Making13 /\ m.pc \notin Making12 \union Checking
        /\ m.pc \notin {"target", "prepare12", "have12", "read12"}
    BY <2>6 DEF HasSelected, Making13, Making12, Checking
  <2>10. FieldsOK(m)'
    BY <2>6, <2>7, <2>8 DEF CallerInv, FieldsOK
  <2>11. PlaceOK(m)'
    BY <1>1, <2>6, <2>8, <2>9 DEF CallerInv, PlaceOK
  <2>12. SelectionOK(m)'
    BY <1>1, <2>6, <2>8, <2>9 DEF CallerInv, SelectionOK
  <2>13. PublicationOK(m)'
    <3>1. HasPublished(me)'
        BY <1>1, <2>8 DEF CallerInv, PublicationOK
    <3>2. HasPublished(m)'
        BY <3>1, <2>6 DEF HasPublished, SlotOf
    <3>3. m.seen # 0 /\ current13'[m.seen] = SlotOf(m)
        BY <2>6, <2>7 DEF SlotOf
    <3> QED
        BY <2>6, <2>9, <3>2, <3>3 DEF PublicationOK
  <2>14. AnswerOK(m)'
    BY <1>1, <2>6, UnansweredWhileMaking DEF AnswerOK, CallerSteps
  <2> QED
    BY <2>10, <2>11, <2>12, <2>13, <2>14 DEF CallerInv
<1> QED
    BY <1>1, <1>2, <1>3 DEF SetPublication

-----------------------------------------------------------------------------
LEMMA CallersInit ==
    Init => CallersInv
PROOF
<1> SUFFICES ASSUME Init PROVE CallersInv
    OBVIOUS
<1>1. /\ source = 1 /\ log = <<<<1, 0, 0>>>> /\ current12 = <<>> /\ current13 = <<>>
    BY DEF Init
<1>2. /\ IsSequence(log) /\ IsSequence(current12) /\ IsSequence(current13)
      /\ Len(log) = 1 /\ log[1] = <<1, 0, 0>> /\ Len(current12) = 0 /\ Len(current13) = 0
  <2>1. <<>> \in Seq({}) /\ log \in Seq({<<1, 0, 0>>})
    BY <1>1
  <2> QED
    BY <1>1, <2>1 DEF IsSequence
<1>3. LogOK
    BY <1>1, <1>2 DEF LogOK
<1>4. SharedInv /\ PointersHold
    BY <1>1, <1>2, <1>3 DEF SharedInv, PointersHold
<1>5. ASSUME NEW p \in {"target", "have13"}
      PROVE  CallerInv(Idle(p))
  <2>1. PICK m : m = Idle(p)
    OBVIOUS
  <2>2. /\ DOMAIN m = CallerFields /\ m.pc = p /\ m.source = 0 /\ m.since = 1 /\ m.seen = 0
        /\ m.pinned = 0 /\ m.answered = None
    BY <2>1 DEF Idle, CallerFields
  <2>3. /\ m.pc \notin Making12 \union Making13 \union {"have12", "read12", "reused12"}
        /\ ~HasPeeked(m) /\ ~HasSelected(m) /\ m.pc \notin Checking
    BY <2>2 DEF Making12, Making13, Checking, Checked, HasPeeked, HasSelected
  <2>4. FieldsOK(m)
    BY <1>1, <1>2, <2>2, <2>3 DEF FieldsOK
  <2>5. PlaceOK(m)
    BY <2>2, <2>3 DEF PlaceOK
  <2>6. SelectionOK(m) /\ PublicationOK(m) /\ AnswerOK(m)
    BY <2>2, <2>3 DEF SelectionOK, PublicationOK, AnswerOK, Making13, Checked
  <2> QED
    BY <2>1, <2>4, <2>5, <2>6 DEF CallerInv
<1>6. \A c \in DOMAIN callers : callers[c] = Idle("target") \/ callers[c] = Idle("have13")
    BY DEF Init
<1>7. callers = [c \in DOMAIN callers |-> callers[c]]
    BY DEF Init
<1> QED
    BY <1>4, <1>5, <1>6, <1>7 DEF CallersInv

LEMMA OrderStep ==
    ASSUME NEW c, NEW me, NEW m, CallerSteps(c, me, m), Order(c)
    PROVE  CallerInv(m)
PROOF
<1>1. PICK skeleton : \/ Goes(c, [pc |-> "ordered", skeleton |-> skeleton])
                      \/ Goes(c, To("refused"))
    BY DEF Order
<1>2. CASE Goes(c, [pc |-> "ordered", skeleton |-> skeleton])
  <2>1. PICK ch : ch = [pc |-> "ordered", skeleton |-> skeleton]
    OBVIOUS
  <2>2. DOMAIN ch = {"pc", "skeleton"} /\ ch.pc = "ordered"
    BY <2>1
  <2>3. DOMAIN ch \subseteq CallerFields /\ DOMAIN ch \intersect Relevant \subseteq {"pc", "then"}
    BY <2>2 DEF CallerFields, Idle, Relevant
  <2>4. Goes(c, ch)
    BY <1>2, <2>1
  <2>5. Keeps(m, me, {"pc", "then"}) /\ \A f \in DOMAIN ch : m[f] = ch[f]
    BY ONLY CallerSteps(c, me, m), <2>3, <2>4, GoesChanged
  <2>6. m.pc = "ordered"
    BY <2>2, <2>5
  <2> QED
    BY <2>5, <2>6, Stopping DEF CallerSteps
<1> QED
    BY <1>1, <1>2, RefusingStep

\* The steps that leave what is shared, and those that do not.
QuietB12(c) ==
    \/ ResolveTarget(c) \/ Prepare12(c) \/ Guard(c, "begin12", "peek12")
    \/ PeekStrategy(c) \/ ReadStrategy(c) \/ AnswerReused(c)
    \/ BeginRound(c) \/ AskStrategy(c) \/ Guard(c, "asked12", "claim12")
    \/ ClaimStrategy(c) \/ AllocateStrategy(c) \/ Guard(c, "guard12", "cas12")
QuietB13(c) ==
    \/ Prepare13(c) \/ CheckAuthority(c)
    \/ PeekPlan(c) \/ MatchPlan(c) \/ RecheckPlan(c)
    \/ Preflight(c) \/ AskWindow(c) \/ JudgeWindow(c) \/ Review(c)
    \/ BeginPublication(c) \/ ReusePublication(c) \/ AllocatePublication(c)
    \/ StillObserved(c) \/ VerifyMine(c) \/ VerifySuccess(c) \/ Order(c)

LEMMA QuietB12Step ==
    ASSUME NEW c, NEW me, NEW m, CallerSteps(c, me, m), QuietB12(c) \/ PutStrategy(c)
    PROVE  CallerInv(m)
PROOF
<1>1. ASSUME NEW from, NEW to, Guard(c, from, to),
             <<from, to>> \in {<<"begin12", "peek12">>, <<"asked12", "claim12">>, <<"guard12", "cas12">>}
      PROVE  CallerInv(m)
  <2>1. from \in Making12 /\ to \in Making12 \ {"read12", "reused12"}
    BY <1>1 DEF Making12
  <2> QED
    BY <1>1, <2>1, GuardStep
<1>2. CASE \/ Guard(c, "begin12", "peek12") \/ Guard(c, "asked12", "claim12")
           \/ Guard(c, "guard12", "cas12")
    BY <1>1, <1>2
<1>3. CASE ResolveTarget(c) \/ Prepare12(c) \/ PeekStrategy(c) \/ ReadStrategy(c)
    BY <1>3, ResolveTargetStep, Prepare12Step, PeekStrategyStep, ReadStrategyStep
<1>4. CASE AnswerReused(c) \/ BeginRound(c) \/ AskStrategy(c)
    BY <1>4, AnswerReusedStep, BeginRoundStep, AskStrategyStep
<1>5. CASE ClaimStrategy(c) \/ AllocateStrategy(c) \/ PutStrategy(c)
    BY <1>5, ClaimStrategyStep, PutStrategyStep
<1> QED
    BY <1>2, <1>3, <1>4, <1>5 DEF QuietB12

LEMMA QuietB13Step ==
    ASSUME NEW c, NEW me, NEW m, CallerSteps(c, me, m), QuietB13(c), PointersHold
    PROVE  CallerInv(m)
PROOF
<1>1. CASE Prepare13(c) \/ CheckAuthority(c)
    BY <1>1, Prepare13Step, ReadSourceStep, SelectStrategyStep, ReadSourceAgainStep,
       ConfirmSelectionStep DEF CheckAuthority
<1>2. CASE PeekPlan(c) \/ MatchPlan(c) \/ RecheckPlan(c) \/ BeginPublication(c)
    BY <1>2, PeekPlanStep, MatchPlanStep, RecheckPlanStep
<1>3. CASE Preflight(c) \/ AskWindow(c) \/ JudgeWindow(c) \/ Review(c)
    BY <1>3, PreflightStep, AskWindowStep, JudgeWindowStep, ReviewStep
<1>4. CASE ReusePublication(c) \/ AllocatePublication(c) \/ StillObserved(c)
    BY <1>4, ReusePublicationStep, AllocatePublicationStep, StillObservedStep
<1>5. CASE VerifyMine(c) \/ VerifySuccess(c) \/ Order(c)
    BY <1>5, VerifyMineStep, VerifySuccessStep, OrderStep
<1> QED
    BY <1>1, <1>2, <1>3, <1>4, <1>5 DEF QuietB13

LEMMA QuietShares ==
    ASSUME NEW c, QuietB12(c) \/ QuietB13(c)
    PROVE  UNCHANGED <<input, source, strategies, current12, publications, current13, log>>
PROOF
    BY DEF QuietB12, QuietB13, ResolveTarget, Prepare12, Guard, PeekStrategy, ReadStrategy,
           AnswerReused, Reused, BeginRound, AskStrategy, ClaimStrategy, AllocateStrategy,
           Prepare13, CheckAuthority, ReadSource, SelectStrategy, ReadSourceAgain,
           ConfirmSelection, PeekPlan, MatchPlan, RecheckPlan, Preflight, AskWindow,
           JudgeWindow, Review, BeginPublication, ReusePublication, AllocatePublication,
           StillObserved, VerifyMine, VerifySuccess, Order, SharedIsUnchanged

LEMMA StepGoes ==
    ASSUME NEW c, \/ QuietB12(c) \/ QuietB13(c) \/ PutStrategy(c) \/ SetStrategy(c)
                  \/ PutPublication(c) \/ SetPublication(c)
    PROVE  \E changes : Goes(c, changes)
PROOF
<1>1. CASE QuietB12(c)
    BY <1>1 DEF QuietB12, ResolveTarget, Prepare12, Guard, PeekStrategy, ReadStrategy,
           AnswerReused, Reused, BeginRound, AskStrategy, ClaimStrategy, AllocateStrategy
<1>2. CASE QuietB13(c)
    BY <1>2 DEF QuietB13, Prepare13, CheckAuthority, ReadSource, SelectStrategy, ReadSourceAgain,
           ConfirmSelection, PeekPlan, MatchPlan, RecheckPlan, Preflight, AskWindow,
           JudgeWindow, Review, BeginPublication, ReusePublication, AllocatePublication,
           StillObserved, VerifyMine, VerifySuccess, Order, Checks
<1>3. CASE PutStrategy(c) \/ SetStrategy(c) \/ PutPublication(c) \/ SetPublication(c)
    BY <1>3 DEF PutStrategy, SetStrategy, PutPublication, SetPublication
<1> QED
    BY <1>1, <1>2, <1>3

LEMMA PutStrategyShares ==
    ASSUME SharedInv, PointersHold, NEW c, PutStrategy(c)
    PROVE  SharedInv' /\ Grow /\ PointersHold' /\ input' = input
PROOF
<1>1. UNCHANGED <<input, source, current12, publications, current13, log>>
    BY DEF PutStrategy
<1> QED
    BY <1>1, SharedStays DEF PointersHold

LEMMA SetStrategyShares ==
    ASSUME SharedInv, PointersHold, NEW c, SetStrategy(c)
    PROVE  SharedInv' /\ Grow /\ PointersHold' /\ input' = input
PROOF
<1>1. UNCHANGED <<input, source, publications, current13>>
    BY DEF SetStrategy
<1>2. PointersHold'
    BY <1>1 DEF PointersHold
<1>3. CASE UNCHANGED <<current12, log>>
    BY <1>1, <1>2, <1>3, SharedStays
<1>4. CASE current12' = Append(current12, callers[c].revision) /\ Logged
  <2>1. Lengthened(current12', current12) /\ Lengthened(current13', current13)
    BY <1>1, <1>4 DEF Lengthened
  <2>2. source' \in Nat /\ source <= source'
    BY <1>1 DEF SharedInv
  <2> QED
    BY <1>1, <1>2, <1>4, <2>1, <2>2, LoggedStep
<1> QED
    BY <1>3, <1>4 DEF SetStrategy

LEMMA PutPublicationShares ==
    ASSUME SharedInv, PointersHold, NEW c, PutPublication(c)
    PROVE  SharedInv' /\ Grow /\ PointersHold' /\ input' = input
PROOF
<1>1. UNCHANGED <<input, source, current12, current13, log>>
    BY DEF PutPublication
<1>2. /\ DOMAIN publications \subseteq DOMAIN publications'
      /\ \A slot \in DOMAIN publications : publications'[slot] = publications[slot]
  <2>1. CASE Slot(c) \notin DOMAIN publications
    <3>1. publications' = [s \in DOMAIN publications \union {Slot(c)} |->
                              IF s = Slot(c) THEN Publication(c) ELSE publications[s]]
        BY <2>1 DEF PutPublication
    <3> QED
        BY <2>1, <3>1
  <2>2. CASE Slot(c) \in DOMAIN publications
    BY <2>2 DEF PutPublication
  <2> QED
    BY <2>1, <2>2
<1>3. SharedInv'
    BY <1>1 DEF SharedInv, LogOK
<1>4. Grow
    BY <1>1, <1>2, ExtendsItself DEF SharedInv, Grow
<1> QED
    BY <1>1, <1>2, <1>3, <1>4 DEF PointersHold

LEMMA SetPublicationShares ==
    ASSUME SharedInv, PointersHold, NEW c, CallerInv(callers[c]), SetPublication(c)
    PROVE  SharedInv' /\ Grow /\ PointersHold' /\ input' = input
PROOF
<1>1. UNCHANGED <<input, source, publications, current12>>
    BY DEF SetPublication
<1>2. CASE UNCHANGED <<current13, log>>
    BY <1>1, <1>2, SharedStays DEF PointersHold
<1>3. CASE current13' = Append(current13, Slot(c)) /\ Logged
  <2>1. Lengthened(current12', current12) /\ Lengthened(current13', current13)
    BY <1>1, <1>3 DEF Lengthened
  <2>2. source' \in Nat /\ source <= source'
    BY <1>1 DEF SharedInv
  <2>3. SharedInv' /\ Grow
    BY <1>1, <1>3, <2>1, <2>2, LoggedStep
  <2>4. Slot(c) \in DOMAIN publications
    BY DEF SetPublication, At, CallerInv, PublicationOK, HasPublished, SlotOf, Slot
  <2>5. /\ Len(current13') = Len(current13) + 1 /\ current13'[Len(current13) + 1] = Slot(c)
        /\ Len(current13) \in Nat /\ \A k \in 1..Len(current13) : current13'[k] = current13[k]
    BY <1>3, AppendExtends, SequenceTypes DEF SharedInv, Extends
  <2>6. PointersHold'
    <3>1. ASSUME NEW k \in 1..Len(current13')
          PROVE  current13'[k] \in DOMAIN publications
      <4>1. k \in 1..Len(current13) \/ k = Len(current13) + 1
        BY <2>5
      <4> QED
        BY <4>1, <2>4, <2>5 DEF PointersHold
    <3> QED
        BY <3>1, <1>1 DEF PointersHold
  <2> QED
    BY <1>1, <2>3, <2>6
<1> QED
    BY <1>2, <1>3 DEF SetPublication

LEMMA MoveShares ==
    ASSUME SharedInv, PointersHold, Move
    PROVE  SharedInv' /\ Grow /\ PointersHold' /\ callers' = callers /\ input' = input
PROOF
<1>1. UNCHANGED <<input, current12, publications, current13, callers>> /\ source' = source + 1 /\ Logged
    BY DEF Move
<1>2. Lengthened(current12', current12) /\ Lengthened(current13', current13)
    BY <1>1 DEF Lengthened
<1>3. source' \in Nat /\ source <= source'
    BY <1>1 DEF SharedInv
<1>4. SharedInv' /\ Grow
    BY <1>1, <1>2, <1>3, LoggedStep
<1> QED
    BY <1>1, <1>4 DEF PointersHold

CallerStep(c) == ResolveTarget(c) \/ ExecuteB12(c) \/ ExecuteB13(c) \/ Order(c)

LEMMA CallerStepShares ==
    ASSUME CallersInv, NEW c \in DOMAIN callers, CallerStep(c)
    PROVE  /\ SharedInv' /\ Grow /\ PointersHold' /\ input' = input
           /\ \E changes : Goes(c, changes)
           /\ \A m : m = callers'[c] => CallerInv(m)'
PROOF
<1>1. SharedInv /\ PointersHold /\ CallerInv(callers[c])
    BY DEF CallersInv
<1>2. PICK me : me = callers[c]
    OBVIOUS
<1>3. SUFFICES ASSUME NEW m, m = callers'[c]
               PROVE  /\ SharedInv' /\ Grow /\ PointersHold' /\ input' = input
                      /\ \E changes : Goes(c, changes)
                      /\ CallerInv(m)'
    OBVIOUS
<1>4. CallerSteps(c, me, m)
    BY <1>1, <1>2, <1>3 DEF CallerSteps, Becomes
<1>5. \/ QuietB12(c) \/ QuietB13(c) \/ PutStrategy(c) \/ SetStrategy(c)
      \/ PutPublication(c) \/ SetPublication(c)
    BY DEF CallerStep, ExecuteB12, ExecuteB13, QuietB12, QuietB13
<1>6. \E changes : Goes(c, changes)
    BY <1>5, StepGoes
<1>7. CASE QuietB12(c) \/ QuietB13(c)
  <2>1. UNCHANGED <<input, source, strategies, current12, publications, current13, log>>
    BY <1>7, QuietShares
  <2>2. SharedInv' /\ Grow /\ PointersHold' /\ input' = input
    BY <1>1, <2>1, SharedStays DEF PointersHold
  <2>3. CallerInv(m)
    BY <1>1, <1>4, <1>7, QuietB12Step, QuietB13Step
  <2> QED
    BY <1>1, <1>6, <2>2, <2>3, HoldsOn
<1>8. CASE PutStrategy(c)
  <2>1. SharedInv' /\ Grow /\ PointersHold' /\ input' = input
    BY <1>1, <1>8, PutStrategyShares
  <2>2. CallerInv(m)
    BY <1>4, <1>8, QuietB12Step
  <2> QED
    BY <1>1, <1>6, <2>1, <2>2, HoldsOn
<1>9. CASE SetStrategy(c)
    BY <1>1, <1>4, <1>6, <1>9, SetStrategyShares, SetStrategyStep
<1>10. CASE PutPublication(c)
    BY <1>1, <1>4, <1>6, <1>10, PutPublicationShares, PutPublicationStep
<1>11. CASE SetPublication(c)
    BY <1>1, <1>4, <1>6, <1>11, SetPublicationShares, SetPublicationStep
<1> QED
    BY <1>5, <1>7, <1>8, <1>9, <1>10, <1>11

LEMMA CallersStep ==
    CallersInv /\ [Next]_vars => CallersInv' /\ Grow
PROOF
<1> SUFFICES ASSUME CallersInv, [Next]_vars
             PROVE  CallersInv' /\ Grow
    OBVIOUS
<1>1. SharedInv /\ PointersHold /\ callers = [c \in DOMAIN callers |-> callers[c]]
      /\ \A c \in DOMAIN callers : CallerInv(callers[c])
    BY DEF CallersInv
<1>2. ASSUME SharedInv', Grow, PointersHold', callers' = callers
      PROVE  CallersInv' /\ Grow
  <2>1. ASSUME NEW c \in DOMAIN callers, NEW m, m = callers'[c]
        PROVE  CallerInv(m)'
    <3>1. CallerInv(m)
        BY <1>1, <1>2, <2>1
    <3> QED
        BY <1>1, <1>2, <3>1, HoldsOn
  <2> QED
    BY <1>1, <1>2, <2>1 DEF CallersInv
<1>3. CASE UNCHANGED vars
    BY <1>1, <1>2, <1>3, SharedStays DEF vars, PointersHold
<1>4. CASE Move
    BY <1>1, <1>2, <1>4, MoveShares
<1>5. ASSUME NEW c \in DOMAIN callers, CallerStep(c)
      PROVE  CallersInv' /\ Grow
  <2>1. SharedInv' /\ Grow /\ PointersHold'
    BY <1>5, CallerStepShares
  <2>2. PICK changes : Goes(c, changes)
    BY <1>5, CallerStepShares
  <2>3. /\ DOMAIN callers' = DOMAIN callers
        /\ \A d \in DOMAIN callers : d # c => callers'[d] = callers[d]
        /\ callers' = [d \in DOMAIN callers' |-> callers'[d]]
    BY <2>2 DEF Goes
  <2>4. ASSUME NEW d \in DOMAIN callers, NEW m, m = callers'[d]
        PROVE  CallerInv(m)'
    <3>1. CASE d = c
        BY <1>5, <2>4, <3>1, CallerStepShares
    <3>2. CASE d # c
      <4>1. m = callers[d] /\ CallerInv(m)
        BY <1>1, <2>3, <2>4, <3>2
      <4> QED
        BY <1>1, <2>1, <4>1, HoldsOn
    <3> QED
        BY <3>1, <3>2
  <2> QED
    BY <2>1, <2>3, <2>4 DEF CallersInv
<1> QED
    BY <1>3, <1>4, <1>5 DEF Next, CallerStep

\* Every answer a caller holds has its instant in the log.
LEMMA AnsweredWithCurrent ==
    CallersInv => AnswersWereCurrent
PROOF
<1> SUFFICES ASSUME CallersInv, NEW c \in DOMAIN callers, callers[c].answered # None
             PROVE  \E k \in callers[c].since..Len(log) :
                      \/ callers[c].answered.stage = 12 /\ StrategyHolds(callers[c], k)
                      \/ /\ callers[c].answered.stage = 13
                         /\ log[k][1] = callers[c].source
                         /\ log[k][3] = callers[c].answered.pointer
                         /\ PlanAt(log[k][3]).source = callers[c].source
                         /\ PlanAt(log[k][3]).selected = callers[c].selected
                         /\ callers[c].current => log[k][2] = callers[c].pinned
    BY DEF AnswersWereCurrent, StrategyHolds
<1>1. AnswerHolds(callers[c])
    BY DEF CallersInv, CallerInv, AnswerOK
<1> QED
    BY <1>1 DEF AnswerHolds

(***************************************************************************)
(* CallersInv is inductive: a caller that has checked its authority knows  *)
(* an instant of its call at which its strategy was the selected one and   *)
(* its source the current one, and nobody's step can undo that instant.    *)
(***************************************************************************)
THEOREM CallersAreConsistent == Spec => []CallersInv
PROOF
<1>1. Init => CallersInv
    BY CallersInit
<1>2. CallersInv /\ [Next]_vars => CallersInv'
    BY CallersStep
<1> QED
    BY <1>1, <1>2, PTL DEF Spec

(***************************************************************************)
(* AnswersWereCurrent: a strategy that execute_b12_strategy reuses was     *)
(* current with its source at one instant of the call, and the pointer it  *)
(* is answered with was current then or earlier in the call; a strategy it *)
(* made is the one its pointer names; and the publication execute_b13      *)
(* answers with was current together with the source and the B1.2 pointer  *)
(* at one instant of the call, whatever other callers published and        *)
(* however the source moved.                                               *)
(***************************************************************************)
THEOREM AnswersAreCurrent == Spec => []AnswersWereCurrent
PROOF
    BY CallersAreConsistent, AnsweredWithCurrent, PTL

(***************************************************************************)
(* No step takes back a publication, moves a pointer anywhere but forward, *)
(* or rewrites what was logged.                                            *)
(***************************************************************************)
THEOREM SharedOnlyGrows == Spec => [][Grow]_vars
PROOF
<1>1. CallersInv /\ [Next]_vars => [Grow]_vars
    BY CallersStep
<1> QED
    BY <1>1, CallersAreConsistent, PTL DEF Spec

-----------------------------------------------------------------------------
(***************************************************************************)
(* The plan.  First the classes of identified candidates: the fold that    *)
(* Classes is computes the connected components of the identifications.    *)
(***************************************************************************)
\* Among numbers there is a least one.
LEMMA LeastExists ==
    ASSUME NEW T \in SUBSET Nat, T # {}
    PROVE  \E x \in T : \A y \in T : x \leq y
PROOF
<1> DEFINE R == OpToRel(<, Nat)
<1>1. IsWellFoundedOn(R, Nat)
    BY NatLessThanWellFounded
<1>2. PICK x \in T : \A y \in T : ~(<<y, x>> \in R)
    BY <1>1, WFMin
<1>3. \A y \in T : y < x => <<y, x>> \in R
    BY DEF OpToRel
<1> HIDE DEF R
<1>4. \A y \in T : ~(y < x)
    BY <1>2, <1>3
<1> QED
    BY <1>4

\* What holds of 0, and of a number's successor if of the number, holds of all.
LEMMA SetInduction ==
    ASSUME NEW S, 0 \in S, \A n \in Nat : n \in S => n + 1 \in S
    PROVE  Nat \subseteq S
PROOF
<1> SUFFICES ASSUME Nat \ S # {} PROVE FALSE
    OBVIOUS
<1>1. PICK x \in Nat \ S : \A y \in Nat \ S : x \leq y
    BY LeastExists
<1>2. x - 1 \in Nat /\ x - 1 + 1 = x
    BY <1>1
<1> QED
    BY <1>1, <1>2

\* The functions that fold a set with G, an element pick[t] of t after the rest of t.
FoldsOf(V, G, pick, base, S) ==
    {g \in [SUBSET S -> V] : \A t \in SUBSET S :
         g[t] = IF t = {} THEN base ELSE G[<<pick[t], g[t \ {pick[t]}]>>]}

\* One element less.
LEMMA WithoutOne ==
    ASSUME NEW S, IsFiniteSet(S), NEW t \in SUBSET S, NEW x \in t
    PROVE  /\ Cardinality(t) \in Nat /\ Cardinality(t \ {x}) \in Nat
           /\ Cardinality(t) = Cardinality(t \ {x}) + 1
PROOF
<1>1. IsFiniteSet(t)
    BY FS_Subset
<1>2. Cardinality(t) \in Nat /\ Cardinality(t \ {x}) = Cardinality(t) - 1
    BY <1>1, FS_CardinalityType, FS_RemoveElement
<1>3. IsFiniteSet(t \ {x})
    BY <1>1, FS_Subset
<1>4. Cardinality(t \ {x}) \in Nat
    BY <1>3, FS_CardinalityType
<1> QED
    BY <1>2, <1>4

\* A fold over a finite set, as the community modules define it, exists.
LEMMA FoldExists ==
    ASSUME NEW V, NEW S, NEW G, NEW pick, NEW base, IsFiniteSet(S), base \in V,
           G \in [S \X V -> V], \A t \in SUBSET S : t # {} => pick[t] \in t
    PROVE  FoldsOf(V, G, pick, base, S) # {}
PROOF
<1> DEFINE Holds(g, t) == g[t] = IF t = {} THEN base ELSE G[<<pick[t], g[t \ {pick[t]}]>>]
           Upto(n) == {t \in SUBSET S : Cardinality(t) \leq n}
           Folds(n) == {g \in [SUBSET S -> V] : \A t \in Upto(n) : Holds(g, t)}
           E == {n \in Nat : Folds(n) # {}}
<1>1. \A t \in SUBSET S : Cardinality(t) \in Nat /\ (Cardinality(t) = 0 <=> t = {})
    BY FS_Subset, FS_CardinalityType, FS_EmptySet
<1>2. 0 \in E
  <2> DEFINE g == [t \in SUBSET S |-> base]
  <2>1. \A t \in Upto(0) : t = {}
    BY <1>1
  <2>2. g \in Folds(0)
    BY <2>1
  <2> HIDE DEF Folds, g
  <2> QED
    BY <2>2
<1>3. ASSUME NEW n \in Nat, n \in E PROVE n + 1 \in E
  <2>1. PICK g : g \in Folds(n)
    <3> HIDE DEF Folds
    <3> QED
      BY <1>3
  <2>2. g \in [SUBSET S -> V] /\ \A t \in SUBSET S : Cardinality(t) \leq n => Holds(g, t)
    BY <2>1
  <2> HIDE DEF Folds
  <2> DEFINE h == [t \in SUBSET S |-> IF Cardinality(t) = n + 1 THEN G[<<pick[t], g[t \ {pick[t]}]>>]
                                                                ELSE g[t]]
  <2>3. \A t \in SUBSET S : t # {} => /\ pick[t] \in S /\ t \ {pick[t]} \in SUBSET S
                                      /\ Cardinality(t) = Cardinality(t \ {pick[t]}) + 1
    BY <1>1, WithoutOne
  <2>4. h \in [SUBSET S -> V]
    <3>1. ASSUME NEW t \in SUBSET S PROVE h[t] \in V
      <4>1. CASE Cardinality(t) = n + 1
        <5>1. t # {}
          BY <1>1, <4>1
        <5>2. <<pick[t], g[t \ {pick[t]}]>> \in S \X V
          BY <2>2, <2>3, <5>1
        <5> QED
          BY <4>1, <5>2
      <4>2. CASE Cardinality(t) # n + 1
        BY <2>2, <4>2
      <4> QED
        BY <4>1, <4>2
    <3> QED
      BY <3>1
  <2>5. ASSUME NEW t \in SUBSET S, Cardinality(t) \leq n + 1 PROVE Holds(h, t)
    <3>1. CASE t = {}
      <4>1. Cardinality(t) = 0
        BY <1>1, <3>1
      <4>2. h[t] = g[t] /\ Holds(g, t)
        BY <2>2, <4>1
      <4> QED
        BY <3>1, <4>2
    <3>2. CASE t # {}
      <4>1. PICK u \in SUBSET S : u = t \ {pick[t]}
        OBVIOUS
      <4>2. Cardinality(u) \in Nat /\ Cardinality(t) = Cardinality(u) + 1
        BY <1>1, <2>3, <3>2, <4>1
      <4>3. h[u] = g[u]
        BY <2>5, <4>2
      <4>4. h[t] = G[<<pick[t], g[u]>>]
        <5>1. CASE Cardinality(t) = n + 1
          BY <4>1, <5>1
        <5>2. CASE Cardinality(t) # n + 1
          <6>1. Cardinality(t) \leq n
            BY <2>5, <4>2, <5>2
          <6>2. h[t] = g[t] /\ Holds(g, t)
            BY <2>2, <5>2, <6>1
          <6> QED
            BY <3>2, <4>1, <6>2
        <5> QED
          BY <5>1, <5>2
      <4> HIDE DEF h
      <4> QED
        BY <3>2, <4>1, <4>3, <4>4
    <3> QED
      BY <3>1, <3>2
  <2>6. h \in Folds(n + 1)
    <3> HIDE DEF h, Holds
    <3> QED
      BY <2>4, <2>5 DEF Folds
  <2> HIDE DEF h
  <2> QED
    BY <2>6
<1>4. Nat \subseteq E
  <2> HIDE DEF E
  <2> QED
    BY <1>2, <1>3, SetInduction
<1>5. PICK g : g \in Folds(Cardinality(S))
  <2> HIDE DEF Folds
  <2>1. Cardinality(S) \in E
    BY <1>4, FS_CardinalityType
  <2> QED
    BY <2>1
<1>6. \A t \in SUBSET S : t \in Upto(Cardinality(S))
    BY FS_Subset
<1>7. g \in [SUBSET S -> V] /\ \A t \in SUBSET S : Holds(g, t)
  <2> HIDE DEF Holds
  <2> QED
    BY <1>5, <1>6
<1> QED
    BY <1>7 DEF FoldsOf

-----------------------------------------------------------------------------
\* Two classes that share nothing with a pair stay, the others are one.
Merged(pair, K) ==
    {k \in K : k \intersect pair = {}} \union {UNION {k \in K : k \intersect pair # {}}}

\* What is known of a fold of Classes, from the equation of the community modules.
Merges(f, S, P) ==
    \A t \in SUBSET P : /\ t = {} => f[t] = {{c} : c \in S}
                        /\ t # {} => \E x \in t : f[t] = Merged(x, f[t \ {x}])

\* The fold that Classes is, with an equation for every set of pairs.
LEMMA ClassesFold ==
    ASSUME NEW S, NEW P, IsFiniteSet(P)
    PROVE  \E f : Merges(f, S, P) /\ f[P] = Classes(S, P)
PROOF
<1> DEFINE V == SUBSET SUBSET (S \union UNION P)
           base == {{c} : c \in S}
           pick == [t \in SUBSET P |-> CHOOSE x \in t : TRUE]
           G == [z \in P \X V |-> Merged(z[1], z[2])]
           it == CHOOSE f : f = [t \in SUBSET P |->
                     IF t = {} THEN base ELSE Merged(CHOOSE x \in t : TRUE,
                                                     f[t \ {CHOOSE x \in t : TRUE}])]
<1>1. base \in V
    OBVIOUS
<1>2. \A x \in P, K \in V : Merged(x, K) \in V
    BY DEF Merged
<1>3. G \in [P \X V -> V]
    BY <1>2
<1>4. \A t \in SUBSET P : t # {} => pick[t] \in t
    OBVIOUS
<1>5. PICK g : g \in FoldsOf(V, G, pick, base, P)
  <2> HIDE DEF V, G, pick, base
  <2> QED
    BY <1>1, <1>3, <1>4, FoldExists
<1>6. /\ g \in [SUBSET P -> V]
      /\ \A t \in SUBSET P : g[t] = IF t = {} THEN base ELSE G[<<pick[t], g[t \ {pick[t]}]>>]
  <2> HIDE DEF V, G, pick, base
  <2> QED
    BY <1>5 DEF FoldsOf
<1>7. ASSUME NEW t \in SUBSET P, t # {}
      PROVE  g[t] = Merged(CHOOSE x \in t : TRUE, g[t \ {CHOOSE x \in t : TRUE}])
  <2>1. PICK x \in t : x = pick[t] /\ x = CHOOSE y \in t : TRUE
    BY <1>4, <1>7
  <2>2. x \in P /\ g[t \ {x}] \in V
    BY <1>6, <2>1
  <2>3. g[t] = G[<<x, g[t \ {x}]>>]
    <3> HIDE DEF V, G, pick, base
    <3> QED
      BY <1>6, <1>7, <2>1
  <2>4. G[<<x, g[t \ {x}]>>] = Merged(x, g[t \ {x}])
    <3> HIDE DEF V, pick, base
    <3> QED
      BY <2>2
  <2> QED
    BY <2>1, <2>3, <2>4
<1>8. g = [t \in SUBSET P |-> IF t = {} THEN base ELSE
              Merged(CHOOSE x \in t : TRUE, g[t \ {CHOOSE x \in t : TRUE}])]
  <2> HIDE DEF V, G, pick, base
  <2> QED
    BY <1>6, <1>7
<1>9. it = [t \in SUBSET P |-> IF t = {} THEN base ELSE
               Merged(CHOOSE x \in t : TRUE, it[t \ {CHOOSE x \in t : TRUE}])]
  <2> HIDE DEF V, G, pick, base
  <2> QED
    BY <1>8, Zenon
<1>10. Classes(S, P) = it[P]
    BY DEF Classes, FoldSet, MapThenFoldSet, Merged
<1> HIDE DEF it
<1>11. PICK f : f = it
    OBVIOUS
<1>12. ASSUME NEW t \in SUBSET P
       PROVE  /\ t = {} => f[t] = base
              /\ t # {} => \E x \in t : f[t] = Merged(x, f[t \ {x}])
  <2>1. f[t] = IF t = {} THEN base ELSE
                   Merged(CHOOSE x \in t : TRUE, f[t \ {CHOOSE x \in t : TRUE}])
    <3> HIDE DEF V, G, pick, base
    <3> QED
      BY <1>9, <1>11
  <2>2. t # {} => (CHOOSE x \in t : TRUE) \in t
    OBVIOUS
  <2> HIDE DEF V, G, pick, base
  <2> QED
    BY <2>1, <2>2
<1>13. Merges(f, S, P)
    BY <1>12 DEF Merges
<1> QED
    BY <1>10, <1>11, <1>13

\* A set that the pairs do not leave.
IsClosed(C, T) == \A p \in T : p \intersect C # {} => p \subseteq C

\* The classes K of S under the pairs T: disjoint, closed, and as small as that allows.
Partitions(K, S, T) ==
    /\ UNION K = S /\ {} \notin K
    /\ \A k, l \in K : k \intersect l # {} => k = l
    /\ \A k \in K : IsClosed(k, T)
    /\ \A C \in SUBSET S : IsClosed(C, T) => \A k \in K : k \intersect C # {} => k \subseteq C

\* One pair more merges the classes it meets.
LEMMA MergedPartitions ==
    ASSUME NEW S, NEW T, NEW K, NEW p, Partitions(K, S, T), p # {}, p \subseteq S
    PROVE  Partitions(Merged(p, K), S, T \union {p})
PROOF
<1> DEFINE rest == {k \in K : k \intersect p = {}}
           met == {k \in K : k \intersect p # {}}
<1>1. PICK U : U = UNION met
    OBVIOUS
<1>2. Merged(p, K) = rest \union {U}
    BY <1>1 DEF Merged
<1>3. UNION K = S /\ {} \notin K /\ \A k, l \in K : k \intersect l # {} => k = l
    BY DEF Partitions
<1>4. p \subseteq U
    BY <1>1, <1>3
<1>5. \A k \in rest : k \intersect U = {}
    BY <1>1, <1>3
<1>6. U \union UNION rest = S /\ {} \notin rest /\ U # {}
    BY <1>1, <1>3, <1>4
<1>7. \A k, l \in rest \union {U} : k \intersect l # {} => k = l
    BY <1>3, <1>5
<1>8. \A k \in rest \union {U} : IsClosed(k, T \union {p})
  <2>1. \A k \in K : IsClosed(k, T)
    BY DEF Partitions
  <2>2. \A k \in rest : IsClosed(k, T \union {p})
    BY <2>1 DEF IsClosed
  <2>3. IsClosed(U, T \union {p})
    BY <1>1, <1>4, <2>1 DEF IsClosed
  <2> QED
    BY <2>2, <2>3
<1>9. ASSUME NEW C \in SUBSET S, IsClosed(C, T \union {p}), NEW k \in rest \union {U},
             k \intersect C # {}
      PROVE  k \subseteq C
  <2>1. IsClosed(C, T) /\ (p \intersect C # {} => p \subseteq C)
    BY <1>9 DEF IsClosed
  <2>2. \A l \in K : l \intersect C # {} => l \subseteq C
    BY <2>1 DEF Partitions
  <2>3. CASE k \in rest
    BY <1>9, <2>2, <2>3
  <2>4. CASE k = U
    <3>1. PICK l \in met : l \intersect C # {}
      BY <1>1, <1>9, <2>4
    <3>2. l \subseteq C /\ l \intersect p # {}
      BY <2>2, <3>1
    <3>3. p \subseteq C
      BY <2>1, <3>2
    <3>4. \A m \in met : m \subseteq C
      BY <2>2, <3>3
    <3> QED
      BY <1>1, <2>4, <3>4
  <2> QED
    BY <2>3, <2>4
<1> HIDE DEF rest, met
<1>10. PICK R : R = rest
    OBVIOUS
<1>11. UNION (R \union {U}) = S /\ {} \notin R \union {U}
    BY <1>6, <1>10
<1>12. \A k, l \in R \union {U} : k \intersect l # {} => k = l
    BY <1>7, <1>10
<1>13. \A k \in R \union {U} : IsClosed(k, T \union {p})
    BY <1>8, <1>10
<1>14. \A C \in SUBSET S : IsClosed(C, T \union {p}) =>
          \A k \in R \union {U} : k \intersect C # {} => k \subseteq C
    BY <1>9, <1>10
<1>15. Partitions(R \union {U}, S, T \union {p})
    BY ONLY <1>11, <1>12, <1>13, <1>14 DEF Partitions
<1> QED
    BY <1>2, <1>10, <1>15

\* The classes of the identified are the connected components.
LEMMA ClassesPartition ==
    ASSUME NEW S, NEW P, IsFiniteSet(P), \A p \in P : p # {} /\ p \subseteq S
    PROVE  Partitions(Classes(S, P), S, P)
PROOF
<1>1. PICK f : Merges(f, S, P) /\ f[P] = Classes(S, P)
    BY ClassesFold
<1> DEFINE E == {n \in Nat : \A t \in SUBSET P : Cardinality(t) = n => Partitions(f[t], S, t)}
<1>2. \A t \in SUBSET P : Cardinality(t) \in Nat /\ (Cardinality(t) = 0 <=> t = {})
    BY FS_Subset, FS_CardinalityType, FS_EmptySet
<1>3. 0 \in E
  <2>1. Partitions({{c} : c \in S}, S, {})
    <3>1. PICK K : K = {{c} : c \in S}
      OBVIOUS
    <3>2. \A k \in K : \E c \in S : k = {c}
      BY <3>1
    <3>3. UNION K = S
      BY <3>1
    <3>4. {} \notin K /\ \A k, l \in K : k \intersect l # {} => k = l
      BY <3>2
    <3>5. \A k \in K : IsClosed(k, {})
      BY DEF IsClosed
    <3>6. \A C \in SUBSET S : \A k \in K : k \intersect C # {} => k \subseteq C
      BY <3>2
    <3> QED
      BY <3>1, <3>3, <3>4, <3>5, <3>6 DEF Partitions
  <2> QED
    BY <1>1, <1>2, <2>1 DEF Merges
<1>4. ASSUME NEW n \in Nat, n \in E PROVE n + 1 \in E
  <2> SUFFICES ASSUME NEW t \in SUBSET P, Cardinality(t) = n + 1 PROVE Partitions(f[t], S, t)
    OBVIOUS
  <2>1. t # {}
    BY <1>2
  <2>2. PICK x \in t : f[t] = Merged(x, f[t \ {x}])
    BY <1>1, <2>1 DEF Merges
  <2>3. PICK u \in SUBSET P : u = t \ {x}
    OBVIOUS
  <2>4. Cardinality(u) = n
    BY <2>3, WithoutOne
  <2>5. Partitions(f[u], S, u)
    BY <1>4, <2>4
  <2>6. Partitions(Merged(x, f[u]), S, u \union {x})
    BY <2>5, MergedPartitions
  <2>7. u \union {x} = t
    BY <2>3
  <2> QED
    BY <2>2, <2>3, <2>6, <2>7
<1>5. Nat \subseteq E
  <2> HIDE DEF E
  <2> QED
    BY <1>3, <1>4, SetInduction
<1> QED
    BY <1>1, <1>2, <1>5

-----------------------------------------------------------------------------
(***************************************************************************)
(* Then what a plan that was put together says of its review.              *)
(***************************************************************************)
\* A review: the proposals ps of all windows, the decisions dec, the
\* candidates, those that live, and their classes.
IsReview(story, ps, dec, cand, live, classes) ==
    /\ cand = Inventory(ps) /\ live = Live(cand, dec) /\ classes = LiveClasses(live, dec)
    /\ PacketIsSound(story) /\ DOMAIN ps = DOMAIN story.windows
    /\ \A k \in DOMAIN ps : NamesCast(ps[k]) /\ ValidProposal(ps[k], OwnedIn(story, k), story.refs)
    /\ IsFiniteSet(dec) /\ ReviewIsValid(cand, dec)
    /\ CanAssemble(cand, dec, EventRefs(story))

Identical(S) == {c \in S : c.kind \in IdentityKinds}

\* A candidate is what its window proposed.
LEMMA InventoryFacts ==
    ASSUME NEW ps, NEW c \in Inventory(ps)
    PROVE  /\ c.at \in DOMAIN ps /\ c = [at |-> c.at, kind |-> c.kind, item |-> c.item]
           /\ c.kind = "event" => c.item \in ps[c.at].how
           /\ c.kind = "char" => c.item \in ps[c.at].chars
           /\ c.kind = "role" => c.item \in ps[c.at].roles
           /\ c.kind = "beat" => c.item \in ps[c.at].beats
PROOF
<1>1. PICK k \in DOMAIN ps : c \in CandidatesOf(k, ps[k])
    BY DEF Inventory
<1>2. PICK p : p = ps[k]
    OBVIOUS
<1>3. \/ c \in Taken(k, "event", p.how) \/ c \in Taken(k, "char", p.chars)
      \/ c \in Taken(k, "role", p.roles) \/ c \in Taken(k, "beat", p.beats)
      \/ \E kind, items : /\ c \in Taken(k, kind, items)
                          /\ kind \notin {"event", "char", "role", "beat"}
    BY <1>1, <1>2 DEF CandidatesOf
<1>4. PICK kind, items : c \in Taken(k, kind, items)
                         /\ (kind = "event" => items = p.how) /\ (kind = "char" => items = p.chars)
                         /\ (kind = "role" => items = p.roles) /\ (kind = "beat" => items = p.beats)
    BY <1>3
<1>5. PICK x \in items : c = [at |-> k, kind |-> kind, item |-> x]
    BY <1>4 DEF Taken
<1>6. c.at = k /\ c.kind = kind /\ c.item = x
    BY <1>5
<1> QED
    BY <1>2, <1>4, <1>5, <1>6

\* Whoever is rejected does not live; an event is not rejected.
LEMMA LiveFacts ==
    ASSUME NEW story, NEW ps, NEW dec, NEW cand, NEW live, NEW classes,
           IsReview(story, ps, dec, cand, live, classes)
    PROVE  /\ live = {c \in cand : ~\E d \in dec : d.kind = "reject" /\ c \in d.over}
           /\ OfKind(cand, "event") \subseteq live
PROOF
<1>1. live = cand \ Rejected(dec)
    BY DEF IsReview, Live
<1>2. live = {c \in cand : ~\E d \in dec : d.kind = "reject" /\ c \in d.over}
    BY <1>1 DEF Rejected
<1>3. \A d \in dec : d.kind = "reject" => \A c \in d.over : c.kind # "event"
    BY DEF IsReview, ReviewIsValid, Contributions
<1> QED
    BY <1>2, <1>3 DEF OfKind

\* What was identified lives, and is of one kind.
LEMMA IdentifiedFacts ==
    ASSUME NEW story, NEW ps, NEW dec, NEW cand, NEW live, NEW classes,
           IsReview(story, ps, dec, cand, live, classes)
    PROVE  /\ IsFiniteSet(Identified(dec))
           /\ \A q \in Identified(dec) : /\ q # {} /\ q \subseteq Identical(live)
                                         /\ \A c, e \in q : c.kind = e.kind
PROOF
<1>1. PICK D : D = {d \in dec : d.kind = "identify"}
    OBVIOUS
<1>2. IsFiniteSet(D)
    BY <1>1, FS_Subset DEF IsReview
<1>3. Identified(dec) = {d.over : d \in D}
    BY <1>1 DEF Identified
<1>4. IsFiniteSet(Identified(dec))
  <2>1. PICK f : f = [d \in D |-> d.over]
    OBVIOUS
  <2>2. f \in Surjection(D, Identified(dec))
    BY <1>3, <2>1 DEF Surjection
  <2> QED
    BY <1>2, <2>2, FS_Surjection
<1>5. ASSUME NEW q \in Identified(dec)
      PROVE  q # {} /\ q \subseteq Identical(live) /\ \A c, e \in q : c.kind = e.kind
  <2>1. PICK d \in dec : d.kind = "identify" /\ d.over = q
    BY <1>1, <1>3
  <2>2. DecisionForm(d) /\ d \in Identities(dec)
    BY <2>1 DEF IsReview, ReviewIsValid, Identities
  <2>3. Cardinality(q) = 2
    BY <2>1, <2>2 DEF DecisionForm, Identities
  <2>4. \A c, e \in q : c.kind = e.kind /\ c.kind \in IdentityKinds
    BY <2>1, <2>2 DEF IsReview, ReviewIsValid
  <2>5. NothingDangles(live, dec)
    BY DEF IsReview, CanAssemble
  <2>6. q \subseteq live
    BY <2>5 DEF NothingDangles
  <2>7. q # {}
    BY <2>3, FS_EmptySet
  <2> QED
    BY <2>4, <2>6, <2>7 DEF Identical
<1> QED
    BY <1>4, <1>5

\* The classes of the living, and of all candidates.
LEMMA LiveClassesFacts ==
    ASSUME NEW story, NEW ps, NEW dec, NEW cand, NEW live, NEW classes,
           IsReview(story, ps, dec, cand, live, classes)
    PROVE  /\ Partitions(classes, Identical(live), Identified(dec))
           /\ Partitions(Classes(Identical(cand), Identified(dec)), Identical(cand), Identified(dec))
           /\ \A k \in classes : \A c, e \in k : c.kind = e.kind
PROOF
<1>1. PICK I : I = Identical(live)
    OBVIOUS
<1>2. PICK J : J = Identical(cand)
    OBVIOUS
<1>3. PICK T : T = Identified(dec)
    OBVIOUS
<1>4. IsFiniteSet(T) /\ \A q \in T : q # {} /\ q \subseteq I /\ \A c, e \in q : c.kind = e.kind
    BY <1>1, <1>3, IdentifiedFacts
<1>5. I \subseteq J
    BY <1>1, <1>2, LiveFacts DEF Identical
<1>6. classes = Classes(I, T)
    BY <1>1, <1>3 DEF IsReview, LiveClasses, Identical
<1>7. Partitions(classes, I, T)
    BY <1>4, <1>6, ClassesPartition
<1>8. Partitions(Classes(J, T), J, T)
    BY <1>4, <1>5, ClassesPartition
<1>9. ASSUME NEW k \in classes, NEW c \in k, NEW e \in k PROVE c.kind = e.kind
  <2>1. PICK C \in SUBSET I : C = {d \in I : d.kind = c.kind}
    OBVIOUS
  <2>2. IsClosed(C, T)
    BY <1>4, <2>1 DEF IsClosed
  <2>3. c \in I
    BY <1>7 DEF Partitions
  <2>4. k \subseteq C
    BY <1>7, <2>1, <2>2, <2>3 DEF Partitions
  <2> QED
    BY <2>1, <2>4
<1> QED
    BY <1>1, <1>2, <1>3, <1>7, <1>8, <1>9

\* The members of one kind, one for each class.
MembersOf(live, classes, kind) ==
    {[id |-> k, is |-> Content(live, classes, CHOOSE c \in k : TRUE)] :
        k \in {k \in classes : \E c \in k : c.kind = kind}}

\* A review and the plan that follows from it.
IsPlanned(story, ps, dec, cand, live, classes, plan) ==
    IsReview(story, ps, dec, cand, live, classes) /\ plan = Assembled(live, dec)

\* What is put together, field by field.
LEMMA AssembledFields ==
    ASSUME NEW story, NEW ps, NEW dec, NEW cand, NEW live, NEW classes, NEW plan,
           IsPlanned(story, ps, dec, cand, live, classes, plan)
    PROVE  /\ plan.how = {c.item : c \in OfKind(live, "event")}
           /\ plan.chars = MembersOf(live, classes, "char")
           /\ plan.roles = MembersOf(live, classes, "role")
           /\ plan.beats = MembersOf(live, classes, "beat")
PROOF
<1>1. plan = Assembled(live, dec) /\ classes = LiveClasses(live, dec)
    BY DEF IsPlanned, IsReview
<1>2. plan.how = {c.item : c \in OfKind(live, "event")}
    BY <1>1 DEF Assembled
<1>3. plan.chars = MembersOf(live, classes, "char")
    BY <1>1 DEF Assembled, MembersOf
<1>4. plan.roles = MembersOf(live, classes, "role")
    BY <1>1 DEF Assembled, MembersOf
<1>5. plan.beats = MembersOf(live, classes, "beat")
    BY <1>1 DEF Assembled, MembersOf
<1> QED
    BY <1>2, <1>3, <1>4, <1>5

\* A member says what each of its candidates says.
LEMMA MemberFacts ==
    ASSUME NEW story, NEW ps, NEW dec, NEW cand, NEW live, NEW classes, NEW plan,
           IsPlanned(story, ps, dec, cand, live, classes, plan), NEW kind,
           NEW m \in MembersOf(live, classes, kind)
    PROVE  /\ m.id \in classes /\ m.id # {} /\ \A c \in m.id : c.kind = kind
           /\ \A c \in m.id : m.is = Content(live, classes, c)
           /\ \A n \in MembersOf(live, classes, kind) : n.id = m.id => n = m
PROOF
<1>1. PICK k \in classes : /\ \E c \in k : c.kind = kind
                           /\ m = [id |-> k, is |-> Content(live, classes, CHOOSE c \in k : TRUE)]
    BY DEF MembersOf
<1>2. m.id = k /\ m.is = Content(live, classes, CHOOSE c \in k : TRUE) /\ k # {}
    BY <1>1
<1>3. PICK e : e = CHOOSE c \in k : TRUE
    OBVIOUS
<1>4. e \in k
    BY <1>2, <1>3
<1>5. \A c, d \in k : Content(live, classes, c) = Content(live, classes, d)
    BY <1>1 DEF IsPlanned, IsReview, CanAssemble, Agrees
<1>6. \A c \in k : m.is = Content(live, classes, c)
    BY <1>2, <1>3, <1>4, <1>5
<1>7. \A c, d \in k : c.kind = d.kind
    BY <1>1, LiveClassesFacts DEF IsPlanned
<1>8. \A n \in MembersOf(live, classes, kind) : n.id = k => n = m
    BY <1>1 DEF MembersOf
<1> QED
    BY <1>1, <1>2, <1>6, <1>7, <1>8

\* The one member that speaks for a live candidate.
LEMMA SaidFacts ==
    ASSUME NEW story, NEW ps, NEW dec, NEW cand, NEW live, NEW classes, NEW plan,
           IsPlanned(story, ps, dec, cand, live, classes, plan), NEW c \in Identical(live)
    PROVE  \E m \in MembersOf(live, classes, c.kind) : c \in m.id /\ Said(plan, c) = {m}
PROOF
<1>1. Said(plan, c) = {m \in MembersOf(live, classes, c.kind) : c \in m.id}
    BY AssembledFields DEF Said, Identical, IdentityKinds
<1>2. /\ UNION classes = Identical(live)
      /\ \A k, l \in classes : k \intersect l # {} => k = l
    BY LiveClassesFacts DEF IsPlanned, Partitions
<1>3. PICK k \in classes : c \in k
    BY <1>2
<1>4. PICK m \in MembersOf(live, classes, c.kind) : m.id = k
  <2>1. PICK m : m = [id |-> k, is |-> Content(live, classes, CHOOSE d \in k : TRUE)]
    OBVIOUS
  <2>2. m \in MembersOf(live, classes, c.kind)
    BY <1>3, <2>1 DEF MembersOf
  <2> QED
    BY <2>1, <2>2
<1>5. ASSUME NEW n \in MembersOf(live, classes, c.kind), c \in n.id PROVE n = m
  <2>1. n.id \in classes
    BY MemberFacts
  <2>2. n.id = k
    BY <1>2, <1>3, <1>5, <2>1
  <2> QED
    BY <1>4, <2>2, MemberFacts
<1> QED
    BY <1>1, <1>3, <1>4, <1>5

\* All that lives and can be identified is in the plan, and nothing else.
LEMMA AllIsPlanned ==
    ASSUME NEW story, NEW ps, NEW dec, NEW cand, NEW live, NEW classes, NEW plan,
           IsPlanned(story, ps, dec, cand, live, classes, plan)
    PROVE  UNION Ids(plan.chars \union plan.roles \union plan.beats) = Identical(live)
PROOF
<1>1. PICK M : M = plan.chars \union plan.roles \union plan.beats
    OBVIOUS
<1>2. UNION classes = Identical(live)
    BY LiveClassesFacts DEF IsPlanned, Partitions
<1>3. \A m \in M : m.id \in classes
    BY <1>1, AssembledFields, MemberFacts
<1>4. ASSUME NEW c \in Identical(live) PROVE \E m \in M : c \in m.id
  <2>1. c.kind \in {"char", "role", "beat"}
    BY DEF Identical, IdentityKinds
  <2>2. PICK m \in MembersOf(live, classes, c.kind) : c \in m.id
    BY SaidFacts
  <2>3. m \in M
    BY <1>1, <2>1, <2>2, AssembledFields
  <2> QED
    BY <2>2, <2>3
<1>5. UNION Ids(M) = Identical(live)
    BY <1>2, <1>3, <1>4 DEF Ids
<1> QED
    BY <1>1, <1>5

\* Two share a member exactly if a chain of identifications joins them.
LEMMA JoinedShare ==
    ASSUME NEW story, NEW ps, NEW dec, NEW cand, NEW live, NEW classes, NEW plan,
           IsPlanned(story, ps, dec, cand, live, classes, plan),
           NEW c \in Identical(live), NEW d \in Identical(live), c.kind = d.kind
    PROVE  AreJoined(c, d, live, dec) <=> Said(plan, c) = Said(plan, d)
PROOF
<1>1. PICK m \in MembersOf(live, classes, c.kind) : c \in m.id /\ Said(plan, c) = {m}
    BY SaidFacts
<1>2. PICK n \in MembersOf(live, classes, d.kind) : d \in n.id /\ Said(plan, d) = {n}
    BY SaidFacts
<1>3. /\ m.id \in classes /\ n.id \in classes
      /\ \A e \in m.id : e.kind = c.kind
      /\ n.id = m.id => n = m
    BY <1>1, <1>2, MemberFacts
<1>4. PICK T : T = Identified(dec)
    OBVIOUS
<1>5. Partitions(classes, Identical(live), T)
    BY <1>4, LiveClassesFacts DEF IsPlanned
<1>6. AreJoined(c, d, live, dec) <=>
          \A S \in SUBSET OfKind(live, c.kind) : c \in S /\ IsClosed(S, T) => d \in S
    BY <1>4 DEF AreJoined, IsClosed
<1>7. ASSUME \A S \in SUBSET OfKind(live, c.kind) : c \in S /\ IsClosed(S, T) => d \in S
      PROVE  Said(plan, c) = Said(plan, d)
  <2>1. IsClosed(m.id, T) /\ m.id \subseteq Identical(live)
    BY <1>3, <1>5 DEF Partitions
  <2>2. m.id \in SUBSET OfKind(live, c.kind)
    BY <1>3, <2>1 DEF OfKind, Identical
  <2>3. d \in m.id
    BY <1>1, <1>7, <2>1, <2>2
  <2>4. n.id = m.id
    BY <1>2, <1>3, <1>5, <2>3 DEF Partitions
  <2> QED
    BY <1>1, <1>2, <1>3, <2>4
<1>8. ASSUME Said(plan, c) = Said(plan, d), NEW S \in SUBSET OfKind(live, c.kind),
             c \in S, IsClosed(S, T)
      PROVE  d \in S
  <2>1. m = n
    BY <1>1, <1>2, <1>8
  <2>2. S \in SUBSET Identical(live)
    BY DEF OfKind, Identical
  <2>3. m.id \subseteq S
    BY <1>1, <1>3, <1>5, <1>8, <2>2 DEF Partitions
  <2> QED
    BY <1>2, <2>1, <2>3
<1> QED
    BY <1>6, <1>7, <1>8

\* What was decided distinct is in no member together.
LEMMA DistinctIsApart ==
    ASSUME NEW story, NEW ps, NEW dec, NEW cand, NEW live, NEW classes, NEW plan,
           IsPlanned(story, ps, dec, cand, live, classes, plan),
           NEW d \in dec, d.kind = "distinct", NEW k \in classes
    PROVE  ~(d.over \subseteq k)
PROOF
<1>1. PICK T : T = Identified(dec)
    OBVIOUS
<1>2. PICK K : K = Classes(Identical(cand), T)
    OBVIOUS
<1>3. Partitions(classes, Identical(live), T) /\ Partitions(K, Identical(cand), T)
    BY <1>1, <1>2, LiveClassesFacts DEF IsPlanned
<1>4. \A l \in K : ~(d.over \subseteq l)
    BY <1>1, <1>2 DEF IsPlanned, IsReview, ReviewIsValid, ClosureHolds, Identical
<1>5. \A q \in T : q \subseteq Identical(live)
    BY <1>1, IdentifiedFacts DEF IsPlanned
<1>6. Identical(live) \subseteq Identical(cand)
    BY LiveFacts DEF IsPlanned, Identical
<1>7. PICK c \in k : c \in Identical(live)
    BY <1>3 DEF Partitions
<1>8. PICK l \in K : c \in l
    BY <1>3, <1>6, <1>7 DEF Partitions
<1>9. PICK C \in SUBSET Identical(live) : C = l \intersect Identical(live)
    OBVIOUS
<1>10. IsClosed(C, T)
    BY <1>3, <1>5, <1>8, <1>9 DEF Partitions, IsClosed
<1>11. c \in k \intersect C
    BY <1>7, <1>8, <1>9
<1>12. k \subseteq C
    BY <1>3, <1>10, <1>11 DEF Partitions
<1> QED
    BY <1>4, <1>8, <1>9, <1>12

\* A disposition is a candidate that lives.
LEMMA DispositionsLive ==
    ASSUME NEW story, NEW ps, NEW dec, NEW cand, NEW live, NEW classes, NEW plan,
           IsPlanned(story, ps, dec, cand, live, classes, plan),
           NEW k \in DOMAIN ps, NEW d \in ps[k].how
    PROVE  /\ [at |-> k, kind |-> "event", item |-> d] \in OfKind(live, "event")
           /\ d \in plan.how
PROOF
<1>1. PICK c : c = [at |-> k, kind |-> "event", item |-> d]
    OBVIOUS
<1>2. c \in Taken(k, "event", ps[k].how)
    BY <1>1 DEF Taken
<1>3. c \in Inventory(ps)
    BY <1>2 DEF Inventory, CandidatesOf
<1>4. c \in OfKind(cand, "event")
    BY <1>1, <1>3 DEF OfKind, IsPlanned, IsReview
<1>5. c \in OfKind(live, "event")
    BY <1>4, LiveFacts DEF IsPlanned, OfKind
<1>6. d \in plan.how
    BY <1>1, <1>5, AssembledFields
<1> QED
    BY <1>1, <1>5, <1>6

\* Every event has the disposition of its owner, and no other.
LEMMA EventsHaveOwners ==
    ASSUME NEW story, NEW ps, NEW dec, NEW cand, NEW live, NEW classes, NEW plan,
           IsPlanned(story, ps, dec, cand, live, classes, plan), NEW e \in EventRefs(story)
    PROVE  \E k \in DOMAIN ps : /\ e \in OwnedIn(story, k)
                                /\ {d \in plan.how : d.event = e} = {d \in ps[k].how : d.event = e}
PROOF
<1>1. OwnedOnce(story.windows, EventsOf(story)) /\ DOMAIN ps = DOMAIN story.windows
    BY DEF IsPlanned, IsReview, PacketIsSound
<1>2. PICK n \in EventsOf(story) : e = <<"event", n>>
    BY DEF EventRefs
<1>3. PICK k \in DOMAIN ps : n \in story.windows[k]
    BY <1>1, <1>2 DEF OwnedOnce, Range
<1>4. e \in OwnedIn(story, k)
    BY <1>2, <1>3 DEF OwnedIn
<1>5. \A d \in ps[k].how : d \in plan.how
    BY DispositionsLive
<1>6. ASSUME NEW d \in plan.how, d.event = e PROVE d \in ps[k].how
  <2>1. PICK c \in OfKind(live, "event") : d = c.item
    BY AssembledFields
  <2>2. c \in cand /\ c.kind = "event" /\ cand = Inventory(ps)
    BY <2>1, LiveFacts DEF IsPlanned, IsReview, OfKind
  <2>3. c.at \in DOMAIN ps /\ d \in ps[c.at].how
    BY <2>1, <2>2, InventoryFacts
  <2>4. DisposesOwned(ps[c.at], OwnedIn(story, c.at))
    BY <2>3 DEF IsPlanned, IsReview, ValidProposal
  <2>5. e \in OwnedIn(story, c.at)
    BY <1>6, <2>3, <2>4 DEF DisposesOwned
  <2>6. n \in story.windows[c.at]
    BY <1>2, <2>5 DEF OwnedIn
  <2>7. c.at = k
    BY <1>1, <1>3, <2>3, <2>6 DEF OwnedOnce
  <2> QED
    BY <2>3, <2>7
<1> QED
    BY <1>4, <1>5, <1>6

\* An event its owner omits is in no beat, and anchors only its owner's.
LEMMA OmittedIsOmitted ==
    ASSUME NEW story, NEW ps, NEW dec, NEW cand, NEW live, NEW classes, NEW plan,
           IsPlanned(story, ps, dec, cand, live, classes, plan),
           NEW k \in DOMAIN ps, NEW d \in ps[k].how, d.how = "omit", NEW b \in plan.beats
    PROVE  /\ d.event \notin b.is.events
           /\ d.event \in b.is.anchors => \A c \in b.id : c.at = k
PROOF
<1>1. d \in plan.how
    BY DispositionsLive
<1>2. PlanIsValid(plan, live, EventRefs(story))
    BY DEF IsPlanned, IsReview, CanAssemble
<1>3. EventIsCarried(plan, d)
    BY <1>1, <1>2 DEF PlanIsValid
<1>4. d.event \notin b.is.events
    BY <1>3 DEF EventIsCarried
<1>5. ASSUME d.event \in b.is.anchors, NEW c \in b.id, c.at # k PROVE FALSE
  <2>1. /\ b.id \in classes /\ c.kind = "beat" /\ b.is = Content(live, classes, c)
    BY <1>5, AssembledFields, MemberFacts
  <2>2. b.is.anchors = c.item.anchors
    BY <2>1 DEF Content
  <2>3. c \in live
    <3>1. Partitions(classes, Identical(live), Identified(dec))
      BY LiveClassesFacts DEF IsPlanned
    <3>2. c \in Identical(live)
      BY <1>5, <2>1, <3>1 DEF Partitions
    <3> QED
      BY <3>2 DEF Identical
  <2>4. c \in OfKind(cand, "beat") /\ c \notin Rejected(dec)
    BY <2>1, <2>3 DEF IsPlanned, IsReview, Live, OfKind
  <2>5. PICK v : v = [at |-> k, kind |-> "event", item |-> d]
    OBVIOUS
  <2>6. v \in OfKind(cand, "event")
    BY <2>5, DispositionsLive DEF IsPlanned, IsReview, Live, OfKind
  <2>7. PICK f : f = Finding("omit", {v, c}, d.event)
    OBVIOUS
  <2>8. f \in OmitFindings(cand)
    <3>1. PICK pair \in OfKind(cand, "event") \X OfKind(cand, "beat") : pair = <<v, c>>
      BY <2>4, <2>6
    <3>2. /\ pair[1].item.how = "omit" /\ pair[1].at # pair[2].at
          /\ pair[1].item.event \in pair[2].item.events \union pair[2].item.anchors
          /\ f = Finding("omit", {pair[1], pair[2]}, pair[1].item.event)
      BY <1>5, <2>2, <2>5, <2>7, <3>1
    <3> QED
      BY <3>2 DEF OmitFindings
  <2>9. f \in Findings(cand) /\ Unresolved(cand, dec) = {}
    BY <2>8 DEF Findings, IsPlanned, IsReview, CanAssemble
  <2>10. IsResolved(f, dec)
    BY <2>9 DEF Unresolved
  <2>11. f.kind = "omit" /\ f.over = {v, c}
    BY <2>7 DEF Finding
  <2>12. c \in f.over \ Rejected(dec)
    BY <2>4, <2>11
  <2>13. c.kind = "event"
    BY <2>10, <2>11, <2>12 DEF IsResolved
  <2> QED
    BY <2>1, <2>13
<1> QED
    BY <1>4, <1>5

\* Who takes part in a beat is what its own window named so.
LEMMA CastIsNamed ==
    ASSUME NEW story, NEW ps, NEW dec, NEW cand, NEW live, NEW classes, NEW plan,
           IsPlanned(story, ps, dec, cand, live, classes, plan),
           NEW c \in Identical(live), c.kind = "beat", NEW who \in c.item.with
    PROVE  \E m \in Said(plan, c) : \E w \in m.is.with : \E o \in w.id :
               o.at = c.at /\ o.kind = who.kind /\ o.item.key = who.key
PROOF
<1>1. PICK m \in MembersOf(live, classes, c.kind) : c \in m.id /\ Said(plan, c) = {m}
    BY SaidFacts
<1>2. m.is = Content(live, classes, c)
    BY <1>1, MemberFacts
<1>3. m.is.with = {[kind |-> w.kind, id |-> IdOf(live, classes, c, w.kind, w.key)] :
                      w \in c.item.with}
    BY <1>2 DEF Content
<1>4. c \in live /\ cand = Inventory(ps) /\ live \subseteq cand
    BY LiveFacts DEF IsPlanned, IsReview, Identical
<1>5. PICK p : p = ps[c.at]
    OBVIOUS
<1>6. c.at \in DOMAIN ps /\ c.item \in p.beats
    BY <1>4, <1>5, InventoryFacts
<1>7. who.kind \in {"char", "role"}
    BY <1>5, <1>6 DEF IsPlanned, IsReview, NamesCast
<1>8. who \in Needs(c)
    BY DEF Needs
<1>9. NothingDangles(live, dec)
    BY DEF IsPlanned, IsReview, CanAssemble
<1>10. PICK o : o \in Local(live, c, who.kind, who.key)
    BY <1>4, <1>8, <1>9 DEF NothingDangles, Resolves
<1>11. /\ o \in live /\ o.kind = who.kind /\ o.at = c.at /\ o.item.key = who.key
    BY <1>10 DEF Local, OfKind
<1>12. ValidChars(p, story.refs) /\ ValidRoles(p)
    BY <1>5, <1>6 DEF IsPlanned, IsReview, ValidProposal
<1>13. /\ \A x, y \in p.chars : x.key = y.key => x = y
       /\ \A x, y \in p.roles : x.key = y.key => x = y
    BY <1>12 DEF ValidChars, ValidRoles, KeyedBy
<1>14. ASSUME NEW d \in Local(live, c, who.kind, who.key) PROVE d = o
  <2>1. d \in cand /\ d.kind = who.kind /\ d.at = c.at /\ d.item.key = who.key
    BY <1>4 DEF Local, OfKind
  <2>2. d.item = o.item
    BY <1>4, <1>5, <1>7, <1>11, <1>13, <2>1, InventoryFacts
  <2> QED
    BY <1>4, <1>11, <2>1, <2>2, InventoryFacts
<1>15. Local(live, c, who.kind, who.key) = {o}
    BY <1>10, <1>14
<1>16. o \in Identical(live)
    BY <1>7, <1>11 DEF Identical, IdentityKinds
<1>17. PICK k \in classes : o \in k
    BY <1>16, LiveClassesFacts DEF IsPlanned, Partitions
<1>18. PICK id : id = IdOf(live, classes, c, who.kind, who.key)
    OBVIOUS
<1>19. o \in id
    BY <1>15, <1>17, <1>18 DEF IdOf
<1>20. PICK w : w = [kind |-> who.kind, id |-> id]
    OBVIOUS
<1>21. w \in m.is.with
    BY <1>3, <1>18, <1>20
<1>22. o \in w.id
    BY <1>19, <1>20
<1> QED
    BY <1>1, <1>11, <1>21, <1>22

\* A publication that was reviewed honours its review.
LEMMA ReviewedIsHonoured ==
    ASSUME NEW p, WasReviewed(input.story, p)
    PROVE  HonoursReview(p)
PROOF
<1> DEFINE candidates == Inventory(p.proposals)
           live == {c \in candidates : ~\E d \in p.decisions : d.kind = "reject" /\ c \in d.over}
           members == p.plan.chars \union p.plan.roles \union p.plan.beats
           identity == {c \in live : c.kind \in IdentityKinds}
<1>1. PICK story, ps, dec, plan : /\ story = input.story /\ ps = p.proposals
                                  /\ dec = p.decisions /\ plan = p.plan
    OBVIOUS
<1>2. PICK cand : cand = candidates
    OBVIOUS
<1>3. PICK lives : lives = Live(cand, dec)
    OBVIOUS
<1>4. PICK classes : classes = LiveClasses(lives, dec)
    OBVIOUS
<1>5. IsPlanned(story, ps, dec, cand, lives, classes, plan)
    BY <1>1, <1>2, <1>3, <1>4 DEF WasReviewed, IsPlanned, IsReview
<1>6. lives = live
  <2>1. lives = {c \in cand : ~\E d \in dec : d.kind = "reject" /\ c \in d.over}
    BY <1>5, LiveFacts DEF IsPlanned
  <2> QED
    BY <1>1, <1>2, <2>1
<1>7. Identical(lives) = identity
    BY <1>6 DEF Identical
<1> HIDE DEF candidates, live, identity
<1>8. UNION Ids(members) = identity
    BY <1>1, <1>5, <1>7, AllIsPlanned
<1>9. ASSUME NEW c \in identity PROVE Cardinality(Said(p.plan, c)) = 1
  <2>1. PICK m \in MembersOf(lives, classes, c.kind) : c \in m.id /\ Said(plan, c) = {m}
    BY <1>5, <1>7, SaidFacts
  <2> QED
    BY <1>1, <2>1, FS_Singleton
<1>10. ASSUME NEW c \in identity, NEW d \in identity, c.kind = d.kind
       PROVE  AreJoined(c, d, live, p.decisions) <=> Said(p.plan, c) = Said(p.plan, d)
  <2>1. AreJoined(c, d, lives, dec) <=> Said(plan, c) = Said(plan, d)
    BY <1>5, <1>7, <1>10, JoinedShare
  <2> QED
    BY <1>1, <1>6, <2>1
<1>11. ASSUME NEW d \in p.decisions, d.kind = "distinct", NEW m \in members
       PROVE  ~(d.over \subseteq m.id)
  <2>1. m.id \in classes
    BY <1>1, <1>5, AssembledFields, MemberFacts
  <2> QED
    BY <1>1, <1>5, <1>11, <2>1, DistinctIsApart
<1>12. ASSUME NEW e \in Events
       PROVE  \E k \in DOMAIN p.proposals :
                  /\ e \in Owned(k)
                  /\ {d \in p.plan.how : d.event = e} = {d \in p.proposals[k].how : d.event = e}
  <2>1. e \in EventRefs(story)
    BY <1>1 DEF Events
  <2>2. PICK k \in DOMAIN ps :
            /\ e \in OwnedIn(story, k)
            /\ {d \in plan.how : d.event = e} = {d \in ps[k].how : d.event = e}
    BY <1>5, <2>1, EventsHaveOwners
  <2> QED
    BY <1>1, <2>2 DEF Owned
<1>13. ASSUME NEW k \in DOMAIN p.proposals, NEW d \in p.proposals[k].how, d.how = "omit",
              NEW b \in p.plan.beats
       PROVE  /\ d.event \notin b.is.events
              /\ d.event \in b.is.anchors => \A c \in b.id : c.at = k
    BY <1>1, <1>5, <1>13, OmittedIsOmitted
<1>14. ASSUME NEW c \in identity, c.kind = "beat", NEW who \in c.item.with
       PROVE  \E m \in Said(p.plan, c) : \E w \in m.is.with : \E o \in w.id :
                  o.at = c.at /\ o.kind = who.kind /\ o.item.key = who.key
    BY <1>1, <1>5, <1>7, <1>14, CastIsNamed
<1>15. HonoursReview(p) <=>
          /\ UNION Ids(members) = identity
          /\ \A c \in identity : Cardinality(Said(p.plan, c)) = 1
          /\ \A c, d \in identity : c.kind = d.kind =>
                (AreJoined(c, d, live, p.decisions) <=> Said(p.plan, c) = Said(p.plan, d))
          /\ \A d \in p.decisions :
                d.kind = "distinct" => \A m \in members : ~(d.over \subseteq m.id)
          /\ \A e \in Events : \E k \in DOMAIN p.proposals :
                /\ e \in Owned(k)
                /\ {d \in p.plan.how : d.event = e} = {d \in p.proposals[k].how : d.event = e}
          /\ \A k \in DOMAIN p.proposals : \A d \in p.proposals[k].how :
                d.how = "omit" => \A b \in p.plan.beats :
                   /\ d.event \notin b.is.events
                   /\ d.event \in b.is.anchors => \A c \in b.id : c.at = k
          /\ \A c \in identity : c.kind = "beat" =>
                \A who \in c.item.with : \E m \in Said(p.plan, c) : \E w \in m.is.with :
                   \E o \in w.id : o.at = c.at /\ o.kind = who.kind /\ o.item.key = who.key
    BY ONLY Zenon DEF HonoursReview, candidates, live, members, identity
<1> HIDE DEF members
<1> QED
    BY <1>8, <1>9, <1>10, <1>11, <1>12, <1>13, <1>14, <1>15

-----------------------------------------------------------------------------
(***************************************************************************)
(* And last, the callers: what one has accepted and had decided was        *)
(* checked, by the step that accepted it, when it comes to publish it.     *)
(***************************************************************************)
\* Where a caller is: while its authority is checked, where it goes then.
Phase(m) == IF m.pc \in Checking THEN m.then ELSE m.pc
Outside == {"target", "prepare12", "rejected", "refused", "failed", "have13", "ordered"}
Early == Making12 \union {"target", "prepare12", "have12", "peek13", "match13", "recheck13",
                          "preflight13"}
Decided == {"publish13", "same13", "slot13", "put13"}

\* The first n of the accepted answers, each good for its window.
AcceptedOK(story, s, n) ==
    /\ IsSequence(s)
    /\ \A k \in 1..n : NamesCast(s[k]) /\ ValidProposal(s[k], OwnedIn(story, k), story.refs)

DecisionsOK(story, s, decisions) ==
    /\ IsFiniteSet(decisions) /\ ReviewIsValid(Inventory(s), decisions)
    /\ CanAssemble(Inventory(s), decisions, EventRefs(story))

\* What the record m of a caller has accepted and decided.
ReviewOK(story, m) ==
    /\ Phase(m) \notin Outside => PacketIsSound(story)
    /\ Phase(m) \in Early => m.accepted = <<>>
    /\ Phase(m) = "ask13" =>
          AcceptedOK(story, m.accepted, Len(m.accepted)) /\ Len(m.accepted) < Len(story.windows)
    /\ Phase(m) = "judge13" =>
          /\ Len(m.accepted) \in 1..Len(story.windows)
          /\ AcceptedOK(story, m.accepted, Len(m.accepted) - 1)
          /\ NamesCast(m.accepted[Len(m.accepted)])
    /\ Phase(m) \in Decided \union {"review13"} =>
          AcceptedOK(story, m.accepted, Len(m.accepted)) /\ Len(m.accepted) = Len(story.windows)
    /\ Phase(m) \in Decided => DecisionsOK(story, m.accepted, m.decisions)

ReviewInv ==
    /\ input \in Inputs
    /\ \A slot \in DOMAIN publications : WasReviewed(input.story, publications[slot])
    /\ \A c \in DOMAIN callers : ReviewOK(input.story, callers[c])

\* A step that leaves what was accepted and decided.
Kept(me, m) == m.accepted = me.accepted /\ m.decisions = me.decisions
KeepingFields == CallerFields \ {"accepted", "decisions"}

LEMMA Keeping ==
    ASSUME NEW c, NEW me, NEW m, CallerSteps(c, me, m), NEW ch, Goes(c, ch),
           DOMAIN ch \subseteq KeepingFields
    PROVE  /\ Kept(me, m) /\ \A f \in DOMAIN ch : m[f] = ch[f]
           /\ "then" \notin DOMAIN ch => m.then = me.then
PROOF
<1>1. DOMAIN me = CallerFields /\ Becomes(c, me, m)
    BY DEF CallerSteps, CallerInv, FieldsOK
<1>2. {"accepted", "decisions", "then"} \subseteq CallerFields
    BY DEF CallerFields, Idle
<1>3. DOMAIN ch \subseteq DOMAIN me
    BY <1>1 DEF KeepingFields
<1>4. \A f \in DOMAIN ch : m[f] = ch[f]
    BY <1>1, <1>3, GoesOn
<1>5. \A f \in DOMAIN me \ DOMAIN ch : m[f] = me[f]
    BY <1>1, <1>3, GoesOn
<1> QED
    BY <1>1, <1>2, <1>4, <1>5 DEF KeepingFields, Kept

\* From one of the places froms to one of tos, keeping what was accepted.
MovesTo(me, m, tos) == Kept(me, m) /\ m.then = me.then /\ m.pc \in tos

\* Going to a place keeps what was accepted.
LEMMA KeepsTo ==
    ASSUME NEW c, NEW me, NEW m, CallerSteps(c, me, m), NEW tos, NEW p \in tos, Goes(c, To(p))
    PROVE  MovesTo(me, m, tos)
PROOF
<1>1. PICK ch : ch = To(p)
    OBVIOUS
<1>2. DOMAIN ch = {"pc"} /\ ch.pc = p /\ Goes(c, ch)
    BY <1>1 DEF To
<1>3. DOMAIN ch \subseteq KeepingFields
    BY <1>2 DEF KeepingFields, CallerFields, Idle
<1> QED
    BY <1>2, <1>3, Keeping DEF MovesTo

LEMMA KeepsFields ==
    ASSUME NEW c, NEW me, NEW m, CallerSteps(c, me, m), NEW tos, NEW ch, Goes(c, ch),
           ch.pc \in tos, "pc" \in DOMAIN ch, DOMAIN ch \subseteq KeepingFields \ {"then"}
    PROVE  MovesTo(me, m, tos)
PROOF
    BY Keeping DEF MovesTo

\* A check, after which it goes to t.
ChecksThen(me, m, t) == Kept(me, m) /\ m.pc = "source13" /\ m.then = t

\* And so does going to a check of the authority.
LEMMA KeepsCheck ==
    ASSUME NEW c, NEW me, NEW m, CallerSteps(c, me, m), NEW t, Goes(c, Check(t))
    PROVE  ChecksThen(me, m, t)
PROOF
<1>1. PICK ch : ch = Check(t)
    OBVIOUS
<1>2. DOMAIN ch = {"pc", "then"} /\ ch.pc = "source13" /\ ch["then"] = t /\ Goes(c, ch)
    BY <1>1 DEF Check
<1>3. DOMAIN ch \subseteq KeepingFields
    BY <1>2 DEF KeepingFields, CallerFields, Idle
<1> QED
    BY <1>2, <1>3, Keeping DEF ChecksThen

LEMMA KeepsChecks ==
    ASSUME NEW c, NEW me, NEW m, CallerSteps(c, me, m), NEW t, NEW changes,
           Checks(c, t, changes), DOMAIN changes \subseteq KeepingFields \ {"pc", "then"}
    PROVE  ChecksThen(me, m, t)
PROOF
<1>1. PICK ch : ch = Updated(changes, Check(t))
    OBVIOUS
<1>2. Goes(c, ch)
    BY <1>1 DEF Checks
<1>3. DOMAIN Check(t) = {"pc", "then"} /\ Check(t)["pc"] = "source13" /\ Check(t)["then"] = t
    BY DEF Check
<1>4. DOMAIN ch = DOMAIN changes \union {"pc", "then"} /\ ch.pc = "source13" /\ ch["then"] = t
    BY <1>1, <1>3 DEF Updated
<1>5. DOMAIN ch \subseteq KeepingFields
    BY <1>4 DEF KeepingFields, CallerFields, Idle
<1> QED
    BY <1>2, <1>4, <1>5, Keeping DEF ChecksThen

\* What keeps the review of a caller that keeps what it accepted.
LEMMA ReviewKept ==
    ASSUME NEW story, NEW me, NEW m, ReviewOK(story, me), Kept(me, m),
           Phase(m) \notin Outside => Phase(me) \notin Outside,
           Phase(m) \in Early => Phase(me) \in Early,
           Phase(m) \in {"ask13", "judge13", "review13"} => Phase(m) = Phase(me),
           Phase(m) \in Decided => Phase(me) \in Decided
    PROVE  ReviewOK(story, m)
PROOF
<1>1. m.accepted = me.accepted /\ m.decisions = me.decisions
    BY DEF Kept
<1>2. Phase(m) \notin Outside => PacketIsSound(story)
    BY DEF ReviewOK
<1>3. Phase(m) \in Early => m.accepted = <<>>
    BY <1>1 DEF ReviewOK
<1>4. Phase(m) = "ask13" =>
          AcceptedOK(story, m.accepted, Len(m.accepted)) /\ Len(m.accepted) < Len(story.windows)
    BY <1>1 DEF ReviewOK
<1>5. Phase(m) = "judge13" =>
          /\ Len(m.accepted) \in 1..Len(story.windows)
          /\ AcceptedOK(story, m.accepted, Len(m.accepted) - 1)
          /\ NamesCast(m.accepted[Len(m.accepted)])
    BY <1>1 DEF ReviewOK
<1>6. Phase(m) \in Decided \union {"review13"} =>
          AcceptedOK(story, m.accepted, Len(m.accepted)) /\ Len(m.accepted) = Len(story.windows)
    BY <1>1 DEF ReviewOK
<1>7. Phase(m) \in Decided => DecisionsOK(story, m.accepted, m.decisions)
    BY <1>1 DEF ReviewOK
<1> QED
    BY <1>2, <1>3, <1>4, <1>5, <1>6, <1>7 DEF ReviewOK

\* The steps of B1.2 leave the review alone.
LEMMA MakingReviews ==
    ASSUME NEW story, NEW me, NEW m, ReviewOK(story, me), me.pc \in Making12,
           MovesTo(me, m, Making12 \union {"have12", "failed"})
    PROVE  ReviewOK(story, m)
PROOF
<1>1. Phase(me) \in Making12 /\ Phase(m) \in Making12 \union {"have12", "failed"}
    BY DEF MovesTo, Phase, Making12, Checking
<1>2. Making12 \intersect (Outside \union Decided \union {"ask13", "judge13", "review13"}) = {}
    BY DEF Making12, Outside, Decided
<1>3. "have12" \notin Outside \union Decided /\ "failed" \notin Early \union Decided /\ "failed" \in Outside
    BY DEF Outside, Decided, Early, Making12
<1>4. Phase(me) \in Early
    BY <1>1 DEF Early
<1> QED
    BY <1>1, <1>2, <1>3, <1>4, ReviewKept DEF MovesTo

\* B1.2 goes from place to place and accepts nothing.
LEMMA MakingMoves ==
    ASSUME NEW c, NEW me, NEW m, CallerSteps(c, me, m),
           \/ Guard(c, "begin12", "peek12") \/ Guard(c, "asked12", "claim12")
           \/ Guard(c, "guard12", "cas12")
           \/ PeekStrategy(c) \/ ReadStrategy(c) \/ AnswerReused(c) \/ BeginRound(c)
           \/ AskStrategy(c) \/ ClaimStrategy(c) \/ AllocateStrategy(c) \/ PutStrategy(c)
           \/ SetStrategy(c)
    PROVE  me.pc \in Making12 /\ MovesTo(me, m, Making12 \union {"have12", "failed"})
PROOF
<1> DEFINE tos == Making12 \union {"have12", "failed"}
<1>1. callers[c] = me
    BY DEF CallerSteps, Becomes
<1>2. /\ {"peek12", "claim12", "cas12", "round12", "read12", "ask12", "guard12"} \subseteq Making12
      /\ {"peek12", "claim12", "cas12", "round12", "read12", "ask12", "guard12", "failed"} \subseteq tos
      /\ {"begin12", "asked12", "reused12", "slot12", "put12"} \subseteq Making12
      /\ {"asked12", "reused12", "slot12", "put12", "have12"} \subseteq tos
    BY DEF Making12
<1>3. KeepingFields \ {"then"} = CallerFields \ {"then", "accepted", "decisions"}
    BY DEF KeepingFields
<1>4. {"pc", "selected", "answered", "strategy", "round", "seen", "revision"} \subseteq KeepingFields \ {"then"}
    BY <1>3 DEF CallerFields, Idle
<1> HIDE DEF tos
<1>5. ASSUME \E p \in {"peek12", "claim12", "cas12", "round12", "read12", "ask12", "guard12", "failed"} :
                 Goes(c, To(p))
      PROVE  MovesTo(me, m, tos)
    BY <1>2, <1>5, KeepsTo
<1>6. ASSUME NEW ch, Goes(c, ch), "pc" \in DOMAIN ch, ch.pc \in tos,
             DOMAIN ch \subseteq {"pc", "selected", "answered", "strategy", "round", "seen", "revision"}
      PROVE  MovesTo(me, m, tos)
    BY <1>4, <1>6, KeepsFields
<1>7. CASE Guard(c, "begin12", "peek12") \/ Guard(c, "asked12", "claim12") \/ Guard(c, "guard12", "cas12")
  <2>1. me.pc \in Making12
    BY <1>1, <1>2, <1>7 DEF Guard, At
  <2>2. \/ Goes(c, To("peek12")) \/ Goes(c, To("claim12")) \/ Goes(c, To("cas12")) \/ Goes(c, To("failed"))
    BY <1>7 DEF Guard, Fails
  <2> QED
    BY <1>5, <2>1, <2>2 DEF tos
<1>8. CASE PeekStrategy(c)
  <2>1. me.pc \in Making12
    BY <1>1, <1>2, <1>8 DEF PeekStrategy, At, Making12
  <2>2. PICK x : Goes(c, To("round12")) \/ Goes(c, [pc |-> "read12", seen |-> x])
    BY <1>8 DEF PeekStrategy
  <2>3. PICK ch : ch = [pc |-> "read12", seen |-> x]
    OBVIOUS
  <2>4. DOMAIN ch = {"pc", "seen"} /\ ch.pc = "read12"
    BY <2>3
  <2>5. ASSUME Goes(c, ch) PROVE MovesTo(me, m, tos)
    BY <1>2, <1>6, <2>4, <2>5 DEF tos
  <2> QED
    BY <1>5, <2>1, <2>2, <2>3, <2>5 DEF tos
<1>9. CASE ReadStrategy(c)
  <2>1. me.pc \in Making12
    BY <1>1, <1>2, <1>9 DEF ReadStrategy, At
  <2>2. PICK x : \/ Goes(c, [pc |-> "reused12", selected |-> x])
                 \/ Goes(c, To("round12")) \/ Goes(c, To("failed"))
    BY <1>9 DEF ReadStrategy, Fails
  <2>3. PICK ch : ch = [pc |-> "reused12", selected |-> x]
    OBVIOUS
  <2>4. DOMAIN ch = {"pc", "selected"} /\ ch.pc = "reused12"
    BY <2>3
  <2>5. ASSUME Goes(c, ch) PROVE MovesTo(me, m, tos)
    BY <1>2, <1>6, <2>4, <2>5
  <2> QED
    BY <1>5, <2>1, <2>2, <2>3, <2>5 DEF tos
<1>10. CASE AnswerReused(c)
  <2>1. me.pc \in Making12
    BY <1>1, <1>2, <1>10 DEF AnswerReused, At
  <2>2. PICK x : Goes(c, [pc |-> "have12", answered |-> x]) \/ Goes(c, To("failed"))
    BY <1>10 DEF AnswerReused, Reused, Fails
  <2>3. PICK ch : ch = [pc |-> "have12", answered |-> x]
    OBVIOUS
  <2>4. DOMAIN ch = {"pc", "answered"} /\ ch.pc = "have12"
    BY <2>3
  <2>5. ASSUME Goes(c, ch) PROVE MovesTo(me, m, tos)
    BY <1>2, <1>6, <2>4, <2>5
  <2> QED
    BY <1>5, <2>1, <2>2, <2>3, <2>5 DEF tos
<1>11. CASE BeginRound(c)
  <2>1. me.pc \in Making12
    BY <1>1, <1>2, <1>11 DEF BeginRound, At
  <2>2. Goes(c, To("ask12")) \/ Goes(c, To("failed"))
    BY <1>11 DEF BeginRound, Fails
  <2> QED
    BY <1>5, <2>1, <2>2 DEF tos
<1>12. CASE AskStrategy(c)
  <2>1. me.pc \in Making12
    BY <1>1, <1>2, <1>12 DEF AskStrategy, At
  <2>2. PICK x : \/ Goes(c, [pc |-> "asked12", strategy |-> x])
                 \/ Goes(c, [pc |-> "round12", round |-> callers[c].round + 1])
                 \/ Goes(c, To("failed"))
    BY <1>12 DEF AskStrategy, Fails
  <2>3. PICK ch : ch = [pc |-> "asked12", strategy |-> x]
    OBVIOUS
  <2>4. PICK dh : dh = [pc |-> "round12", round |-> callers[c].round + 1]
    OBVIOUS
  <2>5. DOMAIN ch = {"pc", "strategy"} /\ ch.pc = "asked12"
    BY <2>3
  <2>6. DOMAIN dh = {"pc", "round"} /\ dh.pc = "round12"
    BY <2>4
  <2>7. ASSUME Goes(c, ch) PROVE MovesTo(me, m, tos)
    BY <1>2, <1>6, <2>5, <2>7
  <2>8. ASSUME Goes(c, dh) PROVE MovesTo(me, m, tos)
    BY <1>2, <1>6, <2>6, <2>8
  <2> QED
    BY <1>5, <2>1, <2>2, <2>3, <2>4, <2>7, <2>8 DEF tos
<1>13. CASE ClaimStrategy(c)
  <2>1. me.pc \in Making12
    BY <1>1, <1>13 DEF ClaimStrategy, At, Making12
  <2>2. PICK ch : ch = [pc |-> "slot12", seen |-> Len(current12)]
    OBVIOUS
  <2>3. DOMAIN ch = {"pc", "seen"} /\ ch.pc = "slot12" /\ Goes(c, ch)
    BY <1>13, <2>2 DEF ClaimStrategy
  <2> QED
    BY <1>2, <1>6, <2>1, <2>3 DEF tos
<1>14. CASE AllocateStrategy(c)
  <2>1. me.pc \in Making12
    BY <1>1, <1>2, <1>14 DEF AllocateStrategy, At
  <2>2. PICK ch : ch = [pc |-> "put12", revision |-> Len(strategies) + 1]
    OBVIOUS
  <2>3. DOMAIN ch = {"pc", "revision"} /\ ch.pc = "put12" /\ Goes(c, ch)
    BY <1>14, <2>2 DEF AllocateStrategy
  <2> QED
    BY <1>2, <1>6, <2>1, <2>3 DEF tos
<1>15. CASE PutStrategy(c)
  <2>1. me.pc \in Making12
    BY <1>1, <1>2, <1>15 DEF PutStrategy, At
  <2>2. Goes(c, To("guard12")) \/ Goes(c, To("failed"))
    BY <1>15 DEF PutStrategy, Fails
  <2> QED
    BY <1>5, <2>1, <2>2 DEF tos
<1>16. CASE SetStrategy(c)
  <2>1. me.pc \in Making12
    BY <1>1, <1>2, <1>16 DEF SetStrategy, At
  <2>2. PICK x, y : Goes(c, [pc |-> "have12", selected |-> x, answered |-> y]) \/ Goes(c, To("failed"))
    BY <1>16 DEF SetStrategy, Fails
  <2>3. PICK ch : ch = [pc |-> "have12", selected |-> x, answered |-> y]
    OBVIOUS
  <2>4. DOMAIN ch = {"pc", "selected", "answered"} /\ ch.pc = "have12"
    BY <2>3
  <2>5. ASSUME Goes(c, ch) PROVE MovesTo(me, m, tos)
    BY <1>2, <1>6, <2>4, <2>5
  <2> QED
    BY <1>5, <2>1, <2>2, <2>3, <2>5 DEF tos
<1> QED
    BY <1>7, <1>8, <1>9, <1>10, <1>11, <1>12, <1>13, <1>14, <1>15, <1>16 DEF tos

\* The steps of B1.3 and B1.4 that accept and decide nothing.
PhaseSteps ==
    {<<"have12", "peek13">>, <<"peek13", "match13">>, <<"match13", "recheck13">>,
     <<"recheck13", "preflight13">>, <<"recheck13", "have13">>, <<"publish13", "same13">>,
     <<"same13", "slot13">>, <<"same13", "have13">>, <<"slot13", "put13">>,
     <<"put13", "stable13">>, <<"stable13", "cas13">>, <<"cas13", "mine13">>,
     <<"mine13", "done13">>, <<"done13", "have13">>, <<"have13", "ordered">>,
     <<"have13", "refused">>}

PhaseMoves(me, m) ==
    /\ Kept(me, m)
    /\ \/ <<Phase(me), Phase(m)>> \in PhaseSteps
       \/ Phase(m) = "failed" \/ Phase(m) = Phase(me)

LEMMA PhaseReviews ==
    ASSUME NEW story, NEW me, NEW m, ReviewOK(story, me), PhaseMoves(me, m)
    PROVE  ReviewOK(story, m)
PROOF
<1>1. CASE Phase(m) = Phase(me)
    BY <1>1, ReviewKept DEF PhaseMoves
<1>2. CASE Phase(m) = "failed"
    BY <1>2, ReviewKept DEF PhaseMoves, Outside, Early, Decided, Making12
<1>3. CASE <<Phase(me), Phase(m)>> \in PhaseSteps
  <2>1. PICK a, b : a = Phase(me) /\ b = Phase(m)
    OBVIOUS
  <2>2. /\ b \notin Outside => a \notin Outside
        /\ b \in Early => a \in Early
        /\ b \notin {"ask13", "judge13", "review13"}
        /\ b \in Decided => a \in Decided
    BY <1>3, <2>1 DEF PhaseSteps, Outside, Early, Decided, Making12
  <2> QED
    BY <2>1, <2>2, ReviewKept DEF PhaseMoves
<1> QED
    BY <1>1, <1>2, <1>3 DEF PhaseMoves

\* How a step is seen to be one of them.
LEMMA GoesPhase ==
    ASSUME NEW c, NEW me, NEW m, CallerSteps(c, me, m), me.pc \notin Checking,
           \/ \E p : /\ Goes(c, To(p)) /\ p \notin Checking
                     /\ p = "failed" \/ <<me.pc, p>> \in PhaseSteps
           \/ \E t : Goes(c, Check(t)) /\ <<me.pc, t>> \in PhaseSteps
    PROVE  PhaseMoves(me, m)
PROOF
<1>1. Phase(me) = me.pc
    BY DEF Phase
<1>2. ASSUME NEW p, Goes(c, To(p)), p \notin Checking, p = "failed" \/ <<me.pc, p>> \in PhaseSteps
      PROVE  PhaseMoves(me, m)
  <2>1. MovesTo(me, m, {p})
    BY <1>2, KeepsTo
  <2>2. Kept(me, m) /\ Phase(m) = p
    BY <1>2, <2>1 DEF MovesTo, Phase
  <2> QED
    BY <1>1, <1>2, <2>2 DEF PhaseMoves
<1>3. ASSUME NEW t, Goes(c, Check(t)), <<me.pc, t>> \in PhaseSteps
      PROVE  PhaseMoves(me, m)
  <2>1. ChecksThen(me, m, t)
    BY <1>3, KeepsCheck
  <2>2. Kept(me, m) /\ Phase(m) = t
    BY <2>1 DEF ChecksThen, Phase, Checking
  <2> QED
    BY <1>1, <1>3, <2>2 DEF PhaseMoves
<1> QED
    BY <1>2, <1>3

LEMMA ChecksPhase ==
    ASSUME NEW c, NEW me, NEW m, CallerSteps(c, me, m), me.pc \notin Checking,
           NEW t, NEW changes, Checks(c, t, changes), <<me.pc, t>> \in PhaseSteps,
           DOMAIN changes \subseteq KeepingFields \ {"pc", "then"}
    PROVE  PhaseMoves(me, m)
PROOF
<1>1. ChecksThen(me, m, t)
    BY KeepsChecks
<1>2. Kept(me, m) /\ Phase(m) = t
    BY <1>1 DEF ChecksThen, Phase, Checking
<1>3. Phase(me) = me.pc
    BY DEF Phase
<1> QED
    BY <1>2, <1>3 DEF PhaseMoves

LEMMA FieldsPhase ==
    ASSUME NEW c, NEW me, NEW m, CallerSteps(c, me, m), me.pc \notin Checking,
           NEW ch, Goes(c, ch), "pc" \in DOMAIN ch, DOMAIN ch \subseteq KeepingFields \ {"then"},
           ch.pc \notin Checking, <<me.pc, ch.pc>> \in PhaseSteps
    PROVE  PhaseMoves(me, m)
PROOF
<1>1. MovesTo(me, m, {ch.pc})
    BY KeepsFields
<1>2. Kept(me, m) /\ Phase(m) = ch.pc
    BY <1>1 DEF MovesTo, Phase
<1>3. Phase(me) = me.pc
    BY DEF Phase
<1> QED
    BY <1>2, <1>3 DEF PhaseMoves

\* Checking the authority leads where the check was to lead, or to failure.
LEMMA AuthorityMoves ==
    ASSUME NEW c, NEW me, NEW m, CallerSteps(c, me, m), CheckAuthority(c)
    PROVE  PhaseMoves(me, m)
PROOF
<1>1. callers[c] = me
    BY DEF CallerSteps, Becomes
<1>2. me.pc \in Checking
    BY <1>1 DEF CheckAuthority, ReadSource, SelectStrategy, ReadSourceAgain, ConfirmSelection, At, Checking
<1>3. Phase(me) = me.then /\ me.then \notin Checking
    BY <1>2 DEF Phase, CallerSteps, CallerInv, PlaceOK, Checked, Checking
<1>4. ASSUME NEW tos, MovesTo(me, m, tos), tos \subseteq Checking \union {"failed", me.then}
      PROVE  PhaseMoves(me, m)
    BY <1>3, <1>4 DEF MovesTo, PhaseMoves, Phase
<1>5. ASSUME NEW p \in Checking \union {"failed", me.then}, Goes(c, To(p))
      PROVE  PhaseMoves(me, m)
  <2>1. MovesTo(me, m, {p})
    BY <1>5, KeepsTo
  <2> QED
    BY <1>4, <1>5, <2>1
<1>6. CASE ReadSource(c) \/ ReadSourceAgain(c) \/ ConfirmSelection(c)
  <2>1. \E p \in {"select13", "confirm13", "failed", me.then} : Goes(c, To(p))
    BY <1>1, <1>6 DEF ReadSource, ReadSourceAgain, ConfirmSelection, Fails
  <2> QED
    BY <1>5, <2>1 DEF Checking
<1>7. CASE SelectStrategy(c)
  <2>1. PICK x, y : Goes(c, [pc |-> "again13", selected |-> x, pinned |-> y]) \/ Goes(c, To("failed"))
    BY <1>7 DEF SelectStrategy, Fails
  <2>2. PICK ch : ch = [pc |-> "again13", selected |-> x, pinned |-> y]
    OBVIOUS
  <2>3. DOMAIN ch = {"pc", "selected", "pinned"} /\ ch.pc = "again13"
    BY <2>2
  <2>4. DOMAIN ch \subseteq KeepingFields \ {"then"}
    BY <2>3 DEF KeepingFields, CallerFields, Idle
  <2>5. ASSUME Goes(c, ch) PROVE PhaseMoves(me, m)
    <3>1. MovesTo(me, m, {"again13"})
      BY <2>3, <2>4, <2>5, KeepsFields
    <3> QED
      BY <1>4, <3>1 DEF Checking
  <2> QED
    BY <1>5, <2>1, <2>2, <2>5
<1> QED
    BY <1>6, <1>7 DEF CheckAuthority

\* A step that goes to a place, or checks and goes there.
LEMMA PlainMoves ==
    ASSUME NEW c, NEW me, NEW m, CallerSteps(c, me, m),
           \/ MatchPlan(c) \/ PutPublication(c) \/ StillObserved(c) \/ VerifyMine(c)
    PROVE  PhaseMoves(me, m)
PROOF
<1>1. callers[c] = me
    BY DEF CallerSteps, Becomes
<1>2. CASE MatchPlan(c)
  <2>1. me.pc = "match13" /\ (Goes(c, To("recheck13")) \/ Goes(c, Check("recheck13")))
    BY <1>1, <1>2 DEF MatchPlan, At
  <2> QED
    BY <2>1, GoesPhase DEF PhaseSteps, Checking
<1>3. CASE PutPublication(c)
  <2>1. me.pc = "put13" /\ (Goes(c, Check("stable13")) \/ Goes(c, To("failed")))
    BY <1>1, <1>3 DEF PutPublication, At, Fails
  <2> QED
    BY <2>1, GoesPhase DEF PhaseSteps, Checking
<1>4. CASE StillObserved(c)
  <2>1. me.pc = "stable13" /\ (Goes(c, To("cas13")) \/ Goes(c, To("failed")))
    BY <1>1, <1>4 DEF StillObserved, At, Fails
  <2> QED
    BY <2>1, GoesPhase DEF PhaseSteps, Checking
<1>5. CASE VerifyMine(c)
  <2>1. me.pc = "mine13" /\ (Goes(c, Check("done13")) \/ Goes(c, To("failed")))
    BY <1>1, <1>5 DEF VerifyMine, At, Fails
  <2> QED
    BY <2>1, GoesPhase DEF PhaseSteps, Checking
<1> QED
    BY <1>2, <1>3, <1>4, <1>5

\* A step that begins a check of the authority.
LEMMA CheckingMoves ==
    ASSUME NEW c, NEW me, NEW m, CallerSteps(c, me, m),
           Prepare13(c) \/ PeekPlan(c) \/ BeginPublication(c)
    PROVE  PhaseMoves(me, m)
PROOF
<1>1. callers[c] = me
    BY DEF CallerSteps, Becomes
<1>2. {"current", "since", "answered", "seen"} \subseteq KeepingFields \ {"pc", "then"}
    BY DEF KeepingFields, CallerFields, Idle
<1>3. CASE Prepare13(c)
  <2>1. PICK x : Checks(c, "peek13", [current |-> x, since |-> Len(log), answered |-> None])
    BY <1>3 DEF Prepare13
  <2>2. PICK ch : ch = [current |-> x, since |-> Len(log), answered |-> None]
    OBVIOUS
  <2>3. DOMAIN ch = {"current", "since", "answered"} /\ Checks(c, "peek13", ch)
    BY <2>1, <2>2
  <2>4. me.pc = "have12" /\ <<me.pc, "peek13">> \in PhaseSteps /\ me.pc \notin Checking
    BY <1>1, <1>3 DEF Prepare13, At, PhaseSteps, Checking
  <2> QED
    BY <1>2, <2>3, <2>4, ChecksPhase
<1>4. CASE PeekPlan(c) \/ BeginPublication(c)
  <2>1. PICK ch : ch = [seen |-> Len(current13)]
    OBVIOUS
  <2>2. DOMAIN ch = {"seen"}
    BY <2>1
  <2>3. PICK t : Checks(c, t, ch) /\ <<me.pc, t>> \in PhaseSteps /\ me.pc \notin Checking
    BY <1>1, <1>4, <2>1 DEF PeekPlan, BeginPublication, At, PhaseSteps, Checking
  <2> QED
    BY <1>2, <2>2, <2>3, ChecksPhase
<1> QED
    BY <1>3, <1>4

\* A step that may end with the caller's answer.
LEMMA AnsweringMoves ==
    ASSUME NEW c, NEW me, NEW m, CallerSteps(c, me, m),
           RecheckPlan(c) \/ ReusePublication(c) \/ VerifySuccess(c)
    PROVE  PhaseMoves(me, m)
PROOF
<1>1. callers[c] = me
    BY DEF CallerSteps, Becomes
<1>2. me.pc \in {"recheck13", "same13", "done13"}
    BY <1>1 DEF RecheckPlan, ReusePublication, VerifySuccess, At
<1>3. PICK x : \/ Goes(c, Fails)
               \/ Goes(c, [pc |-> "have13", answered |-> x])
               \/ Goes(c, To("preflight13")) /\ me.pc = "recheck13"
               \/ Goes(c, To("slot13")) /\ me.pc = "same13"
    BY <1>1 DEF RecheckPlan, ReusePublication, VerifySuccess, At
<1>4. CASE Goes(c, Fails)
    BY <1>2, <1>4, GoesPhase DEF Fails, Checking
<1>5. CASE \/ Goes(c, To("preflight13")) /\ me.pc = "recheck13"
           \/ Goes(c, To("slot13")) /\ me.pc = "same13"
    BY <1>2, <1>5, GoesPhase DEF PhaseSteps, Checking
<1>6. CASE Goes(c, [pc |-> "have13", answered |-> x])
  <2>1. PICK ch : ch = [pc |-> "have13", answered |-> x]
    OBVIOUS
  <2>2. DOMAIN ch = {"pc", "answered"} /\ ch.pc = "have13" /\ Goes(c, ch)
    BY <1>6, <2>1
  <2>3. DOMAIN ch \subseteq KeepingFields \ {"then"} /\ <<me.pc, ch.pc>> \in PhaseSteps
        /\ me.pc \notin Checking /\ ch.pc \notin Checking
    BY <1>2, <2>2 DEF KeepingFields, CallerFields, Idle, PhaseSteps, Checking
  <2> QED
    BY <2>2, <2>3, FieldsPhase
<1> QED
    BY <1>3, <1>4, <1>5, <1>6

\* The steps that choose a revision, move the pointer and order the plan.
LEMMA WritingMoves ==
    ASSUME NEW c, NEW me, NEW m, CallerSteps(c, me, m),
           AllocatePublication(c) \/ SetPublication(c) \/ Order(c)
    PROVE  PhaseMoves(me, m)
PROOF
<1>1. callers[c] = me
    BY DEF CallerSteps, Becomes
<1>2. ASSUME NEW ch, Goes(c, ch), "pc" \in DOMAIN ch, <<me.pc, ch.pc>> \in PhaseSteps,
             DOMAIN ch \subseteq {"pc", "revision", "seen", "skeleton"},
             me.pc \notin Checking, ch.pc \notin Checking
      PROVE  PhaseMoves(me, m)
  <2>1. DOMAIN ch \subseteq KeepingFields \ {"then"}
    BY <1>2 DEF KeepingFields, CallerFields, Idle
  <2> QED
    BY <1>2, <2>1, FieldsPhase
<1>3. CASE AllocatePublication(c)
  <2>1. PICK x : Goes(c, [pc |-> "put13", revision |-> x])
    BY <1>3 DEF AllocatePublication
  <2>2. PICK ch : ch = [pc |-> "put13", revision |-> x]
    OBVIOUS
  <2>3. DOMAIN ch = {"pc", "revision"} /\ ch.pc = "put13" /\ Goes(c, ch) /\ me.pc = "slot13"
    BY <1>1, <1>3, <2>1, <2>2 DEF AllocatePublication, At
  <2> QED
    BY <1>2, <2>3 DEF PhaseSteps, Checking
<1>4. CASE SetPublication(c)
  <2>1. me.pc = "cas13"
    BY <1>1, <1>4 DEF SetPublication, At
  <2>2. PICK ch : ch = [pc |-> "mine13", seen |-> callers[c].seen + 1]
    OBVIOUS
  <2>3. DOMAIN ch = {"pc", "seen"} /\ ch.pc = "mine13" /\ (Goes(c, ch) \/ Goes(c, To("failed")))
    BY <1>4, <2>2 DEF SetPublication, Fails
  <2>4. ASSUME Goes(c, ch) PROVE PhaseMoves(me, m)
    BY <1>2, <2>1, <2>3, <2>4 DEF PhaseSteps, Checking
  <2>5. ASSUME Goes(c, To("failed")) PROVE PhaseMoves(me, m)
    BY <2>1, <2>5, GoesPhase DEF Checking
  <2> QED
    BY <2>3, <2>4, <2>5
<1>5. CASE Order(c)
  <2>1. me.pc = "have13"
    BY <1>1, <1>5 DEF Order, At
  <2>2. PICK x : Goes(c, [pc |-> "ordered", skeleton |-> x]) \/ Goes(c, To("refused"))
    BY <1>5 DEF Order
  <2>3. PICK ch : ch = [pc |-> "ordered", skeleton |-> x]
    OBVIOUS
  <2>4. DOMAIN ch = {"pc", "skeleton"} /\ ch.pc = "ordered"
    BY <2>3
  <2>5. ASSUME Goes(c, ch) PROVE PhaseMoves(me, m)
    BY <1>2, <2>1, <2>4, <2>5 DEF PhaseSteps, Checking
  <2>6. ASSUME Goes(c, To("refused")) PROVE PhaseMoves(me, m)
    BY <2>1, <2>6, GoesPhase DEF PhaseSteps, Checking
  <2> QED
    BY <2>2, <2>3, <2>5, <2>6
<1> QED
    BY <1>3, <1>4, <1>5

\* What the studies assume.
LEMMA StudyFacts ==
    ASSUME input \in Inputs
    PROVE  /\ Len(input.story.windows) \in Nat
           /\ DOMAIN input.story.windows = 1..Len(input.story.windows)
           /\ DOMAIN input.proposals = DOMAIN input.story.windows
           /\ \A k \in DOMAIN input.proposals : \A p \in input.proposals[k] : NamesCast(p)
           /\ \A decisions \in input.reviews : IsFiniteSet(decisions)
PROOF
    BY InputsAreStudies

\* A sound packet has a window.
LEMMA SomeWindow ==
    ASSUME NEW story, PacketIsSound(story), Len(story.windows) \in Nat,
           DOMAIN story.windows = 1..Len(story.windows)
    PROVE  0 < Len(story.windows)
PROOF
<1>1. PICK W : W = story.windows
    OBVIOUS
<1>2. PICK e \in EventsOf(story) : e \in UNION Range(W)
    BY <1>1 DEF PacketIsSound, OwnedOnce
<1>3. PICK k \in DOMAIN W : TRUE
    BY <1>2 DEF Range
<1> QED
    BY <1>1, <1>3

\* B1.2 begins with a packet that is sound.
LEMMA BeginningReviews ==
    ASSUME NEW c, NEW me, NEW m, CallerSteps(c, me, m), ReviewOK(input.story, me),
           ResolveTarget(c) \/ Prepare12(c)
    PROVE  ReviewOK(input.story, m)
PROOF
<1>1. callers[c] = me
    BY DEF CallerSteps, Becomes
<1>2. {"pc", "target", "source", "since"} \subseteq KeepingFields \ {"then"}
    BY DEF KeepingFields, CallerFields, Idle
<1>3. me.pc \in {"target", "prepare12"}
    BY <1>1 DEF ResolveTarget, Prepare12, At
<1>4. Phase(me) \in Early
    BY <1>3 DEF Phase, Early, Checking
<1>5. ASSUME NEW p, MovesTo(me, m, {p}), p \in {"rejected", "refused"}
      PROVE  ReviewOK(input.story, m)
  <2>1. Kept(me, m) /\ Phase(m) = p
    BY <1>5 DEF MovesTo, Phase, Checking
  <2> QED
    BY <1>5, <2>1, ReviewKept DEF Outside, Early, Decided, Making12
<1>6. ASSUME NEW p, MovesTo(me, m, {p}), p \in {"prepare12", "begin12"},
             p = "begin12" => PacketIsSound(input.story)
      PROVE  ReviewOK(input.story, m)
  <2>1. Kept(me, m) /\ Phase(m) = p
    BY <1>6 DEF MovesTo, Phase, Checking
  <2>2. m.accepted = <<>>
    BY <1>4, <2>1 DEF Kept, ReviewOK
  <2>3. p = "prepare12" => p \in Outside
    BY DEF Outside
  <2>4. p \notin Decided \union {"ask13", "judge13", "review13"}
    BY <1>6 DEF Decided
  <2> QED
    BY <1>6, <2>1, <2>2, <2>3, <2>4 DEF ReviewOK
<1>7. CASE ResolveTarget(c)
  <2>1. PICK x, y : Goes(c, [pc |-> "prepare12", target |-> x, source |-> y]) \/ Goes(c, To("rejected"))
    BY <1>7 DEF ResolveTarget
  <2>2. PICK ch : ch = [pc |-> "prepare12", target |-> x, source |-> y]
    OBVIOUS
  <2>3. DOMAIN ch = {"pc", "target", "source"} /\ ch.pc = "prepare12"
    BY <2>2
  <2>4. ASSUME Goes(c, ch) PROVE MovesTo(me, m, {"prepare12"})
    BY <1>2, <2>3, <2>4, KeepsFields
  <2>5. ASSUME Goes(c, To("rejected")) PROVE MovesTo(me, m, {"rejected"})
    BY <2>5, KeepsTo
  <2> QED
    BY <1>5, <1>6, <2>1, <2>2, <2>4, <2>5
<1>8. CASE Prepare12(c)
  <2>1. PICK ch : ch = [pc |-> "begin12", since |-> Len(log)]
    OBVIOUS
  <2>2. (Goes(c, ch) /\ PacketIsSound(input.story)) \/ Goes(c, To("refused"))
    BY <1>8, <2>1 DEF Prepare12
  <2>3. DOMAIN ch = {"pc", "since"} /\ ch.pc = "begin12"
    BY <2>1
  <2>4. ASSUME Goes(c, ch) PROVE MovesTo(me, m, {"begin12"})
    BY <1>2, <2>3, <2>4, KeepsFields
  <2>5. ASSUME Goes(c, To("refused")) PROVE MovesTo(me, m, {"refused"})
    BY <2>5, KeepsTo
  <2> QED
    BY <1>5, <1>6, <2>2, <2>4, <2>5
<1> QED
    BY <1>7, <1>8

\* Nothing is accepted when the first window is asked.
LEMMA PreflightReviews ==
    ASSUME NEW c, NEW me, NEW m, CallerSteps(c, me, m), ReviewOK(input.story, me),
           input \in Inputs, Preflight(c)
    PROVE  ReviewOK(input.story, m)
PROOF
<1>1. me.pc = "preflight13"
    BY DEF CallerSteps, Becomes, Preflight, At
<1>2. Phase(me) = "preflight13"
    BY <1>1 DEF Phase, Checking
<1>3. PacketIsSound(input.story) /\ me.accepted = <<>>
    BY <1>2 DEF ReviewOK, Outside, Early
<1>4. PICK ch : ch = [round |-> 1]
    OBVIOUS
<1>5. DOMAIN ch = {"round"} /\ (Checks(c, "ask13", ch) \/ Goes(c, To("failed")))
    BY <1>4 DEF Preflight, Fails
<1>6. CASE Goes(c, To("failed"))
    BY <1>1, <1>6, GoesPhase, PhaseReviews DEF Checking
<1>7. CASE Checks(c, "ask13", ch)
  <2>1. DOMAIN ch \subseteq KeepingFields \ {"pc", "then"}
    BY <1>5 DEF KeepingFields, CallerFields, Idle
  <2>2. ChecksThen(me, m, "ask13")
    BY <1>7, <2>1, KeepsChecks
  <2>3. m.accepted = <<>> /\ Phase(m) = "ask13"
    BY <1>3, <2>2 DEF ChecksThen, Kept, Phase, Checking
  <2>4. AcceptedOK(input.story, m.accepted, Len(m.accepted)) /\ Len(m.accepted) = 0
    BY <2>3 DEF AcceptedOK, IsSequence
  <2>5. Len(m.accepted) < Len(input.story.windows)
    BY <1>3, <2>4, StudyFacts, SomeWindow
  <2>6. "ask13" \notin Early \union Decided
    BY DEF Early, Decided, Making12
  <2> QED
    BY <1>3, <2>3, <2>4, <2>5, <2>6 DEF ReviewOK
<1> QED
    BY <1>5, <1>6, <1>7

\* One more answer, to be judged.
LEMMA AskingReviews ==
    ASSUME NEW c, NEW me, NEW m, CallerSteps(c, me, m), ReviewOK(input.story, me),
           input \in Inputs, AskWindow(c)
    PROVE  ReviewOK(input.story, m)
PROOF
<1>1. me.pc = "ask13" /\ callers[c] = me
    BY DEF CallerSteps, Becomes, AskWindow, At
<1>2. Phase(me) = "ask13"
    BY <1>1 DEF Phase, Checking
<1>3. PICK s, n : s = me.accepted /\ n = Len(s)
    OBVIOUS
<1>4. /\ PacketIsSound(input.story) /\ AcceptedOK(input.story, s, n)
      /\ n < Len(input.story.windows)
    BY <1>2, <1>3 DEF ReviewOK, Outside
<1>5. IsSequence(s) /\ n \in Nat
    BY <1>3, <1>4, SequenceTypes DEF AcceptedOK
<1>6. PICK p \in input.proposals[n + 1] : Checks(c, "judge13", [accepted |-> Append(s, p)])
    BY <1>1, <1>3 DEF AskWindow
<1>7. NamesCast(p)
    BY <1>4, <1>5, StudyFacts
<1>8. PICK t : t = Append(s, p)
    OBVIOUS
<1>9. /\ IsSequence(t) /\ Len(t) = n + 1 /\ t[n + 1] = p
      /\ \A k \in 1..n : t[k] = s[k]
    BY <1>3, <1>5, <1>8, AppendExtends DEF Extends
<1>10. PICK ch : ch = Updated([accepted |-> t], Check("judge13"))
    OBVIOUS
<1>11. Goes(c, ch)
    BY <1>6, <1>8, <1>10 DEF Checks
<1>12. /\ DOMAIN ch = {"pc", "then", "accepted"} /\ ch.pc = "source13"
       /\ ch["then"] = "judge13" /\ ch.accepted = t
    BY <1>10 DEF Updated, Check
<1>13. m.pc = "source13" /\ m.then = "judge13" /\ m.accepted = t
  <2>1. DOMAIN ch \subseteq DOMAIN me /\ Becomes(c, me, m)
    BY <1>12 DEF CallerSteps, CallerInv, FieldsOK, CallerFields, Idle
  <2> QED
    BY <1>11, <1>12, <2>1, GoesOn
<1>14. Phase(m) = "judge13"
    BY <1>13 DEF Phase, Checking
<1>15. Len(m.accepted) \in 1..Len(input.story.windows)
    BY <1>4, <1>5, <1>9, <1>13, StudyFacts
<1>16. AcceptedOK(input.story, t, n)
    BY <1>4, <1>9 DEF AcceptedOK
<1>17. Len(m.accepted) - 1 = n /\ NamesCast(m.accepted[Len(m.accepted)])
    BY <1>5, <1>7, <1>9, <1>13
<1>18. "judge13" \notin Early \union Decided
    BY DEF Early, Decided, Making12
<1> QED
    BY <1>4, <1>13, <1>14, <1>15, <1>16, <1>17, <1>18 DEF ReviewOK

\* The front of a sequence.
LEMMA FrontDrops ==
    ASSUME NEW s, IsSequence(s), Len(s) \in Nat \ {0}
    PROVE  /\ IsSequence(Front(s)) /\ Len(Front(s)) = Len(s) - 1
           /\ \A k \in 1..(Len(s) - 1) : Front(s)[k] = s[k]
PROOF
<1>1. PICK S : s \in Seq(S)
    BY DEF IsSequence
<1>2. PICK n : n = Len(s) - 1
    OBVIOUS
<1>3. n \in Nat /\ \A i \in 1..n : s[i] \in S
    BY <1>1, <1>2
<1>4. PICK f : f = SubSeq(s, 1, n)
    OBVIOUS
<1>5. Front(s) = f
    BY <1>2, <1>4 DEF Front
<1>6. f \in Seq(S) /\ Len(f) = n /\ \A i \in 1..n : f[i] = s[i]
    BY <1>3, <1>4, SubSeqProperties
<1> QED
    BY <1>2, <1>5, <1>6 DEF IsSequence

\* The last answer is judged: kept, asked for again, or the end of it.
LEMMA JudgingReviews ==
    ASSUME NEW c, NEW me, NEW m, CallerSteps(c, me, m), ReviewOK(input.story, me),
           input \in Inputs, JudgeWindow(c)
    PROVE  ReviewOK(input.story, m)
PROOF
<1>1. me.pc = "judge13" /\ callers[c] = me
    BY DEF CallerSteps, Becomes, JudgeWindow, At
<1>2. Phase(me) = "judge13"
    BY <1>1 DEF Phase, Checking
<1>3. PICK s, n : s = me.accepted /\ n = Len(s)
    OBVIOUS
<1>4. /\ PacketIsSound(input.story) /\ n \in 1..Len(input.story.windows)
      /\ AcceptedOK(input.story, s, n - 1) /\ NamesCast(s[n])
    BY <1>2, <1>3 DEF ReviewOK, Outside
<1>5. IsSequence(s) /\ n \in Nat \ {0} /\ Len(input.story.windows) \in Nat
    BY <1>4, StudyFacts DEF AcceptedOK
<1>6. Owned(n) = OwnedIn(input.story, n)
    BY DEF Owned
<1>7. ASSUME ValidProposal(s[n], Owned(n), input.story.refs) PROVE AcceptedOK(input.story, s, n)
  <2>1. \A k \in 1..n : k = n \/ k \in 1..(n - 1)
    BY <1>5
  <2> QED
    BY <1>4, <1>6, <1>7, <2>1 DEF AcceptedOK
<1>8. \/ Goes(c, To("failed"))
      \/ /\ ValidProposal(s[n], Owned(n), input.story.refs) /\ n = Len(input.story.windows)
         /\ Goes(c, To("review13"))
      \/ /\ ValidProposal(s[n], Owned(n), input.story.refs) /\ n # Len(input.story.windows)
         /\ Checks(c, "ask13", [round |-> 1])
      \/ Checks(c, "ask13", [accepted |-> Front(s), round |-> callers[c].round + 1])
    BY <1>1, <1>3 DEF JudgeWindow, Fails
<1>9. CASE Goes(c, To("failed"))
    BY <1>1, <1>9, GoesPhase, PhaseReviews DEF Checking
<1>10. ASSUME m.accepted = s, m.pc = "review13", AcceptedOK(input.story, s, n),
              n = Len(input.story.windows)
       PROVE  ReviewOK(input.story, m)
  <2>1. Phase(m) = "review13" /\ "review13" \notin Early \union Decided
    BY <1>10 DEF Phase, Checking, Early, Decided, Making12
  <2> QED
    BY <1>3, <1>4, <1>10, <2>1 DEF ReviewOK
<1>11. ASSUME NEW t, m.accepted = t, m.pc = "source13", m.then = "ask13",
              AcceptedOK(input.story, t, Len(t)), Len(t) < Len(input.story.windows)
       PROVE  ReviewOK(input.story, m)
  <2>1. Phase(m) = "ask13" /\ "ask13" \notin Early \union Decided
    BY <1>11 DEF Phase, Checking, Early, Decided, Making12
  <2> QED
    BY <1>4, <1>11, <2>1 DEF ReviewOK
<1>12. CASE /\ ValidProposal(s[n], Owned(n), input.story.refs) /\ n = Len(input.story.windows)
            /\ Goes(c, To("review13"))
  <2>1. MovesTo(me, m, {"review13"})
    BY <1>12, KeepsTo
  <2> QED
    BY <1>3, <1>7, <1>10, <1>12, <2>1 DEF MovesTo, Kept
<1>13. CASE /\ ValidProposal(s[n], Owned(n), input.story.refs) /\ n # Len(input.story.windows)
            /\ Checks(c, "ask13", [round |-> 1])
  <2>1. PICK ch : ch = [round |-> 1]
    OBVIOUS
  <2>2. DOMAIN ch \subseteq KeepingFields \ {"pc", "then"} /\ Checks(c, "ask13", ch)
    BY <1>13, <2>1 DEF KeepingFields, CallerFields, Idle
  <2>3. ChecksThen(me, m, "ask13")
    BY <2>2, KeepsChecks
  <2>4. n < Len(input.story.windows)
    BY <1>4, <1>5, <1>13
  <2> QED
    BY <1>3, <1>7, <1>11, <1>13, <2>3, <2>4 DEF ChecksThen, Kept
<1>14. CASE Checks(c, "ask13", [accepted |-> Front(s), round |-> callers[c].round + 1])
  <2>1. PICK t : t = Front(s)
    OBVIOUS
  <2>2. IsSequence(t) /\ Len(t) = n - 1 /\ \A k \in 1..(n - 1) : t[k] = s[k]
    BY <1>3, <1>5, <2>1, FrontDrops
  <2>3. AcceptedOK(input.story, t, Len(t)) /\ Len(t) < Len(input.story.windows)
    BY <1>4, <1>5, <2>2 DEF AcceptedOK
  <2>4. PICK ch : ch = Updated([accepted |-> t, round |-> callers[c].round + 1], Check("ask13"))
    OBVIOUS
  <2>5. Goes(c, ch)
    BY <1>14, <2>1, <2>4 DEF Checks
  <2>6. /\ DOMAIN ch = {"pc", "then", "accepted", "round"} /\ ch.pc = "source13"
        /\ ch["then"] = "ask13" /\ ch.accepted = t
    BY <2>4 DEF Updated, Check
  <2>7. DOMAIN ch \subseteq DOMAIN me /\ Becomes(c, me, m)
    BY <2>6 DEF CallerSteps, CallerInv, FieldsOK, CallerFields, Idle
  <2>8. m.pc = "source13" /\ m.then = "ask13" /\ m.accepted = t
    BY <2>5, <2>6, <2>7, GoesOn
  <2> QED
    BY <1>11, <2>3, <2>8
<1> QED
    BY <1>8, <1>9, <1>12, <1>13, <1>14

\* The decisions that let a plan be put together are kept with it.
LEMMA DecidingReviews ==
    ASSUME NEW c, NEW me, NEW m, CallerSteps(c, me, m), ReviewOK(input.story, me),
           input \in Inputs, Review(c)
    PROVE  ReviewOK(input.story, m)
PROOF
<1>1. me.pc = "review13" /\ callers[c] = me
    BY DEF CallerSteps, Becomes, Review, At
<1>2. Phase(me) = "review13"
    BY <1>1 DEF Phase, Checking
<1>3. PICK s : s = me.accepted
    OBVIOUS
<1>4. /\ PacketIsSound(input.story) /\ AcceptedOK(input.story, s, Len(s))
      /\ Len(s) = Len(input.story.windows)
    BY <1>2, <1>3 DEF ReviewOK, Outside
<1>5. PICK cand : cand = Inventory(s)
    OBVIOUS
<1>6. PICK decisions \in input.reviews :
          \/ /\ ReviewIsValid(cand, decisions) /\ CanAssemble(cand, decisions, Events)
             /\ Goes(c, [pc |-> "publish13", decisions |-> decisions, since |-> Len(log)])
          \/ Goes(c, To("refused"))
    BY <1>1, <1>3, <1>5 DEF Review
<1>7. IsFiniteSet(decisions)
    BY StudyFacts
<1>8. CASE Goes(c, To("refused"))
  <2>1. MovesTo(me, m, {"refused"})
    BY <1>8, KeepsTo
  <2>2. Kept(me, m) /\ Phase(m) = "refused"
    BY <2>1 DEF MovesTo, Phase, Checking
  <2> QED
    BY <2>2, ReviewKept DEF Outside, Early, Decided, Making12
<1>9. CASE /\ ReviewIsValid(cand, decisions) /\ CanAssemble(cand, decisions, Events)
           /\ Goes(c, [pc |-> "publish13", decisions |-> decisions, since |-> Len(log)])
  <2>1. PICK ch : ch = [pc |-> "publish13", decisions |-> decisions, since |-> Len(log)]
    OBVIOUS
  <2>2. /\ DOMAIN ch = {"pc", "decisions", "since"} /\ ch.pc = "publish13"
        /\ ch.decisions = decisions /\ Goes(c, ch)
    BY <1>9, <2>1
  <2>3. /\ DOMAIN ch \subseteq DOMAIN me /\ Becomes(c, me, m)
        /\ "accepted" \in DOMAIN me \ DOMAIN ch
    BY <2>2 DEF CallerSteps, CallerInv, FieldsOK, CallerFields, Idle
  <2>4. m.pc = "publish13" /\ m.decisions = decisions
    BY <2>2, <2>3, GoesOn
  <2>5. m.accepted = s
    BY <1>3, <2>2, <2>3, GoesOn
  <2>6. Phase(m) = "publish13" /\ "publish13" \notin Early
    BY <2>4 DEF Phase, Checking, Early, Making12
  <2>7. DecisionsOK(input.story, s, decisions)
    BY <1>5, <1>7, <1>9 DEF DecisionsOK, Events
  <2> QED
    BY <1>4, <2>4, <2>5, <2>6, <2>7 DEF ReviewOK
<1> QED
    BY <1>6, <1>8, <1>9

\* What a caller is about to put was reviewed.
LEMMA PutWasReviewed ==
    ASSUME NEW c, input \in Inputs, ReviewOK(input.story, callers[c]), PutPublication(c)
    PROVE  WasReviewed(input.story, Publication(c))
PROOF
<1>1. PICK me : me = callers[c]
    OBVIOUS
<1>2. me.pc = "put13"
    BY <1>1 DEF PutPublication, At
<1>3. Phase(me) = "put13"
    BY <1>2 DEF Phase, Checking
<1>4. PICK s, dec : s = me.accepted /\ dec = me.decisions
    OBVIOUS
<1>5. /\ PacketIsSound(input.story) /\ AcceptedOK(input.story, s, Len(s))
      /\ Len(s) = Len(input.story.windows) /\ DecisionsOK(input.story, s, dec)
    BY <1>1, <1>3, <1>4 DEF ReviewOK, Outside, Decided
<1>6. DOMAIN s = DOMAIN input.story.windows /\ DOMAIN s = 1..Len(s)
    BY <1>5, StudyFacts, SequenceTypes DEF AcceptedOK
<1>7. PICK p : p = Publication(c)
    OBVIOUS
<1>8. /\ p.proposals = s /\ p.decisions = dec
      /\ p.plan = Assembled(Live(Inventory(s), dec), dec)
    BY <1>1, <1>4, <1>7 DEF Publication
<1>9. \A k \in DOMAIN s :
          NamesCast(s[k]) /\ ValidProposal(s[k], OwnedIn(input.story, k), input.story.refs)
    BY <1>5, <1>6 DEF AcceptedOK
<1>10. WasReviewed(input.story, p)
    BY <1>5, <1>6, <1>8, <1>9 DEF WasReviewed, DecisionsOK
<1> QED
    BY <1>7, <1>10

\* No step of a caller loses what its review rests on.
LEMMA CallerReviews ==
    ASSUME NEW c, NEW me, NEW m, CallerSteps(c, me, m), ReviewOK(input.story, me),
           input \in Inputs, CallerStep(c)
    PROVE  ReviewOK(input.story, m)
PROOF
<1>1. CASE ResolveTarget(c) \/ Prepare12(c)
    BY <1>1, BeginningReviews
<1>2. CASE \/ Guard(c, "begin12", "peek12") \/ Guard(c, "asked12", "claim12")
           \/ Guard(c, "guard12", "cas12")
           \/ PeekStrategy(c) \/ ReadStrategy(c) \/ AnswerReused(c) \/ BeginRound(c)
           \/ AskStrategy(c) \/ ClaimStrategy(c) \/ AllocateStrategy(c) \/ PutStrategy(c)
           \/ SetStrategy(c)
    BY <1>2, MakingMoves, MakingReviews
<1>3. CASE \/ Prepare13(c) \/ CheckAuthority(c) \/ PeekPlan(c) \/ MatchPlan(c) \/ RecheckPlan(c)
           \/ BeginPublication(c) \/ ReusePublication(c) \/ AllocatePublication(c)
           \/ PutPublication(c) \/ StillObserved(c) \/ SetPublication(c)
           \/ VerifyMine(c) \/ VerifySuccess(c) \/ Order(c)
  <2>1. PhaseMoves(me, m)
    BY <1>3, AuthorityMoves, PlainMoves, CheckingMoves, AnsweringMoves, WritingMoves
  <2> QED
    BY <2>1, PhaseReviews
<1>4. CASE Preflight(c) \/ AskWindow(c) \/ JudgeWindow(c) \/ Review(c)
    BY <1>4, PreflightReviews, AskingReviews, JudgingReviews, DecidingReviews
<1> QED
    BY <1>1, <1>2, <1>3, <1>4 DEF CallerStep, ExecuteB12, ExecuteB13

\* The publications after a step of a caller.
LEMMA PublicationsAfter ==
    ASSUME NEW c, CallerStep(c)
    PROVE  \/ publications' = publications
           \/ /\ PutPublication(c)
              /\ \A slot \in DOMAIN publications' :
                    \/ publications'[slot] = Publication(c)
                    \/ slot \in DOMAIN publications /\ publications'[slot] = publications[slot]
PROOF
<1>1. CASE PutPublication(c)
  <2>1. \/ publications' = publications
        \/ publications' = [s \in DOMAIN publications \union {Slot(c)} |->
                               IF s = Slot(c) THEN Publication(c) ELSE publications[s]]
    BY <1>1 DEF PutPublication
  <2> QED
    BY <1>1, <2>1
<1>2. CASE QuietB12(c) \/ QuietB13(c)
    BY <1>2, QuietShares
<1>3. CASE PutStrategy(c) \/ SetStrategy(c) \/ SetPublication(c)
    BY <1>3 DEF PutStrategy, SetStrategy, SetPublication
<1> QED
    BY <1>1, <1>2, <1>3 DEF CallerStep, ExecuteB12, ExecuteB13, QuietB12, QuietB13

\* It holds of a publication there was, and of a caller that begins.
LEMMA ReviewInit ==
    Init => ReviewInv
PROOF
<1> SUFFICES ASSUME Init PROVE ReviewInv
    OBVIOUS
<1>1. input \in Inputs /\ publications = input.published
    BY DEF Init
<1>2. \A slot \in DOMAIN publications : WasReviewed(input.story, publications[slot])
    BY <1>1, PublishedWereReviewed
<1>3. ASSUME NEW p \in {"target", "have13"} PROVE ReviewOK(input.story, Idle(p))
  <2>1. PICK m : m = Idle(p)
    OBVIOUS
  <2>2. m.pc = p /\ m.accepted = <<>>
    BY <2>1 DEF Idle
  <2>3. Phase(m) = p
    BY <2>2 DEF Phase, Checking
  <2>4. p \in Outside /\ p \notin Decided \union {"ask13", "judge13", "review13"}
    BY DEF Outside, Decided
  <2> QED
    BY <2>1, <2>2, <2>3, <2>4 DEF ReviewOK
<1>4. \A c \in DOMAIN callers : callers[c] = Idle("target") \/ callers[c] = Idle("have13")
    BY DEF Init
<1> QED
    BY <1>1, <1>2, <1>3, <1>4 DEF ReviewInv

\* Nobody's step undoes it.
LEMMA ReviewStays ==
    CallersInv /\ ReviewInv /\ [Next]_vars => ReviewInv'
PROOF
<1> SUFFICES ASSUME CallersInv, ReviewInv, [Next]_vars PROVE ReviewInv'
    OBVIOUS
<1>1. /\ input \in Inputs
      /\ \A slot \in DOMAIN publications : WasReviewed(input.story, publications[slot])
      /\ \A c \in DOMAIN callers : ReviewOK(input.story, callers[c])
    BY DEF ReviewInv
<1>2. CASE UNCHANGED vars \/ Move
  <2>1. UNCHANGED <<input, publications, callers>>
    BY <1>2 DEF vars, Move
  <2> QED
    BY <1>1, <2>1 DEF ReviewInv
<1>3. ASSUME NEW c \in DOMAIN callers, CallerStep(c) PROVE ReviewInv'
  <2>1. input' = input
    BY <1>3, CallerStepShares
  <2>2. PICK changes : Goes(c, changes)
    BY <1>3, CallerStepShares
  <2>3. /\ DOMAIN callers' = DOMAIN callers
        /\ \A d \in DOMAIN callers : d # c => callers'[d] = callers[d]
    BY <2>2 DEF Goes
  <2>4. PICK me, m : me = callers[c] /\ m = callers'[c]
    OBVIOUS
  <2>5. CallerSteps(c, me, m) /\ ReviewOK(input.story, me)
    BY <1>1, <2>4 DEF CallerSteps, Becomes, CallersInv
  <2>6. ReviewOK(input.story, m)
    BY <1>1, <1>3, <2>5, CallerReviews
  <2>7. \A d \in DOMAIN callers' : ReviewOK(input.story, callers'[d])
    BY <1>1, <2>3, <2>4, <2>6
  <2>8. ASSUME NEW slot \in DOMAIN publications'
        PROVE  WasReviewed(input.story, publications'[slot])
    <3>1. CASE publications' = publications
      BY <1>1, <3>1
    <3>2. CASE PutPublication(c) /\ publications'[slot] = Publication(c)
      BY <1>1, <3>2, PutWasReviewed
    <3>3. CASE slot \in DOMAIN publications /\ publications'[slot] = publications[slot]
      BY <1>1, <3>3
    <3> QED
      BY <1>3, <3>1, <3>2, <3>3, PublicationsAfter
  <2> QED
    BY <1>1, <2>1, <2>7, <2>8 DEF ReviewInv
<1> QED
    BY <1>2, <1>3 DEF Next, CallerStep

(***************************************************************************)
(* PlanHonoursReview: whatever the windows proposed and the person         *)
(* decided, in whatever order callers asked, failed and published, what    *)
(* assemble_b13_disposition put together in a publication is that: the     *)
(* classes of a plan are the connected components of the identifications,  *)
(* and ReviewInv carries the checked answers from the call that accepted   *)
(* them to the publication.                                                *)
(***************************************************************************)
THEOREM PlansHonourReviews == Spec => []PlanHonoursReview
PROOF
<1>1. Init => ReviewInv
    BY ReviewInit
<1>2. CallersInv /\ ReviewInv /\ [Next]_vars => ReviewInv'
    BY ReviewStays
<1>3. ReviewInv => PlanHonoursReview
    BY ReviewedIsHonoured DEF ReviewInv, PlanHonoursReview
<1> QED
    BY <1>1, <1>2, <1>3, CallersAreConsistent, PTL DEF Spec

-----------------------------------------------------------------------------
(***************************************************************************)
(* The windows' run.  A window is executed at most once, and reports are   *)
(* true.  The flock makes its owner the only one who writes; the rest is   *)
(* what the owner knows of the window in its hands, step by step from the  *)
(* claim to the checkpoint.                                                *)
(***************************************************************************)
\* From the claim of a window to its checkpoint.
Dispatched == {"dispatch", "respond", "presave", "save", "syncsave", "verify"}
Executing == {"claim", "syncclaim"} \union Dispatched
Saved == {"syncsave", "verify"}

\* What the files say of a window: claims outlive its calls and checkpoints.
WindowIsConsistent(w) ==
    /\ durableClaims[w] \subseteq claims[w]
    /\ calls[w] \leq MaxRounds
    /\ calls[w] > 0 => (\E q \in Requests : claims[w] = {q}) /\ durableClaims[w] = claims[w]
    /\ \A q \in Requests : checkpoint[w][q] # None =>
           claims[w] = {q} /\ durableClaims[w] = {q}

\* What a run knows: it has a request, the lock when it needs it, and what its
\* plan has seen is on disk.
RunIsConsistent(r) ==
    /\ pc[r] # "idle" => run[r].request \in Requests
    /\ pc[r] \in Guarded => owner = r
    /\ \A w \in Windows : run[r].seen[w] # None =>
           /\ run[r].request \in Requests
           /\ checkpoint[w][run[r].request] = run[r].seen[w]

\* What it knows of the window it executes.
ExecutionIsConsistent(r, w, q) ==
    /\ w \in Windows
    /\ pc[r] # "claim" => claims[w] = {q}
    /\ pc[r] \in {"claim", "syncclaim"} => run[r].round = 0
    /\ pc[r] = "syncclaim" => calls[w] = 0
    /\ pc[r] \in Dispatched => durableClaims[w] = {q} /\ calls[w] = run[r].round
    /\ pc[r] = "dispatch" => run[r].round < MaxRounds
    /\ pc[r] \in {"presave", "save"} \union Saved => run[r].accepted \in Proposals
    /\ pc[r] \notin {"claim"} \union Saved => \A p \in Requests : checkpoint[w][p] = None
    /\ pc[r] \in Saved => checkpoint[w][q] = run[r].accepted

IInv ==
    /\ TypeOK
    /\ ReportsAreTrue
    /\ \A w \in Windows : WindowIsConsistent(w)
    /\ \A r \in Runners : RunIsConsistent(r)
    /\ \A r \in Runners :
           pc[r] \in Executing => ExecutionIsConsistent(r, run[r].window, run[r].request)
-----------------------------------------------------------------------------
(* Types.                                                                  *)

LEMMA NoRunIsARun == NoRun \in Run
PROOF
<1>1. 0 \in 0..N /\ 1 \in 1..(N + 1) /\ 0 \in 0..MaxRounds
  BY BoundsArePositive
<1> QED
  BY <1>1 DEF NoRun, Run, NoEvidence, Evidence

\* Ending a run, entering a plan and going on elsewhere keep the types.
LEMMA EndKeepsTypes ==
    ASSUME TypeOK, NEW r \in Runners, run[r].request \in Requests,
           NEW status \in {"COMPLETE", "BOUNDED_PROGRESS", "FAILED"},
           NEW proposals \in Evidence, End(r, status, proposals)
    PROVE  /\ owner' \in Runners \union {None}
           /\ pc' \in [Runners -> Steps]
           /\ run' \in [Runners -> Run]
           /\ result' \in [Runners -> Result \union {None}]
PROOF
<1>1. [status |-> status, request |-> run[r].request, proposals |-> proposals] \in Result
  BY DEF Result
<1> QED
  BY <1>1, NoRunIsARun DEF End, Goto, Release, TypeOK, Steps

LEMMA FailKeepsTypes ==
    ASSUME TypeOK, NEW r \in Runners, run[r].request \in Requests, Fail(r)
    PROVE  /\ owner' \in Runners \union {None}
           /\ pc' \in [Runners -> Steps]
           /\ run' \in [Runners -> Run]
           /\ result' \in [Runners -> Result \union {None}]
PROOF
<1>1. NoEvidence \in Evidence
  BY DEF NoEvidence, Evidence
<1> QED
  BY <1>1, EndKeepsTypes DEF Fail

LEMMA PlansKeepTypes ==
    ASSUME TypeOK, NEW r \in Runners, NEW s \in Steps, NEW locals \in Run,
           StartPlan(r, s, locals)
    PROVE  pc' \in [Runners -> Steps] /\ run' \in [Runners -> Run]
PROOF
<1>1. 1 \in 1..(N + 1) /\ NoEvidence \in Evidence
  BY BoundsArePositive DEF NoEvidence, Evidence
<1>2. [locals EXCEPT !.pos = 1, !.seen = NoEvidence] \in Run
  BY <1>1 DEF Run
<1> QED
  BY <1>2 DEF StartPlan, Goto, TypeOK

\* Every step keeps every variable in its type.
LEMMA TypeStep ==
    ASSUME IInv, [RunnerNext]_runnerVars
    PROVE  TypeOK'
PROOF
<1>a. TypeOK
  BY DEF IInv
<1>b. \A r \in Runners : run[r] \in Run /\ pc[r] \in Steps
  BY <1>a DEF TypeOK
<1>c. \A r \in Runners : pc[r] # "idle" => run[r].request \in Requests
  BY DEF IInv, RunIsConsistent
<1>d. \A r \in Runners : run[r].seen \in Evidence
  BY <1>b DEF Run
<1>1. ASSUME NEW r \in Runners, NEW q \in Requests, NEW m \in 0..N, Start(r, q, m)
      PROVE  TypeOK'
  <2>1. [NoRun EXCEPT !.request = q, !.max = m] \in Run
    BY NoRunIsARun DEF Run
  <2>2. pc' \in [Runners -> Steps] /\ run' \in [Runners -> Run]
    BY <1>1, <1>a, <2>1, PlansKeepTypes DEF Start, Steps, Plans
  <2> QED
    BY <1>1, <1>a, <2>2 DEF Start, TypeOK, disk
<1>2. ASSUME NEW r \in Runners, LoadNext(r)
      PROVE  TypeOK'
  <2>1. CASE OtherCheckpoint(run[r].pos, run[r].request)
    BY <1>2, <2>1, <1>a, <1>c, FailKeepsTypes DEF LoadNext, Plans, TypeOK, disk
  <2>2. CASE ~OtherCheckpoint(run[r].pos, run[r].request)
    <3> DEFINE w == run[r].pos
               q == run[r].request
    <3>1. w \in Windows /\ w + 1 \in 1..(N + 1) /\ q \in Requests
      BY <1>2, <1>b, <1>c, BoundsArePositive DEF LoadNext, Plans, Run, Windows
    <3>2. checkpoint[w][q] \in Proposals \union {None}
      BY <3>1, <1>a DEF TypeOK
    <3>3. [run[r].seen EXCEPT ![w] = checkpoint[w][q]] \in Evidence
      BY <3>1, <3>2, <1>d DEF Evidence
    <3>4. [run[r] EXCEPT !.pos = w + 1, !.seen = [run[r].seen EXCEPT ![w] = checkpoint[w][q]]] \in Run
      BY <3>1, <3>3, <1>b DEF Run
    <3>5. run' = [run EXCEPT ![r] =
              [run[r] EXCEPT !.pos = w + 1, !.seen = [run[r].seen EXCEPT ![w] = checkpoint[w][q]]]]
      BY <1>2, <2>2 DEF LoadNext
    <3> QED
      BY <1>2, <2>2, <3>4, <3>5, <1>a DEF LoadNext, TypeOK, disk
  <2> QED
    BY <2>1, <2>2
<1>3. ASSUME NEW r \in Runners,
             AuthorityLost(r) \/ ProviderFails(r) \/ Raises(r)
      PROVE  TypeOK'
  <2>1. pc[r] # "idle" /\ Fail(r)
    BY <1>3 DEF AuthorityLost, ProviderFails, Raises, PlanRead, Plans
  <2> QED
    BY <1>3, <2>1, <1>a, <1>c, FailKeepsTypes DEF AuthorityLost, ProviderFails, Raises, TypeOK, disk
<1>4. ASSUME NEW r \in Runners, Planned(r) \/ Presaved(r)
      PROVE  TypeOK'
  <2>1. [run[r] EXCEPT !.plan = run[r].seen] \in Run
    BY <1>b, <1>d DEF Run
  <2>2. pc' \in [Runners -> Steps] /\ run' \in [Runners -> Run]
    BY <1>4, <2>1, <1>a, PlansKeepTypes DEF Planned, Presaved, Goto, Steps, Plans, Guarded, TypeOK
  <2> QED
    BY <1>4, <2>2, <1>a DEF Planned, Presaved, TypeOK, disk
<1>5. ASSUME NEW r \in Runners, Lock(r)
      PROVE  TypeOK'
  <2>1. CASE owner # None
    BY <1>5, <2>1, <1>a, <1>c, FailKeepsTypes DEF Lock, TypeOK, disk
  <2>2. CASE owner = None
    <3>1. pc' \in [Runners -> Steps] /\ run' \in [Runners -> Run]
      BY <1>5, <2>2, <1>a, <1>b, PlansKeepTypes DEF Lock, Steps, Plans
    <3> QED
      BY <1>5, <2>2, <3>1, <1>a DEF Lock, TypeOK, disk
  <2> QED
    BY <2>1, <2>2
<1>6. ASSUME NEW r \in Runners, Replanned(r) \/ Rechecked(r)
      PROVE  TypeOK'
  <2>1. pc[r] # "idle"
    BY <1>6 DEF Replanned, Rechecked, PlanRead
  <2>2. CASE Fail(r)
    BY <1>6, <2>1, <2>2, <1>a, <1>c, FailKeepsTypes DEF Replanned, Rechecked, TypeOK, disk
  <2>3. CASE ~Fail(r)
    <3>1. [run[r] EXCEPT !.plan = run[r].seen] \in Run
      BY <1>b, <1>d DEF Run
    <3>2. pc' \in [Runners -> Steps] /\ run' \in [Runners -> Run]
      BY <1>6, <2>3, <3>1, <1>a, PlansKeepTypes
         DEF Replanned, Rechecked, Goto, Steps, Plans, Guarded, TypeOK
    <3> QED
      BY <1>6, <2>3, <3>2, <1>a DEF Replanned, Rechecked, TypeOK, disk
  <2> QED
    BY <2>2, <2>3
<1>7. ASSUME NEW r \in Runners, NextWindow(r)
      PROVE  TypeOK'
  <2>1. CASE Todo(r) = {}
    <3>1. pc' \in [Runners -> Steps] /\ run' \in [Runners -> Run]
      BY <1>7, <2>1, <1>a, <1>b, PlansKeepTypes DEF NextWindow, Steps, Plans
    <3> QED
      BY <1>7, <3>1, <1>a DEF NextWindow, TypeOK, disk
  <2>2. ASSUME NEW w \in Todo(r), Goto(r, "claim"),
               run' = [run EXCEPT ![r] = [@ EXCEPT !.window = w, !.round = 0]]
        PROVE  TypeOK'
    <3>1. w \in 0..N /\ 0 \in 0..MaxRounds
      BY <2>2, BoundsArePositive DEF Todo, Missing, Windows
    <3>2. [run[r] EXCEPT !.window = w, !.round = 0] \in Run
      BY <3>1, <1>b DEF Run
    <3>3. run' \in [Runners -> Run] /\ pc' \in [Runners -> Steps]
      BY <2>2, <3>2, <1>a DEF TypeOK, Goto, Steps, Guarded
    <3> QED
      BY <1>7, <3>3, <1>a DEF NextWindow, TypeOK, disk
  <2> QED
    BY <1>7, <2>1, <2>2 DEF NextWindow
<1>8. ASSUME NEW r \in Runners, Claim(r)
      PROVE  TypeOK'
  <2>1. CASE Fail(r) /\ UNCHANGED claims
    BY <1>8, <2>1, <1>a, <1>c, FailKeepsTypes DEF Claim, TypeOK
  <2>2. CASE ~(Fail(r) /\ UNCHANGED claims)
    <3>1. run[r].request \in Requests
      BY <1>8, <1>c DEF Claim
    <3>2. claims' \in [Windows -> SUBSET Requests]
      BY <1>8, <2>2, <3>1, <1>a DEF Claim, TypeOK
    <3> QED
      BY <1>8, <2>2, <3>2, <1>a DEF Claim, Goto, TypeOK, Steps, Guarded
  <2> QED
    BY <2>1, <2>2
<1>9. ASSUME NEW r \in Runners, SyncClaim(r) \/ SyncSave(r)
      PROVE  TypeOK'
  <2>1. OnDisk \in SUBSET (Windows \X Requests)
    BY DEF OnDisk
  <2> QED
    BY <1>9, <2>1, <1>a DEF SyncClaim, SyncSave, Goto, TypeOK, Steps, Guarded
<1>10. ASSUME NEW r \in Runners, Dispatch(r)
       PROVE  TypeOK'
  <2>1. CASE Fail(r) /\ UNCHANGED calls
    BY <1>10, <2>1, <1>a, <1>c, FailKeepsTypes DEF Dispatch, TypeOK, disk
  <2>2. CASE ~(Fail(r) /\ UNCHANGED calls)
    <3>1. ExecutionIsConsistent(r, run[r].window, run[r].request)
      BY <1>10 DEF Dispatch, IInv, Executing, Dispatched
    <3>2. run[r].round + 1 \in 0..MaxRounds
      BY <3>1, <1>10, <1>b, BoundsArePositive DEF ExecutionIsConsistent, Dispatch, Run
    <3>3. [run[r] EXCEPT !.round = @ + 1] \in Run
      BY <3>2, <1>b DEF Run
    <3>4. run' = [run EXCEPT ![r] = [run[r] EXCEPT !.round = @ + 1]]
      BY <1>10, <2>2 DEF Dispatch
    <3>5. run' \in [Runners -> Run]
      BY <3>3, <3>4, <1>a DEF TypeOK
    <3>6. calls' \in [Windows -> Nat]
      BY <1>10, <2>2, <3>1, <1>a DEF Dispatch, ExecutionIsConsistent, TypeOK
    <3> QED
      BY <1>10, <2>2, <3>5, <3>6, <1>a DEF Dispatch, Goto, TypeOK, Steps, Guarded, disk
  <2> QED
    BY <2>1, <2>2
<1>11. ASSUME NEW r \in Runners, ResponseRejected(r)
       PROVE  TypeOK'
  <2>1. CASE run[r].round < MaxRounds
    BY <1>11, <2>1, <1>a DEF ResponseRejected, Goto, TypeOK, Steps, Guarded, disk
  <2>2. CASE ~(run[r].round < MaxRounds)
    BY <1>11, <2>2, <1>a, <1>c, FailKeepsTypes DEF ResponseRejected, TypeOK, disk
  <2> QED
    BY <2>1, <2>2
<1>12. ASSUME NEW r \in Runners, NEW p \in Proposals, ResponseAccepted(r, p)
       PROVE  TypeOK'
  <2>1. [run[r] EXCEPT !.accepted = p] \in Run
    BY <1>b DEF Run
  <2>2. pc' \in [Runners -> Steps] /\ run' \in [Runners -> Run]
    BY <1>12, <2>1, <1>a, PlansKeepTypes DEF ResponseAccepted, Steps, Plans
  <2> QED
    BY <1>12, <2>2, <1>a DEF ResponseAccepted, TypeOK, disk
<1>13. ASSUME NEW r \in Runners, Save(r)
       PROVE  TypeOK'
  <2>1. CASE Fail(r) /\ UNCHANGED checkpoint
    BY <1>13, <2>1, <1>a, <1>c, FailKeepsTypes DEF Save, TypeOK
  <2>2. CASE ~(Fail(r) /\ UNCHANGED checkpoint)
    <3>1. ExecutionIsConsistent(r, run[r].window, run[r].request)
      BY <1>13 DEF Save, IInv, Executing, Dispatched
    <3>2. checkpoint' \in [Windows -> [Requests -> Proposals \union {None}]]
      BY <1>13, <2>2, <3>1, <1>a, <1>c DEF Save, ExecutionIsConsistent, TypeOK
    <3> QED
      BY <1>13, <2>2, <3>2, <1>a DEF Save, Goto, TypeOK, Steps, Guarded
  <2> QED
    BY <2>1, <2>2
<1>14. ASSUME NEW r \in Runners, Verify(r)
       PROVE  TypeOK'
  <2>1. CASE Fail(r)
    BY <1>14, <2>1, <1>a, <1>c, FailKeepsTypes DEF Verify, TypeOK, disk
  <2>2. CASE ~Fail(r)
    <3> DEFINE w == run[r].window
               done == [run[r].generated EXCEPT ![w] = run[r].accepted]
    <3>a. run[r].generated \in Evidence /\ run[r].accepted \in Proposals \union {None}
      BY <1>b DEF Run
    <3>b. done \in Evidence
      BY <3>a DEF Evidence
    <3>1. 0 \in 0..N
      BY BoundsArePositive
    <3>2. [run[r] EXCEPT !.generated = done, !.accepted = None, !.window = 0] \in Run
      BY <3>1, <3>b, <1>b DEF Run
    <3>3. run' = [run EXCEPT ![r] =
              [run[r] EXCEPT !.generated = done, !.accepted = None, !.window = 0]]
      BY <1>14, <2>2 DEF Verify
    <3> QED
      BY <1>14, <2>2, <3>2, <3>3, <1>a DEF Verify, Goto, TypeOK, Steps, Guarded, disk
  <2> QED
    BY <2>1, <2>2
<1>15. ASSUME NEW r \in Runners, Finish(r)
       PROVE  TypeOK'
  <2>1. CASE Fail(r)
    BY <1>15, <2>1, <1>a, <1>c, FailKeepsTypes DEF Finish, PlanRead, TypeOK, disk
  <2>2. ASSUME NEW s \in {"COMPLETE", "BOUNDED_PROGRESS", "FAILED"}, End(r, s, run[r].seen)
        PROVE  TypeOK'
    BY <1>15, <2>2, <1>a, <1>c, <1>d, EndKeepsTypes DEF Finish, PlanRead, TypeOK, disk
  <2> QED
    BY <1>15, <2>1, <2>2 DEF Finish
<1>16. ASSUME NEW r \in Runners, Crash(r)
       PROVE  TypeOK'
    BY <1>16, <1>a, NoRunIsARun DEF Crash, Goto, Release, TypeOK, Steps, disk
<1>17. CASE PowerLoss
  <2>1. PICK kept \in SUBSET (Windows \X Requests) :
            claims' = [w \in Windows |->
                {q \in claims[w] : q \in durableClaims[w] \/ <<w, q>> \in kept}]
    BY <1>17 DEF PowerLoss
  <2>2. claims' \in [Windows -> SUBSET Requests] /\ durableClaims' = claims'
    BY <1>17, <2>1, <1>a DEF PowerLoss, TypeOK
  <2>3. PICK left \in SUBSET (OnDisk \ durable) :
            /\ checkpoint' = [w \in Windows |-> [q \in Requests |->
                   IF <<w, q>> \in durable \union left THEN checkpoint[w][q] ELSE None]]
            /\ durable' = durable \union left
    BY <1>17 DEF PowerLoss
  <2>4. checkpoint' \in [Windows -> [Requests -> Proposals \union {None}]]
    BY <2>3, <1>a DEF TypeOK
  <2>5. durable' \in SUBSET (Windows \X Requests)
    BY <2>3, <1>a DEF TypeOK, OnDisk
  <2> QED
    BY <1>17, <2>2, <2>4, <2>5, <1>a, NoRunIsARun DEF PowerLoss, TypeOK, Steps
<1>18. CASE LoseAuthority \/ UNCHANGED runnerVars
    BY <1>18, <1>a DEF LoseAuthority, TypeOK, runnerVars, disk
<1> QED
  BY <1>1, <1>2, <1>3, <1>4, <1>5, <1>6, <1>7, <1>8, <1>9, <1>10, <1>11, <1>12, <1>13,
     <1>14, <1>15, <1>16, <1>17, <1>18 DEF RunnerNext, Step
-----------------------------------------------------------------------------
(* Who may write.                                                          *)

RunnerStep(r) ==
    \/ \E q \in Requests, m \in 0..N : Start(r, q, m)
    \/ Step(r) \/ Raises(r) \/ Crash(r)

LEMMA NextByActor ==
    ASSUME [RunnerNext]_runnerVars
    PROVE  \/ \E r \in Runners : RunnerStep(r)
           \/ PowerLoss \/ LoseAuthority \/ UNCHANGED runnerVars
BY DEF RunnerNext, RunnerStep

\* A step of one run leaves the locals of the others alone.
LEMMA LocalsArePrivate ==
    ASSUME TypeOK, NEW r \in Runners, NEW s \in Runners, r # s, RunnerStep(r)
    PROVE  pc'[s] = pc[s] /\ run'[s] = run[s]
PROOF
<1> USE DEF TypeOK, Goto, StartPlan, Fail, End
<1>1. ASSUME NEW q \in Requests, NEW m \in 0..N, Start(r, q, m)
      PROVE  pc'[s] = pc[s] /\ run'[s] = run[s]
  BY <1>1 DEF Start
<1>2. ASSUME LoadNext(r) \/ AuthorityLost(r) \/ Planned(r) \/ Lock(r) \/ Replanned(r)
             \/ Rechecked(r)
      PROVE  pc'[s] = pc[s] /\ run'[s] = run[s]
  BY <1>2 DEF LoadNext, AuthorityLost, Planned, Lock, Replanned, Rechecked
<1>3. ASSUME NextWindow(r) \/ Claim(r) \/ SyncClaim(r) \/ Dispatch(r)
      PROVE  pc'[s] = pc[s] /\ run'[s] = run[s]
  BY <1>3 DEF NextWindow, Claim, SyncClaim, Dispatch
<1>4. ASSUME ResponseRejected(r) \/ (\E p \in Proposals : ResponseAccepted(r, p)) \/ Presaved(r)
             \/ Save(r) \/ SyncSave(r)
      PROVE  pc'[s] = pc[s] /\ run'[s] = run[s]
  BY <1>4 DEF ResponseRejected, ResponseAccepted, Presaved, Save, SyncSave
<1>5. ASSUME Verify(r) \/ Finish(r) \/ ProviderFails(r) \/ Raises(r) \/ Crash(r)
      PROVE  pc'[s] = pc[s] /\ run'[s] = run[s]
  BY <1>5 DEF Verify, Finish, ProviderFails, Raises, Crash
<1> QED
  BY <1>1, <1>2, <1>3, <1>4, <1>5 DEF RunnerStep, Step

\* While one run is under the lock, the steps of the others change no file,
\* call no provider and do not take the lock away.
LEMMA TheOwnerIsAlone ==
    ASSUME IInv, NEW r \in Runners, NEW s \in Runners, r # s, pc[s] \in Guarded,
           RunnerStep(r)
    PROVE  owner' = s /\ UNCHANGED <<disk, calls>>
PROOF
<1>1. owner = s /\ owner # r /\ pc[r] \notin Guarded
  BY DEF IInv, RunIsConsistent
<1>2. owner # None
  BY <1>1, NoneIsNothing
<1> USE <1>1, <1>2 DEF Fail, End, Release
<1>3. ASSUME NEW q \in Requests, NEW m \in 0..N, Start(r, q, m)
      PROVE  owner' = s /\ UNCHANGED <<disk, calls>>
  BY <1>3 DEF Start
<1>4. ASSUME LoadNext(r) \/ AuthorityLost(r) \/ Planned(r) \/ Lock(r)
      PROVE  owner' = s /\ UNCHANGED <<disk, calls>>
  BY <1>4 DEF LoadNext, AuthorityLost, Planned, Lock
<1>5. ~(Replanned(r) \/ Rechecked(r) \/ NextWindow(r) \/ Claim(r) \/ SyncClaim(r) \/ Dispatch(r))
  BY DEF Replanned, Rechecked, PlanRead, NextWindow, Claim, SyncClaim, Dispatch, Guarded
<1>6. ~(ResponseRejected(r) \/ (\E p \in Proposals : ResponseAccepted(r, p)) \/ Presaved(r)
        \/ Save(r) \/ SyncSave(r) \/ Verify(r) \/ ProviderFails(r))
  BY DEF ResponseRejected, ResponseAccepted, Presaved, PlanRead, Save, SyncSave, Verify,
         ProviderFails, Guarded
<1>7. ASSUME Finish(r) \/ Raises(r) \/ Crash(r)
      PROVE  owner' = s /\ UNCHANGED <<disk, calls>>
  BY <1>7 DEF Finish, Raises, Crash
<1> QED
  BY <1>3, <1>4, <1>5, <1>6, <1>7 DEF RunnerStep, Step

\* The steps that write, and what the writer knows of its window.
Writes(r) == Claim(r) \/ SyncClaim(r) \/ Dispatch(r) \/ Save(r) \/ SyncSave(r)

LEMMA OnlyWritersWrite ==
    ASSUME NEW r \in Runners, RunnerStep(r), ~Writes(r)
    PROVE  UNCHANGED <<disk, calls>>
BY DEF RunnerStep, Step, Writes, Start, LoadNext, AuthorityLost, Planned, Lock, Replanned,
   Rechecked, NextWindow, ResponseRejected, ResponseAccepted, Presaved, Verify, Finish,
   ProviderFails, Raises, Crash

-----------------------------------------------------------------------------
(* The files.                                                              *)

LEMMA WithoutClaimNoCall ==
    ASSUME IInv, NEW w \in Windows, claims[w] = {}
    PROVE  durableClaims[w] = {} /\ calls[w] = 0
PROOF
<1>1. WindowIsConsistent(w) /\ calls[w] \in Nat
  BY DEF IInv, TypeOK
<1>2. \A q \in Requests : claims[w] # {q}
  OBVIOUS
<1>3. ~(calls[w] > 0)
  BY <1>1, <1>2 DEF WindowIsConsistent
<1> QED
  BY <1>1, <1>3 DEF WindowIsConsistent

\* What the files say of a window stays consistent.
LEMMA WindowStep ==
    ASSUME IInv, [RunnerNext]_runnerVars, NEW w \in Windows
    PROVE  WindowIsConsistent(w)'
PROOF
<1>a. TypeOK /\ WindowIsConsistent(w)
  BY DEF IInv
<1>b. calls[w] \in Nat /\ MaxRounds \in Nat \ {0}
  BY <1>a, BoundsArePositive DEF TypeOK
<1>1. CASE UNCHANGED <<disk, calls>>
  BY <1>1, <1>a DEF WindowIsConsistent, disk
<1>2. ASSUME NEW r \in Runners, Writes(r)
      PROVE  WindowIsConsistent(w)'
  <2> DEFINE v == run[r].window
             q == run[r].request
  <2>a. pc[r] \in Executing /\ pc[r] # "idle"
    BY <1>2 DEF Writes, Claim, SyncClaim, Dispatch, Save, SyncSave, Executing, Dispatched
  <2>b. ExecutionIsConsistent(r, v, q) /\ v \in Windows /\ q \in Requests
    BY <2>a DEF IInv, RunIsConsistent, ExecutionIsConsistent
  <2>1. CASE Claim(r)
    <3>1. CASE UNCHANGED claims
      BY <2>1, <3>1, <1>1 DEF Claim, disk
    <3>2. CASE claims[v] = {} /\ claims' = [claims EXCEPT ![v] = @ \union {q}]
               /\ \A p \in Requests : checkpoint[v][p] = None
      <4>1. CASE w = v
        <5>1. claims'[w] = {q} /\ durableClaims[w] = {} /\ calls[w] = 0
          BY <3>2, <4>1, <1>a, WithoutClaimNoCall DEF TypeOK
        <5> QED
          BY <2>1, <3>2, <4>1, <5>1, <1>a, <1>b DEF Claim, WindowIsConsistent
      <4>2. CASE w # v
        <5>1. claims'[w] = claims[w]
          BY <3>2, <4>2, <1>a DEF TypeOK
        <5> QED
          BY <2>1, <5>1, <1>a DEF Claim, WindowIsConsistent
      <4> QED
        BY <4>1, <4>2
    <3> QED
      BY <2>1, <3>1, <3>2 DEF Claim
  <2>2. CASE SyncClaim(r)
    BY <2>2, <1>a DEF SyncClaim, WindowIsConsistent
  <2>3. CASE Dispatch(r)
    <3>1. CASE UNCHANGED calls
      BY <2>3, <3>1, <1>1 DEF Dispatch, disk
    <3>2. CASE calls' = [calls EXCEPT ![v] = @ + 1]
      <4>1. CASE w = v
        <5>1. calls'[w] = run[r].round + 1 /\ run[r].round < MaxRounds
              /\ claims[w] = {q} /\ durableClaims[w] = {q}
          BY <2>3, <3>2, <4>1, <2>b, <1>a DEF Dispatch, ExecutionIsConsistent, Dispatched, TypeOK
        <5>2. run[r].round \in Nat
          BY <1>a DEF TypeOK, Run
        <5>3. UNCHANGED disk
          BY <2>3 DEF Dispatch
        <5>4. calls'[w] \leq MaxRounds
          BY <5>1, <5>2, <1>b
        <5>5. claims[w] = {q} /\ q \in Requests /\ durableClaims[w] = claims[w]
          BY <2>b, <5>1
        <5> QED
          BY <5>3, <5>4, <5>5, <1>a DEF disk, WindowIsConsistent
      <4>2. CASE w # v
        <5>1. calls'[w] = calls[w]
          BY <3>2, <4>2, <1>a DEF TypeOK
        <5> QED
          BY <2>3, <5>1, <1>a DEF Dispatch, disk, WindowIsConsistent
      <4> QED
        BY <4>1, <4>2
    <3> QED
      BY <2>3, <3>1, <3>2 DEF Dispatch
  <2>4. CASE Save(r)
    <3>1. CASE UNCHANGED checkpoint
      BY <2>4, <3>1, <1>1 DEF Save, disk
    <3>2. CASE checkpoint' = [checkpoint EXCEPT ![v][q] = run[r].accepted]
      <4>1. claims[v] = {q} /\ durableClaims[v] = {q}
        BY <2>4, <2>b DEF Save, ExecutionIsConsistent, Dispatched
      <4>2. \A p \in Requests : w # v \/ p # q => checkpoint'[w][p] = checkpoint[w][p]
        BY <3>2, <2>b, <1>a DEF TypeOK
      <4> QED
        BY <2>4, <4>1, <4>2, <1>a DEF Save, WindowIsConsistent
    <3> QED
      BY <2>4, <3>1, <3>2 DEF Save
  <2>5. CASE SyncSave(r)
    BY <2>5, <1>a DEF SyncSave, WindowIsConsistent
  <2> QED
    BY <1>2, <2>1, <2>2, <2>3, <2>4, <2>5 DEF Writes
<1>3. CASE PowerLoss
  <2>1. PICK kept \in SUBSET (Windows \X Requests) :
            claims' = [u \in Windows |->
                {q \in claims[u] : q \in durableClaims[u] \/ <<u, q>> \in kept}]
    BY <1>3 DEF PowerLoss
  <2>2. durableClaims' = claims' /\ calls' = calls
    BY <1>3 DEF PowerLoss
  <2>3. \A q \in Requests : checkpoint'[w][q] \in {checkpoint[w][q], None}
    BY <1>3 DEF PowerLoss
  <2>4. durableClaims[w] = claims[w] => claims'[w] = claims[w]
    BY <2>1
  <2> QED
    BY <2>2, <2>3, <2>4, <1>a DEF WindowIsConsistent
<1> QED
  BY <1>1, <1>2, <1>3, NextByActor, OnlyWritersWrite DEF LoseAuthority, runnerVars, disk

\* No step but a power loss takes a checkpoint away or replaces it.
LEMMA CheckpointsPersist ==
    ASSUME IInv, [RunnerNext]_runnerVars
    PROVE  \/ PowerLoss
           \/ \A w \in Windows, q \in Requests :
                  checkpoint[w][q] # None => checkpoint'[w][q] = checkpoint[w][q]
PROOF
<1>a. TypeOK
  BY DEF IInv
<1>1. CASE UNCHANGED checkpoint
  BY <1>1
<1>2. ASSUME NEW r \in Runners, Save(r)
      PROVE  \A w \in Windows, q \in Requests :
                 checkpoint[w][q] # None => checkpoint'[w][q] = checkpoint[w][q]
  <2>1. run[r].window \in Windows /\ run[r].request \in Requests
    BY <1>2 DEF Save, IInv, RunIsConsistent, ExecutionIsConsistent, Executing, Dispatched
  <2> QED
    BY <1>2, <2>1, <1>a, <1>1 DEF Save, TypeOK
<1>3. ASSUME NEW r \in Runners, RunnerStep(r), ~Save(r)
      PROVE  UNCHANGED checkpoint
  BY <1>3, OnlyWritersWrite DEF Writes, disk, Claim, SyncClaim, Dispatch, SyncSave
<1> QED
  BY <1>1, <1>2, <1>3, NextByActor DEF LoseAuthority, runnerVars, disk
-----------------------------------------------------------------------------
(* What runs know.                                                         *)

\* A run that ends knows nothing any more.
LEMMA AnEndedRunIsConsistent ==
    ASSUME NEW r \in Runners, pc'[r] = "idle", run'[r] = NoRun
    PROVE  RunIsConsistent(r)' /\ pc'[r] \notin Executing
BY DEF RunIsConsistent, NoRun, NoEvidence, Windows, Guarded, Executing, Dispatched

LEMMA EndingIsConsistent ==
    ASSUME TypeOK, NEW r \in Runners, NEW status, NEW proposals,
           End(r, status, proposals)
    PROVE  RunIsConsistent(r)' /\ pc'[r] \notin Executing
PROOF
<1>1. pc'[r] = "idle" /\ run'[r] = NoRun
  BY DEF End, Goto, TypeOK
<1> QED
  BY <1>1, AnEndedRunIsConsistent

\* A plan begins without having seen anything.
LEMMA APlanBeginsConsistent ==
    ASSUME TypeOK, NEW r \in Runners, NEW s \in Steps, NEW locals \in Run,
           locals.request \in Requests, StartPlan(r, s, locals),
           s \in Guarded => owner' = r
    PROVE  RunIsConsistent(r)' /\ pc'[r] = s
           /\ run'[r] = [locals EXCEPT !.pos = 1, !.seen = NoEvidence]
PROOF
<1>1. pc'[r] = s /\ run'[r] = [locals EXCEPT !.pos = 1, !.seen = NoEvidence]
  BY DEF StartPlan, Goto, TypeOK
<1>2. run'[r].request = locals.request /\ run'[r].seen = NoEvidence
  BY <1>1 DEF Run
<1> QED
  BY <1>1, <1>2 DEF RunIsConsistent, NoEvidence

\* A step of one run keeps what it knows of its lock and its plan.
LEMMA OwnRunStep ==
    ASSUME IInv, [RunnerNext]_runnerVars, NEW r \in Runners, RunnerStep(r)
    PROVE  RunIsConsistent(r)'
PROOF
<1>a. TypeOK /\ RunIsConsistent(r)
  BY DEF IInv
<1>b. run[r] \in Run /\ pc[r] \in Steps
  BY <1>a DEF TypeOK
<1>c. ~PowerLoss => \A w \in Windows, q \in Requests :
          checkpoint[w][q] # None => checkpoint'[w][q] = checkpoint[w][q]
  BY CheckpointsPersist
<1>d. PowerLoss => RunIsConsistent(r)'
  BY AnEndedRunIsConsistent DEF PowerLoss
<1>e. ASSUME pc[r] # "idle", ~PowerLoss, run'[r].request = run[r].request,
             run'[r].seen = run[r].seen, pc'[r] \in Guarded => owner' = r
      PROVE  RunIsConsistent(r)'
  BY <1>e, <1>a, <1>c DEF RunIsConsistent
<1>1. ASSUME NEW q \in Requests, NEW m \in 0..N, Start(r, q, m)
      PROVE  RunIsConsistent(r)'
  <2>1. [NoRun EXCEPT !.request = q, !.max = m] \in Run
    BY NoRunIsARun DEF Run
  <2>2. [NoRun EXCEPT !.request = q, !.max = m].request = q
    BY DEF NoRun
  <2> QED
    BY <1>1, <1>a, <2>1, <2>2, APlanBeginsConsistent DEF Start, Steps, Plans, Guarded
<1>2. CASE LoadNext(r)
  <2> DEFINE w == run[r].pos
             q == run[r].request
  <2>1. CASE Fail(r)
    BY <2>1, <1>a, EndingIsConsistent DEF Fail
  <2>2. CASE ~Fail(r)
    <3>1. w \in Windows /\ q \in Requests /\ pc'[r] = pc[r] /\ owner' = owner
          /\ checkpoint' = checkpoint
      BY <1>2, <2>2, <1>a, <1>b DEF LoadNext, RunIsConsistent, Plans, Run, Windows, disk
    <3>2. run'[r] = [run[r] EXCEPT !.pos = w + 1, !.seen = [run[r].seen EXCEPT ![w] = checkpoint[w][q]]]
      BY <1>2, <2>2, <1>a DEF LoadNext, TypeOK
    <3>3. run'[r].request = q /\ run'[r].seen = [run[r].seen EXCEPT ![w] = checkpoint[w][q]]
      BY <3>2, <1>b DEF Run
    <3>4. run[r].seen \in Evidence
      BY <1>b DEF Run
    <3>5. \A v \in Windows : run'[r].seen[v] = IF v = w THEN checkpoint[w][q] ELSE run[r].seen[v]
      BY <3>3, <3>4 DEF Evidence
    <3> QED
      BY <3>1, <3>3, <3>5, <1>a DEF RunIsConsistent
  <2> QED
    BY <2>1, <2>2
<1>3. CASE AuthorityLost(r) \/ ProviderFails(r) \/ Raises(r)
  BY <1>3, <1>a, EndingIsConsistent DEF AuthorityLost, ProviderFails, Raises, Fail
<1>4. CASE Planned(r) \/ NextWindow(r)
  <2>a. pc[r] # "idle" /\ run[r].request \in Requests
    BY <1>4, <1>a DEF Planned, NextWindow, PlanRead, RunIsConsistent
  <2>1. ASSUME NEW locals \in Run, locals.request = run[r].request, StartPlan(r, "final", locals)
        PROVE  RunIsConsistent(r)'
    BY <2>1, <2>a, <1>a, APlanBeginsConsistent DEF Steps, Plans, Guarded
  <2>2. /\ run[r] \in Run
        /\ [run[r] EXCEPT !.plan = run[r].seen] \in Run
        /\ [run[r] EXCEPT !.plan = run[r].seen].request = run[r].request
    BY <1>b DEF Run
  <2>3. CASE Goto(r, "lock") /\ UNCHANGED run
    BY <2>3, <2>a, <1>a, <1>d, <1>e DEF Goto, TypeOK, Guarded
  <2>4. ASSUME NEW w, NextWindow(r), Goto(r, "claim"),
               run' = [run EXCEPT ![r] = [@ EXCEPT !.window = w, !.round = 0]]
        PROVE  RunIsConsistent(r)'
    <3>1. run'[r] = [run[r] EXCEPT !.window = w, !.round = 0]
      BY <2>4, <1>a DEF TypeOK
    <3>2. run'[r].request = run[r].request /\ run'[r].seen = run[r].seen
      BY <3>1, <1>b DEF Run
    <3> QED
      BY <2>4, <3>2, <2>a, <1>a, <1>d, <1>e DEF NextWindow, RunIsConsistent, Guarded
  <2> QED
    BY <1>4, <2>1, <2>2, <2>3, <2>4 DEF Planned, NextWindow
<1>5. CASE Lock(r) \/ Replanned(r) \/ Rechecked(r)
  <2>a. pc[r] # "idle" /\ run[r].request \in Requests
    BY <1>5, <1>a DEF Lock, Replanned, Rechecked, PlanRead, RunIsConsistent
  <2>1. CASE Fail(r)
    BY <2>1, <1>a, EndingIsConsistent DEF Fail
  <2>2. /\ run[r] \in Run
        /\ [run[r] EXCEPT !.plan = run[r].seen] \in Run
        /\ [run[r] EXCEPT !.plan = run[r].seen].request = run[r].request
    BY <1>b DEF Run
  <2>3. CASE Lock(r) /\ ~Fail(r)
    BY <2>3, <2>a, <2>2, <1>a, APlanBeginsConsistent DEF Lock, Steps, Plans
  <2>4. CASE Replanned(r) /\ ~Fail(r)
    <3>1. owner' = r
      BY <2>4, <1>a DEF Replanned, PlanRead, RunIsConsistent, Guarded
    <3> QED
      BY <2>4, <3>1, <2>a, <2>2, <1>a, APlanBeginsConsistent DEF Replanned, Steps, Plans
  <2>5. CASE Rechecked(r) /\ ~Fail(r)
    BY <2>5, <2>a, <1>a, <1>d, <1>e DEF Rechecked, PlanRead, RunIsConsistent, Guarded
  <2> QED
    BY <1>5, <2>1, <2>3, <2>4, <2>5
<1>6. CASE Claim(r) \/ SyncClaim(r) \/ ResponseRejected(r) \/ Presaved(r) \/ Save(r) \/ SyncSave(r)
  <2>1. CASE Fail(r)
    BY <2>1, <1>a, EndingIsConsistent DEF Fail
  <2>2. CASE ~Fail(r)
    <3>1. pc[r] # "idle" /\ owner = r /\ UNCHANGED <<owner, run>>
      BY <1>6, <2>2, <1>a DEF Claim, SyncClaim, ResponseRejected, Presaved, PlanRead, Save, SyncSave,
         RunIsConsistent, Guarded
    <3> QED
      BY <3>1, <1>d, <1>e
  <2> QED
    BY <2>1, <2>2
<1>7. CASE Dispatch(r)
  <2>1. CASE Fail(r)
    BY <2>1, <1>a, EndingIsConsistent DEF Fail
  <2>2. CASE ~Fail(r)
    <3>1. pc[r] # "idle" /\ owner = r /\ UNCHANGED owner
      BY <1>7, <2>2, <1>a DEF Dispatch, RunIsConsistent, Guarded
    <3>2. run'[r] = [run[r] EXCEPT !.round = @ + 1]
      BY <1>7, <2>2, <1>a DEF Dispatch, TypeOK
    <3>3. run'[r].request = run[r].request /\ run'[r].seen = run[r].seen
      BY <3>2, <1>b DEF Run
    <3> QED
      BY <3>1, <3>3, <1>d, <1>e
  <2> QED
    BY <2>1, <2>2
<1>8. ASSUME NEW p \in Proposals, ResponseAccepted(r, p)
      PROVE  RunIsConsistent(r)'
  <2>1. pc[r] # "idle" /\ run[r].request \in Requests /\ owner' = r
    BY <1>8, <1>a DEF ResponseAccepted, RunIsConsistent, Guarded
  <2>2. [run[r] EXCEPT !.accepted = p] \in Run /\ [run[r] EXCEPT !.accepted = p].request = run[r].request
    BY <1>b DEF Run
  <2> QED
    BY <1>8, <2>1, <2>2, <1>a, APlanBeginsConsistent DEF ResponseAccepted, Steps, Plans
<1>9. CASE Verify(r)
  <2>1. CASE Fail(r)
    BY <2>1, <1>a, EndingIsConsistent DEF Fail
  <2>2. CASE ~Fail(r)
    <3> DEFINE done == [run[r].generated EXCEPT ![run[r].window] = run[r].accepted]
    <3>1. pc[r] # "idle" /\ owner = r /\ UNCHANGED owner
      BY <1>9, <2>2, <1>a DEF Verify, RunIsConsistent, Guarded
    <3>2. run'[r] = [run[r] EXCEPT !.generated = done, !.accepted = None, !.window = 0]
      BY <1>9, <2>2, <1>a DEF Verify, TypeOK
    <3>3. run'[r].request = run[r].request /\ run'[r].seen = run[r].seen
      BY <3>2, <1>b DEF Run
    <3> QED
      BY <3>1, <3>3, <1>d, <1>e
  <2> QED
    BY <2>1, <2>2
<1>10. CASE Finish(r)
  BY <1>10, <1>a, EndingIsConsistent DEF Finish, Fail
<1>11. CASE Crash(r)
  BY <1>11, <1>a, AnEndedRunIsConsistent DEF Crash, Goto, TypeOK
<1> QED
  BY <1>1, <1>2, <1>3, <1>4, <1>5, <1>6, <1>7, <1>8, <1>9, <1>10, <1>11 DEF RunnerStep, Step

LEMMA RunStep ==
    ASSUME IInv, [RunnerNext]_runnerVars, NEW s \in Runners
    PROVE  RunIsConsistent(s)'
PROOF
<1>a. TypeOK /\ RunIsConsistent(s)
  BY DEF IInv
<1>1. CASE PowerLoss
  BY <1>1, AnEndedRunIsConsistent DEF PowerLoss
<1>2. CASE LoseAuthority \/ UNCHANGED runnerVars
  BY <1>2, <1>a DEF LoseAuthority, runnerVars, disk, RunIsConsistent
<1>3. ASSUME NEW r \in Runners, RunnerStep(r), r # s, ~PowerLoss
      PROVE  RunIsConsistent(s)'
  <2>1. pc'[s] = pc[s] /\ run'[s] = run[s]
    BY <1>3, <1>a, LocalsArePrivate
  <2>2. pc[s] \in Guarded => owner' = s
    BY <1>3, TheOwnerIsAlone
  <2>3. \A w \in Windows, q \in Requests :
            checkpoint[w][q] # None => checkpoint'[w][q] = checkpoint[w][q]
    BY <1>3, CheckpointsPersist
  <2> QED
    BY <2>1, <2>2, <2>3, <1>a DEF RunIsConsistent
<1> QED
  BY <1>1, <1>2, <1>3, OwnRunStep, NextByActor

-----------------------------------------------------------------------------
(* The window in execution.                                                *)

\* A step of the run that executes a window keeps, and extends, what it knows.
LEMMA OwnExecutionStep ==
    ASSUME IInv, [RunnerNext]_runnerVars, NEW r \in Runners, RunnerStep(r), pc'[r] \in Executing
    PROVE  ExecutionIsConsistent(r, run[r].window, run[r].request)'
PROOF
<1> DEFINE w == run[r].window
           q == run[r].request
<1>a. TypeOK
  BY DEF IInv
<1>b. run[r] \in Run
  BY <1>a DEF TypeOK
<1>c. pc[r] \in Executing => ExecutionIsConsistent(r, w, q) /\ w \in Windows /\ q \in Requests
  BY DEF IInv, RunIsConsistent, ExecutionIsConsistent, Executing, Dispatched
<1>d. \A s, p : ~End(r, s, p)
  BY <1>a DEF End, Goto, TypeOK, Executing, Dispatched
<1>e. ~Fail(r)
  BY <1>d DEF Fail
<1>f. \A s \in {"plan", "replan", "recheck", "final"} : \A l : ~StartPlan(r, s, l)
  BY <1>a DEF StartPlan, Goto, TypeOK, Executing, Dispatched
<1>g. ~Crash(r)
  BY <1>a DEF Crash, Goto, TypeOK, Executing, Dispatched
<1>1. CASE LoadNext(r)
  <2>1. pc'[r] = pc[r] /\ UNCHANGED <<disk, calls>>
    BY <1>1, <1>e DEF LoadNext
  <2>2. run'[r] = [run[r] EXCEPT !.pos = run[r].pos + 1,
                                 !.seen = [run[r].seen EXCEPT ![run[r].pos] = checkpoint[run[r].pos][q]]]
    BY <1>1, <1>e, <1>a DEF LoadNext, TypeOK
  <2>3. /\ run'[r].window = w /\ run'[r].request = q
        /\ run'[r].round = run[r].round /\ run'[r].accepted = run[r].accepted
    BY <2>2, <1>b DEF Run
  <2> QED
    BY <2>1, <2>3, <1>c DEF ExecutionIsConsistent, disk
<1>2. CASE NextWindow(r)
  <2>1. PICK v \in Todo(r) :
            Goto(r, "claim") /\ run' = [run EXCEPT ![r] = [@ EXCEPT !.window = v, !.round = 0]]
    BY <1>2, <1>f DEF NextWindow
  <2>2. run'[r] = [run[r] EXCEPT !.window = v, !.round = 0] /\ pc'[r] = "claim"
    BY <2>1, <1>a DEF TypeOK, Goto
  <2>3. run'[r].window = v /\ run'[r].round = 0 /\ v \in Windows
    BY <2>1, <2>2, <1>b DEF Run, Todo, Missing
  <2> QED
    BY <2>2, <2>3 DEF ExecutionIsConsistent, Dispatched, Saved
<1>3. CASE Claim(r)
  <2>1. /\ claims[w] = {} /\ claims' = [claims EXCEPT ![w] = @ \union {q}]
        /\ \A p \in Requests : checkpoint[w][p] = None
        /\ pc[r] = "claim" /\ pc'[r] = "syncclaim"
        /\ UNCHANGED <<run, calls, checkpoint>>
    BY <1>3, <1>e, <1>a DEF Claim, Goto, TypeOK
  <2>2. w \in Windows /\ q \in Requests /\ run[r].round = 0
    BY <2>1, <1>c DEF ExecutionIsConsistent, Executing
  <2>3. claims'[w] = {q}
    BY <2>1, <2>2, <1>a DEF TypeOK
  <2>4. calls[w] = 0
    BY <2>1, <2>2, WithoutClaimNoCall
  <2> QED
    BY <2>1, <2>2, <2>3, <2>4 DEF ExecutionIsConsistent, Dispatched, Saved
<1>4. CASE SyncClaim(r)
  <2>1. /\ pc[r] = "syncclaim" /\ pc'[r] = "dispatch" /\ durableClaims' = claims
        /\ UNCHANGED <<run, claims, calls, checkpoint>>
    BY <1>4, <1>a DEF SyncClaim, Goto, TypeOK
  <2>2. /\ w \in Windows /\ claims[w] = {q} /\ run[r].round = 0 /\ calls[w] = 0
        /\ \A p \in Requests : checkpoint[w][p] = None
    BY <2>1, <1>c DEF ExecutionIsConsistent, Executing, Saved
  <2> QED
    BY <2>1, <2>2, BoundsArePositive DEF ExecutionIsConsistent, Dispatched, Saved
<1>5. CASE Dispatch(r)
  <2>1. /\ pc[r] = "dispatch" /\ pc'[r] = "respond" /\ calls' = [calls EXCEPT ![w] = @ + 1]
        /\ UNCHANGED disk
    BY <1>5, <1>e, <1>a DEF Dispatch, Goto, TypeOK
  <2>2. run'[r] = [run[r] EXCEPT !.round = @ + 1]
    BY <1>5, <1>e, <1>a DEF Dispatch, TypeOK
  <2>3. run'[r].window = w /\ run'[r].request = q /\ run'[r].round = run[r].round + 1
    BY <2>2, <1>b DEF Run
  <2>4. /\ w \in Windows /\ claims[w] = {q} /\ durableClaims[w] = {q} /\ calls[w] = run[r].round
        /\ \A p \in Requests : checkpoint[w][p] = None
    BY <2>1, <1>c DEF ExecutionIsConsistent, Executing, Dispatched, Saved
  <2>5. calls'[w] = run[r].round + 1
    BY <2>1, <2>4, <1>a DEF TypeOK
  <2> QED
    BY <2>1, <2>3, <2>4, <2>5 DEF ExecutionIsConsistent, Dispatched, Saved, disk
<1>6. CASE ResponseRejected(r)
  <2>1. /\ pc[r] = "respond" /\ pc'[r] = "dispatch" /\ run[r].round < MaxRounds
        /\ UNCHANGED <<disk, calls, run>>
    BY <1>6, <1>e, <1>a DEF ResponseRejected, Goto, TypeOK
  <2> QED
    BY <2>1, <1>c DEF ExecutionIsConsistent, Executing, Dispatched, Saved, disk
<1>7. ASSUME NEW p \in Proposals, ResponseAccepted(r, p)
      PROVE  ExecutionIsConsistent(r, run[r].window, run[r].request)'
  <2>1. pc[r] = "respond" /\ pc'[r] = "presave" /\ UNCHANGED <<disk, calls>>
    BY <1>7, <1>a DEF ResponseAccepted, StartPlan, Goto, TypeOK
  <2>2. run'[r] = [[run[r] EXCEPT !.accepted = p] EXCEPT !.pos = 1, !.seen = NoEvidence]
    BY <1>7, <1>a DEF ResponseAccepted, StartPlan, TypeOK
  <2>3. /\ run'[r].window = w /\ run'[r].request = q /\ run'[r].round = run[r].round
        /\ run'[r].accepted = p
    BY <2>2, <1>b DEF Run
  <2> QED
    BY <2>1, <2>3, <1>7, <1>c DEF ExecutionIsConsistent, Executing, Dispatched, Saved, disk
<1>8. CASE Presaved(r)
  <2>1. pc[r] = "presave" /\ pc'[r] = "save" /\ UNCHANGED <<disk, calls, run>>
    BY <1>8, <1>a DEF Presaved, PlanRead, Goto, TypeOK
  <2> QED
    BY <2>1, <1>c DEF ExecutionIsConsistent, Executing, Dispatched, Saved, disk
<1>9. CASE Save(r)
  <2>1. /\ pc[r] = "save" /\ pc'[r] = "syncsave"
        /\ checkpoint' = [checkpoint EXCEPT ![w][q] = run[r].accepted]
        /\ UNCHANGED <<claims, durableClaims, calls, run>>
    BY <1>9, <1>e, <1>a DEF Save, Goto, TypeOK
  <2>2. ExecutionIsConsistent(r, w, q) /\ w \in Windows /\ q \in Requests
    BY <2>1, <1>c DEF Executing, Dispatched
  <2>3. checkpoint'[w][q] = run[r].accepted
    BY <2>1, <2>2, <1>a DEF TypeOK
  <2> QED
    BY <2>1, <2>2, <2>3 DEF ExecutionIsConsistent, Dispatched, Saved
<1>10. CASE SyncSave(r)
  <2>1. /\ pc[r] = "syncsave" /\ pc'[r] = "verify"
        /\ UNCHANGED <<claims, durableClaims, checkpoint, calls, run>>
    BY <1>10, <1>a DEF SyncSave, Goto, TypeOK
  <2> QED
    BY <2>1, <1>c DEF ExecutionIsConsistent, Executing, Dispatched, Saved
<1>11. ~(AuthorityLost(r) \/ ProviderFails(r) \/ Raises(r) \/ Finish(r))
  BY <1>d, <1>e DEF AuthorityLost, ProviderFails, Raises, Finish
<1>12. ~(Planned(r) \/ Lock(r) \/ Replanned(r) \/ \E p \in Requests, m \in 0..N : Start(r, p, m))
  BY <1>a, <1>e, <1>f DEF Planned, Lock, Replanned, Start, Goto, TypeOK, Executing, Dispatched
<1>13. ~(Rechecked(r) \/ Verify(r))
  BY <1>a, <1>e DEF Rechecked, Verify, Goto, TypeOK, Executing, Dispatched
<1> QED
  BY <1>1, <1>2, <1>3, <1>4, <1>5, <1>6, <1>7, <1>8, <1>9, <1>10, <1>11, <1>12, <1>13, <1>g
     DEF RunnerStep, Step

LEMMA ExecutionStep ==
    ASSUME IInv, [RunnerNext]_runnerVars, NEW s \in Runners, pc'[s] \in Executing
    PROVE  ExecutionIsConsistent(s, run[s].window, run[s].request)'
PROOF
<1>a. TypeOK
  BY DEF IInv
<1>b. pc[s] \in Executing => ExecutionIsConsistent(s, run[s].window, run[s].request)
  BY DEF IInv
<1>1. ~PowerLoss
  BY DEF PowerLoss, Executing, Dispatched
<1>2. CASE LoseAuthority \/ UNCHANGED runnerVars
  BY <1>2, <1>b DEF LoseAuthority, runnerVars, disk, ExecutionIsConsistent
<1>3. ASSUME NEW r \in Runners, RunnerStep(r), r # s
      PROVE  ExecutionIsConsistent(s, run[s].window, run[s].request)'
  <2>1. pc'[s] = pc[s] /\ run'[s] = run[s]
    BY <1>3, <1>a, LocalsArePrivate
  <2>2. pc[s] \in Guarded
    BY <2>1 DEF Executing, Dispatched, Guarded
  <2>3. UNCHANGED <<disk, calls>>
    BY <1>3, <2>2, TheOwnerIsAlone
  <2> QED
    BY <2>1, <2>3, <1>b DEF disk, ExecutionIsConsistent
<1> QED
  BY <1>1, <1>2, <1>3, OwnExecutionStep, NextByActor

-----------------------------------------------------------------------------
(* Reports.                                                                *)

Report(s) ==
    result[s] # None /\ result[s].status # "FAILED" =>
        /\ \A w \in Windows : result[s].proposals[w] # None =>
               /\ result[s].request \in Requests
               /\ checkpoint[w][result[s].request] = result[s].proposals[w]
        /\ result[s].status = "COMPLETE" <=>
               \A w \in Windows : result[s].proposals[w] # None

\* A run ends with FAILED, or by finish() with what its last plan has seen.
LEMMA HowRunsEnd ==
    ASSUME TypeOK, NEW r \in Runners, RunnerStep(r), NEW s \in Runners
    PROVE  \/ result'[s] \in {result[s], None}
           \/ result'[s].status = "FAILED"
           \/ /\ s = r /\ Finish(r)
              /\ result'[s].status \in {"COMPLETE", "BOUNDED_PROGRESS"}
              /\ result'[s].status = "COMPLETE" <=>
                     None \notin {run[r].seen[w] : w \in Windows}
              /\ result'[s].request = run[r].request
              /\ result'[s].proposals = run[r].seen
PROOF
<1>1. CASE UNCHANGED result
  BY <1>1
<1>2. CASE Fail(r)
  BY <1>2 DEF Fail, End, TypeOK
<1>3. ASSUME NEW q \in Requests, NEW m \in 0..N, Start(r, q, m)
      PROVE  result'[s] \in {result[s], None}
  BY <1>3 DEF Start, TypeOK
<1>4. CASE Finish(r)
  <2> DEFINE status == IF None \notin {run[r].seen[w] : w \in Windows} THEN "COMPLETE"
                       ELSE "BOUNDED_PROGRESS"
  <2>1. CASE End(r, status, run[r].seen)
    <3>1. result' = [result EXCEPT ![r] =
              [status |-> status, request |-> run[r].request, proposals |-> run[r].seen]]
      BY <2>1 DEF End
    <3>2. CASE s = r
      <4>1. result'[s] = [status |-> status, request |-> run[r].request, proposals |-> run[r].seen]
        BY <3>1, <3>2 DEF TypeOK
      <4> QED
        BY <1>4, <3>2, <4>1
    <3>3. CASE s # r
      BY <3>1, <3>3 DEF TypeOK
    <3> QED
      BY <3>2, <3>3
  <2> QED
    BY <1>4, <1>2, <2>1 DEF Finish
<1> QED
  BY <1>1, <1>2, <1>3, <1>4
     DEF RunnerStep, Step, LoadNext, AuthorityLost, Planned, Lock, Replanned, Rechecked, NextWindow,
         Claim, SyncClaim, Dispatch, ResponseRejected, ResponseAccepted, Presaved, Save, SyncSave,
         Verify, ProviderFails, Raises, Crash

\* A report stays true, and a new one is.
LEMMA ReportStep ==
    ASSUME IInv, [RunnerNext]_runnerVars, NEW s \in Runners
    PROVE  Report(s)'
PROOF
<1>a. TypeOK /\ Report(s)
  BY DEF IInv, ReportsAreTrue, TypeOK, Result, Report
<1>1. CASE PowerLoss
  BY <1>1 DEF PowerLoss, Report
<1>2. CASE LoseAuthority \/ UNCHANGED runnerVars
  BY <1>2, <1>a DEF LoseAuthority, runnerVars, disk, Report
<1>3. ASSUME NEW r \in Runners, RunnerStep(r), ~PowerLoss
      PROVE  Report(s)'
  <2>a. \A w \in Windows, q \in Requests :
            checkpoint[w][q] # None => checkpoint'[w][q] = checkpoint[w][q]
    BY <1>3, CheckpointsPersist
  <2>1. CASE result'[s] \in {result[s], None}
    BY <2>1, <2>a, <1>a DEF Report
  <2>2. CASE result'[s].status = "FAILED"
    BY <2>2 DEF Report
  <2>3. CASE /\ s = r /\ Finish(r)
             /\ result'[s].status \in {"COMPLETE", "BOUNDED_PROGRESS"}
             /\ result'[s].status = "COMPLETE" <=>
                    None \notin {run[r].seen[w] : w \in Windows}
             /\ result'[s].request = run[r].request
             /\ result'[s].proposals = run[r].seen
    <3>1. \A w \in Windows : run[s].seen[w] # None =>
              run[s].request \in Requests /\ checkpoint[w][run[s].request] = run[s].seen[w]
      BY DEF IInv, RunIsConsistent
    <3>2. \A w \in Windows : result'[s].proposals[w] # None =>
              /\ result'[s].request \in Requests
              /\ checkpoint'[w][result'[s].request] = result'[s].proposals[w]
      BY <2>3, <2>a, <3>1
    <3>3. result'[s].status = "COMPLETE" <=> \A w \in Windows : result'[s].proposals[w] # None
      BY <2>3
    <3> QED
      BY <3>2, <3>3 DEF Report
  <2> QED
    BY <1>3, <1>a, <2>1, <2>2, <2>3, HowRunsEnd
<1> QED
  BY <1>1, <1>2, <1>3, NextByActor

-----------------------------------------------------------------------------
(* Theorems.                                                               *)

LEMMA Inductive == RunnerSpec => []IInv
PROOF
<1>1. ASSUME RunnerInit
      PROVE  IInv
  <2>1. TypeOK
    <3>1. claims \in [Windows -> SUBSET Requests] /\ durable \in SUBSET (Windows \X Requests)
      BY <1>1 DEF RunnerInit
    <3> QED
      BY <1>1, <3>1, NoRunIsARun DEF RunnerInit, TypeOK, Steps
  <2>2. \A w \in Windows : WindowIsConsistent(w)
    BY <1>1, BoundsArePositive DEF RunnerInit, WindowIsConsistent
  <2>3. \A r \in Runners : RunIsConsistent(r) /\ pc[r] \notin Executing
    BY <1>1 DEF RunnerInit, RunIsConsistent, NoRun, NoEvidence, Guarded, Executing, Dispatched
  <2>4. ReportsAreTrue
    BY <1>1 DEF RunnerInit, ReportsAreTrue
  <2> QED
    BY <2>1, <2>2, <2>3, <2>4 DEF IInv
<1>2. ASSUME IInv, [RunnerNext]_runnerVars
      PROVE  IInv'
  <2>1. ReportsAreTrue'
    BY <1>2, ReportStep DEF ReportsAreTrue, Report
  <2> QED
    BY <1>2, <2>1, TypeStep, WindowStep, RunStep, ExecutionStep DEF IInv
<1> QED
  BY <1>1, <1>2, PTL DEF RunnerSpec

\* Every reachable state is well typed, for any number of processes, windows,
\* requests and proposals.
THEOREM TypeCorrectness == RunnerSpec => []TypeOK
PROOF
<1>1. IInv => TypeOK
  BY DEF IInv
<1> QED
  BY <1>1, Inductive, PTL

\* At most once: over all runs, crashes, power losses, retries and changed
\* prompts, a window costs at most MaxRounds provider calls.
THEOREM WindowsAreExecutedOnce == RunnerSpec => []ProviderCallsAreBounded
PROOF
<1>1. IInv => ProviderCallsAreBounded
  BY DEF IInv, WindowIsConsistent, ProviderCallsAreBounded
<1> QED
  BY <1>1, Inductive, PTL

\* What was called for is claimed, durably, by one request.
THEOREM CallsLeaveClaims == RunnerSpec => []CalledWindowsStayClaimed
PROOF
<1>1. ASSUME IInv, NEW w \in Windows, calls[w] > 0
      PROVE  Cardinality(durableClaims[w]) = 1 /\ claims[w] = durableClaims[w]
  <2>1. PICK q \in Requests : claims[w] = {q} /\ durableClaims[w] = {q}
    BY <1>1 DEF IInv, WindowIsConsistent
  <2> QED
    BY <2>1, FS_Singleton
<1>2. IInv => CalledWindowsStayClaimed
  BY <1>1 DEF CalledWindowsStayClaimed
<1> QED
  BY <1>2, Inductive, PTL

\* A checkpoint belongs to the request of the window's only claim.
THEOREM CheckpointsHaveClaims == RunnerSpec => []CheckpointsAreClaimed
PROOF
<1>1. IInv => CheckpointsAreClaimed
  BY DEF IInv, WindowIsConsistent, CheckpointsAreClaimed
<1> QED
  BY <1>1, Inductive, PTL

\* COMPLETE and BOUNDED_PROGRESS report what is on disk.
THEOREM ReportsHold == RunnerSpec => []ReportsAreTrue
PROOF
<1>1. IInv => ReportsAreTrue
  BY DEF IInv
<1> QED
  BY <1>1, Inductive, PTL

\* No step calls the provider for a window whose checkpoint is visible.
THEOREM CheckpointsEndCalls == RunnerSpec => NoCallAfterCheckpoint
PROOF
<1> DEFINE Paid == \A w \in Windows :
               (\E q \in Requests : checkpoint[w][q] # None) => calls'[w] = calls[w]
<1>1. ASSUME IInv, [RunnerNext]_runnerVars
      PROVE  Paid
  <2>1. CASE UNCHANGED calls
    BY <2>1
  <2>2. ASSUME NEW r \in Runners, Dispatch(r)
        PROVE  Paid
    <3>1. /\ run[r].window \in Windows
          /\ \A q \in Requests : checkpoint[run[r].window][q] = None
      BY <1>1, <2>2 DEF Dispatch, IInv, ExecutionIsConsistent, Executing, Dispatched, Saved
    <3> QED
      BY <1>1, <2>2, <3>1 DEF Dispatch, IInv, TypeOK
  <2> QED
    BY <1>1, <2>1, <2>2, NextByActor, OnlyWritersWrite
       DEF Writes, Claim, SyncClaim, Save, SyncSave, PowerLoss, LoseAuthority, runnerVars
<1>2. Paid => [\A w \in Windows :
          (\E q \in Requests : checkpoint[w][q] # None) => calls'[w] = calls[w]]_runnerVars
  OBVIOUS
<1> QED
  BY <1>1, <1>2, Inductive, PTL DEF RunnerSpec, NoCallAfterCheckpoint
=============================================================================

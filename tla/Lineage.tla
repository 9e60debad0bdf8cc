------------------------------- MODULE Lineage -------------------------------
(***************************************************************************)
(* What the publication of the stages A4, A5 and A6 promises: every stage  *)
(* has one history of CURRENT revisions, a revision enters it once and     *)
(* above those before it, and it is made from one upstream revision that   *)
(* was CURRENT itself: nothing is built on a draft.                        *)
(***************************************************************************)
EXTENDS Integers, SequencesExt

CONSTANTS Stages,  \* consecutive stages; the first reads the input
          Revs     \* the revisions of a stage

VARIABLES input,   \* the last input there is; 0 when there is none
          current, \* current[s]: the revisions that were current, oldest first
          made     \* made[s][r]: what current revision r of s was made from

vars == <<input, current, made>>

First(s) == \A q \in Stages : s \leq q

Init ==
    /\ input = 0
    /\ current = [s \in Stages |-> <<>>]
    /\ made = [s \in Stages |-> <<>>]

\* The revisions stage s may be made from.
Upstream(s) == IF First(s) THEN 1..input ELSE ToSet(current[s - 1])

MoveInput == input' = input + 1 /\ UNCHANGED <<current, made>>

Publish(s, r, u) ==
    /\ \A q \in ToSet(current[s]) : q < r
    /\ current' = [current EXCEPT ![s] = Append(@, r)]
    /\ made' = [made EXCEPT ![s] = Append(@, u)]
    /\ UNCHANGED input

Next == MoveInput \/ \E s \in Stages, r \in Revs : \E u \in Upstream(s) : Publish(s, r, u)

Spec == Init /\ [][Next]_vars
=============================================================================

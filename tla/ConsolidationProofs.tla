-------------------------- MODULE ConsolidationProofs --------------------------
(***************************************************************************)
(* The safety properties of A5: of the two-stage executor, for any number  *)
(* of blocks and threads, any numbering and any answers, and of the work   *)
(* in memory, for any candidates, extractions and decisions.               *)
(*                                                                         *)
(* The executor's invariant says, for each phase of the calling thread,    *)
(* what is known of every block; once the resolution has ended, no step is *)
(* possible any more.  That of the consolidation says what each stage      *)
(* leaves to the next; the weight is on what the folds and the sortings    *)
(* along the way return.                                                   *)
(***************************************************************************)
EXTENDS BlockExecutor, EvidenceConsolidation,
        FiniteSetTheorems, WellFoundedInduction, TLAPS

-----------------------------------------------------------------------------
(* The executor.                                                           *)

\* b has its first result.
Done(b) == answer[b][1] # "error" /\ results[b] = b /\ calls[b] = 1

Settled == {"none", "finished", "cancelled"}

PoolIsConsistent(b) ==
    /\ b \geq next => future[b] = "none" /\ calls[b] = 0 /\ results[b] = 0
    /\ b \in watched => b < next /\ future[b] # "none"
    /\ b \notin watched => future[b] \in Settled
    /\ future[b] \in {"queued", "taken", "cancelled"} => calls[b] = 0
    /\ future[b] = "running" => calls[b] = 1

\* One call at a time: every block before the next one is done.
SerialIsConsistent ==
    /\ next \leq N
    /\ watched = {} /\ failures = {}
    /\ pc = "begin" => next = 1
    /\ \A b \in Blocks : future[b] = "none" /\ (b < next => Done(b))

\* Calls under way: every block that is not watched is done.
WindowIsConsistent ==
    /\ pc = "submit" => next \leq N
    /\ failures = {} /\ doomed = {}
    /\ \A b \in Blocks :
           /\ future[b] # "cancelled"
           /\ b < next /\ b \notin watched => Done(b) /\ future[b] = "finished"
           /\ b \in watched /\ future[b] = "finished" => calls[b] = 1

\* After an error: every call that was begun is watched or accounted for.
FailureIsConsistent ==
    /\ failures # {}
    /\ pc = "drain" => doomed = {}
    /\ \A b \in failures : answer[b][1] = "error"
    /\ \A b \in Blocks :
           /\ b < next /\ b \notin watched => calls[b] = 1
           /\ b < next /\ b \notin watched /\ answer[b][1] = "error" => b \in failures
           /\ b \in watched /\ future[b] = "finished" => calls[b] = 1

\* The second stage: the retries come after all others, in order.
RetriesAreConsistent ==
    /\ watched = {} /\ next = N + 1 /\ retries # {}
    /\ \A b \in Blocks : answer[b][1] # "error"
    /\ \A b \in retries : answer[b][1] = "invalid"
    /\ \A b \in Blocks \ retries :
           /\ results[b] = b
           /\ IF answer[b][1] = "invalid" THEN calls[b] = 2 /\ answer[b][2] = "valid" ELSE calls[b] = 1
    /\ \A b \in retries :
           calls[b] = IF pc = "retrying" /\ IsLowest(b, retries) THEN 2 ELSE 1
    /\ \A b \in retries, c \in Blocks \ retries :
           answer[c][1] = "invalid" => ordinal[c] \leq ordinal[b]

EndIsConsistent ==
    /\ watched = {}
    /\ ConcurrencyIsInvisible
    /\ LowestErrorIsRaised
    /\ RetriesAreIsolated

IInv ==
    /\ TypeOK
    /\ \A b \in Blocks : PoolIsConsistent(b)
    /\ pc # "end" => outcome = Running
    /\ pc \in {"begin", "serial"} => SerialIsConsistent
    /\ pc \in {"submit", "wait"} => WindowIsConsistent
    /\ pc \in {"cancel", "drain"} => FailureIsConsistent
    /\ pc \in {"retry", "retrying"} => RetriesAreConsistent
    /\ pc = "end" => EndIsConsistent

-----------------------------------------------------------------------------
\* The executor is well typed in every state.
LEMMA Types ==
    ASSUME TypeOK, NEW b \in Blocks
    PROVE  /\ N \in Nat \ {0} /\ b \in Nat /\ b \in 1..N
           /\ next \in Nat /\ next \leq N + 1
           /\ ordinal[b] \in Nat
           /\ answer[b] \in [1..2 -> Answers]
           /\ answer[b][1] # "invalid" => answer[b][2] = "valid"
           /\ answer[b][1] \in Answers /\ answer[b][2] \in Answers
           /\ calls[b] \in 0..2 /\ results[b] \in 0..N
PROOF
<1>1. answer[b] \in Rounds
  BY DEF TypeOK
<1>2. ordinal \in [Blocks -> Nat]
  BY BlockBounds DEF TypeOK
<1>3. N \in Nat \ {0}
  BY BlockBounds
<1>4. next \in 1..(N + 1) /\ calls[b] \in 0..2 /\ results[b] \in 0..N
  BY DEF TypeOK
<1> QED
  BY <1>1, <1>2, <1>3, <1>4 DEF Rounds, Blocks

\* Two blocks have different ordinals.
LEMMA Ordinals_Differ ==
    ASSUME TypeOK, NEW b \in Blocks, NEW c \in Blocks, ordinal[b] = ordinal[c]
    PROVE  b = c
BY BlockBounds DEF TypeOK

\* What the barrier makes of a stage in which every block is done.
LEMMA BarrierStep ==
    ASSUME TypeOK, NEW found \in [Blocks -> 0..N], Barrier(found),
           UNCHANGED <<inputs, future, doomed, failures>>,
           outcome = Running, watched' = {}, next' = N + 1, calls' \in [Blocks -> 0..2],
           \A b \in Blocks :
               /\ answer[b][1] # "error" /\ found[b] = b /\ calls'[b] = 1
               /\ future[b] \in {"none", "finished"},
           doomed = {}
    PROVE  IInv'
PROOF
<1> DEFINE invalid == {b \in Blocks : answer[b][1] = "invalid"}
<1>1. /\ retries' = invalid
      /\ results' = [i \in Blocks |-> IF found[i] \in invalid THEN 0 ELSE found[i]]
      /\ pc' = IF invalid = {} THEN "end" ELSE "retry"
      /\ outcome' = IF invalid = {} THEN Ok ELSE Running
  BY DEF Barrier
<1>2. \A b \in Blocks : results'[b] = IF answer[b][1] = "invalid" THEN 0 ELSE b
  BY <1>1
<1>a. N \in Nat \ {0}
  BY BlockBounds
<1>3. TypeOK'
  <2>1. next' \in 1..(N + 1)
    BY <1>a
  <2>2. results' \in [Blocks -> 0..N]
    BY <1>1, <1>a
  <2>3. pc' \in Steps /\ retries' \subseteq Blocks /\ outcome' \in Outcome
    BY <1>1 DEF Steps, Outcome
  <2>4. inputs' = inputs /\ future' = future /\ doomed' = {} /\ failures' = failures
    OBVIOUS
  <2> QED
    BY <2>1, <2>2, <2>3, <2>4 DEF TypeOK, inputs
<1>4. \A b \in Blocks : PoolIsConsistent(b)'
  BY <1>2, <1>a DEF PoolIsConsistent, Blocks, Settled
<1>5. CASE invalid = {}
  <2>1. pc' = "end" /\ outcome' = Ok
    BY <1>1, <1>5
  <2>2. \A b \in Blocks : /\ answer'[b][1] \notin {"error", "invalid"} /\ answer'[b][2] = "valid"
                          /\ results'[b] = b /\ calls'[b] = 1
    BY <1>2, <1>5, Types DEF inputs
  <2>3. EndIsConsistent'
    BY <2>1, <2>2 DEF EndIsConsistent, ConcurrencyIsInvisible, SerialSucceeds, LowestErrorIsRaised,
       RetriesAreIsolated, Ok
  <2> QED
    BY <1>3, <1>4, <2>1, <2>3 DEF IInv
<1>6. CASE invalid # {}
  <2>1. pc' = "retry" /\ outcome' = Running /\ retries' # {}
    BY <1>1, <1>6
  <2>2. RetriesAreConsistent'
    BY <1>1, <1>2, <2>1 DEF RetriesAreConsistent, inputs
  <2> QED
    BY <1>3, <1>4, <2>1, <2>2 DEF IInv
<1> QED
  BY <1>5, <1>6

\* Begin keeps the invariant.
LEMMA BeginStep ==
    ASSUME IInv, Begin
    PROVE  IInv'
PROOF
<1>a. TypeOK /\ SerialIsConsistent /\ pc = "begin" /\ next = 1 /\ outcome = Running
  BY DEF IInv, Begin, SerialIsConsistent
<1>b. N \in Nat \ {0}
  BY BlockBounds
<1>c. UNCHANGED <<inputs, next, future, watched, doomed, failures, results, retries, calls>>
  BY DEF Begin
<1>d. \A b \in Blocks : PoolIsConsistent(b)'
  BY <1>c DEF IInv, PoolIsConsistent
<1>1. CASE limit > 1 /\ ~supported
  <2>1. pc' = "end" /\ outcome' = Refused
    BY <1>1 DEF Begin
  <2>2. TypeOK'
    BY <2>1, <1>a, <1>c DEF TypeOK, Steps, Outcome, inputs
  <2>3. \A b \in Blocks : calls'[b] = 0
    BY <1>a, <1>c, Types DEF IInv, PoolIsConsistent
  <2>4. EndIsConsistent'
    BY <2>1, <2>3, <1>a, <1>c DEF EndIsConsistent, SerialIsConsistent, ConcurrencyIsInvisible,
       LowestErrorIsRaised, RetriesAreIsolated, Refused
  <2> QED
    BY <2>1, <2>2, <2>4, <1>d DEF IInv
<1>2. CASE ~(limit > 1 /\ ~supported)
  <2>1. pc' \in {"serial", "submit"} /\ outcome' = Running
    BY <1>2, <1>a DEF Begin
  <2>2. TypeOK'
    BY <2>1, <1>a, <1>c DEF TypeOK, Steps, Outcome, inputs
  <2>3. SerialIsConsistent' /\ WindowIsConsistent'
    BY <2>1, <1>a, <1>b, <1>c, Types DEF SerialIsConsistent, WindowIsConsistent, TypeOK
  <2> QED
    BY <2>1, <2>2, <2>3, <1>d DEF IInv
<1> QED
  BY <1>1, <1>2

\* A serial block keeps the invariant.
LEMMA SerialStep ==
    ASSUME IInv, Serial
    PROVE  IInv'
PROOF
<1>a. TypeOK /\ SerialIsConsistent /\ pc = "serial" /\ outcome = Running
  BY DEF IInv, Serial
<1>b. N \in Nat \ {0} /\ next \in Blocks /\ next \in 1..N
  BY <1>a, BlockBounds DEF SerialIsConsistent, TypeOK, Blocks
<1>c. /\ UNCHANGED <<inputs, future, watched, doomed, failures>>
      /\ next' = next + 1 /\ calls' = [calls EXCEPT ![next] = @ + 1]
  BY DEF Serial
<1>d. watched = {} /\ doomed = {}
  BY <1>a DEF SerialIsConsistent, TypeOK
<1>e. calls[next] = 0 /\ results[next] = 0 /\ \A b \in Blocks : b > next => calls[b] = 0 /\ results[b] = 0
  BY <1>b DEF IInv, PoolIsConsistent, Blocks
<1>f. /\ calls'[next] = 1
      /\ \A b \in Blocks : b # next => calls'[b] = calls[b]
      /\ calls' \in [Blocks -> 0..2]
  BY <1>a, <1>b, <1>c, <1>e DEF TypeOK
<1>g. \A b \in Blocks : b < next => Done(b)
  BY <1>a DEF SerialIsConsistent
<1>h. \A b \in Blocks : future[b] = "none"
  BY <1>a DEF SerialIsConsistent
<1>1. CASE answer[next][1] = "error"
  <2>1. pc' = "end" /\ outcome' = Raised(next) /\ UNCHANGED <<results, retries>>
    BY <1>1 DEF Serial
  <2>2. TypeOK'
    <3>1. next' \in 1..(N + 1) /\ outcome' \in Outcome /\ pc' \in Steps
      BY <2>1, <1>b, <1>c DEF Outcome, Steps
    <3> QED
      BY <3>1, <2>1, <1>a, <1>c, <1>f DEF TypeOK, inputs
  <2>3. \A b \in Blocks : PoolIsConsistent(b)'
    BY <2>1, <1>b, <1>c, <1>d, <1>e, <1>f, <1>h DEF PoolIsConsistent, Settled, Blocks
  <2>4. \A b \in Blocks : calls'[b] # 2 /\ (calls'[b] > 0 /\ answer[b][1] = "error" => b = next)
    BY <1>b, <1>e, <1>f, <1>g DEF Done, Blocks
  <2>5. outcome'.kind = "raised" /\ outcome'.block = next
    BY <2>1 DEF Raised
  <2>6. ordinal[next] \in Nat
    BY <1>a, <1>b, Types
  <2>7. ConcurrencyIsInvisible' /\ LowestErrorIsRaised' /\ RetriesAreIsolated'
    BY <1>1, <1>b, <1>c, <2>4, <2>5, <2>6 DEF ConcurrencyIsInvisible, SerialSucceeds, LowestErrorIsRaised,
       RetriesAreIsolated, inputs
  <2> QED
    BY <2>1, <2>2, <2>3, <2>7, <1>c, <1>d DEF IInv, EndIsConsistent
<1>2. CASE answer[next][1] # "error"
  <2> DEFINE found == Place(results, {next})
  <2>1. /\ found \in [Blocks -> 0..N]
        /\ \A b \in Blocks : found[b] = IF b = next THEN b ELSE results[b]
    BY <1>a, <1>b DEF Place, TypeOK, Blocks
  <2>2. IF next = N THEN Barrier(found)
                    ELSE results' = found /\ UNCHANGED <<pc, retries, outcome>>
    BY <1>2 DEF Serial
  <2> HIDE DEF found
  <2>3. found[next] = next /\ \A b \in Blocks : b # next => found[b] = results[b]
    BY <2>1, <1>b
  <2>4. \A b \in Blocks : b < next => answer[b][1] # "error" /\ found[b] = b /\ calls'[b] = 1
    BY <2>3, <1>b, <1>f, <1>g DEF Done, Blocks
  <2>5. \A b \in Blocks : b > next => found[b] = 0 /\ calls'[b] = 0
    BY <2>3, <1>b, <1>e, <1>f DEF Blocks
  <2>6. CASE next = N
    <3>1. \A b \in Blocks : b < next \/ b = next
      BY <2>6, <1>b DEF Blocks
    <3>2. \A b \in Blocks : /\ answer[b][1] # "error" /\ found[b] = b /\ calls'[b] = 1
                            /\ future[b] \in {"none", "finished"}
      BY <3>1, <1>2, <2>3, <2>4, <1>f, <1>h
    <3>3. watched' = {} /\ next' = N + 1
      BY <2>6, <1>c, <1>d
    <3>4. Barrier(found)
      BY <2>2, <2>6
    <3> QED
      BY <3>2, <3>3, <3>4, <2>1, <1>a, <1>c, <1>d, <1>f, BarrierStep
  <2>7. CASE next # N
    <3>1. results' = found /\ UNCHANGED <<pc, retries, outcome>>
      BY <2>2, <2>7
    <3>2. next' \in 1..(N + 1) /\ next' \leq N
      BY <2>7, <1>b, <1>c
    <3>3. TypeOK'
      BY <3>1, <3>2, <2>1, <1>a, <1>c, <1>f DEF TypeOK, inputs
    <3>4. ASSUME NEW b \in Blocks
          PROVE  PoolIsConsistent(b)'
      <4>1. b \geq next' => future'[b] = "none" /\ calls'[b] = 0 /\ results'[b] = 0
        BY <3>1, <2>5, <1>b, <1>c, <1>h DEF Blocks
      <4> QED
        BY <4>1, <1>c, <1>d, <1>h DEF PoolIsConsistent, Settled
    <3>5. ASSUME NEW b \in Blocks, b < next'
          PROVE  Done(b)'
      <4>1. b < next \/ b = next
        BY <3>5, <1>b, <1>c DEF Blocks
      <4> QED
        BY <4>1, <3>1, <2>3, <2>4, <1>2, <1>c, <1>f DEF Done, inputs
    <3>6. SerialIsConsistent'
      BY <3>1, <3>2, <3>5, <1>a, <1>c, <1>h DEF SerialIsConsistent
    <3> QED
      BY <3>1, <3>3, <3>4, <3>6, <1>a DEF IInv
  <2> QED
    BY <2>6, <2>7
<1> QED
  BY <1>1, <1>2

\* A submission keeps the invariant.
LEMMA SubmitStep ==
    ASSUME IInv, Submit
    PROVE  IInv'
PROOF
<1>a. TypeOK /\ WindowIsConsistent /\ pc = "submit" /\ next \leq N /\ outcome = Running
  BY DEF IInv, Submit, WindowIsConsistent
<1>b. N \in Nat \ {0} /\ next \in Blocks /\ next \in 1..N
  BY <1>a, BlockBounds DEF TypeOK, Blocks
<1>c. /\ UNCHANGED <<inputs, doomed, failures, results, retries, calls, outcome>>
      /\ future' = [future EXCEPT ![next] = "queued"]
      /\ watched' = watched \union {next}
      /\ next' = next + 1
  BY DEF Submit
<1>d. pc' \in {"submit", "wait"} /\ (pc' = "submit" => next < N)
  BY DEF Submit
<1>e. future'[next] = "queued" /\ \A b \in Blocks : b # next => future'[b] = future[b]
  BY <1>a, <1>b, <1>c DEF TypeOK
<1>f. future[next] = "none" /\ calls[next] = 0 /\ results[next] = 0
  BY <1>b DEF IInv, PoolIsConsistent
<1>1. TypeOK'
  <2>1. next' \in 1..(N + 1) /\ pc' \in Steps /\ watched' \subseteq Blocks /\ doomed' \subseteq watched'
    BY <1>a, <1>b, <1>c, <1>d DEF TypeOK, Steps
  <2>2. future' \in [Blocks -> Futures]
    BY <1>a, <1>c DEF TypeOK, Futures
  <2> QED
    BY <2>1, <2>2, <1>a, <1>c DEF TypeOK, inputs
<1>2. ASSUME NEW b \in Blocks
      PROVE  PoolIsConsistent(b)'
  <2>1. PoolIsConsistent(b) /\ b \in Nat
    BY <1>a, Types DEF IInv
  <2>2. CASE b = next
    BY <2>1, <2>2, <1>b, <1>c, <1>e, <1>f DEF PoolIsConsistent
  <2>3. CASE b # next
    <3>1. future'[b] = future[b] /\ calls'[b] = calls[b] /\ results'[b] = results[b]
      BY <2>3, <1>c, <1>e
    <3>2. (b \geq next' => b \geq next) /\ (b < next => b < next') /\ (b \in watched' <=> b \in watched)
      BY <2>1, <2>3, <1>b, <1>c
    <3> QED
      BY <2>1, <3>1, <3>2 DEF PoolIsConsistent
  <2> QED
    BY <2>2, <2>3
<1>3. WindowIsConsistent'
  <2>1. pc' = "submit" => next' \leq N
    BY <1>b, <1>c, <1>d
  <2>2. failures' = {} /\ doomed' = {}
    BY <1>a, <1>c DEF WindowIsConsistent
  <2>3. ASSUME NEW b \in Blocks
        PROVE  /\ future'[b] # "cancelled"
               /\ b < next' /\ b \notin watched' => Done(b)' /\ future'[b] = "finished"
               /\ b \in watched' /\ future'[b] = "finished" => calls'[b] = 1
    <3>1. CASE b = next
      BY <3>1, <1>c, <1>e
    <3>2. CASE b # next
      <4>1. future'[b] = future[b] /\ (Done(b)' <=> Done(b)) /\ calls'[b] = calls[b]
        BY <3>2, <1>c, <1>e DEF Done, inputs
      <4>2. (b < next' => b < next) /\ (b \in watched' <=> b \in watched)
        BY <3>2, <1>a, <1>b, <1>c, Types
      <4> QED
        BY <4>1, <4>2, <1>a DEF WindowIsConsistent
    <3> QED
      BY <3>1, <3>2
  <2> QED
    BY <2>1, <2>2, <2>3 DEF WindowIsConsistent
<1> QED
  BY <1>1, <1>2, <1>3, <1>a, <1>c, <1>d DEF IInv

\* A wait that returns keeps the invariant.
LEMMA WaitStep ==
    ASSUME IInv, Wait
    PROVE  IInv'
PROOF
<1>a. TypeOK /\ WindowIsConsistent /\ pc = "wait" /\ outcome = Running
  BY DEF IInv, Wait
<1>b. failures = {} /\ doomed = {}
  BY <1>a DEF WindowIsConsistent
<1> DEFINE S == Finished
           bad == Failed(S)
           found == Place(results, S \ bad)
<1>c. /\ UNCHANGED <<inputs, next, future, calls>>
      /\ watched' = watched \ S
      /\ failures' = bad
      /\ IF bad # {}
         THEN pc' = "cancel" /\ doomed' = watched' /\ results' = found /\ UNCHANGED <<retries, outcome>>
         ELSE /\ doomed' = {}
              /\ IF watched' = {} /\ next > N THEN Barrier(found)
                 ELSE /\ pc' = IF next > N THEN "wait" ELSE "submit"
                      /\ results' = found
                      /\ UNCHANGED <<retries, outcome>>
  BY <1>b DEF Wait
<1>d. /\ found \in [Blocks -> 0..N]
      /\ \A b \in Blocks : found[b] = IF b \in S \ bad THEN b ELSE results[b]
  BY <1>a DEF Place, TypeOK, Blocks
<1>e. /\ S \subseteq watched /\ \A b \in S : future[b] = "finished"
      /\ bad \subseteq S /\ \A b \in S : b \in bad <=> answer[b][1] = "error"
  BY DEF Finished, Failed
<1> HIDE DEF S, bad, found
<1>f. watched \subseteq Blocks /\ S \subseteq Blocks /\ bad \subseteq Blocks
  BY <1>a, <1>e DEF TypeOK
<1>g. \A b \in S : calls[b] = 1 /\ b < next
  BY <1>a, <1>e, <1>f DEF IInv, WindowIsConsistent, PoolIsConsistent
<1>h. N \in Nat \ {0} /\ next \in 1..(N + 1)
  BY <1>a, BlockBounds DEF TypeOK
<1>1. ASSUME NEW b \in Blocks, results' = found
      PROVE  PoolIsConsistent(b)'
  <2>1. PoolIsConsistent(b) /\ b \in Nat
    BY <1>a, Types DEF IInv
  <2>2. b \in S => b < next /\ future[b] = "finished" /\ calls[b] = 1
    BY <1>e, <1>g
  <2>3. b \in watched' => b \in watched
    BY <1>c
  <2>4. b \notin watched' => b \notin watched \/ b \in S
    BY <1>c
  <2>5. b \notin S => results'[b] = results[b]
    BY <1>1, <1>d
  <2>6. b \in S => ~(b \geq next)
    BY <2>1, <2>2, <1>h
  <2> QED
    BY <2>1, <2>2, <2>3, <2>4, <2>5, <2>6, <1>c DEF PoolIsConsistent, Settled
<1>2. CASE bad # {}
  <2>1. pc' = "cancel" /\ doomed' = watched' /\ results' = found /\ UNCHANGED <<retries, outcome>>
    BY <1>2, <1>c
  <2>2. TypeOK'
    BY <2>1, <1>a, <1>c, <1>d, <1>f DEF TypeOK, Steps, inputs
  <2>3. FailureIsConsistent'
    <3>1. ASSUME NEW b \in Blocks
          PROVE  /\ b < next' /\ b \notin watched' => calls'[b] = 1
                 /\ b < next' /\ b \notin watched' /\ answer'[b][1] = "error" => b \in failures'
                 /\ b \in watched' /\ future'[b] = "finished" => calls'[b] = 1
      BY <1>a, <1>c, <1>e, <1>g DEF WindowIsConsistent, Done, inputs
    <3>2. failures' # {} /\ pc' # "drain" /\ \A b \in failures' : answer'[b][1] = "error"
      BY <2>1, <1>2, <1>c, <1>e DEF inputs
    <3> QED
      BY <3>1, <3>2 DEF FailureIsConsistent
  <2> QED
    BY <2>1, <2>2, <2>3, <1>1, <1>a DEF IInv
<1>3. CASE bad = {}
  <2>1. CASE watched' = {} /\ next > N
    <3>1. next = N + 1 /\ \A b \in Blocks : b < next
      BY <2>1, <1>h DEF Blocks
    <3>2. \A b \in Blocks : b \in S \/ (b \notin watched /\ Done(b) /\ future[b] = "finished")
      BY <2>1, <3>1, <1>a, <1>c DEF WindowIsConsistent
    <3>3. \A b \in Blocks : /\ answer[b][1] # "error" /\ found[b] = b /\ calls'[b] = 1
                            /\ future[b] \in {"none", "finished"}
      BY <3>2, <1>3, <1>c, <1>d, <1>e, <1>g DEF Done
    <3>4. Barrier(found) /\ doomed' = doomed /\ failures' = failures
      BY <2>1, <1>3, <1>b, <1>c
    <3>5. calls' \in [Blocks -> 0..2] /\ next' = N + 1
      BY <3>1, <1>a, <1>c DEF TypeOK
    <3> QED
      BY <2>1, <3>3, <3>4, <3>5, <1>a, <1>b, <1>c, <1>d, BarrierStep
  <2>2. CASE ~(watched' = {} /\ next > N)
    <3>1. /\ pc' = IF next > N THEN "wait" ELSE "submit"
          /\ results' = found /\ doomed' = {} /\ UNCHANGED <<retries, outcome>>
      BY <2>2, <1>3, <1>c
    <3>2. TypeOK'
      BY <3>1, <1>a, <1>c, <1>d, <1>f DEF TypeOK, Steps, inputs
    <3>3. ASSUME NEW b \in Blocks
          PROVE  /\ future'[b] # "cancelled"
                 /\ b < next' /\ b \notin watched' => Done(b)' /\ future'[b] = "finished"
                 /\ b \in watched' /\ future'[b] = "finished" => calls'[b] = 1
      <4>1. CASE b \in S
        <5>1. Done(b)'
          BY <4>1, <3>1, <1>3, <1>c, <1>d, <1>e, <1>g DEF Done, inputs
        <5> QED
          BY <5>1, <4>1, <1>c, <1>e, <1>g
      <4>2. CASE b \notin S
        <5>1. (Done(b)' <=> Done(b)) /\ (b \in watched' <=> b \in watched)
          BY <4>2, <3>1, <1>c, <1>d DEF Done, inputs
        <5> QED
          BY <5>1, <1>a, <1>c DEF WindowIsConsistent
      <4> QED
        BY <4>1, <4>2
    <3>4. WindowIsConsistent'
      BY <3>1, <3>3, <1>3, <1>c, <1>h DEF WindowIsConsistent
    <3> QED
      BY <3>1, <3>2, <3>4, <1>1, <1>a DEF IInv
  <2> QED
    BY <2>1, <2>2
<1> QED
  BY <1>2, <1>3

\* Cancelling after a failure keeps the invariant.
LEMMA CancelStep ==
    ASSUME IInv, Cancel
    PROVE  IInv'
PROOF
<1>a. TypeOK /\ FailureIsConsistent /\ pc = "cancel" /\ outcome = Running
  BY DEF IInv, Cancel
<1>b. UNCHANGED <<inputs, next, watched, failures, results, retries, calls, outcome>>
  BY DEF Cancel
<1>1. CASE doomed = {}
  <2>1. pc' = "drain" /\ UNCHANGED <<doomed, future>>
    BY <1>1 DEF Cancel
  <2>2. TypeOK'
    BY <2>1, <1>a, <1>b DEF TypeOK, Steps, inputs
  <2>3. \A b \in Blocks : PoolIsConsistent(b)'
    BY <2>1, <1>b DEF IInv, PoolIsConsistent
  <2>4. FailureIsConsistent'
    BY <2>1, <1>1, <1>a, <1>b DEF FailureIsConsistent, inputs
  <2> QED
    BY <2>1, <2>2, <2>3, <2>4, <1>a, <1>b DEF IInv
<1>2. CASE doomed # {}
  <2>1. PICK b \in Blocks :
            /\ IsFirst(b, doomed)
            /\ doomed' = doomed \ {b}
            /\ future' = IF future[b] \in {"queued", "taken"}
                         THEN [future EXCEPT ![b] = "cancelled"] ELSE future
            /\ UNCHANGED pc
    BY <1>2 DEF Cancel
  <2>2. b \in watched
    BY <2>1, <1>a DEF IsFirst, TypeOK
  <2>3. \A c \in Blocks : \/ future'[c] = future[c]
                          \/ c = b /\ future[c] \in {"queued", "taken"} /\ future'[c] = "cancelled"
    BY <2>1, <1>a DEF TypeOK
  <2>4. TypeOK'
    <3>1. future' \in [Blocks -> Futures]
      BY <2>1, <1>a DEF TypeOK, Futures
    <3> QED
      BY <3>1, <2>1, <1>a, <1>b DEF TypeOK, inputs
  <2>5. \A c \in Blocks : PoolIsConsistent(c)'
    BY <2>2, <2>3, <1>b DEF IInv, PoolIsConsistent, Settled
  <2>6. FailureIsConsistent'
    BY <2>1, <2>3, <1>a, <1>b DEF FailureIsConsistent, inputs
  <2> QED
    BY <2>1, <2>4, <2>5, <2>6, <1>a, <1>b DEF IInv
<1> QED
  BY <1>1, <1>2

\* Draining the running futures keeps the invariant.
LEMMA DrainStep ==
    ASSUME IInv, Drain
    PROVE  IInv'
PROOF
<1>a. TypeOK /\ FailureIsConsistent /\ pc = "drain" /\ outcome = Running /\ doomed = {}
  BY DEF IInv, Drain, FailureIsConsistent
<1> DEFINE S == Finished
           bad == Failed(S)
           found == Place(results, S \ bad)
<1>b. /\ UNCHANGED <<inputs, next, future, doomed, retries, calls>>
      /\ failures' = failures \union bad /\ results' = found /\ watched' = {}
      /\ \A b \in watched : future[b] \in {"finished", "cancelled"}
      /\ pc' = "end"
  BY DEF Drain, RaiseLowest
<1>c. PICK low \in Blocks : IsLowest(low, failures') /\ outcome' = Raised(low)
  BY DEF Drain, RaiseLowest
<1>d. /\ found \in [Blocks -> 0..N]
      /\ \A b \in Blocks : b \notin S => found[b] = results[b]
  BY <1>a DEF Place, TypeOK, Blocks
<1>e. /\ S = {b \in watched : future[b] = "finished"}
      /\ bad = {b \in S : answer[b][1] = "error"}
  BY DEF Finished, Failed
<1> HIDE DEF S, bad, found
<1>f. watched \subseteq Blocks
  BY <1>a DEF TypeOK
<1>1. TypeOK'
  BY <1>a, <1>b, <1>c, <1>d, <1>e, <1>f DEF TypeOK, Steps, Outcome, inputs
<1>2. ASSUME NEW b \in Blocks
      PROVE  PoolIsConsistent(b)'
  <2>1. PoolIsConsistent(b) /\ b \in Nat /\ next \in Nat
    BY <1>a, Types DEF IInv
  <2>2. b \geq next => b \notin S
    BY <2>1, <1>e DEF PoolIsConsistent
  <2> QED
    BY <2>1, <2>2, <1>b, <1>d DEF PoolIsConsistent, Settled
<1>3. \A b \in failures' : answer[b][1] = "error"
  BY <1>a, <1>b, <1>e DEF FailureIsConsistent
<1>4. ASSUME NEW b \in Blocks
      PROVE  calls[b] \in {0, 1} /\ (calls[b] = 1 /\ answer[b][1] = "error" => b \in failures')
  <2>1. PoolIsConsistent(b) /\ b \in Nat /\ next \in Nat
    BY <1>a, Types DEF IInv
  <2>2. CASE b \geq next
    BY <2>1, <2>2 DEF PoolIsConsistent
  <2>3. CASE b < next /\ b \notin watched
    BY <2>3, <1>a, <1>b DEF FailureIsConsistent
  <2>4. CASE b \in watched
    BY <2>1, <2>4, <1>a, <1>b, <1>e DEF FailureIsConsistent, PoolIsConsistent
  <2> QED
    BY <2>1, <2>2, <2>3, <2>4
<1>5. outcome'.kind = "raised" /\ outcome'.block = low /\ low \in failures' /\ answer[low][1] = "error"
  BY <1>c, <1>3 DEF Raised, IsLowest
<1>6. ConcurrencyIsInvisible'
  BY <1>5, <1>b DEF ConcurrencyIsInvisible, SerialSucceeds, inputs
<1>7. LowestErrorIsRaised'
  <2>1. \A c \in Blocks : calls[c] > 0 /\ answer[c][1] = "error" => ordinal'[low] \leq ordinal[c]
    BY <1>b, <1>c, <1>4 DEF IsLowest, inputs
  <2> QED
    BY <2>1, <1>5, <1>b DEF LowestErrorIsRaised, inputs
<1>8. RetriesAreIsolated'
  BY <1>4, <1>b DEF RetriesAreIsolated
<1> QED
  BY <1>1, <1>2, <1>6, <1>7, <1>8, <1>b DEF IInv, EndIsConsistent

\* The retry with half the workers keeps the invariant.
LEMMA RetryStep ==
    ASSUME IInv, Retry
    PROVE  IInv'
PROOF
<1>a. TypeOK /\ RetriesAreConsistent /\ pc = "retry" /\ outcome = Running
  BY DEF IInv, Retry
<1>b. /\ UNCHANGED <<inputs, next, future, watched, doomed, failures, results, retries, outcome>>
      /\ pc' = "retrying"
  BY DEF Retry
<1>c. PICK b \in Blocks : IsLowest(b, retries) /\ calls' = [calls EXCEPT ![b] = @ + 1]
  BY DEF Retry
<1>d. b \in retries /\ calls[b] = 1
  BY <1>a, <1>c DEF IsLowest, RetriesAreConsistent
<1>e. calls'[b] = 2 /\ \A c \in Blocks : c # b => calls'[c] = calls[c]
  BY <1>a, <1>c, <1>d DEF TypeOK
<1>f. \A c \in retries : IsLowest(c, retries)' => c = b
  <2>1. ASSUME NEW c \in retries, IsLowest(c, retries)'
        PROVE  c = b
    <3>1. c \in Blocks
      BY <1>a DEF TypeOK
    <3>2. ordinal[c] \leq ordinal[b] /\ ordinal[b] \leq ordinal[c]
      BY <2>1, <1>b, <1>c, <1>d DEF IsLowest, inputs
    <3>3. ordinal[c] \in Nat /\ ordinal[b] \in Nat
      BY <3>1, <1>a, Types
    <3>4. ordinal[c] = ordinal[b]
      BY <3>2, <3>3
    <3> QED
      BY <3>1, <3>4, <1>a, Ordinals_Differ
  <2> QED
    BY <2>1
<1>1. TypeOK'
  <2>1. calls' \in [Blocks -> 0..2]
    BY <1>a, <1>c, <1>d DEF TypeOK
  <2> QED
    BY <2>1, <1>a, <1>b DEF TypeOK, Steps, inputs
<1>2. ASSUME NEW c \in Blocks
      PROVE  PoolIsConsistent(c)'
  <2>1. PoolIsConsistent(c) /\ c \in Nat /\ N \in Nat /\ c \in 1..N
    BY <1>a, Types DEF IInv
  <2>2. ~(c \geq next) /\ c \notin watched
    BY <2>1, <1>a DEF RetriesAreConsistent
  <2> QED
    BY <2>1, <2>2, <1>b, <1>d, <1>e DEF PoolIsConsistent, Settled
<1>3. RetriesAreConsistent'
  <2>1. IsLowest(b, retries)'
    BY <1>b, <1>c DEF IsLowest, inputs
  <2>2. \A c \in retries' :
            calls'[c] = IF pc' = "retrying" /\ IsLowest(c, retries)' THEN 2 ELSE 1
    BY <2>1, <1>a, <1>b, <1>e, <1>f DEF RetriesAreConsistent, TypeOK
  <2>3. \A c \in Blocks \ retries' :
           /\ results'[c] = c
           /\ IF answer'[c][1] = "invalid" THEN calls'[c] = 2 /\ answer'[c][2] = "valid" ELSE calls'[c] = 1
    BY <1>a, <1>b, <1>d, <1>e DEF RetriesAreConsistent, inputs
  <2> QED
    BY <2>2, <2>3, <1>a, <1>b DEF RetriesAreConsistent, inputs
<1> QED
  BY <1>1, <1>2, <1>3, <1>a, <1>b DEF IInv

\* The end of the retry keeps the invariant.
LEMMA RetriedStep ==
    ASSUME IInv, Retried
    PROVE  IInv'
PROOF
<1>a. TypeOK /\ RetriesAreConsistent /\ pc = "retrying" /\ outcome = Running
  BY DEF IInv, Retried
<1>b. UNCHANGED <<inputs, next, future, watched, doomed, failures, calls>>
  BY DEF Retried
<1>c. PICK b \in Blocks :
         /\ IsLowest(b, retries)
         /\ IF answer[b][2] = "valid"
            THEN /\ results' = Place(results, {b})
                 /\ retries' = retries \ {b}
                 /\ pc' = IF retries' = {} THEN "end" ELSE "retry"
                 /\ outcome' = IF retries' = {} THEN Ok ELSE outcome
            ELSE /\ pc' = "end"
                 /\ outcome' = Raised(b)
                 /\ UNCHANGED <<results, retries>>
  BY DEF Retried
<1>d. b \in retries /\ calls[b] = 2 /\ answer[b][1] = "invalid"
  BY <1>a, <1>c DEF IsLowest, RetriesAreConsistent
<1>e. \A c \in retries : c \in Blocks /\ ordinal[b] \leq ordinal[c] /\ ordinal[c] \in Nat /\ ordinal[b] \in Nat
  BY <1>a, <1>c, Types DEF IsLowest, TypeOK
<1>f. \A c \in retries : c # b => calls[c] = 1
  <2>1. ASSUME NEW c \in retries, IsLowest(c, retries)
        PROVE  c = b
    <3>1. ordinal[c] = ordinal[b]
      BY <2>1, <1>d, <1>e DEF IsLowest
    <3> QED
      BY <3>1, <1>a, <1>e, Ordinals_Differ
  <2> QED
    BY <2>1, <1>a DEF RetriesAreConsistent
<1>g. \A c \in Blocks : future[c] \in Settled
  BY <1>a DEF IInv, RetriesAreConsistent, PoolIsConsistent
<1>h. ASSUME NEW c \in Blocks
      PROVE  ~(c \geq next) /\ c \notin watched /\ PoolIsConsistent(c)
  BY <1>a, Types DEF IInv, RetriesAreConsistent
<1>i. \A c \in Blocks : PoolIsConsistent(c)'
  BY <1>b, <1>h DEF PoolIsConsistent
<1>j. \A c \in Blocks : answer[c][1] # "error" /\ calls[c] \in {1, 2}
  BY <1>a, <1>d, <1>f DEF RetriesAreConsistent
<1>k. \A c \in Blocks \ retries : /\ results[c] = c
                                  /\ IF answer[c][1] = "invalid" THEN calls[c] = 2 /\ answer[c][2] = "valid"
                                     ELSE calls[c] = 1
  BY <1>a DEF RetriesAreConsistent
<1>1. CASE answer[b][2] = "valid"
  <2>1. /\ results' \in [Blocks -> 0..N] /\ results'[b] = b
        /\ \A c \in Blocks : c # b => results'[c] = results[c]
    BY <1>1, <1>a, <1>c DEF Place, TypeOK, Blocks
  <2>2. /\ retries' = retries \ {b}
        /\ pc' = IF retries' = {} THEN "end" ELSE "retry"
        /\ outcome' = IF retries' = {} THEN Ok ELSE Running
    BY <1>1, <1>a, <1>c
  <2>3. TypeOK'
    BY <2>1, <2>2, <1>a, <1>b DEF TypeOK, Steps, Outcome, inputs
  <2>4. \A c \in Blocks \ retries' :
           /\ results'[c] = c
           /\ IF answer[c][1] = "invalid" THEN calls[c] = 2 /\ answer[c][2] = "valid" ELSE calls[c] = 1
    BY <2>1, <2>2, <1>1, <1>d, <1>k
  <2>5. CASE retries' = {}
    <3>1. pc' = "end" /\ outcome'.kind = "ok"
      BY <2>2, <2>5 DEF Ok
    <3>2. \A c \in Blocks : answer[c][2] = "valid"
      BY <2>4, <2>5, <1>a, Types
    <3>3. ConcurrencyIsInvisible'
      BY <2>4, <2>5, <3>1, <3>2, <1>b, <1>j DEF ConcurrencyIsInvisible, SerialSucceeds, inputs
    <3>4. LowestErrorIsRaised'
      BY <3>1 DEF LowestErrorIsRaised
    <3>5. RetriesAreIsolated'
      <4>1. InFlight' = {}
        BY <1>b, <1>g DEF InFlight, Settled
      <4> QED
        BY <4>1, <2>4, <2>5, <3>2, <1>b, <1>j DEF RetriesAreIsolated, inputs
    <3> QED
      BY <2>3, <3>1, <3>3, <3>4, <3>5, <1>a, <1>b, <1>i DEF IInv, EndIsConsistent, RetriesAreConsistent
  <2>6. CASE retries' # {}
    <3>1. pc' = "retry" /\ outcome' = Running
      BY <2>2, <2>6
    <3>2. \A c \in retries', d \in Blocks \ retries' : answer[d][1] = "invalid" => ordinal[d] \leq ordinal[c]
      BY <2>2, <1>a, <1>e DEF RetriesAreConsistent
    <3>3. \A c \in retries' : answer[c][1] = "invalid" /\ calls[c] = 1
      BY <2>2, <1>a, <1>f DEF RetriesAreConsistent
    <3>4. RetriesAreConsistent'
      BY <2>4, <2>6, <3>1, <3>2, <3>3, <1>a, <1>b, <1>j DEF RetriesAreConsistent, inputs
    <3> QED
      BY <2>3, <3>1, <3>4, <1>i DEF IInv
  <2> QED
    BY <2>5, <2>6
<1>2. CASE answer[b][2] # "valid"
  <2>1. pc' = "end" /\ outcome' = Raised(b) /\ UNCHANGED <<results, retries>>
    BY <1>2, <1>c
  <2>2. outcome'.kind = "raised" /\ outcome'.block = b
    BY <2>1 DEF Raised
  <2>3. TypeOK'
    BY <2>1, <1>a, <1>b DEF TypeOK, Steps, Outcome, inputs
  <2>4. ConcurrencyIsInvisible'
    BY <2>2, <1>2, <1>b DEF ConcurrencyIsInvisible, SerialSucceeds, inputs
  <2>5. LowestErrorIsRaised'
    <3>1. \A c \in Blocks : calls[c] = 2 /\ answer[c][2] # "valid" => ordinal[b] \leq ordinal[c]
      BY <1>e, <1>k
    <3> QED
      BY <3>1, <2>2, <1>b, <1>d DEF LowestErrorIsRaised, inputs
  <2>6. RetriesAreIsolated'
    <3>1. ASSUME NEW x \in Blocks, calls[x] = 2, NEW c \in Blocks,
                 answer[c][1] = "invalid", ordinal[c] < ordinal[x]
          PROVE  c \notin retries
      <4>1. ordinal[x] \in Nat /\ ordinal[c] \in Nat
        BY <1>a, Types
      <4>2. CASE x \in retries
        BY <3>1, <4>1, <4>2, <1>e, <1>f
      <4>3. CASE x \notin retries
        <5>1. answer[x][1] = "invalid"
          BY <3>1, <4>3, <1>k
        <5> QED
          BY <3>1, <4>1, <4>3, <5>1, <1>a DEF RetriesAreConsistent
      <4> QED
        BY <4>2, <4>3
    <3>2. InFlight' = {}
      BY <1>b, <1>g DEF InFlight, Settled
    <3>3. \A c \in Blocks : calls[c] > 0
      BY <1>j
    <3> QED
      BY <3>1, <3>2, <3>3, <1>b, <1>k DEF RetriesAreIsolated, inputs
  <2> QED
    BY <2>1, <2>3, <2>4, <2>5, <2>6, <1>a, <1>b, <1>i DEF IInv, EndIsConsistent, RetriesAreConsistent
<1> QED
  BY <1>1, <1>2

\* A thread of the pool only moves a watched future on.
LEMMA WorkerStep ==
    ASSUME IInv, NEW b \in Blocks, Take(b) \/ Run(b) \/ Answer(b)
    PROVE  IInv'
PROOF
<1>a. TypeOK /\ PoolIsConsistent(b)
  BY DEF IInv
<1>b. UNCHANGED <<inputs, pc, next, watched, doomed, failures, results, retries, outcome>>
  BY DEF Take, Run, Answer
<1>c. /\ future[b] \in {"queued", "taken", "running"}
      /\ future'[b] \in {"taken", "running", "finished"}
      /\ calls'[b] = IF future'[b] = "taken" THEN 0 ELSE 1
      /\ \A c \in Blocks : c # b => future'[c] = future[c] /\ calls'[c] = calls[c]
  <2>1. CASE Take(b)
    BY <2>1, <1>a DEF Take, TypeOK, PoolIsConsistent
  <2>2. CASE Run(b)
    BY <2>2, <1>a DEF Run, TypeOK, PoolIsConsistent
  <2>3. CASE Answer(b)
    BY <2>3, <1>a DEF Answer, TypeOK, PoolIsConsistent
  <2> QED
    BY <2>1, <2>2, <2>3
<1>d. b \in watched /\ b < next /\ ~(b \geq next)
  <2>1. b \in watched
    BY <1>a, <1>c DEF PoolIsConsistent, Settled
  <2>2. b \in Nat /\ next \in Nat
    BY <1>a, Types
  <2> QED
    BY <2>1, <2>2, <1>a DEF PoolIsConsistent
<1>e. pc \in {"submit", "wait", "cancel", "drain"}
  BY <1>a, <1>d DEF IInv, SerialIsConsistent, RetriesAreConsistent, EndIsConsistent, TypeOK, Steps
<1>1. TypeOK'
  <2>1. future' \in [Blocks -> Futures] /\ calls' \in [Blocks -> 0..2]
    <3>1. CASE Take(b)
      BY <3>1, <1>a DEF Take, TypeOK, Futures
    <3>2. CASE Run(b)
      BY <3>2, <1>a DEF Run, TypeOK, Futures, PoolIsConsistent
    <3>3. CASE Answer(b)
      BY <3>3, <1>a DEF Answer, TypeOK, Futures
    <3> QED
      BY <3>1, <3>2, <3>3
  <2> QED
    BY <2>1, <1>a, <1>b DEF TypeOK, inputs
<1>2. ASSUME NEW c \in Blocks
      PROVE  PoolIsConsistent(c)'
  <2>1. CASE c = b
    BY <2>1, <1>b, <1>c, <1>d DEF PoolIsConsistent
  <2>2. CASE c # b
    BY <2>2, <1>b, <1>c DEF IInv, PoolIsConsistent
  <2> QED
    BY <2>1, <2>2
<1>3. ASSUME pc \in {"submit", "wait"}
      PROVE  WindowIsConsistent'
  <2>1. WindowIsConsistent
    BY <1>3 DEF IInv
  <2>2. ASSUME NEW c \in Blocks
        PROVE  /\ future'[c] # "cancelled"
               /\ c < next' /\ c \notin watched' => Done(c)' /\ future'[c] = "finished"
               /\ c \in watched' /\ future'[c] = "finished" => calls'[c] = 1
    <3>1. CASE c = b
      BY <3>1, <1>b, <1>c, <1>d
    <3>2. CASE c # b
      BY <3>2, <2>1, <1>b, <1>c DEF WindowIsConsistent, Done, inputs
    <3> QED
      BY <3>1, <3>2
  <2> QED
    BY <2>1, <2>2, <1>b DEF WindowIsConsistent
<1>4. ASSUME pc \in {"cancel", "drain"}
      PROVE  FailureIsConsistent'
  <2>1. FailureIsConsistent
    BY <1>4 DEF IInv
  <2>2. ASSUME NEW c \in Blocks
        PROVE  /\ c < next' /\ c \notin watched' => calls'[c] = 1
               /\ c < next' /\ c \notin watched' /\ answer'[c][1] = "error" => c \in failures'
               /\ c \in watched' /\ future'[c] = "finished" => calls'[c] = 1
    <3>1. CASE c = b
      BY <3>1, <1>b, <1>c, <1>d
    <3>2. CASE c # b
      BY <3>2, <2>1, <1>b, <1>c DEF FailureIsConsistent, inputs
    <3> QED
      BY <3>1, <3>2
  <2> QED
    BY <2>1, <2>2, <1>b DEF FailureIsConsistent, inputs
<1> QED
  BY <1>1, <1>2, <1>3, <1>4, <1>b, <1>e DEF IInv

-----------------------------------------------------------------------------
\* The invariant holds before the first step.
LEMMA InitIsConsistent == Init => IInv
PROOF
<1> SUFFICES ASSUME Init PROVE IInv
  OBVIOUS
<1>1. TypeOK
  BY BlockBounds DEF Init, TypeOK, Steps, Futures, Outcome
<1>2. \A b \in Blocks : b \in Nat /\ b \geq 1 /\ ~(b < 1)
  BY BlockBounds DEF Blocks
<1>3. \A b \in Blocks : PoolIsConsistent(b)
  BY <1>2 DEF Init, PoolIsConsistent, Settled
<1>4. SerialIsConsistent
  BY <1>2, BlockBounds DEF Init, SerialIsConsistent
<1> QED
  BY <1>1, <1>3, <1>4 DEF Init, IInv

\* Every step keeps the invariant.
LEMMA Inductive == IInv /\ [Next]_vars => IInv'
PROOF
<1> SUFFICES ASSUME IInv, [Next]_vars PROVE IInv'
  OBVIOUS
<1>1. CASE Caller
  BY <1>1, BeginStep, SerialStep, SubmitStep, WaitStep, CancelStep, DrainStep, RetryStep, RetriedStep
     DEF Caller
<1>2. CASE Pool
  BY <1>2, WorkerStep DEF Pool
<1>3. CASE UNCHANGED vars
  <2>1. TypeOK'
    BY <1>3 DEF IInv, TypeOK, vars, inputs
  <2>2. \A b \in Blocks : PoolIsConsistent(b)'
    BY <1>3 DEF IInv, PoolIsConsistent, vars, inputs
  <2>3. /\ SerialIsConsistent' <=> SerialIsConsistent
        /\ WindowIsConsistent' <=> WindowIsConsistent
        /\ FailureIsConsistent' <=> FailureIsConsistent
    BY <1>3 DEF SerialIsConsistent, WindowIsConsistent, FailureIsConsistent, Done, vars, inputs
  <2>4. RetriesAreConsistent' <=> RetriesAreConsistent
    BY <1>3 DEF RetriesAreConsistent, IsLowest, vars, inputs
  <2>5. EndIsConsistent' <=> EndIsConsistent
    BY <1>3 DEF EndIsConsistent, ConcurrencyIsInvisible, SerialSucceeds, LowestErrorIsRaised,
       RetriesAreIsolated, InFlight, vars, inputs
  <2> QED
    BY <1>3, <2>1, <2>2, <2>3, <2>4, <2>5 DEF IInv, vars
<1> QED
  BY <1>1, <1>2, <1>3 DEF Next, Ended

\* The invariant holds in every state.
LEMMA Invariance == Spec => []IInv
BY InitIsConsistent, Inductive, PTL DEF Spec

\* Every variable stays in its set: no block is called more than twice, the
\* index never leaves the preparation, only watched futures are cancelled.
THEOREM TypeCorrectness == Spec => []TypeOK
PROOF
<1>1. IInv => TypeOK
  BY DEF IInv
<1> QED
  BY <1>1, Invariance, PTL

\* Concurrency changes nothing but the time: the executor succeeds exactly when
\* a serial run would, with the same results and the same number of calls.
THEOREM SameAsSerial == Spec => []ConcurrencyIsInvisible
PROOF
<1>1. IInv => ConcurrencyIsInvisible
  BY DEF IInv, EndIsConsistent, ConcurrencyIsInvisible, Running
<1> QED
  BY <1>1, Invariance, PTL

\* The error that the executor raises does not depend on which call failed first:
\* of the calls that were made it is the one with the lowest ordinal.
THEOREM TheLowestErrorWins == Spec => []LowestErrorIsRaised
PROOF
<1>1. IInv => LowestErrorIsRaised
  BY DEF IInv, EndIsConsistent, LowestErrorIsRaised, Running
<1> QED
  BY <1>1, Invariance, PTL

\* When the executor returns or raises, nothing of it is under way or queued.
THEOREM NothingOutlivesTheResolution == Spec => []NothingIsLeftBehind
PROOF
<1>1. IInv => NothingIsLeftBehind
  BY DEF IInv, EndIsConsistent, NothingIsLeftBehind, PoolIsConsistent, Settled
<1> QED
  BY <1>1, Invariance, PTL

\* No block is called a second time before all first calls have settled, and
\* the second calls ascend.
THEOREM RetriesComeLast == Spec => []RetriesAreIsolated
PROOF
<1>1. IInv => RetriesAreIsolated
  <2> SUFFICES ASSUME IInv PROVE RetriesAreIsolated
    OBVIOUS
  <2>a. TypeOK /\ \A b \in Blocks : PoolIsConsistent(b)
    BY DEF IInv
  <2>1. CASE pc = "end"
    BY <2>1 DEF IInv, EndIsConsistent
  <2>2. CASE pc \in {"begin", "serial", "submit", "wait", "cancel", "drain"}
    <3>1. ASSUME NEW b \in Blocks
          PROVE  calls[b] # 2
      <4>1. b \in Nat /\ next \in Nat /\ PoolIsConsistent(b) /\ future[b] \in Futures
        BY <2>a, Types DEF TypeOK
      <4>2. CASE b \geq next
        BY <4>1, <4>2 DEF PoolIsConsistent
      <4>3. CASE b < next
        BY <4>1, <4>3, <2>2 DEF IInv, SerialIsConsistent, WindowIsConsistent, FailureIsConsistent,
           PoolIsConsistent, Done, Futures
      <4> QED
        BY <4>1, <4>2, <4>3
    <3> QED
      BY <3>1 DEF RetriesAreIsolated
  <2>3. CASE pc \in {"retry", "retrying"}
    <3>1. RetriesAreConsistent
      BY <2>3 DEF IInv
    <3>2. InFlight = {} /\ \A c \in Blocks : calls[c] > 0
      BY <3>1, <2>a DEF RetriesAreConsistent, InFlight, PoolIsConsistent, Settled
    <3>3. ASSUME NEW b \in Blocks, calls[b] = 2, NEW c \in Blocks,
                 answer[c][1] = "invalid", ordinal[c] < ordinal[b]
          PROVE  c \notin retries
      <4>1. ordinal[b] \in Nat /\ ordinal[c] \in Nat
        BY <2>a, Types
      <4>2. CASE b \in retries
        BY <3>1, <3>3, <4>1, <4>2 DEF RetriesAreConsistent, IsLowest
      <4>3. CASE b \notin retries
        BY <3>1, <3>3, <4>1, <4>3 DEF RetriesAreConsistent
      <4> QED
        BY <4>2, <4>3
    <3> QED
      BY <3>1, <3>2, <3>3 DEF RetriesAreIsolated, RetriesAreConsistent
  <2> QED
    BY <2>1, <2>2, <2>3, <2>a DEF TypeOK, Steps
<1> QED
  BY <1>1, Invariance, PTL

-----------------------------------------------------------------------------
(* Numbers, induction and folds.                                           *)

\* A set of numbers has a least one.
LEMMA LeastExists ==
    ASSUME NEW T, T \subseteq Nat, T # {}
    PROVE  \E x \in T : \A y \in T : x \leq y
PROOF
<1> DEFINE R == OpToRel(<, Nat)
<1>1. IsWellFoundedOn(R, Nat)
    BY NatLessThanWellFounded
<1>2. PICK x \in T : \A y \in T : ~(<<y, x>> \in R)
  <2> HIDE DEF R
  <2> QED
    BY <1>1, WFMin
<1>3. \A y \in T : y < x => <<y, x>> \in R
    BY DEF OpToRel
<1> HIDE DEF R
<1>4. \A y \in T : ~(y < x)
    BY <1>2, <1>3
<1> QED
    BY <1>4

\* What holds of 0, and of a number's successor if of the number, holds of all.
LEMMA SetInduction ==
    ASSUME NEW S, 0 \in S, \A n \in Nat : n \in S => n + 1 \in S
    PROVE  Nat \subseteq S
PROOF
<1> SUFFICES ASSUME Nat \ S # {} PROVE FALSE
    OBVIOUS
<1>1. PICK x \in Nat \ S : \A y \in Nat \ S : x \leq y
    BY LeastExists
<1>2. x - 1 \in Nat /\ x - 1 + 1 = x
    BY <1>1
<1> QED
    BY <1>1, <1>2

\* A bounded set of numbers has a greatest one, which is its Max.
LEMMA MaxProperties ==
    ASSUME NEW n \in Nat, NEW T, T \subseteq 1..n, T # {}
    PROVE  Max(T) \in T /\ \A y \in T : y \leq Max(T)
PROOF
<1> DEFINE U == {k \in Nat : k \leq n /\ n - k \in T}
<1>1. PICK k \in U : \A m \in U : k \leq m
  <2>1. PICK t \in T : t \in 1..n
    OBVIOUS
  <2>2. n - t \in U
    BY <2>1
  <2>3. U \subseteq Nat
    OBVIOUS
  <2> HIDE DEF U
  <2> QED
    BY <2>2, <2>3, LeastExists
<1>2. ASSUME NEW y \in T PROVE y \leq n - k
  <2>1. n - y \in Nat /\ n - y \leq n /\ n - (n - y) = y
    OBVIOUS
  <2>2. n - y \in U /\ y \in Nat /\ k \in Nat
    BY <1>1, <2>1
  <2>3. k \leq n - y
    BY <1>1, <2>2
  <2> HIDE DEF U
  <2> QED
    BY <2>2, <2>3
<1>3. \E x \in T : \A y \in T : x >= y
    BY <1>1, <1>2
<1> QED
    BY <1>3 DEF Max

\* The max of an interval.
LEMMA MaxOfInterval ==
    ASSUME NEW n \in Nat, NEW T, T \subseteq 1..(n + 1), n + 1 \in T
    PROVE  Max(T) = n + 1
PROOF
<1> DEFINE m == n + 1
<1>1. m \in Nat /\ T \subseteq 1..m /\ m \in T /\ T # {}
    OBVIOUS
<1> HIDE DEF m
<1>2. Max(T) \in T /\ m \leq Max(T)
    BY <1>1, MaxProperties
<1>3. Max(T) \in 1..m
    BY <1>1, <1>2
<1>4. \A x \in 1..m : m \leq x => x = m
    BY <1>1
<1> QED
    BY <1>2, <1>3, <1>4 DEF m

\* The functions that fold the sequence s with G, for each set of its indexes.
FoldsOf(V, G, base, s) ==
    {g \in [SUBSET (1..Len(s)) -> V] : \A t \in SUBSET (1..Len(s)) :
         g[t] = IF t = {} THEN base ELSE G[<<g[t \ {Max(t)}], s[Max(t)]>>]}

\* A fold over a sequence, as the community modules define it, exists.
LEMMA FoldExists ==
    ASSUME NEW V, NEW T, NEW G, NEW base, NEW s,
           G \in [V \X T -> V], base \in V, s \in Seq(T)
    PROVE  FoldsOf(V, G, base, s) # {}
PROOF
<1> DEFINE Folds(n) == {g \in [SUBSET (1..n) -> V] : \A t \in SUBSET (1..n) :
               g[t] = IF t = {} THEN base ELSE G[<<g[t \ {Max(t)}], s[Max(t)]>>]}
           E == {n \in Nat : n \leq Len(s) => Folds(n) # {}}
<1>0. Len(s) \in Nat /\ \A k \in 1..Len(s) : s[k] \in T
    OBVIOUS
<1>1. 0 \in E
  <2> DEFINE g == [t \in SUBSET (1..0) |-> base]
  <2>1. \A t \in SUBSET (1..0) : t = {}
    OBVIOUS
  <2>2. g \in Folds(0)
    BY <2>1
  <2> HIDE DEF Folds, g
  <2> QED
    BY <2>2
<1>2. ASSUME NEW n \in Nat, n \in E PROVE n + 1 \in E
  <2>1. CASE ~(n + 1 \leq Len(s))
    <3> HIDE DEF Folds
    <3> QED
      BY <2>1
  <2>2. CASE n + 1 \leq Len(s)
    <3>1. n \leq Len(s) /\ n + 1 \in 1..Len(s)
      BY <1>0, <2>2
    <3>2. PICK g : g \in Folds(n)
      <4> HIDE DEF Folds
      <4> QED
        BY <3>1, <1>2
    <3> DEFINE h == [t \in SUBSET (1..(n + 1)) |->
                        IF n + 1 \in t THEN G[<<g[t \ {n + 1}], s[n + 1]>>] ELSE g[t]]
    <3>3. \A t \in SUBSET (1..(n + 1)) : t \ {n + 1} \in SUBSET (1..n)
      OBVIOUS
    <3>4. \A t \in SUBSET (1..(n + 1)) : n + 1 \notin t => t \in SUBSET (1..n)
      OBVIOUS
    <3>5. s[n + 1] \in T
      BY <1>0, <3>1
    <3>6. h \in [SUBSET (1..(n + 1)) -> V]
      BY <3>2, <3>3, <3>4, <3>5
    <3>7. ASSUME NEW t \in SUBSET (1..(n + 1))
          PROVE  h[t] = IF t = {} THEN base ELSE G[<<h[t \ {Max(t)}], s[Max(t)]>>]
      <4>1. CASE n + 1 \in t
        <5>1. Max(t) = n + 1
          BY <4>1, MaxOfInterval
        <5>2. t \ {n + 1} \in SUBSET (1..(n + 1)) /\ n + 1 \notin t \ {n + 1}
          OBVIOUS
        <5>3. h[t \ {n + 1}] = g[t \ {n + 1}]
          BY <5>2
        <5>4. h[t] = G[<<g[t \ {n + 1}], s[n + 1]>>]
          BY <4>1
        <5> HIDE DEF h
        <5> QED
          BY <4>1, <5>1, <5>3, <5>4
      <4>2. CASE n + 1 \notin t
        <5>1. t \in SUBSET (1..n) /\ t \ {Max(t)} \in SUBSET (1..n)
          BY <3>4, <4>2
        <5>2. \A u \in SUBSET (1..n) : u \in SUBSET (1..(n + 1)) /\ n + 1 \notin u
          OBVIOUS
        <5>3. h[t] = g[t] /\ h[t \ {Max(t)}] = g[t \ {Max(t)}]
          BY <5>1, <5>2
        <5>4. g[t] = IF t = {} THEN base ELSE G[<<g[t \ {Max(t)}], s[Max(t)]>>]
          BY <3>2, <5>1
        <5> HIDE DEF h
        <5> QED
          BY <5>3, <5>4
      <4> QED
        BY <4>1, <4>2
    <3>8. h \in Folds(n + 1)
      <4> HIDE DEF h
      <4> QED
        BY <3>6, <3>7
    <3> HIDE DEF h, Folds
    <3> QED
      BY <3>8
  <2> QED
    BY <2>1, <2>2
<1>3. Nat \subseteq E
  <2> HIDE DEF E
  <2> QED
    BY <1>1, <1>2, SetInduction
<1>4. PICK g : g \in Folds(Len(s))
  <2> HIDE DEF Folds
  <2>1. Len(s) \in E
    BY <1>0, <1>3
  <2> QED
    BY <1>0, <2>1
<1> QED
    BY <1>4 DEF FoldsOf

\* What a fold over a sequence does last.
LEMMA LastOfInterval ==
    ASSUME NEW n \in Nat
    PROVE  /\ 1..(n + 1) # {}
           /\ Max(1..(n + 1)) = n + 1
           /\ (1..(n + 1)) \ {Max(1..(n + 1))} = 1..n
PROOF
<1>1. n + 1 \in 1..(n + 1) /\ 1..(n + 1) \subseteq 1..(n + 1)
    OBVIOUS
<1>2. Max(1..(n + 1)) = n + 1
    BY <1>1, MaxOfInterval
<1>3. (1..(n + 1)) \ {n + 1} = 1..n
    OBVIOUS
<1> QED
    BY <1>1, <1>2, <1>3

\* h goes through the fold of the sequence s with G, one element after the other.
FoldsAlong(V, G, base, s, h) ==
    /\ h \in [0..Len(s) -> V]
    /\ h[0] = base
    /\ \A n \in 1..Len(s) : h[n] = G[<<h[n - 1], s[n]>>]

\* What the function of the community modules that folds s with G satisfies.
FoldEquation(V, G, base, s, it) ==
    \A t \in SUBSET (1..Len(s)) :
        /\ t = {} => it[t] = base
        /\ t # {} /\ it[t \ {Max(t)}] \in V => it[t] = G[<<it[t \ {Max(t)}], s[Max(t)]>>]

CanFold(V, T, G, base, s) == G \in [V \X T -> V] /\ base \in V /\ s \in Seq(T)
Reaches(V, G, base, s, v) == \E h : FoldsAlong(V, G, base, s, h) /\ h[Len(s)] = v

\* A fold of the community modules goes along the sequence.
LEMMA FoldSteps ==
    ASSUME NEW V, NEW T, NEW G, NEW base, NEW s, NEW it,
           CanFold(V, T, G, base, s), FoldEquation(V, G, base, s, it)
    PROVE  Reaches(V, G, base, s, it[1..Len(s)])
PROOF
<1>a. G \in [V \X T -> V] /\ base \in V /\ s \in Seq(T)
    BY DEF CanFold
<1> DEFINE E == {n \in Nat : n \leq Len(s) => it[1..n] \in V}
           h == [n \in 0..Len(s) |-> it[1..n]]
<1>0. Len(s) \in Nat /\ \A k \in 1..Len(s) : s[k] \in T
    BY <1>a
<1>1. it[1..0] = base
  <2>1. 1..0 = {} /\ 1..0 \in SUBSET (1..Len(s))
    OBVIOUS
  <2> QED
    BY <2>1 DEF FoldEquation
<1>2. 0 \in E
    BY <1>a, <1>1
<1>3. ASSUME NEW n \in Nat, n + 1 \leq Len(s), it[1..n] \in V
      PROVE  it[1..(n + 1)] = G[<<it[1..n], s[n + 1]>>] /\ it[1..(n + 1)] \in V
  <2>1. 1..(n + 1) \in SUBSET (1..Len(s)) /\ n + 1 \in 1..Len(s)
    BY <1>0, <1>3
  <2>2. it[1..(n + 1)] = G[<<it[1..n], s[n + 1]>>]
    BY <1>3, <2>1, LastOfInterval DEF FoldEquation
  <2> QED
    BY <1>a, <1>0, <1>3, <2>1, <2>2
<1>4. ASSUME NEW n \in Nat, n \in E PROVE n + 1 \in E
  <2>1. SUFFICES ASSUME n + 1 \leq Len(s) PROVE it[1..(n + 1)] \in V
    OBVIOUS
  <2>2. n \leq Len(s)
    BY <1>0, <2>1
  <2>3. it[1..n] \in V
    BY <1>4, <2>2
  <2> QED
    BY <1>3, <2>1, <2>3
<1>5. Nat \subseteq E
  <2> HIDE DEF E
  <2> QED
    BY <1>2, <1>4, SetInduction
<1>6. \A n \in 0..Len(s) : it[1..n] \in V
    BY <1>0, <1>5
<1>7. h \in [0..Len(s) -> V] /\ h[0] = base /\ h[Len(s)] = it[1..Len(s)]
    BY <1>0, <1>1, <1>6
<1>8. ASSUME NEW n \in 1..Len(s) PROVE h[n] = G[<<h[n - 1], s[n]>>]
  <2>1. n - 1 \in Nat /\ (n - 1) + 1 = n /\ n - 1 \in 0..Len(s) /\ n \in 0..Len(s) /\ n <= Len(s)
    BY <1>0
  <2>2. it[1..(n - 1)] \in V
    BY <1>6, <2>1
  <2>3. it[1..n] = G[<<it[1..(n - 1)], s[n]>>]
    BY <1>3, <2>1, <2>2
  <2> QED
    BY <2>1, <2>3
<1> HIDE DEF h
<1> QED
    BY <1>7, <1>8 DEF FoldsAlong, Reaches

\* A number above 0 is the successor of one.
LEMMA OneBefore == ASSUME NEW m \in Nat, NEW n \in 1..m
    PROVE n - 1 \in 0..m /\ n \in 0..m /\ n - 1 \in Nat /\ (n - 1) + 1 = n
    OBVIOUS

-----------------------------------------------------------------------------
(* Ranks: the position of an element of a finite set in a total order.     *)

\* How many elements of S come before x.
RankIn(S, R) == [x \in S |-> Cardinality({y \in S : <<y, x>> \in R})]

\* In a finite total order every element has a rank of its own, and every rank
\* its element.
LEMMA RankIsABijection ==
    ASSUME NEW S, IsFiniteSet(S), NEW R,
           \A x \in S : <<x, x>> \notin R,
           \A x, y, z \in S : <<x, y>> \in R /\ <<y, z>> \in R => <<x, z>> \in R,
           \A x, y \in S : x = y \/ <<x, y>> \in R \/ <<y, x>> \in R,
           NEW rank, rank = RankIn(S, R)
    PROVE  /\ Cardinality(S) \in Nat
           /\ \A x \in S : rank[x] \in 0..(Cardinality(S) - 1)
           /\ \A x, y \in S : rank[x] = rank[y] => x = y
           /\ \A k \in 1..Cardinality(S) : \E x \in S : rank[x] = k - 1
PROOF
<1> DEFINE Below(x) == {y \in S : <<y, x>> \in R}
           n == Cardinality(S)
<1>0. rank = [x \in S |-> Cardinality(Below(x))]
    BY DEF RankIn
<1>1. n \in Nat
    BY FS_CardinalityType
<1>2. ASSUME NEW x \in S
      PROVE  IsFiniteSet(Below(x)) /\ Cardinality(Below(x)) \in 0..(n - 1)
  <2>1. Below(x) \in SUBSET (S \ {x})
    OBVIOUS
  <2>2. IsFiniteSet(S \ {x}) /\ Cardinality(S \ {x}) = n - 1
    BY FS_RemoveElement
  <2> HIDE DEF Below, n
  <2>3. IsFiniteSet(Below(x)) /\ Cardinality(Below(x)) \leq n - 1
    BY <2>1, <2>2, FS_Subset
  <2>4. Cardinality(Below(x)) \in Nat
    BY <2>3, FS_CardinalityType
  <2> QED
    BY <1>1, <2>3, <2>4
<1>3. ASSUME NEW x \in S, NEW y \in S, <<x, y>> \in R
      PROVE  Cardinality(Below(x)) < Cardinality(Below(y))
  <2>1. Below(x) \in SUBSET (Below(y) \ {x}) /\ x \in Below(y)
    BY <1>3
  <2> HIDE DEF Below, n
  <2>2. /\ IsFiniteSet(Below(y) \ {x})
        /\ Cardinality(Below(y) \ {x}) = Cardinality(Below(y)) - 1
    BY <1>2, <2>1, FS_RemoveElement
  <2>3. Cardinality(Below(x)) \leq Cardinality(Below(y)) - 1
    BY <2>1, <2>2, FS_Subset
  <2>4. Cardinality(Below(x)) \in Nat /\ Cardinality(Below(y)) \in Nat
    BY <1>1, <1>2
  <2> QED
    BY <2>3, <2>4
<1>4. ASSUME NEW x \in S, NEW y \in S, rank[x] = rank[y] PROVE x = y
  <2> HIDE DEF Below, n
  <2>1. Cardinality(Below(x)) = Cardinality(Below(y)) /\ Cardinality(Below(x)) \in 0..(n - 1)
    BY <1>0, <1>2, <1>4
  <2>2. \A k \in 0..(n - 1) : ~(k < k)
    BY <1>1
  <2> QED
    BY <1>3, <2>1, <2>2
<1>5. rank \in [S -> 0..(n - 1)]
  <2> HIDE DEF Below, n
  <2> QED
    BY <1>0, <1>2
<1>6. rank \in Injection(S, 0..(n - 1))
  <2> HIDE DEF n
  <2> QED
    BY <1>4, <1>5 DEF Injection, IsInjective
<1>7. IsFiniteSet(0..(n - 1)) /\ Cardinality(0..(n - 1)) = n
  <2> HIDE DEF n
  <2>1. n - 1 \in Int /\ (0 > n - 1 <=> n = 0) /\ (n - 1) - 0 + 1 = n
    BY <1>1
  <2> QED
    BY <1>1, <2>1, FS_Interval
<1>8. rank \in Surjection(S, 0..(n - 1))
    BY <1>6, <1>7, FS_Injection
<1>9. ASSUME NEW k \in 1..n PROVE \E x \in S : rank[x] = k - 1
  <2> HIDE DEF n
  <2>1. k - 1 \in 0..(n - 1)
    BY <1>1
  <2> QED
    BY <1>8, <2>1 DEF Surjection
<1> QED
    BY <1>1, <1>4, <1>5, <1>9

\* The elements of S in the order R, the k-th being the one that k - 1 precede.
Enumerates(S, R, o) ==
    /\ o \in [1..Cardinality(S) -> S]
    /\ \A k \in 1..Cardinality(S) : Cardinality({y \in S : <<y, o[k]>> \in R}) = k - 1

IsStrictOrder(S, R) ==
    /\ \A x \in S : <<x, x>> \notin R
    /\ \A x, y, z \in S : <<x, y>> \in R /\ <<y, z>> \in R => <<x, z>> \in R
    /\ \A x, y \in S : x = y \/ <<x, y>> \in R \/ <<y, x>> \in R

\* There is an element for each place.
LEMMA PlacesAreTaken ==
    ASSUME NEW S, IsFiniteSet(S), NEW R, IsStrictOrder(S, R), NEW k \in 1..Cardinality(S)
    PROVE  \E x \in S : Cardinality({y \in S : <<y, x>> \in R}) = k - 1
PROOF
<1>1. PICK rank : rank = RankIn(S, R)
    OBVIOUS
<1>2. \E x \in S : rank[x] = k - 1
    BY <1>1, RankIsABijection DEF IsStrictOrder
<1> QED
    BY <1>1, <1>2 DEF RankIn

\* Such an enumeration has each element once, in that order.
LEMMA EnumerationProperties ==
    ASSUME NEW S, IsFiniteSet(S), NEW R, IsStrictOrder(S, R), NEW o, Enumerates(S, R, o)
    PROVE  /\ o \in Seq(S) /\ Len(o) = Cardinality(S) /\ DOMAIN o = 1..Len(o)
           /\ ToSet(o) = S
           /\ \A j, k \in 1..Len(o) : o[j] = o[k] => j = k
           /\ \A j, k \in 1..Len(o) : j < k <=> <<o[j], o[k]>> \in R
PROOF
<1> DEFINE n == Cardinality(S)
<1>1. PICK rank : rank = RankIn(S, R)
    OBVIOUS
<1>2. /\ n \in Nat
      /\ \A x \in S : rank[x] \in 0..(n - 1)
      /\ \A x, y \in S : rank[x] = rank[y] => x = y
      /\ \A k \in 1..n : \E x \in S : rank[x] = k - 1
    BY <1>1, RankIsABijection DEF IsStrictOrder
<1>3. \A x \in S : Cardinality({y \in S : <<y, x>> \in R}) = rank[x]
    BY <1>1 DEF RankIn
<1>4. o \in [1..n -> S]
    BY DEF Enumerates
<1> HIDE DEF n
<1>5. ASSUME NEW k \in 1..n PROVE o[k] \in S /\ rank[o[k]] = k - 1
    BY <1>3, <1>4 DEF Enumerates, n
<1>6. o \in Seq(S) /\ Len(o) = n /\ DOMAIN o = 1..n
    BY <1>2, <1>4
<1>7. \A x \in S : \E k \in 1..n : o[k] = x
  <2> TAKE x \in S
  <2>1. rank[x] + 1 \in 1..n /\ (rank[x] + 1) - 1 = rank[x]
    BY <1>2
  <2>2. o[rank[x] + 1] \in S /\ rank[o[rank[x] + 1]] = rank[x]
    BY <1>5, <2>1
  <2> QED
    BY <1>2, <2>1, <2>2
<1>8. ToSet(o) = S
    BY <1>5, <1>6, <1>7 DEF ToSet
<1>9. \A j, k \in 1..n : o[j] = o[k] => j = k
    BY <1>2, <1>5
<1>10. ASSUME NEW x \in S, NEW y \in S, <<x, y>> \in R PROVE rank[x] < rank[y]
  <2>1. PICK A : A = {z \in S : <<z, x>> \in R}
    OBVIOUS
  <2>2. PICK B : B = {z \in S : <<z, y>> \in R}
    OBVIOUS
  <2>3. rank[x] = Cardinality(A) /\ rank[y] = Cardinality(B)
    BY <1>3, <2>1, <2>2
  <2>4. A \subseteq B /\ x \in B /\ x \notin A /\ B \subseteq S
    BY <1>10, <2>1, <2>2 DEF IsStrictOrder
  <2>5. IsFiniteSet(B) /\ IsFiniteSet(B \ {x}) /\ Cardinality(B \ {x}) = Cardinality(B) - 1
    BY <2>4, FS_Subset, FS_RemoveElement
  <2>6. A \subseteq B \ {x}
    BY <2>4
  <2>7. Cardinality(A) <= Cardinality(B) - 1
    BY <2>5, <2>6, FS_Subset
  <2>8. rank[x] \in Nat /\ rank[y] \in Nat
    BY <1>2
  <2> QED
    BY <2>3, <2>7, <2>8
<1>11. ASSUME NEW j \in 1..n, NEW k \in 1..n PROVE j < k <=> <<o[j], o[k]>> \in R
  <2>1. o[j] \in S /\ o[k] \in S /\ rank[o[j]] = j - 1 /\ rank[o[k]] = k - 1
    BY <1>5
  <2>2. CASE <<o[j], o[k]>> \in R
    <3>1. j - 1 < k - 1
      BY <1>10, <2>1, <2>2
    <3> QED
      BY <1>2, <2>2, <3>1
  <2>3. CASE <<o[j], o[k]>> \notin R
    <3>1. CASE o[j] = o[k]
      BY <1>2, <1>9, <2>3, <3>1
    <3>2. CASE <<o[k], o[j]>> \in R
      <4>1. k - 1 < j - 1
        BY <1>10, <2>1, <3>2
      <4> QED
        BY <1>2, <2>3, <4>1
    <3> QED
      BY <2>1, <2>3, <3>1, <3>2 DEF IsStrictOrder
  <2> QED
    BY <2>2, <2>3
<1> QED
    BY <1>6, <1>8, <1>9, <1>11 DEF n

-----------------------------------------------------------------------------
(* The index and the order of the text.                                    *)

Indexed ==
    input \in Inputs /\ index = IndexOf(input.domain, input.extracted, input.binding)

\* Binding entities leaves place and evidence of a candidate as they were.
LEMMA IndexFacts ==
    ASSUME Indexed
    PROVE  /\ DOMAIN index = Candidates
           /\ \A c \in Candidates :
                  /\ index[c].chunk = input.extracted[c].chunk
                  /\ index[c].suffix = input.extracted[c].suffix
                  /\ index[c].evidence = input.extracted[c].evidence
                  /\ index[c].chunk \in Nat /\ index[c].suffix \in Nat
                  /\ index[c].evidence \in Seq(Evidence) \ {<<>>}
PROOF
<1>1. index = [c \in Candidates |->
          [input.extracted[c] EXCEPT !.who = Bound(input.domain, input.binding, @),
                                     !.what = Bound(input.domain, input.binding, @)]]
    BY DEF Indexed, IndexOf
<1>2. ASSUME NEW c \in Candidates
      PROVE  /\ index[c].chunk = input.extracted[c].chunk
             /\ index[c].suffix = input.extracted[c].suffix
             /\ index[c].evidence = input.extracted[c].evidence
  <2>1. PICK x : x = input.extracted[c]
    OBVIOUS
  <2>2. PICK w : w = Bound(input.domain, input.binding, x.who)
    OBVIOUS
  <2>3. PICK v : v = Bound(input.domain, input.binding, x.what)
    OBVIOUS
  <2>4. index[c] = [x EXCEPT !.who = w, !.what = v]
    BY <1>1, <2>1, <2>2, <2>3
  <2>5. {"chunk", "suffix", "evidence"} \subseteq DOMAIN x
    BY <2>1, ExtractionsAreGrounded DEF Indexed
  <2> QED
    BY <2>1, <2>4, <2>5
<1>3. DOMAIN index = Candidates
    BY <1>1
<1> QED
    BY <1>2, <1>3, ExtractionsAreGrounded DEF Indexed

\* Every candidate has an anchor.
LEMMA AnchorIsANumber ==
    ASSUME Indexed, NEW c \in Candidates
    PROVE  Anchor(index[c]) \in Nat
PROOF
<1> DEFINE e == index[c].evidence
           primary == {v.paragraph : v \in {w \in ToSet(e) : w.role = "primary"}}
           all == {v.paragraph : v \in ToSet(e)}
           S == IF primary # {} THEN primary ELSE all
<1>1. e \in Seq(Evidence) \ {<<>>}
    BY IndexFacts
<1>2. \A v \in ToSet(e) : v.paragraph \in Nat
  <2>1. ASSUME NEW k \in DOMAIN e PROVE e[k] \in Evidence
    BY <1>1
  <2>2. \A v \in Evidence : v.paragraph \in Nat
    BY DEF Evidence
  <2> HIDE DEF e
  <2> QED
    BY <2>1, <2>2 DEF ToSet
<1>3. e[1] \in ToSet(e)
    BY <1>1 DEF ToSet
<1>4. S \subseteq Nat /\ S # {}
    BY <1>2, <1>3
<1>5. Anchor(index[c]) = Min(S)
    BY DEF Anchor
<1> HIDE DEF S
<1>6. \E x \in S : \A y \in S : x =< y
    BY <1>4, LeastExists
<1>7. Min(S) \in S
    BY <1>6 DEF Min
<1> QED
    BY <1>4, <1>5, <1>7

\* Chunk, anchor and number in the chunk, compared in turn.
LEMMA EarlierMeans ==
    ASSUME NEW c, NEW d
    PROVE  Earlier(c, d) <=>
               \/ index[c].chunk < index[d].chunk
               \/ /\ index[c].chunk = index[d].chunk
                  /\ \/ Anchor(index[c]) < Anchor(index[d])
                     \/ /\ Anchor(index[c]) = Anchor(index[d])
                        /\ index[c].suffix < index[d].suffix
PROOF
<1>1. PICK p : p = PlaceInText(c)
    OBVIOUS
<1>2. PICK q : q = PlaceInText(d)
    OBVIOUS
<1>3. p[1] = index[c].chunk /\ p[2] = Anchor(index[c]) /\ p[3] = index[c].suffix
    BY <1>1 DEF PlaceInText
<1>4. q[1] = index[d].chunk /\ q[2] = Anchor(index[d]) /\ q[3] = index[d].suffix
    BY <1>2 DEF PlaceInText
<1>5. Earlier(c, d) <=> \E k \in 1..3 : p[k] < q[k] /\ \A j \in 1..(k - 1) : p[j] = q[j]
    BY <1>1, <1>2 DEF Earlier
<1>6. 1..3 = {1, 2, 3} /\ 1..(1 - 1) = {} /\ 1..(2 - 1) = {1} /\ 1..(3 - 1) = {1, 2}
    OBVIOUS
<1>7. Earlier(c, d) <=> \/ p[1] < q[1]
                        \/ p[2] < q[2] /\ p[1] = q[1]
                        \/ p[3] < q[3] /\ p[1] = q[1] /\ p[2] = q[2]
    BY <1>5, <1>6
<1> QED
    BY <1>3, <1>4, <1>7

EarlierIn(S) == {z \in S \X S : Earlier(z[1], z[2])}

\* The order of the text is a strict order of the candidates.
LEMMA TextOrder ==
    ASSUME Indexed
    PROVE  /\ \A c \in Candidates : ~Earlier(c, c)
           /\ \A c, d, e \in Candidates : Earlier(c, d) /\ Earlier(d, e) => Earlier(c, e)
           /\ \A c, d \in Candidates : c = d \/ Earlier(c, d) \/ Earlier(d, c)
PROOF
<1>1. \A c \in Candidates : index[c].chunk \in Nat /\ index[c].suffix \in Nat
                            /\ Anchor(index[c]) \in Nat
    BY IndexFacts, AnchorIsANumber
<1>2. \A c \in Candidates : ~Earlier(c, c)
    BY <1>1, EarlierMeans
<1>3. ASSUME NEW c \in Candidates, NEW d \in Candidates, NEW e \in Candidates,
             Earlier(c, d), Earlier(d, e)
      PROVE  Earlier(c, e)
  <2>1. PICK x \in Nat, y \in Nat, z \in Nat :
            x = index[c].chunk /\ y = index[d].chunk /\ z = index[e].chunk
    BY <1>1
  <2>2. PICK x2 \in Nat, y2 \in Nat, z2 \in Nat :
            x2 = Anchor(index[c]) /\ y2 = Anchor(index[d]) /\ z2 = Anchor(index[e])
    BY <1>1
  <2>3. PICK x3 \in Nat, y3 \in Nat, z3 \in Nat :
            x3 = index[c].suffix /\ y3 = index[d].suffix /\ z3 = index[e].suffix
    BY <1>1
  <2>4. x < y \/ (x = y /\ (x2 < y2 \/ (x2 = y2 /\ x3 < y3)))
    BY <1>3, <2>1, <2>2, <2>3, EarlierMeans
  <2>5. y < z \/ (y = z /\ (y2 < z2 \/ (y2 = z2 /\ y3 < z3)))
    BY <1>3, <2>1, <2>2, <2>3, EarlierMeans
  <2>6. x < z \/ (x = z /\ (x2 < z2 \/ (x2 = z2 /\ x3 < z3)))
    BY <2>4, <2>5
  <2> QED
    BY <2>1, <2>2, <2>3, <2>6, EarlierMeans
<1>4. ASSUME NEW c \in Candidates, NEW d \in Candidates
      PROVE  c = d \/ Earlier(c, d) \/ Earlier(d, c)
  <2>1. index[c].chunk = index[d].chunk /\ index[c].suffix = index[d].suffix => c = d
    BY IndexFacts, ExtractionsAreGrounded DEF Indexed
  <2>2. PICK x \in Nat, y \in Nat : x = index[c].chunk /\ y = index[d].chunk
    BY <1>1
  <2>3. PICK x2 \in Nat, y2 \in Nat : x2 = Anchor(index[c]) /\ y2 = Anchor(index[d])
    BY <1>1
  <2>4. PICK x3 \in Nat, y3 \in Nat : x3 = index[c].suffix /\ y3 = index[d].suffix
    BY <1>1
  <2> QED
    BY <2>1, <2>2, <2>3, <2>4, EarlierMeans
<1> QED
    BY <1>2, <1>3, <1>4

\* The order of two rows is the order of their places in the text, at every state of an index.
LEMMA TextOrderIn ==
    ASSUME Indexed, NEW S \in SUBSET Candidates
    PROVE  IsFiniteSet(S) /\ IsStrictOrder(S, EarlierIn(S))
PROOF
<1>1. IsFiniteSet(S)
    BY CandidatesAreNumbers, FS_Subset
<1>2. \A c, d \in S : <<c, d>> \in EarlierIn(S) <=> Earlier(c, d)
    BY DEF EarlierIn
<1>3. IsStrictOrder(S, EarlierIn(S))
    BY <1>2, TextOrder DEF IsStrictOrder
<1> QED
    BY <1>1, <1>3

\* The members of a record are its candidates in the order of the text.
LEMMA MembersProperties ==
    ASSUME Indexed, NEW S \in SUBSET Candidates
    PROVE  /\ Members(S) \in Seq(S) /\ Len(Members(S)) = Cardinality(S)
           /\ DOMAIN Members(S) = 1..Len(Members(S))
           /\ ToSet(Members(S)) = S
           /\ \A j, k \in 1..Len(Members(S)) : j < k <=> Earlier(Members(S)[j], Members(S)[k])
           /\ \A j, k \in 1..Len(Members(S)) : Members(S)[j] = Members(S)[k] => j = k
PROOF
<1>1. PICK R : R = EarlierIn(S)
    OBVIOUS
<1>2. \A c, d \in S : <<c, d>> \in R <=> Earlier(c, d)
    BY <1>1 DEF EarlierIn
<1>3. \A c \in S : {d \in S : <<d, c>> \in R} = {d \in S : Earlier(d, c)}
    BY <1>2
<1>4. PICK o : o = Members(S)
    OBVIOUS
<1>5. o = [k \in 1..Cardinality(S) |->
             CHOOSE c \in S : Cardinality({d \in S : Earlier(d, c)}) = k - 1]
    BY <1>4 DEF Members, SortedBy
<1>6. Enumerates(S, R, o)
  <2>1. ASSUME NEW k \in 1..Cardinality(S)
        PROVE  o[k] \in S /\ Cardinality({d \in S : <<d, o[k]>> \in R}) = k - 1
    <3>1. \E c \in S : Cardinality({d \in S : Earlier(d, c)}) = k - 1
      <4>1. IsFiniteSet(S) /\ IsStrictOrder(S, R)
        BY <1>1, TextOrderIn
      <4>2. \E c \in S : Cardinality({d \in S : <<d, c>> \in R}) = k - 1
        BY <4>1, PlacesAreTaken
      <4> QED
        BY <1>3, <4>2
    <3>2. o[k] \in S /\ Cardinality({d \in S : Earlier(d, o[k])}) = k - 1
      BY <1>5, <3>1
    <3> QED
      BY <1>3, <3>2
  <2>2. o \in [1..Cardinality(S) -> S]
    BY <1>5, <2>1
  <2> QED
    BY <2>1, <2>2 DEF Enumerates
<1>7. /\ o \in Seq(S) /\ Len(o) = Cardinality(S) /\ DOMAIN o = 1..Len(o)
      /\ ToSet(o) = S
      /\ \A j, k \in 1..Len(o) : o[j] = o[k] => j = k
      /\ \A j, k \in 1..Len(o) : j < k <=> <<o[j], o[k]>> \in R
    BY <1>1, <1>6, TextOrderIn, EnumerationProperties
<1>8. \A k \in 1..Len(o) : o[k] \in S
    BY <1>7
<1> QED
    BY <1>2, <1>4, <1>7, <1>8

-----------------------------------------------------------------------------
(* Identity.                                                               *)

\* There are finitely many pairs, of different candidates.
LEMMA PairsAreFinite ==
    /\ \A S \in SUBSET Pairs : IsFiniteSet(S)
    /\ \A p \in Pairs : /\ p = <<p[1], p[2]>> /\ p[1] \in Candidates /\ p[2] \in Candidates
                        /\ p[1] \in Nat /\ p[2] \in Nat /\ p[1] < p[2]
PROOF
<1>1. IsFiniteSet(Candidates \X Candidates)
    BY CandidatesAreNumbers, FS_Product
<1>2. \A S \in SUBSET Pairs : S \in SUBSET (Candidates \X Candidates)
    BY DEF Pairs
<1>3. \A S \in SUBSET Pairs : IsFiniteSet(S)
    BY <1>1, <1>2, FS_Subset
<1>4. \A p \in Pairs : p = <<p[1], p[2]>> /\ p[1] \in Candidates /\ p[2] \in Candidates
                        /\ p[1] < p[2]
    BY DEF Pairs
<1> QED
    BY <1>3, <1>4, CandidatesAreNumbers

\* Decisions are listed by their pairs, each once.
LEMMA PairsInOrder ==
    ASSUME NEW S \in SUBSET Pairs
    PROVE  SortedBy(S, Before) \in Seq(S) /\ ToSet(SortedBy(S, Before)) = S
PROOF
<1>1. PICK R : R = {z \in S \X S : Before(z[1], z[2])}
    OBVIOUS
<1>2. \A p, q \in S : <<p, q>> \in R <=> Before(p, q)
    BY <1>1
<1>3. \A p \in S : {q \in S : <<q, p>> \in R} = {q \in S : Before(q, p)}
    BY <1>2
<1>4. \A p \in S : p = <<p[1], p[2]>> /\ p[1] \in Nat /\ p[2] \in Nat
    BY PairsAreFinite
<1>5. /\ \A p \in S : ~Before(p, p)
      /\ \A p, q, r \in S : Before(p, q) /\ Before(q, r) => Before(p, r)
      /\ \A p, q \in S : p = q \/ Before(p, q) \/ Before(q, p)
  <2>1. \A p \in S : ~Before(p, p)
    BY <1>4 DEF Before
  <2>2. \A p, q, r \in S : Before(p, q) /\ Before(q, r) => Before(p, r)
    BY <1>4 DEF Before
  <2>3. \A p, q \in S : p = q \/ Before(p, q) \/ Before(q, p)
    BY <1>4 DEF Before
  <2> QED
    BY <2>1, <2>2, <2>3
<1>6. IsFiniteSet(S) /\ IsStrictOrder(S, R)
    BY <1>2, <1>5, PairsAreFinite DEF IsStrictOrder
<1>7a. PICK o : o = SortedBy(S, Before)
    OBVIOUS
<1>7. o = [k \in 1..Cardinality(S) |->
             CHOOSE p \in S : Cardinality({q \in S : Before(q, p)}) = k - 1]
    BY <1>7a DEF SortedBy
<1>8. Enumerates(S, R, o)
  <2>1. ASSUME NEW k \in 1..Cardinality(S)
        PROVE  o[k] \in S /\ Cardinality({q \in S : <<q, o[k]>> \in R}) = k - 1
    <3>1. \E p \in S : Cardinality({q \in S : <<q, p>> \in R}) = k - 1
      BY <1>6, PlacesAreTaken
    <3>2. \E p \in S : Cardinality({q \in S : Before(q, p)}) = k - 1
      BY <1>3, <3>1
    <3>3. o[k] \in S /\ Cardinality({q \in S : Before(q, o[k])}) = k - 1
      BY <1>7, <3>2
    <3> QED
      BY <1>3, <3>3
  <2>2. o \in [1..Cardinality(S) -> S]
    BY <1>7, <2>1
  <2> QED
    BY <2>1, <2>2 DEF Enumerates
<1>9. o \in Seq(S) /\ ToSet(o) = S
    BY <1>6, <1>8, EnumerationProperties
<1> QED
    BY <1>7a, <1>9

\* The lesser of two.
LEMMA MinOfTwo ==
    ASSUME NEW a \in Nat, NEW b \in Nat
    PROVE  Min({a, b}) \in {a, b} /\ Min({a, b}) <= a /\ Min({a, b}) <= b
PROOF
<1>1. \E x \in {a, b} : \A y \in {a, b} : x =< y
    OBVIOUS
<1> QED
    BY <1>1 DEF Min

\* Union maps candidates to candidates, whichever pair it joins.
LEMMA UnionIsAMap ==
    ASSUME NEW rep \in [Candidates -> Candidates], NEW p \in Pairs
    PROVE  /\ Union(rep, p) \in [Candidates -> Candidates]
           /\ \E r \in {rep[p[1]], rep[p[2]]} :
                  Union(rep, p) = [c \in Candidates |->
                      IF rep[c] \in {rep[p[1]], rep[p[2]]} THEN r ELSE rep[c]]
PROOF
<1>1. rep[p[1]] \in Candidates /\ rep[p[2]] \in Candidates
    BY PairsAreFinite
<1>2. PICK r : r = Min({rep[p[1]], rep[p[2]]})
    OBVIOUS
<1>3. r \in {rep[p[1]], rep[p[2]]}
    BY <1>1, <1>2, MinOfTwo, CandidatesAreNumbers
<1>4. Union(rep, p) = [c \in Candidates |->
                      IF rep[c] \in {rep[p[1]], rep[p[2]]} THEN r ELSE rep[c]]
    BY <1>2 DEF Union
<1> QED
    BY <1>1, <1>3, <1>4

\* Roots are found one merging decision after the other.
LEMMA UnionSteps ==
    ASSUME NEW s \in Seq(Pairs)
    PROVE  \E h \in [0..Len(s) -> [Candidates -> Candidates]] :
               /\ h[0] = [c \in Candidates |-> c]
               /\ \A n \in 1..Len(s) : h[n] = Union(h[n - 1], s[n])
               /\ h[Len(s)] = FoldLeft(Union, [c \in Candidates |-> c], s)
PROOF
<1> DEFINE V == [Candidates -> Candidates]
           base == [c \in Candidates |-> c]
           G == [x \in V \X Pairs |-> Union(x[1], x[2])]
           it == CHOOSE it : it = [t \in SUBSET DOMAIN s |->
                     IF t = {} THEN base ELSE Union(it[t \ {Max(t)}], s[Max(t)])]
<1>1. Len(s) \in Nat /\ DOMAIN s = 1..Len(s) /\ \A k \in 1..Len(s) : s[k] \in Pairs
    OBVIOUS
<1>2. FoldLeft(Union, base, s) = it[DOMAIN s]
    BY DEF FoldLeft, MapThenFoldSet
<1>3. G \in [V \X Pairs -> V] /\ \A v \in V, x \in Pairs : G[<<v, x>>] = Union(v, x)
  <2>1. \A v \in V, x \in Pairs : Union(v, x) \in V
    BY UnionIsAMap
  <2> HIDE DEF V
  <2> QED
    BY <2>1
<1>4. base \in V
    OBVIOUS
<1> HIDE DEF G, V, base
<1>5. it = [t \in SUBSET DOMAIN s |->
               IF t = {} THEN base ELSE Union(it[t \ {Max(t)}], s[Max(t)])]
  <2>1. FoldsOf(V, G, base, s) # {}
    BY <1>3, <1>4, FoldExists
  <2>1a. PICK g : g \in FoldsOf(V, G, base, s)
    BY <2>1
  <2>2. /\ g \in [SUBSET (1..Len(s)) -> V]
        /\ \A t \in SUBSET (1..Len(s)) :
               g[t] = IF t = {} THEN base ELSE G[<<g[t \ {Max(t)}], s[Max(t)]>>]
    BY <2>1a DEF FoldsOf
  <2>3. ASSUME NEW t \in SUBSET (1..Len(s)), t # {}
        PROVE  g[t] = Union(g[t \ {Max(t)}], s[Max(t)])
    <3>1. Max(t) \in 1..Len(s)
      BY <1>1, <2>3, MaxProperties
    <3>2. s[Max(t)] \in Pairs /\ g[t \ {Max(t)}] \in V
      BY <1>1, <2>2, <3>1
    <3> QED
      BY <1>3, <2>2, <2>3, <3>2
  <2>4. g = [t \in SUBSET DOMAIN s |->
               IF t = {} THEN base ELSE Union(g[t \ {Max(t)}], s[Max(t)])]
    BY <1>1, <2>2, <2>3
  <2> QED
    BY <2>4, Zenon
<1> HIDE DEF it
<1>6. FoldEquation(V, G, base, s, it)
  <2> SUFFICES ASSUME NEW t \in SUBSET (1..Len(s))
               PROVE  /\ t = {} => it[t] = base
                      /\ t # {} /\ it[t \ {Max(t)}] \in V =>
                             it[t] = G[<<it[t \ {Max(t)}], s[Max(t)]>>]
    BY DEF FoldEquation
  <2>1. it[t] = IF t = {} THEN base ELSE Union(it[t \ {Max(t)}], s[Max(t)])
    BY <1>1, <1>5
  <2>2. t # {} => s[Max(t)] \in Pairs
    BY <1>1, MaxProperties
  <2> QED
    BY <1>3, <2>1, <2>2
<1>7a. Reaches(V, G, base, s, it[1..Len(s)])
  <2>1. CanFold(V, Pairs, G, base, s)
    BY <1>3, <1>4 DEF CanFold
  <2> QED
    BY <1>6, <2>1, FoldSteps
<1>7. PICK h : FoldsAlong(V, G, base, s, h) /\ h[Len(s)] = it[1..Len(s)]
    BY <1>7a DEF Reaches
<1>8. /\ h \in [0..Len(s) -> V] /\ h[0] = base
      /\ \A n \in 1..Len(s) : h[n] = G[<<h[n - 1], s[n]>>]
    BY <1>7 DEF FoldsAlong
<1>9. ASSUME NEW n \in 1..Len(s) PROVE h[n] = Union(h[n - 1], s[n])
  <2>1. n - 1 \in 0..Len(s)
    BY <1>1, OneBefore
  <2> QED
    BY <1>1, <1>3, <1>8, <2>1
<1> QED
    BY <1>1, <1>2, <1>7, <1>8, <1>9 DEF V, base

\* What is joined stays joined; what a union joins belongs together.
LEMMA UnionJoins ==
    ASSUME NEW rep \in [Candidates -> Candidates], NEW p \in Pairs,
           NEW up, up = Union(rep, p)
    PROVE  /\ up[p[1]] = up[p[2]]
           /\ \A c, d \in Candidates : rep[c] = rep[d] => up[c] = up[d]
           /\ \A c, d \in Candidates : up[c] = up[d] =>
                  \/ rep[c] = rep[d]
                  \/ rep[c] \in {rep[p[1]], rep[p[2]]} /\ rep[d] \in {rep[p[1]], rep[p[2]]}
PROOF
<1>1. PICK r \in {rep[p[1]], rep[p[2]]} :
          up = [c \in Candidates |-> IF rep[c] \in {rep[p[1]], rep[p[2]]} THEN r ELSE rep[c]]
    BY UnionIsAMap
<1>2. p[1] \in Candidates /\ p[2] \in Candidates
    BY PairsAreFinite
<1>3. \A c \in Candidates : up[c] = IF rep[c] \in {rep[p[1]], rep[p[2]]} THEN r ELSE rep[c]
    BY <1>1
<1>4. r \in {rep[p[1]], rep[p[2]]}
    BY <1>1
<1> QED
    BY <1>2, <1>3, <1>4

\* The set S is not left by any of the pairs.
Closed(S, P) == \A p \in P : p[1] \in S <=> p[2] \in S

\* Roots are equal exactly where the pairs of the sequence lead.
LEMMA RootsJoin ==
    ASSUME NEW s \in Seq(Pairs)
    PROVE  \E rep \in [Candidates -> Candidates] :
             /\ rep = FoldLeft(Union, [c \in Candidates |-> c], s)
             /\ \A p \in ToSet(s) : rep[p[1]] = rep[p[2]]
             /\ \A S \in SUBSET Candidates : Closed(S, ToSet(s)) =>
                    \A c, d \in Candidates : rep[c] = rep[d] => (c \in S <=> d \in S)
PROOF
<1>1. PICK h \in [0..Len(s) -> [Candidates -> Candidates]] :
               /\ h[0] = [c \in Candidates |-> c]
               /\ \A n \in 1..Len(s) : h[n] = Union(h[n - 1], s[n])
               /\ h[Len(s)] = FoldLeft(Union, [c \in Candidates |-> c], s)
    BY UnionSteps
<1>2. /\ Len(s) \in Nat /\ ToSet(s) = {s[k] : k \in 1..Len(s)}
      /\ \A k \in 1..Len(s) : s[k] \in Pairs
    BY DEF ToSet
<1>3. ASSUME NEW n \in Nat, n + 1 \leq Len(s)
      PROVE  /\ n + 1 \in 1..Len(s) /\ n \in 0..Len(s) /\ n + 1 \in 0..Len(s) /\ n \leq Len(s)
             /\ h[n] \in [Candidates -> Candidates] /\ s[n + 1] \in Pairs
             /\ h[n + 1] = Union(h[n], s[n + 1])
  <2>1. /\ n + 1 \in 1..Len(s) /\ n \in 0..Len(s) /\ n + 1 \in 0..Len(s) /\ n \leq Len(s)
        /\ (n + 1) - 1 = n
    BY <1>2, <1>3
  <2> QED
    BY <1>1, <1>2, <2>1
<1> DEFINE A == {n \in Nat : n \leq Len(s) => \A k \in 1..n : h[n][s[k][1]] = h[n][s[k][2]]}
<1>4. Nat \subseteq A
  <2>1. 0 \in A
    OBVIOUS
  <2>2. ASSUME NEW n \in Nat, n \in A PROVE n + 1 \in A
    <3> SUFFICES ASSUME n + 1 \leq Len(s), NEW k \in 1..(n + 1)
                 PROVE  h[n + 1][s[k][1]] = h[n + 1][s[k][2]]
      OBVIOUS
    <3>1. \A l \in 1..n : h[n][s[l][1]] = h[n][s[l][2]]
      BY <1>3, <2>2
    <3>2. PICK up : up = h[n + 1]
      OBVIOUS
    <3>3. PICK rep \in [Candidates -> Candidates] : rep = h[n]
      BY <1>3
    <3>4. up = Union(rep, s[n + 1]) /\ s[n + 1] \in Pairs
      BY <1>3, <3>2, <3>3
    <3>5. CASE k = n + 1
      BY <3>2, <3>4, <3>5, UnionJoins
    <3>6. CASE k # n + 1
      <4>1. k \in 1..n /\ k \in 1..Len(s)
        BY <1>2, <1>3, <3>6
      <4>2. PICK x, y : x = s[k][1] /\ y = s[k][2]
        OBVIOUS
      <4>3. rep[x] = rep[y]
        BY <3>1, <3>3, <4>1, <4>2
      <4>4. x \in Candidates /\ y \in Candidates
        BY <1>2, <4>1, <4>2, PairsAreFinite
      <4>5. up[x] = up[y]
        BY <3>4, <4>3, <4>4, UnionJoins
      <4> QED
        BY <3>2, <4>2, <4>5
    <3> QED
      BY <3>5, <3>6
  <2> HIDE DEF A
  <2> QED
    BY <2>1, <2>2, SetInduction
<1>5. ASSUME NEW S \in SUBSET Candidates, Closed(S, ToSet(s)),
             NEW c \in Candidates, NEW d \in Candidates, h[Len(s)][c] = h[Len(s)][d]
      PROVE  c \in S <=> d \in S
  <2> DEFINE Same(n) == \A x, y \in Candidates : h[n][x] = h[n][y] => (x \in S <=> y \in S)
             B == {n \in Nat : n \leq Len(s) => Same(n)}
  <2>1. 0 \in B
    BY <1>1
  <2>2. ASSUME NEW n \in Nat, n \in B PROVE n + 1 \in B
    <3> SUFFICES ASSUME n + 1 \leq Len(s), NEW x \in Candidates, NEW y \in Candidates,
                        h[n + 1][x] = h[n + 1][y]
                 PROVE  x \in S <=> y \in S
      OBVIOUS
    <3>1. Same(n)
      BY <1>3, <2>2
    <3>3. PICK rep \in [Candidates -> Candidates] : rep = h[n]
      BY <1>3
    <3>4. PICK p \in Pairs : p = s[n + 1]
      BY <1>3
    <3>5. \A u, v \in Candidates : rep[u] = rep[v] => (u \in S <=> v \in S)
      BY <3>1, <3>3
    <3>6. p[1] \in S <=> p[2] \in S
      BY <1>2, <1>3, <1>5, <3>4 DEF Closed
    <3>7. p[1] \in Candidates /\ p[2] \in Candidates
      BY PairsAreFinite
    <3>8. PICK up : up = h[n + 1]
      OBVIOUS
    <3>9. up = Union(rep, p) /\ up[x] = up[y]
      BY <1>3, <3>3, <3>4, <3>8
    <3> HIDE DEF Same, B
    <3>10. \/ rep[x] = rep[y]
           \/ rep[x] \in {rep[p[1]], rep[p[2]]} /\ rep[y] \in {rep[p[1]], rep[p[2]]}
      BY <3>9, UnionJoins
    <3> QED
      BY <3>5, <3>6, <3>7, <3>10
  <2>3. Nat \subseteq B
    <3> HIDE DEF B
    <3> QED
      BY <2>1, <2>2, SetInduction
  <2>4. Same(Len(s))
    <3> HIDE DEF Same
    <3> QED
      BY <1>2, <2>3
  <2> QED
    BY <1>5, <2>4
<1>6. Len(s) \in 0..Len(s) /\ Len(s) \in A
    BY <1>2, <1>4
<1>7. \A p \in ToSet(s) : h[Len(s)][p[1]] = h[Len(s)][p[2]]
    BY <1>2, <1>6
<1>8. h[Len(s)] \in [Candidates -> Candidates]
    BY <1>6
<1> QED
    BY <1>1, <1>5, <1>7, <1>8

Same == With(Merging[input.domain])

\* Two candidates have one root exactly if merging decisions connect them.
LEMMA RootsAreComponents ==
    ASSUME Same \subseteq Pairs
    PROVE  /\ Roots \in [Candidates -> Candidates]
           /\ \A c, d \in Candidates : Roots[c] = Roots[d] <=> Connected(c, d)
           /\ \A p \in Same : Roots[p[1]] = Roots[p[2]]
PROOF
<1>1. PICK s : s = Merges
    OBVIOUS
<1>2. s \in Seq(Pairs) /\ ToSet(s) = Same
  <2>1. s \in Seq(Same) /\ ToSet(s) = Same
    BY <1>1, PairsInOrder DEF Merges, Same
  <2> QED
    BY <2>1
<1>3. PICK rep \in [Candidates -> Candidates] :
             /\ rep = FoldLeft(Union, [c \in Candidates |-> c], s)
             /\ \A p \in ToSet(s) : rep[p[1]] = rep[p[2]]
             /\ \A S \in SUBSET Candidates : Closed(S, ToSet(s)) =>
                    \A c, d \in Candidates : rep[c] = rep[d] => (c \in S <=> d \in S)
    BY <1>2, RootsJoin
<1>4. Roots = rep
    BY <1>1, <1>3 DEF Roots
<1>5. \A c, d : Connected(c, d) <=>
          \A S \in SUBSET Candidates : c \in S /\ Closed(S, Same) => d \in S
    BY DEF Connected, Closed, Same
<1>6. ASSUME NEW c \in Candidates, NEW d \in Candidates, rep[c] = rep[d] PROVE Connected(c, d)
    BY <1>2, <1>3, <1>5, <1>6
<1>7. ASSUME NEW c \in Candidates, NEW d \in Candidates, Connected(c, d) PROVE rep[c] = rep[d]
  <2>1. PICK S : S = {x \in Candidates : rep[x] = rep[c]}
    OBVIOUS
  <2>2. Closed(S, Same)
    <3>1. \A p \in Same : p[1] \in Candidates /\ p[2] \in Candidates /\ rep[p[1]] = rep[p[2]]
      BY <1>2, <1>3, PairsAreFinite
    <3> QED
      BY <2>1, <3>1 DEF Closed
  <2>3. S \in SUBSET Candidates /\ c \in S
    BY <2>1
  <2>4. d \in S
    BY <1>5, <1>7, <2>2, <2>3
  <2> QED
    BY <2>1, <2>4
<1> QED
    BY <1>2, <1>3, <1>4, <1>6, <1>7

-----------------------------------------------------------------------------
(* Canonical records.                                                      *)

\* Components partition the candidates by their roots.
LEMMA ComponentFacts ==
    ASSUME NEW rep \in [Candidates -> Candidates]
    PROVE  /\ \A S \in ComponentsOf(rep) : /\ S \in SUBSET Candidates /\ S # {}
                                           /\ \A c \in S : S = {d \in Candidates : rep[d] = rep[c]}
           /\ \A c \in Candidates : {d \in Candidates : rep[d] = rep[c]} \in ComponentsOf(rep)
           /\ IsFiniteSet(ComponentsOf(rep))
PROOF
<1>1. \A S : S \in ComponentsOf(rep) <=>
          \E d \in Candidates : S = {c \in Candidates : rep[c] = rep[d]}
    BY DEF ComponentsOf
<1>2. ASSUME NEW S \in ComponentsOf(rep)
      PROVE  /\ S \in SUBSET Candidates /\ S # {}
             /\ \A c \in S : S = {d \in Candidates : rep[d] = rep[c]}
  <2>1. PICK d \in Candidates : S = {c \in Candidates : rep[c] = rep[d]}
    BY <1>1
  <2>2. d \in S /\ S \in SUBSET Candidates
    BY <2>1
  <2>3. \A c \in S : S = {x \in Candidates : rep[x] = rep[c]}
    BY <2>1
  <2> QED
    BY <2>2, <2>3
<1>3. ComponentsOf(rep) \in SUBSET (SUBSET Candidates)
    BY <1>2
<1>4. IsFiniteSet(SUBSET Candidates)
    BY CandidatesAreNumbers, FS_SUBSET
<1>5. IsFiniteSet(ComponentsOf(rep))
    BY <1>3, <1>4, FS_Subset
<1> QED
    BY <1>1, <1>2, <1>5

\* The k-th record has the members of a component, and each component a record.
LEMMA CanonicalProperties ==
    ASSUME Indexed, NEW rep \in [Candidates -> Candidates]
    PROVE  \E cs : /\ cs = Canonical(rep) /\ Len(cs) \in Nat
                   /\ cs \in Seq({Members(S) : S \in ComponentsOf(rep)})
                   /\ \A S \in ComponentsOf(rep) : \E k \in 1..Len(cs) : cs[k] = Members(S)
                   /\ \A k, l \in 1..Len(cs) : cs[k] = cs[l] => k = l
                   /\ \A k, l \in 1..Len(cs) : k < l <=> Earlier(cs[k][1], cs[l][1])
PROOF
<1>1. PICK M : M = {Members(S) : S \in ComponentsOf(rep)}
    OBVIOUS
<1>2. IsFiniteSet(M)
  <2>1. PICK f : f = [S \in ComponentsOf(rep) |-> Members(S)]
    OBVIOUS
  <2>2. f \in Surjection(ComponentsOf(rep), M)
    BY <1>1, <2>1 DEF Surjection
  <2> QED
    BY <2>2, ComponentFacts, FS_Surjection
<1>3. PICK R : R = {z \in M \X M : Earlier(z[1][1], z[2][1])}
    OBVIOUS
<1>4. \A m, n \in M : <<m, n>> \in R <=> Earlier(m[1], n[1])
    BY <1>3
<1>5. ASSUME NEW m \in M
      PROVE  \E S \in ComponentsOf(rep) : m = Members(S) /\ m[1] \in S
  <2>1. PICK S \in ComponentsOf(rep) : m = Members(S)
    BY <1>1
  <2>2. S \in SUBSET Candidates /\ S # {}
    BY ComponentFacts
  <2>3. m \in Seq(S) /\ ToSet(m) = S
    BY <2>1, <2>2, MembersProperties
  <2>4. Len(m) # 0
    BY <2>2, <2>3 DEF ToSet
  <2>5. m[1] \in S
    BY <2>3, <2>4
  <2> QED
    BY <2>1, <2>5
<1>6. ASSUME NEW m \in M, NEW n \in M, m[1] = n[1] PROVE m = n
  <2>1. PICK S \in ComponentsOf(rep) : m = Members(S) /\ m[1] \in S
    BY <1>5
  <2>2. PICK T \in ComponentsOf(rep) : n = Members(T) /\ n[1] \in T
    BY <1>5
  <2>3. S = {d \in Candidates : rep[d] = rep[m[1]]} /\ T = {d \in Candidates : rep[d] = rep[n[1]]}
    BY <2>1, <2>2, ComponentFacts
  <2> QED
    BY <1>6, <2>1, <2>2, <2>3
<1>7. \A m \in M : m[1] \in Candidates
    BY <1>5, ComponentFacts
<1>8. IsStrictOrder(M, R)
  <2>1. \A m \in M : <<m, m>> \notin R
    BY <1>4, <1>7, TextOrder
  <2>2. ASSUME NEW m \in M, NEW n \in M, NEW o \in M, <<m, n>> \in R, <<n, o>> \in R
        PROVE  <<m, o>> \in R
    BY <1>4, <1>7, <2>2, TextOrder
  <2>3. ASSUME NEW m \in M, NEW n \in M PROVE m = n \/ <<m, n>> \in R \/ <<n, m>> \in R
    BY <1>4, <1>6, <1>7, TextOrder
  <2> QED
    BY <2>1, <2>2, <2>3 DEF IsStrictOrder
<1>9. PICK cs : cs = Canonical(rep)
    OBVIOUS
<1>10. cs = [k \in 1..Cardinality(M) |->
               CHOOSE m \in M : Cardinality({n \in M : Earlier(n[1], m[1])}) = k - 1]
    BY <1>1, <1>9 DEF Canonical, SortedBy
<1>11. \A m \in M : {n \in M : <<n, m>> \in R} = {n \in M : Earlier(n[1], m[1])}
    BY <1>4
<1>12. Enumerates(M, R, cs)
  <2>1. ASSUME NEW k \in 1..Cardinality(M)
        PROVE  cs[k] \in M /\ Cardinality({n \in M : <<n, cs[k]>> \in R}) = k - 1
    <3>1. \E m \in M : Cardinality({n \in M : <<n, m>> \in R}) = k - 1
      BY <1>2, <1>8, PlacesAreTaken
    <3>2. \E m \in M : Cardinality({n \in M : Earlier(n[1], m[1])}) = k - 1
      BY <1>11, <3>1
    <3>3. cs[k] \in M /\ Cardinality({n \in M : Earlier(n[1], cs[k][1])}) = k - 1
      BY <1>10, <3>2
    <3> QED
      BY <1>11, <3>3
  <2>2. cs \in [1..Cardinality(M) -> M]
    BY <1>10, <2>1
  <2> QED
    BY <2>1, <2>2 DEF Enumerates
<1>13. /\ cs \in Seq(M) /\ DOMAIN cs = 1..Len(cs) /\ ToSet(cs) = M
       /\ \A j, k \in 1..Len(cs) : cs[j] = cs[k] => j = k
       /\ \A j, k \in 1..Len(cs) : j < k <=> <<cs[j], cs[k]>> \in R
    BY <1>2, <1>8, <1>12, EnumerationProperties
<1>14. \A k \in 1..Len(cs) : cs[k] \in M
    BY <1>13
<1>15. \A j, k \in 1..Len(cs) : j < k <=> Earlier(cs[j][1], cs[k][1])
    BY <1>4, <1>13, <1>14
<1>16. \A S \in ComponentsOf(rep) : \E k \in 1..Len(cs) : cs[k] = Members(S)
    BY <1>1, <1>13 DEF ToSet
<1>17. cs \in Seq({Members(S) : S \in ComponentsOf(rep)}) /\ Len(cs) \in Nat
    BY <1>1, <1>13
<1> QED
    BY <1>9, <1>13, <1>15, <1>16, <1>17

\* What later lemmas need of canonical records cs.
Records(rep, cs) ==
    /\ cs \in Seq(Seq(Candidates) \ {<<>>})
    /\ \A k \in 1..Len(cs) : \A c \in ToSet(cs[k]) :
           ToSet(cs[k]) = {d \in Candidates : rep[d] = rep[c]}
    /\ \A c \in Candidates : \E k \in 1..Len(cs) : c \in ToSet(cs[k])
    /\ \A k, l \in 1..Len(cs) : ToSet(cs[k]) = ToSet(cs[l]) => k = l
    /\ \A k, l \in 1..Len(cs) : k < l <=> Earlier(cs[k][1], cs[l][1])
    /\ \A k \in 1..Len(cs) : \A i, j \in 1..Len(cs[k]) : i < j <=> Earlier(cs[k][i], cs[k][j])

\* The records cut from a partition of the candidates: one per component, each with the
\* component's candidates in the order of the text.
LEMMA CanonicalRecords ==
    ASSUME Indexed, NEW rep \in [Candidates -> Candidates]
    PROVE  Records(rep, Canonical(rep))
PROOF
<1>1. PICK cs : /\ cs = Canonical(rep) /\ Len(cs) \in Nat
                /\ cs \in Seq({Members(S) : S \in ComponentsOf(rep)})
                /\ \A S \in ComponentsOf(rep) : \E k \in 1..Len(cs) : cs[k] = Members(S)
                /\ \A k, l \in 1..Len(cs) : cs[k] = cs[l] => k = l
                /\ \A k, l \in 1..Len(cs) : k < l <=> Earlier(cs[k][1], cs[l][1])
    BY CanonicalProperties
<1>2. ASSUME NEW k \in 1..Len(cs)
      PROVE  \E S \in ComponentsOf(rep) :
               /\ cs[k] = Members(S) /\ ToSet(cs[k]) = S /\ cs[k] \in Seq(Candidates) \ {<<>>}
               /\ \A i, j \in 1..Len(cs[k]) : i < j <=> Earlier(cs[k][i], cs[k][j])
  <2>1. cs[k] \in {Members(S) : S \in ComponentsOf(rep)}
    BY <1>1
  <2>2. PICK S \in ComponentsOf(rep) : cs[k] = Members(S)
    BY <2>1
  <2>3. S \in SUBSET Candidates /\ S # {}
    BY ComponentFacts
  <2>4. PICK m : m = cs[k]
    OBVIOUS
  <2>5. m \in Seq(S) /\ ToSet(m) = S /\ \A i, j \in 1..Len(m) : i < j <=> Earlier(m[i], m[j])
    BY <2>2, <2>3, <2>4, MembersProperties
  <2>6. m \in Seq(Candidates) /\ m # <<>>
    BY <2>3, <2>5 DEF ToSet
  <2> QED
    BY <2>2, <2>4, <2>5, <2>6
<1>3. cs \in Seq(Seq(Candidates) \ {<<>>})
  <2>1. \A k \in 1..Len(cs) : cs[k] \in Seq(Candidates) \ {<<>>}
    BY <1>2
  <2>2. cs = [k \in 1..Len(cs) |-> cs[k]]
    BY <1>1
  <2>3. cs \in [1..Len(cs) -> Seq(Candidates) \ {<<>>}]
    BY <2>1, <2>2
  <2> QED
    BY <1>1, <2>3
<1>4. \A k \in 1..Len(cs) : \A c \in ToSet(cs[k]) :
          ToSet(cs[k]) = {d \in Candidates : rep[d] = rep[c]}
    BY <1>2, ComponentFacts
<1>5. ASSUME NEW c \in Candidates PROVE \E k \in 1..Len(cs) : c \in ToSet(cs[k])
  <2>0. PICK S : S = {d \in Candidates : rep[d] = rep[c]}
    OBVIOUS
  <2>1. S \in ComponentsOf(rep) /\ c \in S
    BY <2>0, ComponentFacts
  <2>2. PICK k \in 1..Len(cs) : cs[k] = Members(S)
    BY <1>1, <2>1
  <2>3. S \in SUBSET Candidates
    BY <2>0
  <2>4. ToSet(Members(S)) = S
    BY <2>3, MembersProperties
  <2>5. ToSet(cs[k]) = S
    BY <2>2, <2>4
  <2> QED
    BY <2>1, <2>5
<1>6. ASSUME NEW k \in 1..Len(cs), NEW l \in 1..Len(cs), ToSet(cs[k]) = ToSet(cs[l]) PROVE k = l
  <2>1. cs[k] = Members(ToSet(cs[k])) /\ cs[l] = Members(ToSet(cs[l]))
    BY <1>2
  <2> QED
    BY <1>1, <1>6, <2>1
<1>7. \A k \in 1..Len(cs) : \A i, j \in 1..Len(cs[k]) : i < j <=> Earlier(cs[k][i], cs[k][j])
    BY <1>2
<1>8. \A k, l \in 1..Len(cs) : ToSet(cs[k]) = ToSet(cs[l]) => k = l
    BY <1>6
<1>9. \A k, l \in 1..Len(cs) : k < l <=> Earlier(cs[k][1], cs[l][1])
    BY <1>1
<1>10. Records(rep, cs)
    BY <1>3, <1>4, <1>5, <1>7, <1>8, <1>9 DEF Records
<1> QED
    BY <1>1, <1>10

\* A candidate's id is the number of the one record that has it.
LEMMA IdsAreOfRoots ==
    ASSUME NEW rep \in [Candidates -> Candidates], NEW cs, Records(rep, cs)
    PROVE  /\ Len(cs) \in Nat /\ DOMAIN cs = 1..Len(cs)
           /\ \A c \in Candidates : IdOf(cs, c) \in 1..Len(cs) /\ c \in ToSet(cs[IdOf(cs, c)])
           /\ \A k \in 1..Len(cs) : \A c \in ToSet(cs[k]) : c \in Candidates /\ IdOf(cs, c) = k
           /\ \A c, d \in Candidates : IdOf(cs, c) = IdOf(cs, d) <=> rep[c] = rep[d]
PROOF
<1>1. cs \in Seq(Seq(Candidates) \ {<<>>}) /\ Len(cs) \in Nat /\ DOMAIN cs = 1..Len(cs)
    BY DEF Records
<1>2. \A k \in 1..Len(cs) : \A c : Contains(cs[k], c) <=> c \in ToSet(cs[k])
  <2>1. \A k \in 1..Len(cs) : cs[k] \in Seq(Candidates)
    BY <1>1
  <2>2. \A k \in 1..Len(cs) : DOMAIN cs[k] = 1..Len(cs[k])
    BY <2>1
  <2> QED
    BY <2>2 DEF Contains, ToSet
<1>3. ASSUME NEW c \in Candidates
      PROVE  IdOf(cs, c) \in 1..Len(cs) /\ c \in ToSet(cs[IdOf(cs, c)])
  <2>1. \E k \in DOMAIN cs : Contains(cs[k], c)
    BY <1>1, <1>2 DEF Records
  <2>2. IdOf(cs, c) \in DOMAIN cs /\ Contains(cs[IdOf(cs, c)], c)
    BY <2>1 DEF IdOf
  <2> QED
    BY <1>1, <1>2, <2>2
<1>4. ASSUME NEW k \in 1..Len(cs), NEW c \in ToSet(cs[k])
      PROVE  c \in Candidates /\ IdOf(cs, c) = k
  <2>1. c \in Candidates
    BY <1>1 DEF Records
  <2>2. PICK l : l = IdOf(cs, c)
    OBVIOUS
  <2>3. l \in 1..Len(cs) /\ c \in ToSet(cs[l])
    BY <1>3, <2>1, <2>2
  <2>4. ToSet(cs[l]) = ToSet(cs[k])
    BY <2>3 DEF Records
  <2> QED
    BY <2>1, <2>2, <2>3, <2>4 DEF Records
<1>5. ASSUME NEW c \in Candidates, NEW d \in Candidates
      PROVE  IdOf(cs, c) = IdOf(cs, d) <=> rep[c] = rep[d]
  <2>1. PICK k \in 1..Len(cs) : k = IdOf(cs, c) /\ c \in ToSet(cs[k])
    BY <1>3
  <2>2. PICK l \in 1..Len(cs) : l = IdOf(cs, d) /\ d \in ToSet(cs[l])
    BY <1>3
  <2>3. ToSet(cs[k]) = {x \in Candidates : rep[x] = rep[c]}
    BY <2>1 DEF Records
  <2>4. CASE rep[c] = rep[d]
    <3>1. d \in ToSet(cs[k])
      BY <2>3, <2>4
    <3> QED
      BY <1>4, <2>1, <2>2, <2>4, <3>1
  <2>5. CASE k = l
    BY <2>1, <2>2, <2>3, <2>5
  <2> QED
    BY <2>1, <2>2, <2>4, <2>5
<1> QED
    BY <1>1, <1>3, <1>4, <1>5

-----------------------------------------------------------------------------
(* Evidence.                                                               *)

\* The elements of a sequence with one more, and of two after one another.
LEMMA ToSetOfAppend ==
    ASSUME NEW T, NEW b \in Seq(T), NEW p \in T
    PROVE  Append(b, p) \in Seq(T) /\ ToSet(Append(b, p)) = ToSet(b) \union {p}
           /\ Len(Append(b, p)) = Len(b) + 1 /\ Len(b) \in Nat
PROOF
<1>1. Append(b, p) \in Seq(T) /\ Len(Append(b, p)) = Len(b) + 1 /\ Len(b) \in Nat
    OBVIOUS
<1>2. \A k \in 1..Len(b) : Append(b, p)[k] = b[k]
    OBVIOUS
<1>3. Append(b, p)[Len(b) + 1] = p
    OBVIOUS
<1>4. ToSet(Append(b, p)) \subseteq ToSet(b) \union {p}
    BY <1>1, <1>2, <1>3 DEF ToSet
<1>5. ToSet(b) \union {p} \subseteq ToSet(Append(b, p))
    BY <1>1, <1>2, <1>3 DEF ToSet
<1> QED
    BY <1>1, <1>4, <1>5

\* The elements of a concatenation are those of its parts.
LEMMA ToSetOfConcat ==
    ASSUME NEW T, NEW a \in Seq(T), NEW b \in Seq(T)
    PROVE  a \o b \in Seq(T) /\ ToSet(a \o b) = ToSet(a) \union ToSet(b)
PROOF
<1>1. PICK c : c = a \o b
    OBVIOUS
<1>2. /\ c \in Seq(T) /\ Len(c) = Len(a) + Len(b) /\ Len(a) \in Nat /\ Len(b) \in Nat
      /\ \A k \in 1..Len(c) : c[k] = IF k \leq Len(a) THEN a[k] ELSE b[k - Len(a)]
    BY <1>1
<1>3. ToSet(c) \subseteq ToSet(a) \union ToSet(b)
  <2> SUFFICES ASSUME NEW k \in 1..Len(c) PROVE c[k] \in ToSet(a) \union ToSet(b)
    BY <1>2 DEF ToSet
  <2>1. CASE k \leq Len(a)
    BY <1>2, <2>1 DEF ToSet
  <2>2. CASE ~(k \leq Len(a))
    <3>1. k - Len(a) \in 1..Len(b)
      BY <1>2, <2>2
    <3> QED
      BY <1>2, <2>2, <3>1 DEF ToSet
  <2> QED
    BY <2>1, <2>2
<1>4. ToSet(a) \subseteq ToSet(c)
  <2> SUFFICES ASSUME NEW k \in 1..Len(a) PROVE a[k] \in ToSet(c)
    BY DEF ToSet
  <2>1. k \in 1..Len(c) /\ c[k] = a[k]
    BY <1>2
  <2> QED
    BY <1>2, <2>1 DEF ToSet
<1>5. ToSet(b) \subseteq ToSet(c)
  <2> SUFFICES ASSUME NEW k \in 1..Len(b) PROVE b[k] \in ToSet(c)
    BY DEF ToSet
  <2>1. PICK j : j = Len(a) + k
    OBVIOUS
  <2>2. j \in 1..Len(c) /\ ~(j \leq Len(a)) /\ j - Len(a) = k
    BY <1>2, <2>1
  <2>3. c[j] = b[k] /\ j \in DOMAIN c
    BY <1>2, <2>2
  <2> QED
    BY <2>3 DEF ToSet
<1> QED
    BY <1>1, <1>2, <1>3, <1>4, <1>5

\* Keeping first occurrences keeps each element, once.
LEMMA DedupedProperties ==
    ASSUME NEW T, NEW s \in Seq(T)
    PROVE  /\ Deduped(s) \in Seq(T)
           /\ IsInjective(Deduped(s))
           /\ ToSet(Deduped(s)) = ToSet(s)
PROOF
<1> DEFINE V == Seq(T)
           G == [x \in V \X T |-> FirstOccurrence(x[1], x[2])]
           it == CHOOSE it : it = [t \in SUBSET DOMAIN s |->
                     IF t = {} THEN <<>> ELSE FirstOccurrence(it[t \ {Max(t)}], s[Max(t)])]
<1>1. /\ Len(s) \in Nat /\ DOMAIN s = 1..Len(s) /\ \A k \in 1..Len(s) : s[k] \in T
      /\ ToSet(s) = {s[k] : k \in 1..Len(s)}
    BY DEF ToSet
<1>2. Deduped(s) = it[DOMAIN s]
    BY DEF Deduped, FoldLeft, MapThenFoldSet
<1>3. G \in [V \X T -> V] /\ \A v \in V, x \in T : G[<<v, x>>] = FirstOccurrence(v, x)
  <2>1. \A v \in V, x \in T : FirstOccurrence(v, x) \in V
    BY DEF FirstOccurrence
  <2> HIDE DEF V
  <2> QED
    BY <2>1
<1>4. <<>> \in V
    OBVIOUS
<1> HIDE DEF G, V
<1>5. it = [t \in SUBSET DOMAIN s |->
               IF t = {} THEN <<>> ELSE FirstOccurrence(it[t \ {Max(t)}], s[Max(t)])]
  <2>1. FoldsOf(V, G, <<>>, s) # {}
    BY <1>3, <1>4, FoldExists
  <2>2. PICK g : g \in FoldsOf(V, G, <<>>, s)
    BY <2>1
  <2>3. /\ g \in [SUBSET (1..Len(s)) -> V]
        /\ \A t \in SUBSET (1..Len(s)) :
               g[t] = IF t = {} THEN <<>> ELSE G[<<g[t \ {Max(t)}], s[Max(t)]>>]
    BY <2>2 DEF FoldsOf
  <2>4. ASSUME NEW t \in SUBSET (1..Len(s)), t # {}
        PROVE  g[t] = FirstOccurrence(g[t \ {Max(t)}], s[Max(t)])
    <3>1. Max(t) \in 1..Len(s)
      BY <1>1, <2>4, MaxProperties
    <3>2. s[Max(t)] \in T /\ g[t \ {Max(t)}] \in V
      BY <1>1, <2>3, <3>1
    <3> QED
      BY <1>3, <2>3, <2>4, <3>2
  <2>5. g = [t \in SUBSET DOMAIN s |->
               IF t = {} THEN <<>> ELSE FirstOccurrence(g[t \ {Max(t)}], s[Max(t)])]
    BY <1>1, <2>3, <2>4
  <2> QED
    BY <2>5, Zenon
<1> HIDE DEF it
<1>6. FoldEquation(V, G, <<>>, s, it)
  <2> SUFFICES ASSUME NEW t \in SUBSET (1..Len(s))
               PROVE  /\ t = {} => it[t] = <<>>
                      /\ t # {} /\ it[t \ {Max(t)}] \in V =>
                             it[t] = G[<<it[t \ {Max(t)}], s[Max(t)]>>]
    BY DEF FoldEquation
  <2>1. it[t] = IF t = {} THEN <<>> ELSE FirstOccurrence(it[t \ {Max(t)}], s[Max(t)])
    BY <1>1, <1>5
  <2>2. t # {} => s[Max(t)] \in T
    BY <1>1, MaxProperties
  <2> QED
    BY <1>3, <2>1, <2>2
<1>7. Reaches(V, G, <<>>, s, it[1..Len(s)])
  <2>1. CanFold(V, T, G, <<>>, s)
    BY <1>3, <1>4 DEF CanFold
  <2> QED
    BY <1>6, <2>1, FoldSteps
<1>8. PICK h : FoldsAlong(V, G, <<>>, s, h) /\ h[Len(s)] = Deduped(s)
    BY <1>1, <1>2, <1>7 DEF Reaches
<1>9. /\ h \in [0..Len(s) -> V] /\ h[0] = <<>>
      /\ \A n \in 1..Len(s) : h[n] = G[<<h[n - 1], s[n]>>]
    BY <1>8 DEF FoldsAlong
<1> DEFINE Good(n) == IsInjective(h[n]) /\ ToSet(h[n]) = {s[k] : k \in 1..n}
           E == {n \in Nat : n \leq Len(s) => Good(n)}
<1>10. 0 \in E
  <2>1. IsInjective(<<>>) /\ ToSet(<<>>) = {} /\ 1..0 = {}
    BY DEF IsInjective, ToSet
  <2> QED
    BY <1>9, <2>1
<1>11. ASSUME NEW n \in Nat, n \in E PROVE n + 1 \in E
  <2> SUFFICES ASSUME n + 1 \leq Len(s) PROVE Good(n + 1)
    OBVIOUS
  <2>1. n \leq Len(s) /\ n + 1 \in 1..Len(s) /\ n \in 0..Len(s) /\ (n + 1) - 1 = n
    BY <1>1
  <2>2. PICK e \in Seq(T) : e = h[n]
    BY <1>9, <2>1 DEF V
  <2>3. PICK x \in T : x = s[n + 1]
    BY <1>1, <2>1
  <2>4. h[n + 1] = FirstOccurrence(e, x)
    BY <1>3, <1>9, <2>1, <2>2, <2>3 DEF V
  <2>5. IsInjective(e) /\ ToSet(e) = {s[k] : k \in 1..n}
    BY <1>11, <2>1, <2>2
  <2>6. {s[k] : k \in 1..(n + 1)} = ToSet(e) \union {x}
    BY <2>3, <2>5
  <2>7. Contains(e, x) <=> x \in ToSet(e)
    BY DEF Contains, ToSet
  <2>8. CASE Contains(e, x)
    BY <2>4, <2>5, <2>6, <2>7, <2>8 DEF FirstOccurrence
  <2>9. CASE ~Contains(e, x)
    <3>1. h[n + 1] = Append(e, x)
      BY <2>4, <2>9 DEF FirstOccurrence
    <3>2. ToSet(Append(e, x)) = ToSet(e) \union {x}
      BY ToSetOfAppend
    <3>3. \A k \in 1..Len(e) : e[k] # x
      BY <2>9 DEF Contains
    <3>4. IsInjective(Append(e, x))
      BY <2>5, <3>3 DEF IsInjective
    <3> QED
      BY <2>6, <3>1, <3>2, <3>4
  <2> QED
    BY <2>8, <2>9
<1>12. Nat \subseteq E
  <2> HIDE DEF E
  <2> QED
    BY <1>10, <1>11, SetInduction
<1>13. Good(Len(s))
  <2> HIDE DEF Good
  <2> QED
    BY <1>1, <1>12
<1>14. h[Len(s)] \in Seq(T)
    BY <1>1, <1>9 DEF V
<1> QED
    BY <1>1, <1>8, <1>13, <1>14

\* A record has the evidence of all its members, each once.
LEMMA EvidenceOfProperties ==
    ASSUME Indexed, NEW s \in Seq(Candidates)
    PROVE  /\ IsInjective(EvidenceOf(s))
           /\ ToSet(EvidenceOf(s)) = UNION {ToSet(index[c].evidence) : c \in ToSet(s)}
PROOF
<1> DEFINE V == Seq(Evidence)
           G == [x \in V \X Candidates |-> WithEvidence(x[1], x[2])]
           it == CHOOSE it : it = [t \in SUBSET DOMAIN s |->
                     IF t = {} THEN <<>> ELSE WithEvidence(it[t \ {Max(t)}], s[Max(t)])]
<1>0. \A c \in Candidates : index[c].evidence \in Seq(Evidence)
    BY IndexFacts
<1>1. /\ Len(s) \in Nat /\ DOMAIN s = 1..Len(s) /\ \A k \in 1..Len(s) : s[k] \in Candidates
      /\ ToSet(s) = {s[k] : k \in 1..Len(s)}
    BY DEF ToSet
<1>2. FoldLeft(WithEvidence, <<>>, s) = it[DOMAIN s]
    BY DEF FoldLeft, MapThenFoldSet
<1>3. G \in [V \X Candidates -> V] /\ \A v \in V, x \in Candidates : G[<<v, x>>] = WithEvidence(v, x)
  <2>1. \A v \in V, x \in Candidates : WithEvidence(v, x) \in V
    BY <1>0 DEF WithEvidence
  <2> HIDE DEF V
  <2> QED
    BY <2>1
<1>4. <<>> \in V
    OBVIOUS
<1> HIDE DEF G, V
<1>5. it = [t \in SUBSET DOMAIN s |->
               IF t = {} THEN <<>> ELSE WithEvidence(it[t \ {Max(t)}], s[Max(t)])]
  <2>1. FoldsOf(V, G, <<>>, s) # {}
    BY <1>3, <1>4, FoldExists
  <2>2. PICK g : g \in FoldsOf(V, G, <<>>, s)
    BY <2>1
  <2>3. /\ g \in [SUBSET (1..Len(s)) -> V]
        /\ \A t \in SUBSET (1..Len(s)) :
               g[t] = IF t = {} THEN <<>> ELSE G[<<g[t \ {Max(t)}], s[Max(t)]>>]
    BY <2>2 DEF FoldsOf
  <2>4. ASSUME NEW t \in SUBSET (1..Len(s)), t # {}
        PROVE  g[t] = WithEvidence(g[t \ {Max(t)}], s[Max(t)])
    <3>1. Max(t) \in 1..Len(s)
      BY <1>1, <2>4, MaxProperties
    <3>2. s[Max(t)] \in Candidates /\ g[t \ {Max(t)}] \in V
      BY <1>1, <2>3, <3>1
    <3> QED
      BY <1>3, <2>3, <2>4, <3>2
  <2>5. g = [t \in SUBSET DOMAIN s |->
               IF t = {} THEN <<>> ELSE WithEvidence(g[t \ {Max(t)}], s[Max(t)])]
    BY <1>1, <2>3, <2>4
  <2> QED
    BY <2>5, Zenon
<1> HIDE DEF it
<1>6. FoldEquation(V, G, <<>>, s, it)
  <2> SUFFICES ASSUME NEW t \in SUBSET (1..Len(s))
               PROVE  /\ t = {} => it[t] = <<>>
                      /\ t # {} /\ it[t \ {Max(t)}] \in V =>
                             it[t] = G[<<it[t \ {Max(t)}], s[Max(t)]>>]
    BY DEF FoldEquation
  <2>1. it[t] = IF t = {} THEN <<>> ELSE WithEvidence(it[t \ {Max(t)}], s[Max(t)])
    BY <1>1, <1>5
  <2>2. t # {} => s[Max(t)] \in Candidates
    BY <1>1, MaxProperties
  <2> QED
    BY <1>3, <2>1, <2>2
<1>7. Reaches(V, G, <<>>, s, it[1..Len(s)])
  <2>1. CanFold(V, Candidates, G, <<>>, s)
    BY <1>3, <1>4 DEF CanFold
  <2> QED
    BY <1>6, <2>1, FoldSteps
<1>8. PICK h : FoldsAlong(V, G, <<>>, s, h) /\ h[Len(s)] = FoldLeft(WithEvidence, <<>>, s)
    BY <1>1, <1>2, <1>7 DEF Reaches
<1>9. /\ h \in [0..Len(s) -> V] /\ h[0] = <<>>
      /\ \A n \in 1..Len(s) : h[n] = G[<<h[n - 1], s[n]>>]
    BY <1>8 DEF FoldsAlong
<1> DEFINE All(n) == UNION {ToSet(index[s[k]].evidence) : k \in 1..n}
           E == {n \in Nat : n \leq Len(s) => ToSet(h[n]) = All(n)}
<1>10. 0 \in E
  <2>1. ToSet(<<>>) = {} /\ 1..0 = {}
    BY DEF ToSet
  <2> QED
    BY <1>9, <2>1
<1>11. ASSUME NEW n \in Nat, n \in E PROVE n + 1 \in E
  <2> SUFFICES ASSUME n + 1 \leq Len(s) PROVE ToSet(h[n + 1]) = All(n + 1)
    OBVIOUS
  <2>1. n \leq Len(s) /\ n + 1 \in 1..Len(s) /\ n \in 0..Len(s) /\ (n + 1) - 1 = n
    BY <1>1
  <2>2. PICK e \in Seq(Evidence) : e = h[n]
    BY <1>9, <2>1 DEF V
  <2>3. PICK c \in Candidates : c = s[n + 1]
    BY <1>1, <2>1
  <2>4. h[n + 1] = e \o index[c].evidence
    <3>1. h[n + 1] = G[<<e, c>>]
      BY <1>9, <2>1, <2>2, <2>3
    <3>2. e \in V
      BY DEF V
    <3>3. G[<<e, c>>] = WithEvidence(e, c)
      BY <1>3, <3>2
    <3> QED
      BY <3>1, <3>3 DEF WithEvidence
  <2>5. ToSet(e) = All(n)
    BY <1>11, <2>1, <2>2
  <2>6. All(n + 1) = All(n) \union ToSet(index[c].evidence)
    <3>1. 1..(n + 1) = 1..n \union {n + 1}
      OBVIOUS
    <3> QED
      BY <2>3, <3>1
  <2>7. ToSet(e \o index[c].evidence) = ToSet(e) \union ToSet(index[c].evidence)
    BY <1>0, ToSetOfConcat
  <2> QED
    BY <2>4, <2>5, <2>6, <2>7
<1>12. Nat \subseteq E
  <2> HIDE DEF E
  <2> QED
    BY <1>10, <1>11, SetInduction
<1>13. ToSet(h[Len(s)]) = All(Len(s))
  <2> HIDE DEF All
  <2> QED
    BY <1>1, <1>12
<1>14. h[Len(s)] \in Seq(Evidence)
    BY <1>1, <1>9 DEF V
<1>15. All(Len(s)) = UNION {ToSet(index[c].evidence) : c \in ToSet(s)}
    BY <1>1
<1>16. EvidenceOf(s) = Deduped(h[Len(s)])
    BY <1>8 DEF EvidenceOf
<1> HIDE DEF All
<1> QED
    BY <1>13, <1>14, <1>15, <1>16, DedupedProperties

\* What the provider cites for a pair is evidence of its two candidates.
LEMMA SelectedProperties ==
    ASSUME Indexed, NEW p \in Pairs, NEW sel \in Selections, ValidSelection(p, sel)
    PROVE  /\ IsInjective(Selected(p, sel))
           /\ ToSet(Selected(p, sel))
                  \subseteq ToSet(index[p[1]].evidence) \union ToSet(index[p[2]].evidence)
PROOF
<1>1. PICK S : S = ToSet(sel)
    OBVIOUS
<1>2. PICK R : R = {z \in S \X S : SelectorBefore(z[1], z[2])}
    OBVIOUS
<1>3. sel \in Seq({"L", "R"} \X (Nat \ {0})) /\ Len(sel) \in Nat /\ DOMAIN sel = 1..Len(sel)
    BY CitationsAreSelectors
<1>4. \A s \in S : s = <<s[1], s[2]>> /\ s[1] \in {"L", "R"} /\ s[2] \in Nat
  <2>1. \A k \in 1..Len(sel) : sel[k] \in {"L", "R"} \X (Nat \ {0})
    BY <1>3
  <2> QED
    BY <1>1, <1>3, <2>1 DEF ToSet
<1>5. \A s, t \in S : <<s, t>> \in R <=> SelectorBefore(s, t)
    BY <1>2
<1>6. IsFiniteSet(S)
  <2>1. S = Range(sel)
    BY <1>1 DEF ToSet, Range
  <2>2. IsFiniteSet(1..Len(sel))
    BY <1>3, FS_Interval
  <2>3. sel \in Surjection(1..Len(sel), S)
    <3>1. sel = [k \in 1..Len(sel) |-> sel[k]]
      BY <1>3
    <3>2. \A k \in 1..Len(sel) : sel[k] \in S
      BY <1>1, <1>3 DEF ToSet
    <3>3. sel \in [1..Len(sel) -> S]
      BY <3>1, <3>2
    <3> QED
      BY <1>1, <1>3, <3>3 DEF Surjection, ToSet
  <2> QED
    BY <2>2, <2>3, FS_Surjection
<1>7. /\ \A s \in S : ~SelectorBefore(s, s)
      /\ \A s, t, u \in S : SelectorBefore(s, t) /\ SelectorBefore(t, u) => SelectorBefore(s, u)
      /\ \A s, t \in S : s = t \/ SelectorBefore(s, t) \/ SelectorBefore(t, s)
  <2>1. \A s \in S : ~SelectorBefore(s, s)
    BY <1>4 DEF SelectorBefore
  <2>2. \A s, t, u \in S : SelectorBefore(s, t) /\ SelectorBefore(t, u) => SelectorBefore(s, u)
    BY <1>4 DEF SelectorBefore
  <2>3. \A s, t \in S : s = t \/ SelectorBefore(s, t) \/ SelectorBefore(t, s)
    BY <1>4 DEF SelectorBefore
  <2> QED
    BY <2>1, <2>2, <2>3
<1>8. IsStrictOrder(S, R)
    BY <1>5, <1>7 DEF IsStrictOrder
<1>9. \A s \in S : {t \in S : <<t, s>> \in R} = {t \in S : SelectorBefore(t, s)}
    BY <1>5
<1>10. PICK o : o = SortedBy(S, SelectorBefore)
    OBVIOUS
<1>11. o = [k \in 1..Cardinality(S) |->
              CHOOSE s \in S : Cardinality({t \in S : SelectorBefore(t, s)}) = k - 1]
    BY <1>10 DEF SortedBy
<1>12. ASSUME NEW k \in DOMAIN o PROVE o[k] \in S
  <2>1. k \in 1..Cardinality(S)
    BY <1>11
  <2>2. \E s \in S : Cardinality({t \in S : <<t, s>> \in R}) = k - 1
    BY <1>6, <1>8, <2>1, PlacesAreTaken
  <2>3. \E s \in S : Cardinality({t \in S : SelectorBefore(t, s)}) = k - 1
    BY <1>9, <2>2
  <2> QED
    BY <1>11, <2>1, <2>3
<1>13. PICK T : T = ToSet(index[p[1]].evidence) \union ToSet(index[p[2]].evidence)
    OBVIOUS
<1>14. ASSUME NEW s \in S PROVE Cited(p, s)[s[2]] \in T
  <2>1. s[2] \in DOMAIN Cited(p, s)
    BY <1>1 DEF ValidSelection
  <2>2. Cited(p, s)[s[2]] \in ToSet(Cited(p, s))
    BY <2>1 DEF ToSet
  <2>3. Cited(p, s) = index[p[1]].evidence \/ Cited(p, s) = index[p[2]].evidence
    BY DEF Cited
  <2> QED
    BY <1>13, <2>2, <2>3
<1>15. PICK e : e = [k \in DOMAIN o |-> Cited(p, o[k])[o[k][2]]]
    OBVIOUS
<1>16. e \in Seq(T)
  <2>1. Cardinality(S) \in Nat
    BY <1>6, FS_CardinalityType
  <2>2. e \in [1..Cardinality(S) -> T]
    BY <1>11, <1>12, <1>14, <1>15
  <2> QED
    BY <2>1, <2>2
<1>17. Selected(p, sel) = Deduped(e)
    BY <1>1, <1>10, <1>15 DEF Selected
<1>18. ToSet(e) \subseteq T
    BY <1>16 DEF ToSet
<1> QED
    BY <1>13, <1>16, <1>17, <1>18, DedupedProperties

-----------------------------------------------------------------------------
(* The states of a relationship.                                           *)

\* A fold goes through values of its own.
LEMMA StepsExist ==
    ASSUME NEW V, NEW T, NEW G, NEW base, NEW s, CanFold(V, T, G, base, s)
    PROVE  \E h : FoldsAlong(V, G, base, s, h)
PROOF
<1>1. FoldsOf(V, G, base, s) # {}
    BY FoldExists DEF CanFold
<1>2. PICK g : g \in FoldsOf(V, G, base, s)
    BY <1>1
<1>3. FoldEquation(V, G, base, s, g)
    BY <1>2 DEF FoldsOf, FoldEquation
<1>4. Reaches(V, G, base, s, g[1..Len(s)])
    BY <1>3, FoldSteps
<1> QED
    BY <1>4 DEF Reaches

\* h puts the sequences of ss after one another.
Flattens(T, ss, h) ==
    /\ h \in [0..Len(ss) -> Seq(T)] /\ h[0] = <<>>
    /\ \A n \in 1..Len(ss) : h[n] = h[n - 1] \o ss[n]

\* FlattenSeq concatenates one part after the other.
LEMMA FlattenSteps ==
    ASSUME NEW T, NEW ss \in Seq(Seq(T))
    PROVE  \E h : Flattens(T, ss, h) /\ h[Len(ss)] = FlattenSeq(ss)
PROOF
<1>1. Len(ss) \in Nat /\ \A n \in 1..Len(ss) : ss[n] \in Seq(T)
    OBVIOUS
<1>2. PICK V : V = Seq(T)
    OBVIOUS
<1>3. PICK G : G = [x \in V \X V |-> x[1] \o x[2]]
    OBVIOUS
<1>4. CanFold(V, V, G, <<>>, ss)
  <2>1. \A x, y \in V : x \o y \in V
    BY <1>2
  <2>2. G \in [V \X V -> V]
    BY <1>3, <2>1
  <2> QED
    BY <1>2, <2>2 DEF CanFold
<1>5. PICK h : FoldsAlong(V, G, <<>>, ss, h)
    BY <1>4, StepsExist
<1>6. /\ h \in [0..Len(ss) -> V] /\ h[0] = <<>>
      /\ \A n \in 1..Len(ss) : h[n] = G[<<h[n - 1], ss[n]>>]
    BY <1>5 DEF FoldsAlong
<1>7. ASSUME NEW n \in 1..Len(ss) PROVE h[n] = h[n - 1] \o ss[n]
  <2>1. n - 1 \in 0..Len(ss)
    BY <1>1, OneBefore
  <2> QED
    BY <1>1, <1>2, <1>3, <1>6, <2>1
<1>8. Flattens(T, ss, h)
    BY <1>2, <1>6, <1>7 DEF Flattens
<1>8a. 1 \in 1..Len(ss) => h[1] = ss[1]
  <2> SUFFICES ASSUME 1 \in 1..Len(ss) PROVE h[1] = ss[1]
    OBVIOUS
  <2>1. h[1] = h[1 - 1] \o ss[1]
    BY <1>7
  <2>2. 1 - 1 = 0
    OBVIOUS
  <2>3. h[1] = h[0] \o ss[1]
    BY <2>1, <2>2
  <2>4. PICK x \in Seq(T) : x = ss[1]
    BY <1>1
  <2>5. <<>> \o x = x
    OBVIOUS
  <2> QED
    BY <1>6, <2>3, <2>4, <2>5
<1>9. CASE Len(ss) = 0
  <2>1. FlattenSeq(ss) = ss /\ ss = <<>>
    BY <1>9 DEF FlattenSeq
  <2> QED
    BY <1>6, <1>8, <1>9, <2>1
<1>10. CASE Len(ss) # 0
  <2> DEFINE f == CHOOSE f : f = [i \in 1..Len(ss) |->
                      IF i = 1 THEN ss[i] ELSE f[i - 1] \o ss[i]]
             E == {n \in Nat : n \in 1..Len(ss) => f[n] = h[n]}
  <2>1. FlattenSeq(ss) = f[Len(ss)]
    BY <1>10 DEF FlattenSeq
  <2>2. f = [i \in 1..Len(ss) |-> IF i = 1 THEN ss[i] ELSE f[i - 1] \o ss[i]]
    <3>1. PICK g : g = [i \in 1..Len(ss) |-> h[i]]
      OBVIOUS
    <3>2. ASSUME NEW i \in 1..Len(ss) PROVE h[i] = IF i = 1 THEN ss[i] ELSE g[i - 1] \o ss[i]
      <4>1. CASE i = 1
        BY <1>8a, <4>1
      <4>2. CASE i # 1
        <5>1. i - 1 \in 1..Len(ss)
          BY <1>1, <4>2
        <5>2. g[i - 1] = h[i - 1]
          BY <3>1, <5>1
        <5> QED
          BY <1>7, <4>2, <5>2
      <4> QED
        BY <4>1, <4>2
    <3>3. g = [i \in 1..Len(ss) |-> IF i = 1 THEN ss[i] ELSE g[i - 1] \o ss[i]]
      BY <3>1, <3>2
    <3> QED
      BY <3>3, Zenon
  <2> HIDE DEF f
  <2>3. 0 \in E
    OBVIOUS
  <2>4. ASSUME NEW n \in Nat, n \in E PROVE n + 1 \in E
    <3> SUFFICES ASSUME NEW m, m = n + 1, m \in 1..Len(ss) PROVE f[m] = h[m]
      OBVIOUS
    <3>1. f[m] = IF m = 1 THEN ss[m] ELSE f[m - 1] \o ss[m]
      BY <2>2
    <3>2. h[m] = h[m - 1] \o ss[m]
      BY <1>7
    <3>3. CASE n = 0
      <4>1. m = 1
        BY <3>3
      <4> QED
        BY <1>8a, <3>1, <4>1
    <3>4. CASE n # 0
      <4>1. m # 1 /\ m - 1 = n /\ n \in 1..Len(ss)
        BY <1>1, <3>4
      <4>2. f[n] = h[n]
        BY <2>4, <4>1
      <4> QED
        BY <3>1, <3>2, <4>1, <4>2
    <3> QED
      BY <3>3, <3>4
  <2>5. Nat \subseteq E
    <3> HIDE DEF E
    <3> QED
      BY <2>3, <2>4, SetInduction
  <2>6. Len(ss) \in Nat /\ Len(ss) \in 1..Len(ss)
    BY <1>1, <1>10
  <2>7. f[Len(ss)] = h[Len(ss)]
    BY <2>5, <2>6
  <2> QED
    BY <1>8, <2>1, <2>7
<1> QED
    BY <1>9, <1>10

\* A sequence of parts with one more part flattens to the flattening with that part behind it.
LEMMA FlattenOneMore ==
    ASSUME NEW T, NEW ss \in Seq(Seq(T)), NEW x \in Seq(T)
    PROVE  /\ FlattenSeq(ss) \in Seq(T)
           /\ FlattenSeq(Append(ss, x)) = FlattenSeq(ss) \o x
PROOF
<1>1. PICK h : Flattens(T, ss, h) /\ h[Len(ss)] = FlattenSeq(ss)
    BY FlattenSteps
<1>2. PICK tt : tt = Append(ss, x)
    OBVIOUS
<1>3. /\ tt \in Seq(Seq(T)) /\ Len(tt) = Len(ss) + 1 /\ Len(ss) \in Nat
      /\ \A n \in 1..Len(ss) : tt[n] = ss[n]
      /\ tt[Len(ss) + 1] = x
    BY <1>2
<1>4. PICK g : Flattens(T, tt, g) /\ g[Len(tt)] = FlattenSeq(tt)
    BY <1>3, FlattenSteps
<1> DEFINE E == {n \in Nat : n \leq Len(ss) => g[n] = h[n]}
<1>5. 0 \in E
    BY <1>1, <1>4 DEF Flattens
<1>6. ASSUME NEW n \in Nat, n \in E PROVE n + 1 \in E
  <2> SUFFICES ASSUME n + 1 \leq Len(ss) PROVE g[n + 1] = h[n + 1]
    OBVIOUS
  <2>1. n \leq Len(ss) /\ n + 1 \in 1..Len(ss) /\ n + 1 \in 1..Len(tt) /\ (n + 1) - 1 = n
    BY <1>3
  <2>2. g[n + 1] = g[n] \o tt[n + 1]
    BY <1>4, <2>1 DEF Flattens
  <2>3. h[n + 1] = h[n] \o ss[n + 1]
    BY <1>1, <2>1 DEF Flattens
  <2> QED
    BY <1>3, <1>6, <2>1, <2>2, <2>3
<1>7. Nat \subseteq E
  <2> HIDE DEF E
  <2> QED
    BY <1>5, <1>6, SetInduction
<1>8. g[Len(ss)] = h[Len(ss)]
    BY <1>3, <1>7
<1>9. g[Len(ss) + 1] = g[Len(ss)] \o x
  <2>1. PICK m, n : m = Len(ss) /\ n = m + 1
    OBVIOUS
  <2>2. n \in 1..Len(tt) /\ n - 1 = m
    BY <1>3, <2>1
  <2>3. g[n] = g[n - 1] \o tt[n]
    BY <1>4, <2>2 DEF Flattens
  <2> QED
    BY <1>3, <2>1, <2>2, <2>3
<1>10. h[Len(ss)] \in Seq(T)
  <2>1. Len(ss) \in 0..Len(ss)
    BY <1>3
  <2> QED
    BY <1>1, <2>1 DEF Flattens
<1> QED
    BY <1>1, <1>2, <1>3, <1>4, <1>8, <1>9, <1>10

\* What the states told so far repeat, when one more is told.
LEMMA RepeatsOfOneMore ==
    ASSUME NEW T, NEW t \in Seq(T), NEW x \in T
    PROVE  /\ Cardinality(Repeats(t)) \in Nat
           /\ t # <<>> /\ t[Len(t)] = x =>
                  Cardinality(Repeats(Append(t, x))) = Cardinality(Repeats(t)) + 1
           /\ ~(t # <<>> /\ t[Len(t)] = x) => Repeats(Append(t, x)) = Repeats(t)
PROOF
<1>1. PICK u, n : u = Append(t, x) /\ n = Len(t)
    OBVIOUS
<1>2. /\ n \in Nat /\ DOMAIN t = 1..n /\ DOMAIN u = 1..(n + 1)
      /\ \A k \in 1..n : u[k] = t[k]
      /\ u[n + 1] = x
      /\ t # <<>> <=> n # 0
    BY <1>1
<1>3. \A k \in 1..n : k > 1 => k - 1 \in 1..n
    BY <1>2
<1>4. /\ Repeats(t) = {k \in 1..n : k > 1 /\ t[k] = t[k - 1]}
      /\ Repeats(u) = {k \in 1..(n + 1) : k > 1 /\ u[k] = u[k - 1]}
    BY <1>2 DEF Repeats
<1>5. \A k \in 1..n : k \in Repeats(u) <=> k \in Repeats(t)
    BY <1>2, <1>3, <1>4
<1>6. n + 1 \in Repeats(u) <=> n # 0 /\ t[n] = x
  <2>1. CASE n = 0
    BY <1>2, <1>4, <2>1
  <2>2. CASE n # 0
    <3>1. n + 1 > 1 /\ n + 1 - 1 = n /\ n \in 1..n /\ n + 1 \in 1..(n + 1)
      BY <1>2, <2>2
    <3>2. u[n] = t[n] /\ u[n + 1] = x
      BY <1>2, <3>1
    <3>3. n + 1 \in Repeats(u) <=> u[n + 1] = u[n]
      BY <1>4, <3>1
    <3> QED
      BY <2>2, <3>2, <3>3
  <2> QED
    BY <2>1, <2>2
<1>7. 1..(n + 1) = 1..n \union {n + 1} /\ n + 1 \notin 1..n
    BY <1>2
<1>8. Repeats(t) \subseteq 1..n /\ Repeats(u) \subseteq 1..(n + 1)
    BY <1>4
<1>9. IsFiniteSet(Repeats(t)) /\ Cardinality(Repeats(t)) \in Nat
  <2>1. IsFiniteSet(1..n)
    BY <1>2, FS_Interval
  <2> QED
    BY <1>8, <2>1, FS_Subset, FS_CardinalityType
<1>10. CASE n # 0 /\ t[n] = x
  <2>1. Repeats(u) = Repeats(t) \union {n + 1} /\ n + 1 \notin Repeats(t)
    BY <1>5, <1>6, <1>7, <1>8, <1>10
  <2>2. Cardinality(Repeats(u)) = Cardinality(Repeats(t)) + 1
    BY <1>9, <2>1, FS_AddElement
  <2> QED
    BY <1>1, <1>2, <1>9, <1>10, <2>2
<1>11. CASE ~(n # 0 /\ t[n] = x)
  <2>1. Repeats(u) = Repeats(t)
    BY <1>5, <1>6, <1>7, <1>8, <1>11
  <2> QED
    BY <1>1, <1>2, <1>9, <1>11, <2>1
<1> QED
    BY <1>10, <1>11

\* Later in the text is of a higher rank.
LEMMA RankFollowsTheText ==
    ASSUME Indexed, NEW c \in Candidates, NEW d \in Candidates
    PROVE  /\ Rank(c) \in Nat /\ Rank(c) > 0
           /\ Earlier(c, d) => Rank(c) < Rank(d)
PROOF
<1> DEFINE Upto(x) == {y \in Candidates : Earlier(y, x) \/ y = x}
<1>1. \A x \in Candidates : IsFiniteSet(Upto(x)) /\ Cardinality(Upto(x)) \in Nat
    BY CandidatesAreNumbers, FS_Subset, FS_CardinalityType
<1>2. \A x \in Candidates : Rank(x) = Cardinality(Upto(x)) /\ x \in Upto(x)
    BY DEF Rank
<1>3. ASSUME Earlier(c, d) PROVE Upto(c) \subseteq Upto(d) \ {d}
    BY <1>3, TextOrder
<1> HIDE DEF Upto
<1>4. Rank(c) \in Nat /\ Rank(c) > 0
  <2>1. Cardinality(Upto(c)) # 0
    BY <1>1, <1>2, FS_EmptySet
  <2> QED
    BY <1>1, <1>2, <2>1
<1>5. ASSUME Earlier(c, d) PROVE Rank(c) < Rank(d)
  <2>1. IsFiniteSet(Upto(d) \ {d}) /\ Cardinality(Upto(d) \ {d}) = Cardinality(Upto(d)) - 1
    BY <1>1, <1>2, FS_RemoveElement
  <2>2. Cardinality(Upto(c)) \leq Cardinality(Upto(d)) - 1
    BY <1>3, <1>5, <2>1, FS_Subset
  <2> QED
    BY <1>1, <1>2, <2>2
<1> QED
    BY <1>4, <1>5

States == {index[c].state : c \in Candidates}
Spells == [state : States, members : Seq(Candidates) \ {<<>>}, order : Nat]

\* What a candidate adds to a history is a spell of its state.
LEMMA ToldIsAHistory ==
    ASSUME Indexed, NEW h \in Seq(Spells), NEW c \in Candidates
    PROVE  Told(h, c) \in Seq(Spells)
PROOF
<1>1. CASE h # <<>> /\ Last(h).state = index[c].state
  <2>1. PICK r \in Spells : r = Last(h)
    BY <1>1 DEF Last
  <2>2. Front(h) \in Seq(Spells)
    BY <1>1 DEF Front
  <2>3. [r EXCEPT !.members = Append(@, c)] \in Spells
    <3>1. PICK s \in Seq(Candidates) : s = r.members
      BY DEF Spells
    <3>2. Append(s, c) \in Seq(Candidates) \ {<<>>}
      OBVIOUS
    <3>3. [r EXCEPT !.members = Append(s, c)] \in Spells
      BY <3>2 DEF Spells
    <3> QED
      BY <3>1, <3>3
  <2> QED
    BY <1>1, <2>1, <2>2, <2>3 DEF Told
<1>2. CASE ~(h # <<>> /\ Last(h).state = index[c].state)
  <2>1. [state |-> index[c].state, members |-> <<c>>, order |-> Rank(c)] \in Spells
    BY RankFollowsTheText DEF Spells, States
  <2> QED
    BY <1>2, <2>1 DEF Told
<1> QED
    BY <1>1, <1>2

\* Appending to a sequence leaves its elements, and appending after a concatenation is appending
\* to its second part.
LEMMA Appending ==
    ASSUME NEW T, NEW f \in Seq(T), NEW r \in T
    PROVE  /\ Len(Append(f, r)) = Len(f) + 1
           /\ Append(f, r)[Len(f) + 1] = r
           /\ \A j \in 1..Len(f) : Append(f, r)[j] = f[j]
           /\ \A a \in Seq(T) : a \o Append(f, r) = Append(a \o f, r)
PROOF
<1>0. Len(Append(f, r)) = Len(f) + 1
    OBVIOUS
<1>1. Append(f, r)[Len(f) + 1] = r
    OBVIOUS
<1>2. \A j \in 1..Len(f) : Append(f, r)[j] = f[j]
    OBVIOUS
<1>3. ASSUME NEW a \in Seq(T) PROVE a \o Append(f, r) = Append(a \o f, r)
    OBVIOUS
<1> QED
    BY <1>0, <1>1, <1>2, <1>3

\* A history is told one member after the other.
LEMMA HistorySteps ==
    ASSUME Indexed, NEW s \in Seq(Candidates)
    PROVE  \E h \in [0..Len(s) -> Seq(Spells)] :
               /\ h[0] = <<>>
               /\ \A n \in 1..Len(s) : h[n] = Told(h[n - 1], s[n])
               /\ h[Len(s)] = History(s)
PROOF
<1> DEFINE V == Seq(Spells)
           G == [x \in V \X Candidates |-> Told(x[1], x[2])]
           it == CHOOSE it : it = [t \in SUBSET DOMAIN s |->
                     IF t = {} THEN <<>> ELSE Told(it[t \ {Max(t)}], s[Max(t)])]
<1>1. Len(s) \in Nat /\ DOMAIN s = 1..Len(s) /\ \A k \in 1..Len(s) : s[k] \in Candidates
    OBVIOUS
<1>2. History(s) = it[DOMAIN s]
    BY DEF History, FoldLeft, MapThenFoldSet
<1>3. G \in [V \X Candidates -> V] /\ \A v \in V, x \in Candidates : G[<<v, x>>] = Told(v, x)
  <2>1. \A v \in V, x \in Candidates : Told(v, x) \in V
    BY ToldIsAHistory
  <2> HIDE DEF V
  <2> QED
    BY <2>1
<1>4. <<>> \in V
    OBVIOUS
<1> HIDE DEF G, V
<1>5. it = [t \in SUBSET DOMAIN s |->
               IF t = {} THEN <<>> ELSE Told(it[t \ {Max(t)}], s[Max(t)])]
  <2>1. FoldsOf(V, G, <<>>, s) # {}
    BY <1>3, <1>4, FoldExists
  <2>2. PICK g : g \in FoldsOf(V, G, <<>>, s)
    BY <2>1
  <2>3. /\ g \in [SUBSET (1..Len(s)) -> V]
        /\ \A t \in SUBSET (1..Len(s)) :
               g[t] = IF t = {} THEN <<>> ELSE G[<<g[t \ {Max(t)}], s[Max(t)]>>]
    BY <2>2 DEF FoldsOf
  <2>4. ASSUME NEW t \in SUBSET (1..Len(s)), t # {}
        PROVE  g[t] = Told(g[t \ {Max(t)}], s[Max(t)])
    <3>1. Max(t) \in 1..Len(s)
      BY <1>1, <2>4, MaxProperties
    <3>2. s[Max(t)] \in Candidates /\ g[t \ {Max(t)}] \in V
      BY <1>1, <2>3, <3>1
    <3> QED
      BY <1>3, <2>3, <2>4, <3>2
  <2>5. g = [t \in SUBSET DOMAIN s |->
               IF t = {} THEN <<>> ELSE Told(g[t \ {Max(t)}], s[Max(t)])]
    BY <1>1, <2>3, <2>4
  <2> QED
    BY <2>5, Zenon
<1> HIDE DEF it
<1>6. FoldEquation(V, G, <<>>, s, it)
  <2> SUFFICES ASSUME NEW t \in SUBSET (1..Len(s))
               PROVE  /\ t = {} => it[t] = <<>>
                      /\ t # {} /\ it[t \ {Max(t)}] \in V =>
                             it[t] = G[<<it[t \ {Max(t)}], s[Max(t)]>>]
    BY DEF FoldEquation
  <2>1. it[t] = IF t = {} THEN <<>> ELSE Told(it[t \ {Max(t)}], s[Max(t)])
    BY <1>1, <1>5
  <2>2. t # {} => s[Max(t)] \in Candidates
    BY <1>1, MaxProperties
  <2> QED
    BY <1>3, <2>1, <2>2
<1>7. Reaches(V, G, <<>>, s, it[1..Len(s)])
  <2>1. CanFold(V, Candidates, G, <<>>, s)
    BY <1>3, <1>4 DEF CanFold
  <2> QED
    BY <1>6, <2>1, FoldSteps
<1>8. PICK h : FoldsAlong(V, G, <<>>, s, h) /\ h[Len(s)] = History(s)
    BY <1>1, <1>2, <1>7 DEF Reaches
<1>9. /\ h \in [0..Len(s) -> V] /\ h[0] = <<>>
      /\ \A n \in 1..Len(s) : h[n] = G[<<h[n - 1], s[n]>>]
    BY <1>8 DEF FoldsAlong
<1>10. ASSUME NEW n \in 1..Len(s) PROVE h[n] = Told(h[n - 1], s[n])
  <2>1. n - 1 \in 0..Len(s)
    BY <1>1, OneBefore
  <2> QED
    BY <1>1, <1>3, <1>9, <2>1
<1> QED
    BY <1>8, <1>9, <1>10 DEF V

\* So are the states its members tell.
LEMMA TellsSteps ==
    ASSUME Indexed, NEW s \in Seq(Candidates)
    PROVE  \E h \in [0..Len(s) -> Seq(States)] :
               /\ h[0] = <<>>
               /\ \A n \in 1..Len(s) : h[n] = TellNext(h[n - 1], s[n])
               /\ h[Len(s)] = Tells(s)
PROOF
<1> DEFINE V == Seq(States)
           G == [x \in V \X Candidates |-> TellNext(x[1], x[2])]
           it == CHOOSE it : it = [t \in SUBSET DOMAIN s |->
                     IF t = {} THEN <<>> ELSE TellNext(it[t \ {Max(t)}], s[Max(t)])]
<1>1. Len(s) \in Nat /\ DOMAIN s = 1..Len(s) /\ \A k \in 1..Len(s) : s[k] \in Candidates
    OBVIOUS
<1>2. Tells(s) = it[DOMAIN s]
    BY DEF Tells, FoldLeft, MapThenFoldSet
<1>3. G \in [V \X Candidates -> V] /\ \A v \in V, x \in Candidates : G[<<v, x>>] = TellNext(v, x)
  <2>1. \A v \in V, x \in Candidates : TellNext(v, x) \in V
    BY DEF TellNext, States
  <2> HIDE DEF V
  <2> QED
    BY <2>1
<1>4. <<>> \in V
    OBVIOUS
<1> HIDE DEF G, V
<1>5. it = [t \in SUBSET DOMAIN s |->
               IF t = {} THEN <<>> ELSE TellNext(it[t \ {Max(t)}], s[Max(t)])]
  <2>1. FoldsOf(V, G, <<>>, s) # {}
    BY <1>3, <1>4, FoldExists
  <2>2. PICK g : g \in FoldsOf(V, G, <<>>, s)
    BY <2>1
  <2>3. /\ g \in [SUBSET (1..Len(s)) -> V]
        /\ \A t \in SUBSET (1..Len(s)) :
               g[t] = IF t = {} THEN <<>> ELSE G[<<g[t \ {Max(t)}], s[Max(t)]>>]
    BY <2>2 DEF FoldsOf
  <2>4. ASSUME NEW t \in SUBSET (1..Len(s)), t # {}
        PROVE  g[t] = TellNext(g[t \ {Max(t)}], s[Max(t)])
    <3>1. Max(t) \in 1..Len(s)
      BY <1>1, <2>4, MaxProperties
    <3>2. s[Max(t)] \in Candidates /\ g[t \ {Max(t)}] \in V
      BY <1>1, <2>3, <3>1
    <3> QED
      BY <1>3, <2>3, <2>4, <3>2
  <2>5. g = [t \in SUBSET DOMAIN s |->
               IF t = {} THEN <<>> ELSE TellNext(g[t \ {Max(t)}], s[Max(t)])]
    BY <1>1, <2>3, <2>4
  <2> QED
    BY <2>5, Zenon
<1> HIDE DEF it
<1>6. FoldEquation(V, G, <<>>, s, it)
  <2> SUFFICES ASSUME NEW t \in SUBSET (1..Len(s))
               PROVE  /\ t = {} => it[t] = <<>>
                      /\ t # {} /\ it[t \ {Max(t)}] \in V =>
                             it[t] = G[<<it[t \ {Max(t)}], s[Max(t)]>>]
    BY DEF FoldEquation
  <2>1. it[t] = IF t = {} THEN <<>> ELSE TellNext(it[t \ {Max(t)}], s[Max(t)])
    BY <1>1, <1>5
  <2>2. t # {} => s[Max(t)] \in Candidates
    BY <1>1, MaxProperties
  <2> QED
    BY <1>3, <2>1, <2>2
<1>7. Reaches(V, G, <<>>, s, it[1..Len(s)])
  <2>1. CanFold(V, Candidates, G, <<>>, s)
    BY <1>3, <1>4 DEF CanFold
  <2> QED
    BY <1>6, <2>1, FoldSteps
<1>8. PICK h : FoldsAlong(V, G, <<>>, s, h) /\ h[Len(s)] = Tells(s)
    BY <1>1, <1>2, <1>7 DEF Reaches
<1>9. /\ h \in [0..Len(s) -> V] /\ h[0] = <<>>
      /\ \A n \in 1..Len(s) : h[n] = G[<<h[n - 1], s[n]>>]
    BY <1>8 DEF FoldsAlong
<1>10. ASSUME NEW n \in 1..Len(s) PROVE h[n] = TellNext(h[n - 1], s[n])
  <2>1. n - 1 \in 0..Len(s)
    BY <1>1, OneBefore
  <2> QED
    BY <1>1, <1>3, <1>9, <2>1
<1> QED
    BY <1>8, <1>9, <1>10 DEF V

\* The state of each spell, once for each of its members.
Spread(h) == [j \in DOMAIN h |-> [n \in DOMAIN h[j].members |-> h[j].state]]

\* One more spell adds one more part to what a history spreads to.
LEMMA SpreadOfAppend ==
    ASSUME NEW h \in Seq(Spells), NEW r \in Spells
    PROVE  /\ Spread(h) \in Seq(Seq(States))
           /\ [n \in DOMAIN r.members |-> r.state] \in Seq(States)
           /\ Spread(Append(h, r)) = Append(Spread(h), [n \in DOMAIN r.members |-> r.state])
PROOF
<1>1. ASSUME NEW x \in Spells PROVE [n \in DOMAIN x.members |-> x.state] \in Seq(States)
  <2>1. x.members \in Seq(Candidates) /\ x.state \in States
    BY DEF Spells
  <2>2. DOMAIN x.members = 1..Len(x.members) /\ Len(x.members) \in Nat
    BY <2>1
  <2> QED
    BY <2>1, <2>2
<1>2. PICK g : g = [x \in Spells |-> [n \in DOMAIN x.members |-> x.state]]
    OBVIOUS
<1>3. \A x \in Spells : g[x] \in Seq(States)
    BY <1>1, <1>2
<1>4. \A u \in Seq(Spells) : Spread(u) = [j \in 1..Len(u) |-> g[u[j]]]
  <2> TAKE u \in Seq(Spells)
  <2>1. DOMAIN u = 1..Len(u) /\ \A j \in 1..Len(u) : u[j] \in Spells
    OBVIOUS
  <2>2. \A j \in 1..Len(u) : g[u[j]] = [n \in DOMAIN u[j].members |-> u[j].state]
    BY <1>2, <2>1
  <2> QED
    BY <2>1, <2>2 DEF Spread
<1>5. ASSUME NEW u \in Seq(Spells) PROVE [j \in 1..Len(u) |-> g[u[j]]] \in Seq(Seq(States))
  <2>1. Len(u) \in Nat /\ \A j \in 1..Len(u) : g[u[j]] \in Seq(States)
    BY <1>3
  <2> QED
    BY <2>1
<1>6. PICK v : v = Append(h, r)
    OBVIOUS
<1>7. /\ v \in Seq(Spells) /\ Len(v) = Len(h) + 1 /\ Len(h) \in Nat
      /\ \A j \in 1..Len(h) : v[j] = h[j]
      /\ v[Len(h) + 1] = r
    BY <1>6
<1>8. PICK a, b, x : /\ a = [j \in 1..Len(h) |-> g[h[j]]]
                     /\ b = [j \in 1..Len(v) |-> g[v[j]]]
                     /\ x = g[r]
    OBVIOUS
<1>9. a \in Seq(Seq(States)) /\ b \in Seq(Seq(States)) /\ x \in Seq(States)
    BY <1>3, <1>5, <1>7, <1>8
<1>10. b = Append(a, x)
  <2>1. Len(a) = Len(h) /\ Len(b) = Len(h) + 1
    BY <1>7, <1>8
  <2>2. \A j \in 1..Len(h) : b[j] = a[j]
    BY <1>7, <1>8
  <2>3. b[Len(h) + 1] = x
    BY <1>7, <1>8
  <2> QED
    BY <1>7, <1>9, <2>1, <2>2, <2>3
<1> QED
    BY <1>1, <1>2, <1>4, <1>6, <1>7, <1>8, <1>9, <1>10

\* A sequence is its front and its last element.
LEMMA FrontAndLast ==
    ASSUME NEW T, NEW s \in Seq(T), s # <<>>
    PROVE  /\ Front(s) \in Seq(T) /\ Last(s) \in T
           /\ s = Append(Front(s), Last(s))
           /\ Len(Front(s)) = Len(s) - 1 /\ Len(s) - 1 \in Nat
           /\ \A k \in 1..(Len(s) - 1) : Front(s)[k] = s[k]
           /\ Last(s) = s[Len(s)]
PROOF
<1>1. Len(s) - 1 \in Nat /\ Len(s) \in 1..Len(s) /\ Len(s) \in Nat
    OBVIOUS
<1>2. PICK f : f = Front(s)
    OBVIOUS
<1>3. f = SubSeq(s, 1, Len(s) - 1)
    BY <1>2 DEF Front
<1>4. f \in Seq(T) /\ Len(f) = Len(s) - 1 /\ \A k \in 1..(Len(s) - 1) : f[k] = s[k]
  <2>1. PICK m \in Nat : m = Len(s) - 1
    BY <1>1
  <2>2. m \leq Len(s) /\ \A k \in 1..m : k \in 1..Len(s)
    BY <1>1, <2>1
  <2>3. f = SubSeq(s, 1, m)
    BY <1>3, <2>1
  <2>4. f \in Seq(T)
    BY <2>2, <2>3
  <2>5. Len(f) = m
    BY <2>2, <2>3
  <2>6. \A k \in 1..m : f[k] = s[k]
    BY <2>2, <2>3
  <2> QED
    BY <2>1, <2>4, <2>5, <2>6
<1>5. Last(s) = s[Len(s)] /\ Last(s) \in T
    BY <1>1 DEF Last
<1>6. s = Append(f, s[Len(s)])
    BY <1>1, <1>4, <1>5
<1> QED
    BY <1>1, <1>2, <1>4, <1>5, <1>6

\* A history h of what was told.
Agree(h, told) ==
    /\ FlattenSeq(Spread(h)) = told
    /\ Len(h) = Len(told) - Cardinality(Repeats(told))
    /\ h = <<>> <=> told = <<>>
    /\ h # <<>> => Last(h).state = told[Len(told)]
    /\ \A j \in 1..Len(h) : j > 1 => h[j - 1].order < h[j].order

\* One more member: told as before, at greater length, or anew.
LEMMA HistoryStep ==
    ASSUME Indexed, NEW h \in Seq(Spells), NEW told \in Seq(States), NEW c \in Candidates,
           Agree(h, told), h # <<>> => Last(h).order < Rank(c)
    PROVE  /\ Agree(Told(h, c), TellNext(told, c))
           /\ Told(h, c) # <<>> => Last(Told(h, c)).order \leq Rank(c)
PROOF
<1>0. Rank(c) \in Nat /\ index[c].state \in States /\ \A r \in Spells : r.order \in Nat
    BY RankFollowsTheText DEF States, Spells
<1>1. PICK x \in States : x = index[c].state
    BY <1>0
<1>2. CASE x = None
  <2>1. Told(h, c) = h /\ TellNext(told, c) = told
    BY <1>1, <1>2 DEF Told, TellNext
  <2>2. h # <<>> => Last(h) \in Spells
    BY FrontAndLast
  <2>3. h # <<>> => Last(h).order \leq Rank(c)
    BY <1>0, <2>2
  <2> QED
    BY <2>1, <2>3
<1>3. PICK u : u = Append(told, x)
    OBVIOUS
<1>4. /\ u \in Seq(States) /\ Len(u) = Len(told) + 1 /\ Len(told) \in Nat
      /\ u # <<>> /\ u[Len(u)] = x
    BY <1>3
<1>5. CASE x # None /\ h # <<>> /\ Last(h).state = x
  <2>1. PICK f \in Seq(Spells), r \in Spells : f = Front(h) /\ r = Last(h)
    BY <1>5, FrontAndLast
  <2>2. /\ h = Append(f, r) /\ Len(f) \in Nat /\ Len(h) = Len(f) + 1
    BY <1>5, <2>1, FrontAndLast
  <2>3. PICK ms \in Seq(Candidates) : ms = r.members
    BY DEF Spells
  <2>4. PICK s : s = [r EXCEPT !.members = Append(ms, c)]
    OBVIOUS
  <2>5. /\ s \in Spells /\ s.members = Append(ms, c) /\ s.state = r.state /\ s.order = r.order
    <3>0. PICK l : l = Append(ms, c)
      OBVIOUS
    <3>1. l \in Seq(Candidates) /\ l # <<>>
      <4>1. l \in Seq(Candidates) /\ Len(l) # 0
        BY <3>0, ToSetOfAppend
      <4> QED
        BY <4>1
    <3>2. s = [r EXCEPT !.members = l]
      BY <2>4, <3>0
    <3> QED
      BY <3>0, <3>1, <3>2 DEF Spells
  <2>6. Told(h, c) = Append(f, s) /\ TellNext(told, c) = u
    BY <1>1, <1>3, <1>5, <2>1, <2>3, <2>4 DEF Told, TellNext
  <2>7. PICK y, z : /\ y = [n \in DOMAIN r.members |-> r.state]
                    /\ z = [n \in DOMAIN s.members |-> s.state]
    OBVIOUS
  <2>8. y \in Seq(States) /\ z \in Seq(States) /\ Spread(f) \in Seq(Seq(States))
        /\ Spread(h) = Append(Spread(f), y) /\ Spread(Append(f, s)) = Append(Spread(f), z)
    BY <2>2, <2>5, <2>7, SpreadOfAppend
  <2>9. z = Append(y, x)
    <3>1. r.state = x
      BY <1>5, <2>1
    <3>2. y = [n \in 1..Len(ms) |-> x] /\ z = [n \in 1..(Len(ms) + 1) |-> x] /\ Len(ms) \in Nat
      BY <2>3, <2>5, <2>7, <3>1
    <3> QED
      BY <2>8, <3>2
  <2>10. PICK sf \in Seq(Seq(States)) : sf = Spread(f)
    BY <2>8
  <2>10a. PICK a \in Seq(States) : a = FlattenSeq(sf)
    BY FlattenOneMore
  <2>10b. FlattenSeq(Append(sf, y)) = a \o y /\ FlattenSeq(Append(sf, z)) = a \o z
    BY <2>8, <2>10a, FlattenOneMore
  <2>11. FlattenSeq(Spread(h)) = a \o y /\ FlattenSeq(Spread(Append(f, s))) = a \o z
    <3>1. Spread(h) = Append(sf, y) /\ Spread(Append(f, s)) = Append(sf, z)
      BY <2>8, <2>10
    <3> QED
      BY <2>10b, <3>1
  <2>12. a \o Append(y, x) = Append(a \o y, x)
    <3>1. y \in Seq(States) /\ a \in Seq(States) /\ x \in States
      BY <2>8
    <3> QED
      BY ONLY <3>1, Appending
  <2>13. FlattenSeq(Spread(Append(f, s))) = u
    BY <1>3, <2>9, <2>11, <2>12 DEF Agree
  <2>14. told # <<>> /\ told[Len(told)] = x
    BY <1>5 DEF Agree
  <2>15. Cardinality(Repeats(u)) = Cardinality(Repeats(told)) + 1 /\ Cardinality(Repeats(told)) \in Nat
    BY <1>3, <2>14, RepeatsOfOneMore
  <2>16. PICK g \in Seq(Spells) : g = Append(f, s)
    BY <2>5, ToSetOfAppend
  <2>17. /\ Len(g) = Len(f) + 1 /\ g # <<>> /\ g[Len(f) + 1] = s /\ h[Len(f) + 1] = r
         /\ \A j \in 1..Len(f) : g[j] = f[j] /\ h[j] = f[j]
    <3>1. Len(g) = Len(f) + 1 /\ g # <<>> /\ g[Len(f) + 1] = s /\ \A j \in 1..Len(f) : g[j] = f[j]
      <4>1. f \in Seq(Spells) /\ s \in Spells /\ g = Append(f, s)
        BY <2>5, <2>16
      <4>2. Len(g) = Len(f) + 1
        BY ONLY <4>1, Appending
      <4>3. g # <<>>
        <5>1. Len(f) + 1 # 0
          BY ONLY <4>1
        <5> QED
          BY ONLY <4>2, <5>1
      <4>4. g[Len(f) + 1] = s
        BY ONLY <4>1, Appending
      <4>5. \A j \in 1..Len(f) : g[j] = f[j]
        BY ONLY <4>1, Appending
      <4> QED
        BY <4>2, <4>3, <4>4, <4>5
    <3>2. h[Len(f) + 1] = r /\ \A j \in 1..Len(f) : h[j] = f[j]
      <4>1. f \in Seq(Spells) /\ r \in Spells /\ h = Append(f, r)
        BY <2>2
      <4> QED
        BY ONLY <4>1, Appending
    <3> QED
      BY <3>1, <3>2
  <2>18. Last(g) = s
    BY <2>16, <2>17, FrontAndLast
  <2>19. Len(g) = Len(u) - Cardinality(Repeats(u))
    BY <1>4, <2>2, <2>15, <2>17 DEF Agree
  <2>20. \A j \in 1..Len(g) : g[j].order = h[j].order
    BY <2>2, <2>5, <2>17
  <2>21. ASSUME NEW j \in 1..Len(g), j > 1 PROVE g[j - 1].order < g[j].order
    <3>1. j - 1 \in 1..Len(g) /\ j \in 1..Len(h)
      BY <2>2, <2>17, <2>21
    <3> QED
      BY <2>20, <2>21, <3>1 DEF Agree
  <2>22. Agree(g, u)
    BY <1>4, <2>13, <2>16, <2>17, <2>18, <2>19, <2>21, <2>5, <1>5, <2>1 DEF Agree
  <2>23. Last(g).order \leq Rank(c)
    BY <1>0, <1>5, <2>1, <2>5, <2>18
  <2> QED
    BY <2>6, <2>16, <2>22, <2>23
<1>6. CASE x # None /\ ~(h # <<>> /\ Last(h).state = x)
  <2>1. PICK r : r = [state |-> x, members |-> <<c>>, order |-> Rank(c)]
    OBVIOUS
  <2>2. r \in Spells /\ r.state = x /\ r.members = <<c>> /\ r.order = Rank(c)
    BY <1>0, <2>1 DEF Spells
  <2>3. Told(h, c) = Append(h, r) /\ TellNext(told, c) = u
    BY <1>1, <1>3, <1>6, <2>1 DEF Told, TellNext
  <2>4. PICK y : y = [n \in DOMAIN r.members |-> r.state]
    OBVIOUS
  <2>5. y \in Seq(States) /\ Spread(h) \in Seq(Seq(States))
        /\ Spread(Append(h, r)) = Append(Spread(h), y)
    BY <2>2, <2>4, SpreadOfAppend
  <2>6. y = <<x>>
    BY <2>2, <2>4
  <2>7. FlattenSeq(Spread(Append(h, r))) = told \o y
    BY <2>5, FlattenOneMore DEF Agree
  <2>8. FlattenSeq(Spread(Append(h, r))) = u
    BY <1>3, <2>6, <2>7
  <2>9. ~(told # <<>> /\ told[Len(told)] = x)
    BY <1>6 DEF Agree
  <2>10. Cardinality(Repeats(u)) = Cardinality(Repeats(told)) /\ Cardinality(Repeats(told)) \in Nat
    BY <1>3, <2>9, RepeatsOfOneMore
  <2>11. PICK g \in Seq(Spells) : g = Append(h, r)
    BY <2>2, ToSetOfAppend
  <2>12. /\ Len(g) = Len(h) + 1 /\ Len(h) \in Nat /\ g # <<>> /\ g[Len(h) + 1] = r
         /\ \A j \in 1..Len(h) : g[j] = h[j]
    BY <2>2, <2>11
  <2>13. Last(g) = r
    BY <2>11, <2>12, FrontAndLast
  <2>14. Len(g) = Len(u) - Cardinality(Repeats(u))
    BY <1>4, <2>10, <2>12 DEF Agree
  <2>15. ASSUME NEW j \in 1..Len(g), j > 1 PROVE g[j - 1].order < g[j].order
    <3>1. CASE j \in 1..Len(h)
      <4>1. j - 1 \in 1..Len(h)
        BY <2>12, <2>15, <3>1
      <4> QED
        BY <2>12, <2>15, <3>1, <4>1 DEF Agree
    <3>2. CASE j \notin 1..Len(h)
      <4>1. j = Len(h) + 1 /\ j - 1 = Len(h) /\ Len(h) \in 1..Len(h) /\ h # <<>>
        BY <2>12, <2>15, <3>2
      <4>2. Last(h) = h[Len(h)]
        BY <4>1, FrontAndLast
      <4>3. g[j - 1].order = Last(h).order /\ g[j].order = Rank(c)
        BY <2>2, <2>12, <4>1, <4>2
      <4> QED
        BY <4>1, <4>3
    <3> QED
      BY <3>1, <3>2
  <2>16. Agree(g, u)
    BY <1>4, <2>2, <2>8, <2>11, <2>12, <2>13, <2>14, <2>15 DEF Agree
  <2>17. Last(g).order \leq Rank(c)
    BY <1>0, <2>2, <2>13
  <2> QED
    BY <2>3, <2>11, <2>16, <2>17
<1> QED
    BY <1>2, <1>5, <1>6

\* The states of a relationship, read off in their order, are what its
\* members tell.
LEMMA HistoryProperties ==
    ASSUME Indexed, NEW s \in Seq(Candidates),
           \A i, j \in 1..Len(s) : i < j => Earlier(s[i], s[j])
    PROVE  Agree(History(s), Tells(s)) /\ History(s) \in Seq(Spells)
PROOF
<1>1. PICK h \in [0..Len(s) -> Seq(Spells)] :
               /\ h[0] = <<>>
               /\ \A n \in 1..Len(s) : h[n] = Told(h[n - 1], s[n])
               /\ h[Len(s)] = History(s)
    BY HistorySteps
<1>2. PICK t \in [0..Len(s) -> Seq(States)] :
               /\ t[0] = <<>>
               /\ \A n \in 1..Len(s) : t[n] = TellNext(t[n - 1], s[n])
               /\ t[Len(s)] = Tells(s)
    BY TellsSteps
<1>3. Len(s) \in Nat /\ \A k \in 1..Len(s) : s[k] \in Candidates
    OBVIOUS
<1> DEFINE Good(n) == /\ Agree(h[n], t[n])
                      /\ h[n] # <<>> => n > 0 /\ Last(h[n]).order \leq Rank(s[n])
           E == {n \in Nat : n \leq Len(s) => Good(n)}
<1>4. 0 \in E
  <2>1. Spread(<<>>) = <<>>
    BY DEF Spread
  <2>2. FlattenSeq(<<>>) = <<>>
    BY DEF FlattenSeq
  <2>3. Repeats(<<>>) = {} /\ Cardinality({}) = 0
    BY FS_EmptySet DEF Repeats
  <2>4. Len(<<>>) = 0 /\ 1..0 = {} /\ 0 - 0 = 0
    OBVIOUS
  <2>5. PICK e : e = <<>>
    OBVIOUS
  <2>6. FlattenSeq(Spread(e)) = e /\ Len(e) = Len(e) - Cardinality(Repeats(e)) /\ 1..Len(e) = {}
    BY <2>1, <2>2, <2>3, <2>4, <2>5
  <2>7. Agree(e, e)
    BY <2>5, <2>6, Zenon DEF Agree
  <2> QED
    BY <1>1, <1>2, <2>5, <2>7
<1>5. ASSUME NEW n \in Nat, n \in E PROVE n + 1 \in E
  <2> SUFFICES ASSUME NEW m, m = n + 1, m \leq Len(s) PROVE Good(m)
    OBVIOUS
  <2>1. /\ n \leq Len(s) /\ n \in 0..Len(s) /\ m \in 1..Len(s) /\ m - 1 = n /\ m > 0
        /\ n > 0 => n \in 1..Len(s) /\ n < m
    BY <1>3
  <2>2. Good(n)
    BY <1>5, <2>1
  <2>3. PICK a \in Seq(Spells), b \in Seq(States), c \in Candidates :
            a = h[n] /\ b = t[n] /\ c = s[m]
    BY <1>1, <1>2, <1>3, <2>1
  <2>4. h[m] = Told(a, c) /\ t[m] = TellNext(b, c)
    BY <1>1, <1>2, <2>1, <2>3
  <2>5. a # <<>> => Last(a).order < Rank(c)
    <3> SUFFICES ASSUME a # <<>> PROVE Last(a).order < Rank(c)
      OBVIOUS
    <3>1. n > 0 /\ Last(a).order \leq Rank(s[n])
      BY <2>2, <2>3
    <3>2. s[n] \in Candidates /\ Earlier(s[n], c)
      BY <1>3, <2>1, <2>3, <3>1
    <3>3. Rank(s[n]) \in Nat /\ Rank(c) \in Nat /\ Rank(s[n]) < Rank(c)
      BY <3>2, RankFollowsTheText
    <3>4. PICK r \in Spells : r = Last(a)
      BY FrontAndLast
    <3>5. r.order \in Nat
      BY DEF Spells
    <3> QED
      BY <3>1, <3>3, <3>4, <3>5
  <2>6. Agree(a, b)
    BY <2>2, <2>3
  <2>7. Agree(h[m], t[m]) /\ (h[m] # <<>> => Last(h[m]).order \leq Rank(c))
    <3> HIDE DEF Good
    <3> QED
      BY <2>4, <2>5, <2>6, HistoryStep
  <2> QED
    BY <2>1, <2>3, <2>7
<1>6. Nat \subseteq E
  <2> HIDE DEF E
  <2> QED
    BY <1>4, <1>5, SetInduction
<1>7. Good(Len(s))
  <2> HIDE DEF Good
  <2> QED
    BY <1>3, <1>6
<1>8. Len(s) \in 0..Len(s)
    BY <1>3
<1>9. Agree(History(s), Tells(s))
  <2> HIDE DEF E
  <2> QED
    BY <1>1, <1>2, <1>7
<1> QED
    BY <1>1, <1>8, <1>9

-----------------------------------------------------------------------------
(* Transitions and conflicts.                                              *)

\* The greater of two, and the lesser of two different ones.
LEMMA TwoInOrder ==
    ASSUME NEW a \in Nat, NEW b \in Nat
    PROVE  /\ {Min({a, b}), Max({a, b})} = {a, b}
           /\ Min({a, b}) \in Nat /\ Max({a, b}) \in Nat
           /\ a # b => Min({a, b}) < Max({a, b})
PROOF
<1>1. PICK m : m = Min({a, b})
    OBVIOUS
<1>2. m \in {a, b} /\ m <= a /\ m <= b
    BY <1>1, MinOfTwo
<1>3. PICK n : n = Max({a, b})
    OBVIOUS
<1>4. \E x \in {a, b} : \A y \in {a, b} : x >= y
    OBVIOUS
<1>5. n \in {a, b} /\ n >= a /\ n >= b
    BY <1>3, <1>4 DEF Max
<1>6. /\ {m, n} = {a, b} /\ m \in Nat /\ n \in Nat
      /\ a # b => m < n
    BY <1>2, <1>5
<1> QED
    BY <1>1, <1>3, <1>6

\* A sorting of a finite set has each element once, ordered by "to".
LEMMA SortedProperties ==
    ASSUME NEW S, IsFiniteSet(S), \A x \in S : x.to \in Nat, NEW s \in Sorted(S)
    PROVE  /\ s \in Seq(S) /\ DOMAIN s = 1..Len(s) /\ Len(s) \in Nat
           /\ \A x \in S : \E k \in DOMAIN s : s[k] = x
           /\ \A k, l \in DOMAIN s : s[k] = s[l] => k = l
           /\ \A k \in DOMAIN s : k > 1 => s[k - 1].to \leq s[k].to
PROOF
<1>1. PICK n \in Nat : n = Cardinality(S)
    BY FS_CardinalityType
<1>2. /\ s \in [1..n -> S] /\ \A i, j \in 1..n : i # j => s[i] # s[j]
      /\ \A k, l \in DOMAIN s : JoinBefore(s[k], s[l]) => k < l
    BY <1>1 DEF Sorted, SetToSeqs
<1>3. s \in Seq(S) /\ DOMAIN s = 1..n /\ Len(s) = n
    BY <1>1, <1>2
<1>4. \A x \in S : \E k \in 1..n : s[k] = x
  <2>1. IsFiniteSet(1..n) /\ Cardinality(1..n) = n
    <3>1. n - 1 + 1 = n /\ (1 > n <=> n = 0) /\ n \in Int /\ 1 \in Int
      OBVIOUS
    <3> QED
      BY <3>1, FS_Interval
  <2>2. s \in Injection(1..n, S)
    BY <1>2 DEF Injection, IsInjective
  <2>3. s \in Surjection(1..n, S)
    BY <1>1, <2>1, <2>2, FS_Injection
  <2> QED
    BY <2>3 DEF Surjection
<1>5. ASSUME NEW k \in 1..n, k > 1 PROVE s[k - 1].to \leq s[k].to
  <2>1. PICK j \in 1..n : j = k - 1 /\ ~(k < j)
    BY <1>5
  <2>2. ~(s[k].to < s[j].to)
    BY <1>2, <1>3, <2>1 DEF JoinBefore
  <2>3. s[k].to \in Nat /\ s[j].to \in Nat
    BY <1>2, <2>1
  <2> QED
    BY <2>1, <2>2, <2>3
<1> QED
    BY <1>2, <1>3, <1>4, <1>5

\* One of ls for each decision of that verdict, by the later record.
Kept(verdict, ls) ==
    /\ \E n \in Nat : DOMAIN ls = 1..n
    /\ \A k \in DOMAIN ls :
           /\ ls[k].pair \in With(verdict)
           /\ ls[k].evidence = decided[ls[k].pair].evidence
           /\ ls[k].from = Min({IdOf(canon, ls[k].pair[1]), IdOf(canon, ls[k].pair[2])})
           /\ ls[k].to = Max({IdOf(canon, ls[k].pair[1]), IdOf(canon, ls[k].pair[2])})
           /\ k > 1 => ls[k - 1].to \leq ls[k].to
    /\ \A p \in With(verdict) : \E k \in DOMAIN ls : ls[k].pair = p
    /\ \A k, l \in DOMAIN ls : ls[k].pair = ls[l].pair => k = l

\* What IDENTICAL joined stays joined: a later union never separates two candidates.
LEMMA JoinsAreKept ==
    ASSUME NEW verdict, With(verdict) \subseteq Pairs, input.domain # "fact" => With(verdict) = {},
           Records(Roots, canon), Roots \in [Candidates -> Candidates],
           NEW ls \in Joins(verdict, canon)
    PROVE  Kept(verdict, ls)
PROOF
<1>1. CASE input.domain # "fact"
  <2>1. ls = <<>> /\ DOMAIN ls = {} /\ DOMAIN ls = 1..0
    BY <1>1 DEF Joins
  <2> QED
    BY <1>1, <2>1 DEF Kept
<1>2. CASE input.domain = "fact"
  <2>1. PICK W : W = With(verdict)
    OBVIOUS
  <2>2. PICK S : S = {Join(canon, p) : p \in W}
    OBVIOUS
  <2>3. ls \in Sorted(S)
    BY <1>2, <2>1, <2>2 DEF Joins
  <2>4. IsFiniteSet(S)
    <3>1. PICK f : f = [p \in W |-> Join(canon, p)]
      OBVIOUS
    <3>2. f \in Surjection(W, S)
      BY <2>2, <3>1 DEF Surjection
    <3>3. IsFiniteSet(W)
      BY <2>1, PairsAreFinite
    <3> QED
      BY <3>2, <3>3, FS_Surjection
  <2>5. ASSUME NEW p \in W
        PROVE  /\ Join(canon, p).pair = p
               /\ Join(canon, p).evidence = decided[p].evidence
               /\ Join(canon, p).from = Min({IdOf(canon, p[1]), IdOf(canon, p[2])})
               /\ Join(canon, p).to = Max({IdOf(canon, p[1]), IdOf(canon, p[2])})
               /\ Join(canon, p).to \in Nat
    <3>1. p[1] \in Candidates /\ p[2] \in Candidates
      BY <2>1, PairsAreFinite
    <3>2. IdOf(canon, p[1]) \in Nat /\ IdOf(canon, p[2]) \in Nat
      BY <3>1, IdsAreOfRoots
    <3>3. Max({IdOf(canon, p[1]), IdOf(canon, p[2])}) \in Nat
      BY <3>2, TwoInOrder
    <3> QED
      BY <3>3 DEF Join, Joined
  <2>6. \A x \in S : x.to \in Nat
    BY <2>2, <2>5
  <2>7. /\ ls \in Seq(S) /\ DOMAIN ls = 1..Len(ls) /\ Len(ls) \in Nat
        /\ \A x \in S : \E k \in DOMAIN ls : ls[k] = x
        /\ \A k, l \in DOMAIN ls : ls[k] = ls[l] => k = l
        /\ \A k \in DOMAIN ls : k > 1 => ls[k - 1].to \leq ls[k].to
    BY <2>3, <2>4, <2>6, SortedProperties
  <2>8. ASSUME NEW k \in DOMAIN ls PROVE ls[k].pair \in W /\ ls[k] = Join(canon, ls[k].pair)
    <3>1. ls[k] \in S
      BY <2>7
    <3>2. PICK p \in W : ls[k] = Join(canon, p)
      BY <2>2, <3>1
    <3> QED
      BY <2>5, <3>2
  <2>9. ASSUME NEW p \in W PROVE \E k \in DOMAIN ls : ls[k].pair = p
    <3>1. Join(canon, p) \in S
      BY <2>2
    <3>2. PICK k \in DOMAIN ls : ls[k] = Join(canon, p)
      BY <2>7, <3>1
    <3> QED
      BY <2>5, <3>2
  <2>10. \A k, l \in DOMAIN ls : ls[k].pair = ls[l].pair => k = l
    BY <2>7, <2>8
  <2>11. \A k \in DOMAIN ls :
           /\ ls[k].pair \in W
           /\ ls[k].evidence = decided[ls[k].pair].evidence
           /\ ls[k].from = Min({IdOf(canon, ls[k].pair[1]), IdOf(canon, ls[k].pair[2])})
           /\ ls[k].to = Max({IdOf(canon, ls[k].pair[1]), IdOf(canon, ls[k].pair[2])})
    BY <2>5, <2>8
  <2> QED
    BY <2>1, <2>7, <2>9, <2>10, <2>11 DEF Kept
<1> QED
    BY <1>1, <1>2

\* The subjects of a transition do not change what it joins.
LEMMA TransitionsAreKept ==
    ASSUME NEW ls, Kept("state_change", ls)
    PROVE  Kept("state_change", [k \in DOMAIN ls |-> Transition(canon, ls[k])])
PROOF
<1>1. PICK ts : ts = [k \in DOMAIN ls |-> Transition(canon, ls[k])]
    OBVIOUS
<1>2. PICK n \in Nat : DOMAIN ls = 1..n /\ DOMAIN ts = 1..n
    BY <1>1 DEF Kept
<1>3. \A k \in DOMAIN ls : /\ ts[k].pair = ls[k].pair /\ ts[k].evidence = ls[k].evidence
                           /\ ts[k].from = ls[k].from /\ ts[k].to = ls[k].to
    BY <1>1 DEF Transition
<1>4. ASSUME NEW k \in DOMAIN ls, k > 1 PROVE ts[k - 1].to \leq ts[k].to
  <2>1. k - 1 \in DOMAIN ls
    BY <1>2, <1>4
  <2> QED
    BY <1>3, <1>4, <2>1 DEF Kept
<1>5. \A k \in DOMAIN ts :
           /\ ts[k].pair \in With("state_change")
           /\ ts[k].evidence = decided[ts[k].pair].evidence
           /\ ts[k].from = Min({IdOf(canon, ts[k].pair[1]), IdOf(canon, ts[k].pair[2])})
           /\ ts[k].to = Max({IdOf(canon, ts[k].pair[1]), IdOf(canon, ts[k].pair[2])})
           /\ k > 1 => ts[k - 1].to \leq ts[k].to
  <2>1. \A k \in DOMAIN ls :
           /\ ls[k].pair \in With("state_change")
           /\ ls[k].evidence = decided[ls[k].pair].evidence
           /\ ls[k].from = Min({IdOf(canon, ls[k].pair[1]), IdOf(canon, ls[k].pair[2])})
           /\ ls[k].to = Max({IdOf(canon, ls[k].pair[1]), IdOf(canon, ls[k].pair[2])})
    BY DEF Kept
  <2> QED
    BY <1>2, <1>3, <1>4, <2>1
<1>6. \A p \in With("state_change") : \E k \in DOMAIN ts : ts[k].pair = p
    BY <1>2, <1>3 DEF Kept
<1>7. \A k, l \in DOMAIN ts : ts[k].pair = ts[l].pair => k = l
    BY <1>2, <1>3 DEF Kept
<1>8. Kept("state_change", ts)
    BY <1>2, <1>5, <1>6, <1>7 DEF Kept
<1> QED
    BY <1>1, <1>8

-----------------------------------------------------------------------------
(* The invariant.                                                          *)

\* A decision of a known verdict, on evidence of its two candidates.
Grounded(p) ==
    /\ decided[p].verdict \in Verdicts(input.domain)
    /\ IsInjective(decided[p].evidence)
    /\ ToSet(decided[p].evidence)
           \subseteq ToSet(index[p[1]].evidence) \union ToSet(index[p[2]].evidence)

\* What planning and the provider leave to finalization.
Planned ==
    /\ plan = PlanOf(input.domain, index)
    /\ \A p \in Pairs \cap DOMAIN decided : Grounded(p)

Assembled ==
    /\ records = [k \in DOMAIN canon |-> RecordOf(canon[k])]
    /\ Kept("state_change", links)
    /\ Kept("conflict", conflicts)

ConsolidationInv ==
    /\ input \in Inputs
    /\ stage \in {"plan", "ask", "finalize", "assemble", "finalized", "contradicted"} => Indexed
    /\ stage \in {"ask", "finalize", "assemble", "finalized", "contradicted"} => Planned
    /\ stage \in {"finalize", "assemble", "finalized", "contradicted"} => Covered
    /\ stage = "contradicted" => Contradicted(Roots)
    /\ stage \in {"assemble", "finalized"} => canon = Canonical(Roots) /\ ~Contradicted(Roots)
    /\ stage = "finalized" => Assembled
    /\ stage # "incoherent"

\* The covered plan: what is decided, is of planned pairs.
LEMMA PlanFacts ==
    ASSUME input \in Inputs, Planned, Covered
    PROVE  /\ DOMAIN decided \subseteq Pairs
           /\ \A v : With(v) \subseteq Pairs
           /\ \A p \in DOMAIN decided : Grounded(p)
           /\ input.domain = "relationship" =>
                  \A p \in DOMAIN decided : Endpoints(index[p[1]]) = Endpoints(index[p[2]])
           /\ \A c, d \in Candidates :
                  c < d /\ ExactKey(input.domain, index[c]) = ExactKey(input.domain, index[d])
                      => <<c, d>> \in Same
PROOF
<1>1. PICK d : d = input.domain
    OBVIOUS
<1>2. d \in {"fact", "event", "relationship"}
    BY <1>1, DomainsAreThree
<1>3. PICK B : B = Blocked(d, index)
    OBVIOUS
<1>4. DOMAIN plan = B /\ DOMAIN decided = B
    BY <1>1, <1>3 DEF Planned, Covered, PlanOf
<1>5. B \subseteq Pairs
    BY <1>3 DEF Blocked
<1>6. \A v : With(v) \subseteq Pairs
    BY <1>4, <1>5 DEF With
<1>7. \A p \in DOMAIN decided : Grounded(p)
    BY <1>4, <1>5 DEF Planned
<1>8. d = "relationship" => \A p \in B : Endpoints(index[p[1]]) = Endpoints(index[p[2]])
    BY <1>3 DEF Blocked, RelationshipsMeet
<1>9. ASSUME NEW a \in Candidates, NEW b \in Candidates, a < b,
             ExactKey(d, index[a]) = ExactKey(d, index[b])
      PROVE  <<a, b>> \in Same
  <2>1. PICK p : p = <<a, b>>
    OBVIOUS
  <2>2. p[1] = a /\ p[2] = b /\ p \in Pairs
    BY <1>9, <2>1 DEF Pairs
  <2>3. p \in B
    <3>1. CASE d = "fact"
      <4>1. index[a].text = index[b].text
        BY <1>9, <3>1 DEF ExactKey
      <4> QED
        BY <1>3, <2>2, <3>1, <4>1 DEF Blocked, FactsMeet
    <3>2. CASE d = "event"
      <4>1. index[a].text = index[b].text
        BY <1>9, <3>2 DEF ExactKey
      <4> QED
        BY <1>3, <2>2, <3>2, <4>1 DEF Blocked, EventsMeet
    <3>3. CASE d = "relationship"
      <4>1. Endpoints(index[a]) = Endpoints(index[b])
        BY <1>9, <3>3 DEF ExactKey
      <4> QED
        BY <1>3, <2>2, <3>3, <4>1 DEF Blocked, RelationshipsMeet
    <3> QED
      BY <1>2, <3>1, <3>2, <3>3
  <2>4. plan[p] = "auto_same"
    BY <1>1, <1>3, <1>9, <2>2, <2>3 DEF Planned, PlanOf
  <2>5. p \notin Open(plan)
    BY <2>4 DEF Open
  <2>6. decided[p].verdict = Merging[d]
    BY <1>1, <1>4, <2>3, <2>5 DEF Covered
  <2> QED
    BY <1>1, <1>4, <2>1, <2>3, <2>6 DEF Same, With
<1> QED
    BY <1>1, <1>4, <1>5, <1>6, <1>7, <1>8, <1>9

\* Only facts change their state or conflict.
LEMMA OnlyFactsAreJoined ==
    ASSUME input \in Inputs, Planned, Covered, input.domain # "fact",
           NEW v \in {"state_change", "conflict"}
    PROVE  With(v) = {}
PROOF
<1>1. \A p \in DOMAIN decided : decided[p].verdict \in Verdicts(input.domain)
    BY PlanFacts DEF Grounded
<1>2. v \notin Verdicts(input.domain)
  <2>1. CASE input.domain = "event"
    BY <2>1 DEF Verdicts, Merging, HardNegatives
  <2>2. CASE input.domain = "relationship"
    BY <2>2 DEF Verdicts, Merging, HardNegatives
  <2> QED
    BY <2>1, <2>2, DomainsAreThree
<1> QED
    BY <1>1, <1>2 DEF With

\* Candidates of one root stand in the same relationship.
LEMMA EndpointsAgree ==
    ASSUME input \in Inputs, Planned, Covered, input.domain = "relationship",
           NEW c \in Candidates, NEW d \in Candidates, Roots[c] = Roots[d]
    PROVE  Endpoints(index[c]) = Endpoints(index[d])
PROOF
<1>1. Same \subseteq Pairs
    BY PlanFacts DEF Same
<1>2. Connected(c, d)
    BY <1>1, RootsAreComponents
<1>3. PICK S : S = {x \in Candidates : Endpoints(index[x]) = Endpoints(index[c])}
    OBVIOUS
<1>4. \A p \in Same : p[1] \in S <=> p[2] \in S
  <2>1. \A p \in Same : p \in DOMAIN decided
    BY DEF Same, With
  <2>2. \A p \in Same : Endpoints(index[p[1]]) = Endpoints(index[p[2]])
    BY <2>1, PlanFacts
  <2>3. \A p \in Same : p[1] \in Candidates /\ p[2] \in Candidates
    BY <1>1, PairsAreFinite
  <2> QED
    BY <1>3, <2>2, <2>3
<1>5. S \in SUBSET Candidates /\ c \in S
    BY <1>3
<1>6. d \in S
    BY <1>2, <1>4, <1>5 DEF Connected, Same
<1> QED
    BY <1>3, <1>6

\* So what contradicts is a decision against a chain of others.
LEMMA ContradictionsAreForbidden ==
    ASSUME input \in Inputs, Planned, Covered
    PROVE  Contradicted(Roots) <=> \E p \in Forbidden : Roots[p[1]] = Roots[p[2]]
PROOF
<1>1. input.domain = "relationship" =>
          \A c, d \in Candidates : Roots[c] = Roots[d] => Endpoints(index[c]) = Endpoints(index[d])
    BY EndpointsAgree
<1>2. PICK r : r = Roots
    OBVIOUS
<1>3. Contradicted(r) <=> \E p \in Forbidden : r[p[1]] = r[p[2]]
    BY <1>1, <1>2 DEF Contradicted, Forbidden
<1> QED
    BY <1>2, <1>3

\* A run is refused exactly when its decisions contradict one another.
LEMMA InvariantHonoursDecisions ==
    ASSUME ConsolidationInv PROVE IdentityHonoursDecisions
PROOF
<1>1. SUFFICES ASSUME stage \in {"contradicted", "finalized"} PROVE IdentityHonoursDecisions
    BY DEF IdentityHonoursDecisions
<1>2. input \in Inputs /\ Indexed /\ Planned /\ Covered
    BY <1>1 DEF ConsolidationInv
<1>3. Same \subseteq Pairs /\ Forbidden \subseteq Pairs
    BY <1>2, PlanFacts DEF Same, Forbidden
<1>4. PICK rep \in [Candidates -> Candidates] :
          /\ rep = Roots
          /\ \A c, d \in Candidates : rep[c] = rep[d] <=> Connected(c, d)
          /\ \A p \in Same : rep[p[1]] = rep[p[2]]
    BY <1>3, RootsAreComponents
<1>5. \A p \in Forbidden : p[1] \in Candidates /\ p[2] \in Candidates
    BY <1>3, PairsAreFinite
<1>6. ASSUME stage = "contradicted" PROVE \E p \in Forbidden : Connected(p[1], p[2])
  <2>1. Contradicted(Roots)
    BY <1>6 DEF ConsolidationInv
  <2> QED
    BY <1>2, <1>4, <1>5, <2>1, ContradictionsAreForbidden
<1>7. ASSUME stage = "finalized", NEW c \in Candidates, NEW d \in Candidates
      PROVE  /\ IdOf(canon, c) = IdOf(canon, d) <=> Connected(c, d)
             /\ ExactKey(input.domain, index[c]) = ExactKey(input.domain, index[d]) =>
                    IdOf(canon, c) = IdOf(canon, d)
             /\ IdOf(canon, c) = IdOf(canon, d) => <<c, d>> \notin Forbidden
  <2>1. canon = Canonical(Roots) /\ ~Contradicted(Roots)
    BY <1>7 DEF ConsolidationInv
  <2>2. Records(rep, canon)
    BY <1>2, <1>4, <2>1, CanonicalRecords
  <2>3. IdOf(canon, c) = IdOf(canon, d) <=> rep[c] = rep[d]
    BY <2>2, IdsAreOfRoots
  <2>4. ASSUME ExactKey(input.domain, index[c]) = ExactKey(input.domain, index[d])
        PROVE  rep[c] = rep[d]
    <3>1. c \in Nat /\ d \in Nat
      BY CandidatesAreNumbers
    <3>2. CASE c < d
      <4>1. <<c, d>> \in Same
        BY <1>2, <2>4, <3>2, PlanFacts
      <4> QED
        BY <1>4, <4>1
    <3>3. CASE d < c
      <4>1. <<d, c>> \in Same
        BY <1>2, <2>4, <3>3, PlanFacts
      <4> QED
        BY <1>4, <4>1
    <3> QED
      BY <3>1, <3>2, <3>3
  <2>5. ASSUME <<c, d>> \in Forbidden PROVE rep[c] # rep[d]
    BY <1>2, <1>4, <2>1, <2>5, ContradictionsAreForbidden
  <2> QED
    BY <1>4, <2>3, <2>4, <2>5
<1> QED
    BY <1>6, <1>7 DEF IdentityHonoursDecisions

\* What finalization starts from once no decisions contradict one another.
ReadyToAssemble ==
    /\ input \in Inputs /\ Indexed /\ Planned /\ Covered
    /\ canon = Canonical(Roots) /\ ~Contradicted(Roots)

\* What a run knows when it assembles: the records' type, and the root of every candidate.
LEMMA ReadyFacts ==
    ASSUME ReadyToAssemble
    PROVE  /\ Roots \in [Candidates -> Candidates] /\ Records(Roots, canon)
           /\ canon \in Seq(Seq(Candidates) \ {<<>>})
           /\ Len(canon) \in Nat /\ DOMAIN canon = 1..Len(canon)
           /\ \A k \in 1..Len(canon) :
                  /\ canon[k] \in Seq(Candidates) /\ canon[k] # <<>>
                  /\ Len(canon[k]) \in Nat /\ DOMAIN canon[k] = 1..Len(canon[k])
                  /\ 1 \in 1..Len(canon[k])
                  /\ \A i \in 1..Len(canon[k]) : canon[k][i] \in Candidates
PROOF
<1>1. Same \subseteq Pairs
    BY PlanFacts DEF Same, ReadyToAssemble
<1>2. Roots \in [Candidates -> Candidates]
    BY <1>1, RootsAreComponents
<1>3. Records(Roots, canon)
    BY <1>2, CanonicalRecords DEF ReadyToAssemble
<1>4. canon \in Seq(Seq(Candidates) \ {<<>>})
    BY <1>3 DEF Records
<1>5. ASSUME NEW k \in 1..Len(canon)
      PROVE  /\ canon[k] \in Seq(Candidates) /\ canon[k] # <<>>
             /\ Len(canon[k]) \in Nat /\ DOMAIN canon[k] = 1..Len(canon[k])
             /\ 1 \in 1..Len(canon[k])
             /\ \A i \in 1..Len(canon[k]) : canon[k][i] \in Candidates
  <2>1. PICK m \in Seq(Candidates) \ {<<>>} : m = canon[k]
    BY <1>4
  <2>2. Len(m) \in Nat /\ DOMAIN m = 1..Len(m) /\ Len(m) # 0
    OBVIOUS
  <2> QED
    BY <2>1, <2>2
<1> QED
    BY <1>2, <1>3, <1>4, <1>5

\* A transition ls of the plan's pairs, told from the records canon: its pair is one the answers
\* decided, its evidence theirs, and it leads from the earlier of the two records to the later.
Leads(t) ==
    /\ t.pair \in Pairs /\ t.pair \in DOMAIN decided
    /\ Grounded(t.pair) /\ t.evidence = decided[t.pair].evidence
    /\ {IdOf(canon, t.pair[1]), IdOf(canon, t.pair[2])} = {t.from, t.to}
    /\ t.from \in 1..Len(canon) /\ t.to \in 1..Len(canon)
    /\ t.from < t.to

\* What is kept leads from an earlier record to a later one.
LEMMA KeptFacts ==
    ASSUME ReadyToAssemble, NEW v \in {"state_change", "conflict"}, NEW ls, Kept(v, ls), NEW k \in DOMAIN ls
    PROVE  ls[k].pair \in With(v) /\ Leads(ls[k])
PROOF
<1>1. PICK p : p = ls[k].pair
    OBVIOUS
<1>2. /\ p \in With(v) /\ ls[k].evidence = decided[p].evidence
      /\ ls[k].from = Min({IdOf(canon, p[1]), IdOf(canon, p[2])})
      /\ ls[k].to = Max({IdOf(canon, p[1]), IdOf(canon, p[2])})
    BY <1>1 DEF Kept
<1>3. p \in Pairs /\ p \in DOMAIN decided /\ Grounded(p)
    BY <1>2, PlanFacts DEF ReadyToAssemble, With
<1>4. p[1] \in Candidates /\ p[2] \in Candidates
    BY <1>3, PairsAreFinite
<1>5. input.domain = "fact"
    BY <1>2, OnlyFactsAreJoined DEF ReadyToAssemble
<1>6. p \in Forbidden
    BY <1>2, <1>5 DEF Forbidden, HardNegatives
<1>7. Roots[p[1]] # Roots[p[2]]
    BY <1>6, ContradictionsAreForbidden DEF ReadyToAssemble
<1>8. PICK a \in 1..Len(canon), b \in 1..Len(canon) :
          a = IdOf(canon, p[1]) /\ b = IdOf(canon, p[2]) /\ a # b
  <2>1. PICK r \in [Candidates -> Candidates] : r = Roots /\ Records(r, canon)
    BY ReadyFacts
  <2>2. /\ IdOf(canon, p[1]) \in 1..Len(canon) /\ IdOf(canon, p[2]) \in 1..Len(canon)
        /\ IdOf(canon, p[1]) = IdOf(canon, p[2]) <=> r[p[1]] = r[p[2]]
    BY <1>4, <2>1, IdsAreOfRoots
  <2> QED
    BY <1>7, <2>1, <2>2
<1>9. a \in Nat /\ b \in Nat
    BY ReadyFacts
<1>10. {Min({a, b}), Max({a, b})} = {a, b} /\ Min({a, b}) < Max({a, b})
    BY <1>8, <1>9, TwoInOrder
<1>11. ls[k].from = Min({a, b}) /\ ls[k].to = Max({a, b})
    BY <1>2, <1>8
<1>12. {ls[k].from, ls[k].to} = {a, b} /\ ls[k].from < ls[k].to
    BY <1>10, <1>11
<1>13. ls[k].from \in {a, b} /\ ls[k].to \in {a, b}
    BY <1>12
<1>14. ls[k].from \in 1..Len(canon) /\ ls[k].to \in 1..Len(canon)
    BY <1>8, <1>13
<1>15. {IdOf(canon, p[1]), IdOf(canon, p[2])} = {ls[k].from, ls[k].to}
    BY <1>8, <1>12
<1>16. Leads(ls[k])
    BY <1>1, <1>2, <1>3, <1>12, <1>14, <1>15 DEF Leads
<1> QED
    BY <1>1, <1>2, <1>16

\* Records, their members, the transitions and the histories follow the text.
LEMMA InvariantFollowsTheText ==
    ASSUME ConsolidationInv PROVE RecordsFollowTheText
PROOF
<1>1. SUFFICES ASSUME stage = "finalized" PROVE RecordsFollowTheText
    BY DEF RecordsFollowTheText
<1>2. ReadyToAssemble /\ Assembled
    BY <1>1 DEF ConsolidationInv, ReadyToAssemble
<1>3. Indexed
    BY <1>2 DEF ReadyToAssemble
<1>4. \A k, l \in 1..Len(canon) : k < l => Earlier(canon[k][1], canon[l][1])
    BY <1>2, ReadyFacts DEF Records
<1>5. \A k \in 1..Len(canon) : \A i, j \in 1..Len(canon[k]) : i < j => Earlier(canon[k][i], canon[k][j])
    BY <1>2, ReadyFacts DEF Records
<1>6. ASSUME NEW k \in DOMAIN canon, NEW l \in DOMAIN canon,
             NEW a \in DOMAIN canon[k], NEW b \in DOMAIN canon[l],
             (k < l /\ a = 1) \/ (k = l /\ a < b)
      PROVE  Earlier(canon[k][a], canon[l][b])
  <2>1. /\ k \in 1..Len(canon) /\ l \in 1..Len(canon)
        /\ a \in 1..Len(canon[k]) /\ b \in 1..Len(canon[l]) /\ 1 \in 1..Len(canon[l])
        /\ Len(canon[k]) \in Nat /\ Len(canon[l]) \in Nat
    BY <1>2, ReadyFacts
  <2>2. CASE k = l /\ a < b
    BY <1>5, <2>1, <2>2
  <2>3. CASE k < l /\ a = 1
    <3>1. Earlier(canon[k][1], canon[l][1])
      BY <1>4, <2>1, <2>3
    <3>2. CASE b = 1
      BY <2>3, <3>1, <3>2
    <3>3. CASE b # 1
      <4>1. 1 < b
        BY <2>1, <3>3
      <4>2. Earlier(canon[l][1], canon[l][b])
        BY <1>5, <2>1, <4>1
      <4>3. canon[k][1] \in Candidates /\ canon[l][1] \in Candidates /\ canon[l][b] \in Candidates
        BY <1>2, <2>1, <2>3, ReadyFacts
      <4> QED
        BY <1>3, <2>3, <3>1, <4>2, <4>3, TextOrder
    <3> QED
      BY <3>2, <3>3
  <2> QED
    BY <1>6, <2>2, <2>3
<1>7. ASSUME NEW v \in {"state_change", "conflict"}, NEW s, Kept(v, s), NEW k \in DOMAIN s
      PROVE  /\ Earlier(canon[s[k].from][1], canon[s[k].to][1])
             /\ k > 1 => s[k - 1].to \leq s[k].to
  <2>0. Leads(s[k])
    BY <1>2, <1>7, KeptFacts
  <2>1. s[k].from \in 1..Len(canon) /\ s[k].to \in 1..Len(canon) /\ s[k].from < s[k].to
    BY <2>0 DEF Leads
  <2>2. k > 1 => s[k - 1].to \leq s[k].to
    BY <1>7 DEF Kept
  <2> QED
    BY <1>4, <2>1, <2>2
<1>8. Kept("state_change", links) /\ Kept("conflict", conflicts)
    BY <1>2 DEF Assembled
<1>9. \A s \in {links, conflicts} : \A k \in DOMAIN s :
           /\ Earlier(canon[s[k].from][1], canon[s[k].to][1])
           /\ k > 1 => s[k - 1].to \leq s[k].to
    BY <1>7, <1>8
<1>10. ASSUME input.domain = "relationship", NEW k \in DOMAIN canon
       PROVE  LET h == records[k].history told == Tells(canon[k]) IN
               /\ FlattenSeq([j \in DOMAIN h |-> [n \in DOMAIN h[j].members |-> h[j].state]]) = told
               /\ Len(h) = Len(told) - Cardinality(Repeats(told))
               /\ \A j \in DOMAIN h : j > 1 => h[j - 1].order < h[j].order
  <2>1. k \in 1..Len(canon)
    BY <1>2, ReadyFacts
  <2>2. PICK m \in Seq(Candidates) : m = canon[k]
    BY <1>2, <2>1, ReadyFacts
  <2>3. \A i, j \in 1..Len(m) : i < j => Earlier(m[i], m[j])
    BY <1>5, <2>1, <2>2
  <2>4. PICK h, told : h = History(m) /\ told = Tells(m)
    OBVIOUS
  <2>5. Agree(h, told) /\ h \in Seq(Spells)
    BY <1>3, <2>3, <2>4, HistoryProperties
  <2>6. records[k] = RecordOf(m)
    BY <1>2, <2>2 DEF Assembled
  <2>7. records[k].history = h
    BY <1>10, <2>4, <2>6 DEF RecordOf
  <2>8. /\ FlattenSeq([j \in DOMAIN h |-> [n \in DOMAIN h[j].members |-> h[j].state]]) = told
        /\ Len(h) = Len(told) - Cardinality(Repeats(told))
        /\ \A j \in DOMAIN h : j > 1 => h[j - 1].order < h[j].order
    BY <2>5 DEF Agree, Spread
  <2> QED
    BY <2>2, <2>4, <2>7, <2>8
<1> QED
    BY <1>6, <1>9, <1>10 DEF RecordsFollowTheText

\* A decision kept in ls is there once.
LEMMA OneOfEach ==
    ASSUME NEW v, NEW ls, Kept(v, ls), NEW p
    PROVE  Cardinality({k \in DOMAIN ls : ls[k].pair = p}) = IF p \in With(v) THEN 1 ELSE 0
PROOF
<1>1. PICK K : K = {k \in DOMAIN ls : ls[k].pair = p}
    OBVIOUS
<1>2. CASE p \in With(v)
  <2>1. PICK k \in DOMAIN ls : ls[k].pair = p
    BY <1>2 DEF Kept
  <2>2. \A l \in K : l = k
    BY <1>1, <2>1 DEF Kept
  <2>3. K = {k}
    BY <1>1, <2>1, <2>2
  <2> QED
    BY <1>1, <1>2, <2>3, FS_Singleton
<1>3. CASE p \notin With(v)
  <2>0. \A k \in DOMAIN ls : ls[k].pair \in With(v)
    BY DEF Kept
  <2>1. K = {}
    BY <1>1, <1>3, <2>0
  <2> QED
    BY <1>1, <1>3, <2>1, FS_EmptySet
<1> QED
    BY <1>2, <1>3

\* Candidates are listed in the record of their id.
LEMMA MembersOfRecords ==
    ASSUME ReadyToAssemble
    PROVE  /\ \A k \in 1..Len(canon) : ToSet(canon[k]) \subseteq Candidates
           /\ \A c \in Candidates : IdOf(canon, c) \in 1..Len(canon) /\ c \in ToSet(canon[IdOf(canon, c)])
PROOF
<1>1. PICK r \in [Candidates -> Candidates] : r = Roots /\ Records(r, canon)
    BY ReadyFacts
<1>2. \A c \in Candidates : IdOf(canon, c) \in 1..Len(canon) /\ c \in ToSet(canon[IdOf(canon, c)])
    BY <1>1, IdsAreOfRoots
<1>3. \A k \in 1..Len(canon) : ToSet(canon[k]) \subseteq Candidates
    BY <1>1, IdsAreOfRoots
<1> QED
    BY <1>2, <1>3

\* Each change and conflict is kept once, on evidence of its two records.
LEMMA InvariantKeepsChanges ==
    ASSUME ConsolidationInv PROVE ChangesAreKept
PROOF
<1>1. stage # "incoherent"
    BY DEF ConsolidationInv
<1>2. SUFFICES ASSUME stage = "finalized" PROVE ChangesAreKept
    BY <1>1 DEF ChangesAreKept
<1>3. ReadyToAssemble /\ Assembled
    BY <1>2 DEF ConsolidationInv, ReadyToAssemble
<1>4. Indexed
    BY <1>3 DEF ReadyToAssemble
<1>5. Kept("state_change", links) /\ Kept("conflict", conflicts)
    BY <1>3 DEF Assembled
<1>6. ASSUME NEW p \in Pairs, NEW v \in {"state_change", "conflict"}
      PROVE  Cardinality({k \in DOMAIN links : v = "state_change" /\ links[k].pair = p})
             + Cardinality({k \in DOMAIN conflicts : v = "conflict" /\ conflicts[k].pair = p})
             = IF p \in With(v) THEN 1 ELSE 0
  <2>1. PICK A, B : /\ A = {k \in DOMAIN links : v = "state_change" /\ links[k].pair = p}
                    /\ B = {k \in DOMAIN conflicts : v = "conflict" /\ conflicts[k].pair = p}
    OBVIOUS
  <2>2. CASE v = "state_change"
    <3>1. A = {k \in DOMAIN links : links[k].pair = p} /\ B = {}
      BY <2>1, <2>2
    <3>2. Cardinality(A) = IF p \in With(v) THEN 1 ELSE 0
      BY <1>5, <2>2, <3>1, OneOfEach
    <3>3. Cardinality(B) = 0
      BY <3>1, FS_EmptySet
    <3> QED
      BY <2>1, <3>2, <3>3
  <2>3. CASE v = "conflict"
    <3>1. B = {k \in DOMAIN conflicts : conflicts[k].pair = p} /\ A = {}
      BY <2>1, <2>3
    <3>2. Cardinality(B) = IF p \in With(v) THEN 1 ELSE 0
      BY <1>5, <2>3, <3>1, OneOfEach
    <3>3. Cardinality(A) = 0
      BY <3>1, FS_EmptySet
    <3> QED
      BY <2>1, <3>2, <3>3
  <2> QED
    BY <2>2, <2>3
<1>7. ASSUME NEW v \in {"state_change", "conflict"}, NEW ls, Kept(v, ls), NEW k \in DOMAIN ls
      PROVE  /\ {IdOf(canon, ls[k].pair[1]), IdOf(canon, ls[k].pair[2])} = {ls[k].from, ls[k].to}
             /\ ToSet(ls[k].evidence) \subseteq
                    ToSet(EvidenceOf(canon[ls[k].from])) \union ToSet(EvidenceOf(canon[ls[k].to]))
  <2>0. Leads(ls[k])
    BY <1>3, <1>7, KeptFacts
  <2>1. PICK p \in Pairs : p = ls[k].pair
    BY <2>0 DEF Leads
  <2>2. PICK a, b : a = IdOf(canon, p[1]) /\ b = IdOf(canon, p[2])
    OBVIOUS
  <2>3. /\ {a, b} = {ls[k].from, ls[k].to}
        /\ ls[k].evidence = decided[p].evidence /\ Grounded(p)
    <3>1. /\ {IdOf(canon, ls[k].pair[1]), IdOf(canon, ls[k].pair[2])} = {ls[k].from, ls[k].to}
          /\ ls[k].evidence = decided[ls[k].pair].evidence /\ Grounded(ls[k].pair)
      BY <2>0 DEF Leads
    <3> QED
      BY <2>1, <2>2, <3>1
  <2>4. ToSet(ls[k].evidence) \subseteq ToSet(index[p[1]].evidence) \union ToSet(index[p[2]].evidence)
    BY <2>3 DEF Grounded
  <2>5. ASSUME NEW c \in Candidates
        PROVE  ToSet(index[c].evidence) \subseteq ToSet(EvidenceOf(canon[IdOf(canon, c)]))
    <3>1. IdOf(canon, c) \in 1..Len(canon) /\ c \in ToSet(canon[IdOf(canon, c)])
      BY <1>3, MembersOfRecords
    <3>2. canon[IdOf(canon, c)] \in Seq(Candidates)
      BY <1>3, <3>1, ReadyFacts
    <3>3. ToSet(EvidenceOf(canon[IdOf(canon, c)]))
          = UNION {ToSet(index[d].evidence) : d \in ToSet(canon[IdOf(canon, c)])}
      BY <1>4, <3>2, EvidenceOfProperties
    <3> QED
      BY <3>1, <3>3
  <2>6. p[1] \in Candidates /\ p[2] \in Candidates
    BY PairsAreFinite
  <2>7. ToSet(ls[k].evidence) \subseteq ToSet(EvidenceOf(canon[a])) \union ToSet(EvidenceOf(canon[b]))
    BY <2>2, <2>4, <2>5, <2>6
  <2>8. ToSet(EvidenceOf(canon[a])) \union ToSet(EvidenceOf(canon[b]))
        = ToSet(EvidenceOf(canon[ls[k].from])) \union ToSet(EvidenceOf(canon[ls[k].to]))
    <3>1. (a = ls[k].from /\ b = ls[k].to) \/ (a = ls[k].to /\ b = ls[k].from)
      BY <2>3
    <3> QED
      BY <3>1
  <2> QED
    BY <2>1, <2>2, <2>3, <2>7, <2>8
<1>8. \A t \in ToSet(links) \union ToSet(conflicts) :
          /\ {IdOf(canon, t.pair[1]), IdOf(canon, t.pair[2])} = {t.from, t.to}
          /\ ToSet(t.evidence) \subseteq
                 ToSet(EvidenceOf(canon[t.from])) \union ToSet(EvidenceOf(canon[t.to]))
  <2> SUFFICES ASSUME NEW t \in ToSet(links) \union ToSet(conflicts)
               PROVE  /\ {IdOf(canon, t.pair[1]), IdOf(canon, t.pair[2])} = {t.from, t.to}
                      /\ ToSet(t.evidence) \subseteq
                             ToSet(EvidenceOf(canon[t.from])) \union ToSet(EvidenceOf(canon[t.to]))
    OBVIOUS
  <2>1. (\E k \in DOMAIN links : t = links[k]) \/ (\E k \in DOMAIN conflicts : t = conflicts[k])
    BY DEF ToSet
  <2> QED
    BY <1>5, <1>7, <2>1
<1>9. ASSUME input.domain # "relationship", NEW k \in DOMAIN canon
      PROVE  /\ IsInjective(records[k].evidence)
             /\ ToSet(records[k].evidence) = UNION {ToSet(index[c].evidence) : c \in ToSet(canon[k])}
  <2>1. PICK m \in Seq(Candidates) : m = canon[k]
    BY <1>3, ReadyFacts
  <2>2. input.domain = "fact" \/ input.domain = "event"
    BY <1>3, <1>9, DomainsAreThree DEF ReadyToAssemble
  <2>3. records[k] = RecordOf(m)
    BY <1>3, <2>1 DEF Assembled
  <2>4. records[k].evidence = EvidenceOf(m)
    BY <2>2, <2>3 DEF RecordOf
  <2> QED
    BY <1>4, <2>1, <2>4, EvidenceOfProperties
<1> QED
    BY <1>1, <1>6, <1>8, <1>9 DEF ChangesAreKept

\* The last comparison finds what was assembled as it should be.
LEMMA AssemblyIsCoherent ==
    ASSUME ReadyToAssemble, NEW rs, rs = [k \in DOMAIN canon |-> RecordOf(canon[k])],
           NEW ts, Kept("state_change", ts), NEW fs, Kept("conflict", fs)
    PROVE  Coherent(canon, rs, ts, fs)
PROOF
<1>1. Indexed
    BY DEF ReadyToAssemble
<1>2. canon = Canonical(Roots)
    BY DEF ReadyToAssemble
<1>3. \A k \in DOMAIN canon : k > 1 => Earlier(canon[k - 1][1], canon[k][1])
  <2> SUFFICES ASSUME NEW k \in DOMAIN canon, k > 1 PROVE Earlier(canon[k - 1][1], canon[k][1])
    OBVIOUS
  <2>1. k \in 1..Len(canon) /\ k - 1 \in 1..Len(canon) /\ k - 1 < k
    BY ReadyFacts
  <2> QED
    BY <2>1, ReadyFacts DEF Records
<1>4. UNION {ToSet(m) : m \in ToSet(canon)} = Candidates
  <2>1. \A c \in Candidates : \E m \in ToSet(canon) : c \in ToSet(m)
    BY MembersOfRecords, ReadyFacts DEF ToSet
  <2>2. \A m \in ToSet(canon) : \E k \in 1..Len(canon) : m = canon[k]
    BY ReadyFacts DEF ToSet
  <2>3. \A m \in ToSet(canon) : ToSet(m) \subseteq Candidates
    BY <2>2, MembersOfRecords
  <2> QED
    BY <2>1, <2>3
<1>5. ASSUME input.domain = "relationship", NEW k \in DOMAIN canon
      PROVE  /\ rs[k].history = History(canon[k])
             /\ \A c \in ToSet(canon[k]) : Endpoints(index[c]) = rs[k].endpoints
  <2>1. PICK m : m = canon[k]
    OBVIOUS
  <2>2. rs[k] = RecordOf(m)
    BY <2>1
  <2>3. rs[k].history = History(m) /\ rs[k].endpoints = Endpoints(index[m[1]])
    BY <1>5, <2>2 DEF RecordOf
  <2>4. m[1] \in ToSet(m) /\ ToSet(m) \subseteq Candidates
    BY <2>1, ReadyFacts, MembersOfRecords DEF ToSet
  <2>5. PICK r \in [Candidates -> Candidates] : r = Roots /\ Records(r, canon)
    BY ReadyFacts
  <2>6. \A c \in ToSet(m) : r[c] = r[m[1]]
    <3>1. k \in 1..Len(canon)
      BY ReadyFacts
    <3>2. ToSet(m) = {d \in Candidates : r[d] = r[m[1]]}
      BY <2>1, <2>4, <2>5, <3>1 DEF Records
    <3> QED
      BY <3>2
  <2>7. \A c \in ToSet(m) : Endpoints(index[c]) = Endpoints(index[m[1]])
    BY <1>5, <2>4, <2>5, <2>6, EndpointsAgree DEF ReadyToAssemble
  <2> QED
    BY <2>1, <2>3, <2>7
<1>6. ASSUME input.domain # "relationship", NEW k \in DOMAIN canon
      PROVE  IsInjective(rs[k].evidence)
  <2>1. PICK m \in Seq(Candidates) : m = canon[k]
    BY ReadyFacts
  <2>2. input.domain = "fact" \/ input.domain = "event"
    BY <1>6, DomainsAreThree DEF ReadyToAssemble
  <2>3. rs[k] = RecordOf(m)
    BY <2>1
  <2>4. rs[k].evidence = EvidenceOf(m)
    BY <2>2, <2>3 DEF RecordOf
  <2> QED
    BY <1>1, <2>4, EvidenceOfProperties
<1>7. ASSUME NEW v \in {"state_change", "conflict"}, NEW ls, Kept(v, ls), NEW t \in ToSet(ls)
      PROVE  /\ t.from # t.to /\ IsInjective(t.evidence) /\ t.evidence = decided[t.pair].evidence
             /\ {t.from, t.to} = {IdOf(canon, t.pair[1]), IdOf(canon, t.pair[2])} /\ t.from < t.to
  <2>1. PICK k \in DOMAIN ls : t = ls[k]
    BY DEF ToSet
  <2>2. /\ Grounded(t.pair) /\ t.evidence = decided[t.pair].evidence
        /\ {IdOf(canon, t.pair[1]), IdOf(canon, t.pair[2])} = {t.from, t.to}
        /\ t.from \in 1..Len(canon) /\ t.to \in 1..Len(canon) /\ t.from < t.to
    <3>1. /\ Grounded(ls[k].pair) /\ ls[k].evidence = decided[ls[k].pair].evidence
          /\ {IdOf(canon, ls[k].pair[1]), IdOf(canon, ls[k].pair[2])} = {ls[k].from, ls[k].to}
          /\ ls[k].from \in 1..Len(canon) /\ ls[k].to \in 1..Len(canon) /\ ls[k].from < ls[k].to
      <4>1. Leads(ls[k])
        BY <1>7, KeptFacts
      <4> QED
        BY <4>1 DEF Leads
    <3> QED
      BY <2>1, <3>1
  <2>3. IsInjective(t.evidence)
    BY <2>2 DEF Grounded
  <2>4. t.from # t.to
    BY <2>2, ReadyFacts
  <2> QED
    BY <2>2, <2>3, <2>4
<1>8. ASSUME NEW v, NEW ls, Kept(v, ls) PROVE {t.pair : t \in ToSet(ls)} = With(v)
  <2>0. \A k \in DOMAIN ls : ls[k].pair \in With(v)
    BY <1>8 DEF Kept
  <2>1. \A t \in ToSet(ls) : t.pair \in With(v)
    BY <2>0 DEF ToSet
  <2>2. \A p \in With(v) : \E t \in ToSet(ls) : t.pair = p
    BY <1>8 DEF Kept, ToSet
  <2> QED
    BY <2>1, <2>2
<1> QED
    BY <1>2, <1>3, <1>4, <1>5, <1>6, <1>7, <1>8 DEF Coherent

\* Planning's own decisions rest on the evidence of both sides.
LEMMA DeterministicIsGrounded ==
    ASSUME Indexed, NEW p \in Pairs, NEW pl,
           p \in DOMAIN Deterministic(input.domain, index, pl)
    PROVE  LET d == Deterministic(input.domain, index, pl)[p] IN
           /\ d.verdict \in Verdicts(input.domain)
           /\ IsInjective(d.evidence)
           /\ ToSet(d.evidence) \subseteq ToSet(index[p[1]].evidence) \union ToSet(index[p[2]].evidence)
PROOF
<1>1. p[1] \in Candidates /\ p[2] \in Candidates
    BY PairsAreFinite
<1>2. PICK a \in Seq(Evidence), b \in Seq(Evidence) :
          a = index[p[1]].evidence /\ b = index[p[2]].evidence
    BY <1>1, IndexFacts
<1>3. PICK d : d = Deterministic(input.domain, index, pl)[p]
    OBVIOUS
<1>4. d.verdict = Merging[input.domain] /\ d.evidence = Deduped(a \o b)
    BY <1>2, <1>3 DEF Deterministic
<1>5. a \o b \in Seq(Evidence) /\ ToSet(a \o b) = ToSet(a) \union ToSet(b)
    BY ToSetOfConcat
<1>6. IsInjective(d.evidence) /\ ToSet(d.evidence) = ToSet(a) \union ToSet(b)
    BY <1>4, <1>5, DedupedProperties
<1>7. d.verdict \in Verdicts(input.domain)
    BY <1>4 DEF Verdicts
<1> QED
    BY <1>2, <1>3, <1>6, <1>7

\* What does not change is indexed, planned and covered as before.
LEMMA PlanStays ==
    ASSUME UNCHANGED <<input, index, plan, decided>>
    PROVE  /\ Indexed' <=> Indexed
           /\ Planned' <=> Planned
           /\ Covered' <=> Covered
PROOF
<1>1. Indexed' <=> Indexed
    BY DEF Indexed
<1>2. \A p : Grounded(p)' <=> Grounded(p)
    BY DEF Grounded
<1>3. Planned' <=> Planned
    BY <1>2 DEF Planned
<1>4. Covered' <=> Covered
    BY DEF Covered
<1> QED
    BY <1>1, <1>3, <1>4

\* So are identity and what is made of it.
LEMMA IdentityStays ==
    ASSUME UNCHANGED <<input, index, decided>>
    PROVE  /\ Canonical(Roots)' = Canonical(Roots)
           /\ Contradicted(Roots)' <=> Contradicted(Roots)
           /\ \A m : RecordOf(m)' = RecordOf(m)
PROOF
<1>1. Canonical(Roots)' = Canonical(Roots)
    BY DEF Canonical, Members, SortedBy, Earlier, PlaceInText, Roots, Merges, With
<1>2. Contradicted(Roots)' <=> Contradicted(Roots)
    BY DEF Contradicted, Roots, Merges, With
<1>3. \A m : RecordOf(m)' = RecordOf(m)
    BY DEF RecordOf, EvidenceOf, WithEvidence, ModeOf, History, FoldLeft, MapThenFoldSet,
           Told, Rank, Earlier, PlaceInText
<1> QED
    BY <1>1, <1>2, <1>3

\* A step that leaves the records, the answers and the plan keeps what Kept says of a sequence.
LEMMA KeptStays ==
    ASSUME UNCHANGED <<decided, canon>>
    PROVE  \A v, ls : Kept(v, ls)' <=> Kept(v, ls)
    BY DEF Kept, With

-----------------------------------------------------------------------------
(* The steps.                                                              *)

\* The invariant holds of a run that has not indexed its candidates yet.
LEMMA ConsolidationInvInit ==
    ConsolidationInit => ConsolidationInv
    BY DEF ConsolidationInit, ConsolidationInv

\* Indexing keeps the invariant.
LEMMA IndexKeepsInv ==
    ASSUME ConsolidationInv, Index PROVE ConsolidationInv'
PROOF
<1>1. CASE stage' = "failed"
    BY <1>1 DEF ConsolidationInv, Index
<1>2. CASE stage' = "plan"
  <2>1. Indexed'
    BY <1>2 DEF ConsolidationInv, Index, Indexed
  <2> QED
    BY <1>2, <2>1 DEF ConsolidationInv, Index
<1> QED
    BY <1>1, <1>2 DEF Index

\* Planning the pairs keeps the invariant.
LEMMA PlanKeepsInv ==
    ASSUME ConsolidationInv, Plan PROVE ConsolidationInv'
PROOF
<1>1. /\ Indexed /\ stage' = "ask" /\ UNCHANGED <<input, index>>
      /\ plan' = PlanOf(input.domain, index)
      /\ decided' = Deterministic(input.domain, index, plan')
    BY DEF ConsolidationInv, Plan
<1>2. Indexed'
    BY <1>1 DEF Indexed
<1>3. ASSUME NEW p \in Pairs \cap DOMAIN decided' PROVE Grounded(p)'
  <2>1. PICK pl : pl = plan'
    OBVIOUS
  <2>2. decided' = Deterministic(input.domain, index, pl)
    BY <1>1, <2>1
  <2>3. LET d == Deterministic(input.domain, index, pl)[p] IN
           /\ d.verdict \in Verdicts(input.domain)
           /\ IsInjective(d.evidence)
           /\ ToSet(d.evidence) \subseteq ToSet(index[p[1]].evidence) \union ToSet(index[p[2]].evidence)
    BY <1>1, <1>3, <2>2, DeterministicIsGrounded
  <2> QED
    BY <1>1, <2>2, <2>3 DEF Grounded
<1>4. Planned'
    BY <1>1, <1>3 DEF Planned
<1> QED
    BY <1>1, <1>2, <1>4 DEF ConsolidationInv

\* An answer for a pair, first or repeated, keeps the invariant.
LEMMA DecidesKeepsInv ==
    ASSUME ConsolidationInv, Decides PROVE ConsolidationInv'
PROOF
<1>1. PICK verdicts \in [DOMAIN Block -> Verdicts(input.domain)], sel \in Selections :
          Decide(verdicts, sel)
    BY DEF Decides
<1>2. PICK bl : bl = Block
    OBVIOUS
<1>2a. /\ stage = "ask" /\ stage' = stage /\ UNCHANGED <<input, index, plan>>
       /\ \A p \in ToSet(Block) : ValidSelection(p, sel)
    BY <1>1 DEF Decide, Calls
<1>2b. Indexed /\ Planned
    BY <1>2a DEF ConsolidationInv
<1>2c. decided' = [p \in DOMAIN decided \union ToSet(Block) |->
           IF p \in DOMAIN decided THEN decided[p]
           ELSE [verdict |-> verdicts[CHOOSE k \in DOMAIN Block : Block[k] = p],
                 method |-> "llm", evidence |-> Selected(p, sel)]]
    BY <1>1 DEF Decide
<1>3. /\ Indexed /\ Planned /\ stage' = "ask" /\ UNCHANGED <<input, index, plan>>
      /\ \A p \in ToSet(bl) : ValidSelection(p, sel)
      /\ verdicts \in [DOMAIN bl -> Verdicts(input.domain)]
      /\ decided' = [p \in DOMAIN decided \union ToSet(bl) |->
           IF p \in DOMAIN decided THEN decided[p]
           ELSE [verdict |-> verdicts[CHOOSE k \in DOMAIN bl : bl[k] = p],
                 method |-> "llm", evidence |-> Selected(p, sel)]]
    BY <1>1, <1>2, <1>2a, <1>2b, <1>2c
<1>4. Indexed'
    BY <1>3 DEF Indexed
<1>5. ASSUME NEW p \in Pairs \cap DOMAIN decided' PROVE Grounded(p)'
  <2>1. CASE p \in DOMAIN decided
    <3>1. decided'[p] = decided[p] /\ Grounded(p)
      BY <1>3, <2>1 DEF Planned
    <3> QED
      BY <1>3, <3>1 DEF Grounded
  <2>2. CASE p \notin DOMAIN decided
    <3>1. p \in ToSet(bl)
      BY <1>3, <2>2
    <3>2. PICK v : v = verdicts[CHOOSE k \in DOMAIN bl : bl[k] = p]
      OBVIOUS
    <3>3. v \in Verdicts(input.domain)
      BY <1>3, <3>1, <3>2 DEF ToSet
    <3>4. decided'[p] = [verdict |-> v, method |-> "llm", evidence |-> Selected(p, sel)]
      BY <1>3, <2>2, <3>1, <3>2
    <3>5. PICK e : e = Selected(p, sel)
      OBVIOUS
    <3>6. IsInjective(e)
          /\ ToSet(e) \subseteq ToSet(index[p[1]].evidence) \union ToSet(index[p[2]].evidence)
      BY <1>3, <1>5, <3>1, <3>5, SelectedProperties
    <3>7. decided'[p].verdict = v /\ decided'[p].evidence = e
      BY <3>4, <3>5
    <3> QED
      BY <1>3, <3>3, <3>6, <3>7 DEF Grounded
  <2> QED
    BY <2>1, <2>2
<1>6. Planned'
    BY <1>3, <1>5 DEF Planned
<1> QED
    BY <1>3, <1>4, <1>6 DEF ConsolidationInv

\* A refused plan or a failed answer keeps the invariant.
LEMMA RefusalsKeepInv ==
    ASSUME ConsolidationInv, Reject \/ Fail PROVE ConsolidationInv'
PROOF
<1>1. /\ stage = "ask" /\ stage' \in {"ask", "exhausted", "failed"}
      /\ UNCHANGED <<input, index, plan, decided>>
    BY DEF Reject, Fail, Calls
<1>2. Indexed' /\ Planned'
    BY <1>1, PlanStays DEF ConsolidationInv
<1> QED
    BY <1>1, <1>2 DEF ConsolidationInv

\* Joining the identical pairs keeps the invariant.
LEMMA ResolveKeepsInv ==
    ASSUME ConsolidationInv, Resolve PROVE ConsolidationInv'
PROOF
<1>1. /\ stage = "ask" /\ stage' = IF Covered THEN "finalize" ELSE "failed"
      /\ UNCHANGED <<input, index, plan, decided>>
    BY DEF Resolve
<1>2. Indexed' /\ Planned' /\ (Covered' <=> Covered)
    BY <1>1, PlanStays DEF ConsolidationInv
<1> QED
    BY <1>1, <1>2 DEF ConsolidationInv

\* Numbering the components keeps the invariant.
LEMMA IdentifyKeepsInv ==
    ASSUME ConsolidationInv, Identify PROVE ConsolidationInv'
PROOF
<1>1. /\ stage = "finalize" /\ UNCHANGED <<input, index, plan, decided>>
      /\ IF Contradicted(Roots) THEN stage' = "contradicted"
         ELSE stage' = "assemble" /\ canon' = Canonical(Roots)
    BY DEF Identify
<1>2. Indexed' /\ Planned' /\ Covered'
    BY <1>1, PlanStays DEF ConsolidationInv
<1>3. Canonical(Roots)' = Canonical(Roots) /\ (Contradicted(Roots)' <=> Contradicted(Roots))
    BY <1>1, IdentityStays
<1> QED
    BY <1>1, <1>2, <1>3 DEF ConsolidationInv

\* Assembling the records, the transitions and the histories keeps the invariant.
LEMMA AssembleKeepsInv ==
    ASSUME ConsolidationInv, Assemble PROVE ConsolidationInv'
PROOF
<1>1. PICK ts \in Joins("state_change", canon), fs \in Joins("conflict", canon) :
           /\ links' = [k \in DOMAIN ts |-> Transition(canon, ts[k])]
           /\ conflicts' = fs
    BY DEF Assemble
<1>2. /\ stage = "assemble" /\ UNCHANGED <<input, index, plan, decided, canon>>
      /\ records' = [k \in DOMAIN canon |-> RecordOf(canon[k])]
      /\ stage' = IF Coherent(canon, records', links', conflicts') THEN "finalized" ELSE "incoherent"
    BY DEF Assemble
<1>3. ReadyToAssemble
    BY <1>2 DEF ConsolidationInv, ReadyToAssemble
<1>4. \A v \in {"state_change", "conflict"} :
          With(v) \subseteq Pairs /\ (input.domain # "fact" => With(v) = {})
    BY <1>3, PlanFacts, OnlyFactsAreJoined DEF ReadyToAssemble
<1>5. Roots \in [Candidates -> Candidates] /\ Records(Roots, canon)
    BY <1>3, ReadyFacts
<1>6. Kept("state_change", ts) /\ Kept("conflict", fs)
    BY <1>4, <1>5, JoinsAreKept
<1>7. PICK rs, ls, cf : rs = records' /\ ls = links' /\ cf = conflicts'
    OBVIOUS
<1>8. Kept("state_change", ls) /\ Kept("conflict", cf)
    BY <1>1, <1>6, <1>7, TransitionsAreKept
<1>9. Coherent(canon, rs, ls, cf)
    BY <1>2, <1>3, <1>7, <1>8, AssemblyIsCoherent
<1>10. stage' = "finalized"
    BY <1>2, <1>7, <1>9
<1>11. Indexed' /\ Planned' /\ Covered'
    BY <1>2, PlanStays DEF ConsolidationInv
<1>12. /\ canon' = Canonical(Roots)' /\ ~Contradicted(Roots)'
       /\ \A m : RecordOf(m)' = RecordOf(m)
    BY <1>2, IdentityStays DEF ConsolidationInv
<1>13. Kept("state_change", ls)' /\ Kept("conflict", cf)'
    BY <1>2, <1>8, KeptStays
<1>14. Assembled'
    BY <1>2, <1>7, <1>12, <1>13 DEF Assembled
<1> QED
    BY <1>2, <1>10, <1>11, <1>12, <1>14 DEF ConsolidationInv

\* Every step keeps the invariant.
LEMMA ConsolidationInvInductive ==
    ASSUME ConsolidationInv, [ConsolidationNext]_consolidationVars PROVE ConsolidationInv'
PROOF
<1>1. CASE ConsolidationNext
    BY <1>1, IndexKeepsInv, PlanKeepsInv, DecidesKeepsInv, RefusalsKeepInv, ResolveKeepsInv,
       IdentifyKeepsInv, AssembleKeepsInv DEF ConsolidationNext
<1>2. CASE UNCHANGED consolidationVars
  <2>1. UNCHANGED <<input, index, plan, decided, canon, records, links, conflicts, stage>>
    BY <1>2 DEF consolidationVars, made
  <2>2. /\ Indexed' <=> Indexed
        /\ Planned' <=> Planned
        /\ Covered' <=> Covered
    BY <2>1, PlanStays
  <2>3. /\ Canonical(Roots)' = Canonical(Roots)
        /\ Contradicted(Roots)' <=> Contradicted(Roots)
        /\ \A m : RecordOf(m)' = RecordOf(m)
    BY <2>1, IdentityStays
  <2>4. \A v, ls : Kept(v, ls)' <=> Kept(v, ls)
    BY <2>1, KeptStays
  <2>5. Assembled => Assembled'
    BY <2>1, <2>3, <2>4 DEF Assembled
  <2> QED
    BY <2>1, <2>2, <2>3, <2>5 DEF ConsolidationInv
<1> QED
    BY <1>1, <1>2

\* The invariant of a consolidation run holds in every state: the index, the plan, the answers and
\* what each stage has built from them agree (consolidation.py and consolidation_finalization.py).
THEOREM ConsolidationInvHolds == ConsolidationSpec => []ConsolidationInv
PROOF
<1>1. ConsolidationInit => ConsolidationInv
    BY ConsolidationInvInit
<1>2. ConsolidationInv /\ [ConsolidationNext]_consolidationVars => ConsolidationInv'
    BY ConsolidationInvInductive
<1> QED
    BY <1>1, <1>2, PTL DEF ConsolidationSpec

\* Whatever the candidates, the selections and the answers, a finished run has put two candidates
\* into one record exactly when the identical decisions connect them, and never two that an answer
\* or their kinds hold apart: the union of consolidation_semantic.py honours the answers in any order.
THEOREM RunsHonourDecisions == ConsolidationSpec => []IdentityHonoursDecisions
PROOF
<1>1. ConsolidationInv => IdentityHonoursDecisions
    BY InvariantHonoursDecisions
<1> QED
    BY <1>1, ConsolidationInvHolds, PTL

\* In every finished run, the records, the members of each, the changes between them and the
\* history of a relationship are in the order of the text (_canonical_records and the assemblers of
\* consolidation_finalization.py).
THEOREM RunsFollowTheText == ConsolidationSpec => []RecordsFollowTheText
PROOF
<1>1. ConsolidationInv => RecordsFollowTheText
    BY InvariantFollowsTheText
<1> QED
    BY <1>1, ConsolidationInvHolds, PTL

\* In every finished run, each change or conflict an answer established is told once, between the
\* records of the two candidates, with evidence of those records; and the coherence checks of
\* consolidation_finalization.py never refuse what the assembler built.
THEOREM RunsKeepChanges == ConsolidationSpec => []ChangesAreKept
PROOF
<1>1. ConsolidationInv => ChangesAreKept
    BY InvariantKeepsChanges
<1> QED
    BY <1>1, ConsolidationInvHolds, PTL
=============================================================================

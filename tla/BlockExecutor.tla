---------------------------- MODULE BlockExecutor ----------------------------
(***************************************************************************)
(* The semantic resolution of one A5 domain (facts, events, relationships),*)
(* story/consolidation_semantic.py: the blocks of prepared pairs go to the *)
(* language model, first all of them once, at most `limit` at a time in a  *)
(* ThreadPoolExecutor, then, behind a barrier, the semantically invalid    *)
(* ones once more, one by one in the order of their ordinals.  An error    *)
(* stops the submission; calls under way settle, and of the errors of the  *)
(* first stage the one with the lowest ordinal is raised.                  *)
(*                                                                         *)
(* A block is its index in the preparation.  What the model answers for a  *)
(* block in each round is chosen at the beginning, so that results can be  *)
(* compared with those of a serial run; `error` is a provider error after  *)
(* its technical retries, or wrong provenance.  The pool is Python's: one  *)
(* queue in order of submission, a thread that has taken a work item but   *)
(* has not begun it can still find it cancelled.                           *)
(***************************************************************************)
EXTENDS Integers, FiniteSets

CONSTANTS N,         \* blocks of the preparation
          MaxLimit,  \* bound on max_concurrency
          Ordinals   \* assignments of block_ordinal to blocks

Blocks == 1..N

ASSUME BlockBounds ==
    /\ N \in Nat \ {0}
    /\ MaxLimit \in Nat \ {0}
    /\ Ordinals \subseteq [Blocks -> Nat]
    /\ \A o \in Ordinals : \A b, c \in Blocks : o[b] = o[c] => b = c

VARIABLES limit,     \* max_concurrency
          supported, \* llm_client.supports_concurrent_calls
          ordinal,   \* block_ordinal of each block
          answer,    \* answer[b][i]: what round i of block b comes to
          pc,        \* the next step of the calling thread
          next,      \* next_index: the first block that was not submitted
          future,    \* future[b]: what became of b's work item
          watched,   \* the futures the caller has not looked at yet
          doomed,    \* those it is about to cancel
          failures,  \* blocks with a recorded exception
          results,   \* results[i]: the block whose result has place i, or 0
          retries,   \* semantically invalid blocks that await their retry
          calls,     \* history: calls[b] provider calls begun for b
          outcome    \* how the resolution ended

inputs == <<limit, supported, ordinal, answer>>
vars == <<inputs, pc, next, future, watched, doomed, failures, results, retries,
          calls, outcome>>

Answers == {"valid", "invalid", "error"}
\* The second round matters only after an invalid first one.
Rounds == {a \in [1..2 -> Answers] : a[1] # "invalid" => a[2] = "valid"}
Futures == {"none", "queued", "taken", "running", "finished", "cancelled"}
Steps == {"begin", "serial", "submit", "wait", "cancel", "drain", "retry", "retrying",
          "end"}
Running == [kind |-> "running", block |-> 0]
Ok == [kind |-> "ok", block |-> 0]
Refused == [kind |-> "refused", block |-> 0]
Raised(b) == [kind |-> "raised", block |-> b]
Outcome == {Running, Ok, Refused} \union {Raised(b) : b \in Blocks}

TypeOK ==
    /\ limit \in 1..MaxLimit
    /\ supported \in BOOLEAN
    /\ ordinal \in Ordinals
    /\ answer \in [Blocks -> Rounds]
    /\ pc \in Steps
    /\ next \in 1..(N + 1)
    /\ future \in [Blocks -> Futures]
    /\ watched \subseteq Blocks
    /\ doomed \subseteq watched
    /\ failures \subseteq Blocks
    /\ results \in [Blocks -> 0..N]
    /\ retries \subseteq Blocks
    /\ calls \in [Blocks -> 0..2]
    /\ outcome \in Outcome

Init ==
    /\ limit \in 1..MaxLimit
    /\ supported \in BOOLEAN
    /\ ordinal \in Ordinals
    /\ answer \in [Blocks -> Rounds]
    /\ pc = "begin"
    /\ next = 1
    /\ future = [b \in Blocks |-> "none"]
    /\ watched = {}
    /\ doomed = {}
    /\ failures = {}
    /\ results = [b \in Blocks |-> 0]
    /\ retries = {}
    /\ calls = [b \in Blocks |-> 0]
    /\ outcome = Running

-----------------------------------------------------------------------------
IsLowest(b, S) == b \in S /\ \A c \in S : ordinal[b] \leq ordinal[c]
IsFirst(b, S) == b \in S /\ \A c \in S : b \leq c

\* Faulty variant, for the check of the properties: results in the order of the
\* ordinals.
PlaceByOrdinal(found, done) ==
    LET Rank(b) == Cardinality({c \in Blocks : ordinal[c] \leq ordinal[b]})
    IN [i \in Blocks |-> IF \E b \in done : Rank(b) = i
                         THEN CHOOSE b \in done : Rank(b) = i ELSE found[i]]

\* results[index] = ...: each result at the index of its block.
Place(found, done) == [i \in Blocks |-> IF i \in done THEN i ELSE found[i]]

\* Faulty variant: the first exception that was observed.
RaiseAny(failed) ==
    /\ pc' = "end"
    /\ \E b \in Blocks : IsFirst(b, failed) /\ outcome' = Raised(b)

\* raise failures[min(failures)].
RaiseLowest(failed) ==
    /\ pc' = "end"
    /\ \E b \in Blocks : IsLowest(b, failed) /\ outcome' = Raised(b)

\* The first stage is over: retries in the order of their ordinals, or the
\* end.  What was placed for an invalid block is not a result yet.
Barrier(found) ==
    LET invalid == {b \in Blocks : answer[b][1] = "invalid"}
    IN /\ retries' = invalid
       /\ results' = [i \in Blocks |-> IF found[i] \in invalid THEN 0 ELSE found[i]]
       /\ pc' = IF invalid = {} THEN "end" ELSE "retry"
       /\ outcome' = IF invalid = {} THEN Ok ELSE outcome

-----------------------------------------------------------------------------
(* The calling thread, first stage.                                        *)

\* A client that does not support concurrent calls is refused before the first
\* call; one call at a time needs no executor.
Begin ==
    /\ pc = "begin"
    /\ IF limit > 1 /\ ~supported
       THEN pc' = "end" /\ outcome' = Refused
       ELSE pc' = (IF limit = 1 THEN "serial" ELSE "submit") /\ UNCHANGED outcome
    /\ UNCHANGED <<inputs, next, future, watched, doomed, failures, results, retries, calls>>

Serial ==
    /\ pc = "serial"
    /\ next' = next + 1
    /\ calls' = [calls EXCEPT ![next] = @ + 1]
    /\ IF answer[next][1] = "error"
       THEN /\ pc' = "end"
            /\ outcome' = Raised(next)
            /\ UNCHANGED <<results, retries>>
       ELSE IF next = N THEN Barrier(Place(results, {next}))
       ELSE /\ results' = Place(results, {next})
            /\ UNCHANGED <<pc, retries, outcome>>
    /\ UNCHANGED <<inputs, future, watched, doomed, failures>>

\* executor.submit, as long as the window has room.
Submit ==
    /\ pc = "submit"
    /\ future' = [future EXCEPT ![next] = "queued"]
    /\ watched' = watched \union {next}
    /\ next' = next + 1
    /\ pc' = IF next < N /\ Cardinality(watched') < limit THEN "submit" ELSE "wait"
    /\ UNCHANGED <<inputs, doomed, failures, results, retries, calls, outcome>>

Finished == {b \in watched : future[b] = "finished"}
Failed(S) == {b \in S : answer[b][1] = "error"}

\* Faulty variant: a finished future stays in the window.
WaitKeepsFinished ==
    /\ pc = "wait"
    /\ Finished # {}
    /\ failures' = failures \union Failed(Finished)
    /\ results' = Place(results, Finished \ Failed(Finished))
    /\ IF failures' # {}
       THEN pc' = "cancel" /\ doomed' = watched
       ELSE /\ pc' = IF next <= N /\ Cardinality(watched) < limit THEN "submit" ELSE "wait"
            /\ UNCHANGED doomed
    /\ UNCHANGED <<inputs, next, future, watched, retries, calls, outcome>>

\* wait(FIRST_COMPLETED) returns everything that has finished; an exception
\* stops the submission.  Leaving the executor waits for its threads, which
\* have nothing left to do when no future is watched.
Wait ==
    /\ pc = "wait"
    /\ Finished # {}
    /\ watched' = watched \ Finished
    /\ failures' = failures \union Failed(Finished)
    /\ LET found == Place(results, Finished \ Failed(Finished))
       IN IF failures' # {}
          THEN /\ pc' = "cancel"
               /\ doomed' = watched'
               /\ results' = found
               /\ UNCHANGED <<retries, outcome>>
          ELSE /\ UNCHANGED doomed
               /\ IF watched' = {} /\ next > N THEN Barrier(found)
                  ELSE /\ pc' = IF next > N THEN "wait" ELSE "submit"
                       /\ results' = found
                       /\ UNCHANGED <<retries, outcome>>
    /\ UNCHANGED <<inputs, next, future, calls>>

\* future.cancel(), one future after the other: it fails once the call began.
Cancel ==
    /\ pc = "cancel"
    /\ IF doomed = {}
       THEN pc' = "drain" /\ UNCHANGED <<doomed, future>>
       ELSE \E b \in Blocks :
               /\ IsFirst(b, doomed)
               /\ doomed' = doomed \ {b}
               /\ future' = IF future[b] \in {"queued", "taken"}
                            THEN [future EXCEPT ![b] = "cancelled"] ELSE future
               /\ UNCHANGED pc
    /\ UNCHANGED <<inputs, next, watched, failures, results, retries, calls, outcome>>

\* Faulty variant: the first exception is raised at once.
DrainNothing ==
    /\ pc = "drain"
    /\ RaiseLowest(failures)
    /\ UNCHANGED <<inputs, next, future, watched, doomed, failures, results, retries, calls>>

\* future.result() of every future that was not cancelled.
Drain ==
    /\ pc = "drain"
    /\ \A b \in watched : future[b] \in {"finished", "cancelled"}
    /\ failures' = failures \union Failed(Finished)
    /\ results' = Place(results, Finished \ Failed(Finished))
    /\ watched' = {}
    /\ RaiseLowest(failures')
    /\ UNCHANGED <<inputs, next, future, doomed, retries, calls>>

-----------------------------------------------------------------------------
(* The calling thread, second stage.                                       *)

Retry ==
    /\ pc = "retry"
    /\ \E b \in Blocks : IsLowest(b, retries) /\ calls' = [calls EXCEPT ![b] = @ + 1]
    /\ pc' = "retrying"
    /\ UNCHANGED <<inputs, next, future, watched, doomed, failures, results, retries, outcome>>

\* A second invalid answer is ConsolidationSemanticGenerationError.
Retried ==
    /\ pc = "retrying"
    /\ \E b \in Blocks :
       /\ IsLowest(b, retries)
       /\ IF answer[b][2] = "valid"
          THEN /\ results' = Place(results, {b})
               /\ retries' = retries \ {b}
               /\ pc' = IF retries' = {} THEN "end" ELSE "retry"
               /\ outcome' = IF retries' = {} THEN Ok ELSE outcome
          ELSE /\ pc' = "end"
               /\ outcome' = Raised(b)
               /\ UNCHANGED <<results, retries>>
    /\ UNCHANGED <<inputs, next, future, watched, doomed, failures, calls>>

-----------------------------------------------------------------------------
(* The pool: at most `limit` threads.                                      *)

InFlight == {b \in Blocks : future[b] \in {"taken", "running"}}

Take(b) ==
    /\ future[b] = "queued"
    /\ \A c \in Blocks : future[c] = "queued" => b \leq c
    /\ Cardinality(InFlight) < limit
    /\ future' = [future EXCEPT ![b] = "taken"]
    /\ UNCHANGED <<inputs, pc, next, watched, doomed, failures, results, retries, calls, outcome>>

\* set_running_or_notify_cancel, and the call begins.
Run(b) ==
    /\ future[b] = "taken"
    /\ future' = [future EXCEPT ![b] = "running"]
    /\ calls' = [calls EXCEPT ![b] = @ + 1]
    /\ UNCHANGED <<inputs, pc, next, watched, doomed, failures, results, retries, outcome>>

\* The model answers, or the client gives up.
Answer(b) ==
    /\ future[b] = "running"
    /\ future' = [future EXCEPT ![b] = "finished"]
    /\ UNCHANGED <<inputs, pc, next, watched, doomed, failures, results, retries, calls, outcome>>

Caller == Begin \/ Serial \/ Submit \/ Wait \/ Cancel \/ Drain \/ Retry \/ Retried
Pool == \E b \in Blocks : Take(b) \/ Run(b) \/ Answer(b)

\* The resolution has ended.
Ended == pc = "end" /\ UNCHANGED vars

Next == Caller \/ Pool \/ Ended

Spec == Init /\ [][Next]_vars

\* The interpreter runs its threads, and every provider call ends (the client
\* has a timeout).
FairSpec == Spec /\ WF_vars(Caller) /\ WF_vars(Pool)

-----------------------------------------------------------------------------
(* Properties.                                                             *)

\* A serial run without concurrency succeeds.
SerialSucceeds ==
    \A b \in Blocks : answer[b][1] # "error" /\ answer[b][2] = "valid"

\* Concurrency changes nothing but the time: the resolution succeeds exactly
\* when a serial one would, with every block's result at its own place and as
\* many calls per block as the serial one makes.
ConcurrencyIsInvisible ==
    /\ outcome.kind = "ok" =>
           /\ SerialSucceeds
           /\ \A b \in Blocks :
                  /\ results[b] = b
                  /\ calls[b] = IF answer[b][1] = "invalid" THEN 2 ELSE 1
    /\ outcome.kind = "raised" => ~SerialSucceeds

\* The error that is raised is that of the lowest ordinal of all the calls of
\* the stage that were begun, whichever was observed first.
LowestErrorIsRaised ==
    outcome.kind = "raised" =>
        LET b == outcome.block
        IN IF answer[b][1] = "error"
           THEN \A c \in Blocks : calls[c] > 0 /\ answer[c][1] = "error" => ordinal[b] \leq ordinal[c]
           ELSE \A c \in Blocks : calls[c] = 2 /\ answer[c][2] # "valid" => ordinal[b] \leq ordinal[c]

\* When the resolution has returned or raised, no call to the provider is
\* under way or can still begin.
NothingIsLeftBehind ==
    outcome # Running => \A b \in Blocks : future[b] \in {"none", "finished", "cancelled"}

\* A retry begins when every first call has settled, and alone; the retries
\* ascend, so that a block that fails for good stops those above it.
RetriesAreIsolated ==
    \A b \in Blocks : calls[b] = 2 =>
        /\ InFlight = {}
        /\ \A c \in Blocks : calls[c] > 0
        /\ \A c \in Blocks :
               answer[c][1] = "invalid" /\ ordinal[c] < ordinal[b] =>
                   calls[c] = 2 /\ answer[c][2] = "valid"

\* Every resolution ends, with a result or an exception, whatever the order in
\* which calls finish, fail or are cancelled.
ResolutionEnds == <>(outcome # Running)
=============================================================================

------------------------------ MODULE B13Runner ------------------------------
(***************************************************************************)
(* run_b13_resumable: bounded, resumable generation of the B1.3 windows of *)
(* one preparation.  Processes share a claim directory and a checkpoint    *)
(* directory on disk, and take turns under one flock.  A run plans by      *)
(* reading every checkpoint, claims a missing window, calls the provider   *)
(* at most MaxRounds times, saves the accepted proposal as a checkpoint    *)
(* and plans again before it reports.  Claims are never reclaimed.         *)
(*                                                                         *)
(* Files are named by window and request identity, so a claim or a         *)
(* checkpoint is a member of a set per window.  Another preparation has    *)
(* other names and is not modelled; neither are private-directory checks,  *)
(* which refuse a run before it has any effect.                            *)
(*                                                                         *)
(* A process may die between two steps (the kernel then releases its       *)
(* flock), the machine may lose power (links that were not fsynced may be  *)
(* gone), any fsync may fail, and the authority the preparation rests on   *)
(* may be superseded.                                                      *)
(***************************************************************************)
EXTENDS Integers, FiniteSets, GenerationPolicy

CONSTANTS Runners,    \* processes that call run_b13_resumable
          N,          \* number of windows of the preparation
          Requests,   \* request identities a session can have for them
          Proposals   \* proposals the provider can answer with

ASSUME BoundsArePositive == N \in Nat \ {0} /\ MaxRounds \in Nat \ {0}
ASSUME NoneIsNothing == None \notin Runners \union Requests \union Proposals

VARIABLES claims,     \* claims[w]: the requests for which w has a claim file
          durableClaims, \* the claims that survive a power loss
          checkpoint, \* checkpoint[w][q]: the proposal on disk, or None
          durable,    \* the <<w, q>> whose checkpoint survives a power loss
          owner,      \* the process that holds the flock, or None
          authority,  \* do A5/A6 and strategy CURRENT still match
          calls,      \* history: calls[w] provider calls made for w
          pc,         \* pc[r]: the next step of r's run
          run,        \* run[r]: the local variables of r's run
          result      \* result[r]: how r's last run ended, or None

disk == <<claims, durableClaims, checkpoint, durable>>
runnerVars == <<disk, owner, authority, calls, pc, run, result>>

Windows == 1..N
Evidence == [Windows -> Proposals \union {None}]
NoEvidence == [w \in Windows |-> None]

\* The plans that re-read every checkpoint, by their place in the run.
Plans == {"plan", "replan", "recheck", "presave", "final"}
Guarded == {"replan", "recheck", "next", "claim", "syncclaim", "dispatch", "respond",
            "presave", "save", "syncsave", "verify"}
Steps == {"idle", "lock"} \union Plans \union Guarded

Run == [request : Requests \union {None}, max : 0..N,
        pos : 1..(N + 1),             \* next window the current plan reads
        seen : Evidence,              \* what the current plan has read
        plan : Evidence,              \* the plan the run works from
        generated : Evidence,         \* what this run generated and saved
        window : 0..N,                \* the window in execution
        round : 0..MaxRounds,
        accepted : Proposals \union {None}]
NoRun == [request |-> None, max |-> 0, pos |-> 1, seen |-> NoEvidence,
          plan |-> NoEvidence, generated |-> NoEvidence, window |-> 0, round |-> 0,
          accepted |-> None]
Result == [status : {"COMPLETE", "BOUNDED_PROGRESS", "FAILED"},
           request : Requests, proposals : Evidence]

TypeOK ==
    /\ claims \in [Windows -> SUBSET Requests]
    /\ durableClaims \in [Windows -> SUBSET Requests]
    /\ checkpoint \in [Windows -> [Requests -> Proposals \union {None}]]
    /\ durable \in SUBSET (Windows \X Requests)
    /\ owner \in Runners \union {None}
    /\ authority \in BOOLEAN
    /\ calls \in [Windows -> Nat]
    /\ pc \in [Runners -> Steps]
    /\ run \in [Runners -> Run]
    /\ result \in [Runners -> Result \union {None}]

RunnerInit ==
    /\ claims = [w \in Windows |-> {}]
    /\ durableClaims = claims
    /\ checkpoint = [w \in Windows |-> [q \in Requests |-> None]]
    /\ durable = {}
    /\ owner = None
    /\ authority = TRUE
    /\ calls = [w \in Windows |-> 0]
    /\ pc = [r \in Runners |-> "idle"]
    /\ run = [r \in Runners |-> NoRun]
    /\ result = [r \in Runners |-> None]

-----------------------------------------------------------------------------
Goto(r, s) == pc' = [pc EXCEPT ![r] = s]

\* Leaving the with block closes the lock file.
Release(r) == owner' = IF owner = r THEN None ELSE owner

\* The run ends: it returns, or raises (FAILED), and its locals are gone.
End(r, status, proposals) ==
    /\ Goto(r, "idle")
    /\ Release(r)
    /\ run' = [run EXCEPT ![r] = NoRun]
    /\ result' = [result EXCEPT ![r] =
           [status |-> status, request |-> run[r].request, proposals |-> proposals]]

Fail(r) == End(r, "FAILED", NoEvidence)

\* Entering a plan: nothing read yet.
StartPlan(r, s, locals) ==
    /\ Goto(r, s)
    /\ run' = [run EXCEPT ![r] = [locals EXCEPT !.pos = 1, !.seen = NoEvidence]]

\* _reject_other_window_checkpoint: a checkpoint of w under another request.
OtherCheckpoint(w, q) == \E p \in Requests \ {q} : checkpoint[w][p] # None

Missing(r) == {w \in Windows : run[r].plan[w] = None}

\* missing[:max_new_windows] without the windows already generated.
Todo(r) ==
    {w \in Missing(r) :
        /\ run[r].generated[w] = None
        /\ Cardinality({v \in Missing(r) : v < w}) < run[r].max}

\* What the last plan must find: the initial evidence and this run's.
Expected(r) ==
    [w \in Windows |-> IF w \in Missing(r) THEN run[r].generated[w] ELSE run[r].plan[w]]

-----------------------------------------------------------------------------
(* Planning.                                                               *)

\* run_b13_resumable is called with a session and a bound.
Start(r, q, m) ==
    /\ pc[r] = "idle"
    /\ result' = [result EXCEPT ![r] = None]
    /\ StartPlan(r, "plan", [NoRun EXCEPT !.request = q, !.max = m])
    /\ UNCHANGED <<disk, owner, authority, calls>>

\* plan_b13_resume loads the checkpoints one after another.
LoadNext(r) ==
    LET w == run[r].pos
        q == run[r].request
    IN
    /\ pc[r] \in Plans
    /\ w \leq N
    /\ IF OtherCheckpoint(w, q)
       THEN Fail(r)
       ELSE /\ run' = [run EXCEPT ![r] =
                   [@ EXCEPT !.pos = w + 1, !.seen[w] = checkpoint[w][q]]]
            /\ UNCHANGED <<owner, pc, result>>
    /\ UNCHANGED <<disk, authority, calls>>

\* ... and verifies the preparation before and after; authority that is lost
\* stays lost, so the second verification decides.
PlanRead(r, s) == pc[r] = s /\ run[r].pos = N + 1

\* ... which a response also makes a round verify.
AuthorityLost(r) ==
    /\ pc[r] = "respond" \/ \E s \in Plans : PlanRead(r, s)
    /\ ~authority
    /\ Fail(r)
    /\ UNCHANGED <<disk, authority, calls>>

\* The first plan, without the guard: everything there, or off to the lock.
Planned(r) ==
    /\ PlanRead(r, "plan")
    /\ authority
    /\ IF None \in {run[r].seen[w] : w \in Windows}
       THEN Goto(r, "lock") /\ UNCHANGED run
       ELSE StartPlan(r, "final", [run[r] EXCEPT !.plan = run[r].seen])
    /\ UNCHANGED <<disk, owner, authority, calls, result>>

\* execution_guard: flock without waiting.
Lock(r) ==
    /\ pc[r] = "lock"
    /\ IF owner # None
       THEN Fail(r)
       ELSE /\ owner' = r
            /\ StartPlan(r, "replan", run[r])
            /\ UNCHANGED result
    /\ UNCHANGED <<disk, authority, calls>>

\* Under the guard: the missing windows must have no claim of any request.
Replanned(r) ==
    /\ PlanRead(r, "replan")
    /\ authority
    /\ IF \E w \in Windows : run[r].seen[w] = None /\ claims[w] # {}
       THEN Fail(r)
       ELSE /\ StartPlan(r, "recheck", [run[r] EXCEPT !.plan = run[r].seen])
            /\ UNCHANGED <<owner, result>>
    /\ UNCHANGED <<disk, authority, calls>>

\* A complete rebuild must find the same plan.
Rechecked(r) ==
    /\ PlanRead(r, "recheck")
    /\ authority
    /\ IF run[r].seen # run[r].plan
       THEN Fail(r)
       ELSE Goto(r, "next") /\ UNCHANGED <<owner, run, result>>
    /\ UNCHANGED <<disk, authority, calls>>

\* for window in missing[:max_new_windows]
NextWindow(r) ==
    /\ pc[r] = "next"
    /\ IF Todo(r) = {}
       THEN StartPlan(r, "final", run[r])
       ELSE \E w \in Todo(r) :
                /\ \A v \in Todo(r) : w \leq v
                /\ Goto(r, "claim")
                /\ run' = [run EXCEPT ![r] = [@ EXCEPT !.window = w, !.round = 0]]
    /\ UNCHANGED <<disk, owner, authority, calls, result>>

-----------------------------------------------------------------------------
(* Executing one window.                                                   *)

\* create_claim: no checkpoint, no claim of any request, then link(2).
Claim(r) ==
    LET w == run[r].window
        q == run[r].request
    IN
    /\ pc[r] = "claim"
    /\ IF ~authority \/ (\E p \in Requests : checkpoint[w][p] # None) \/ claims[w] # {}
       THEN Fail(r) /\ UNCHANGED claims
       ELSE /\ claims' = [claims EXCEPT ![w] = @ \union {q}]
            /\ Goto(r, "syncclaim")
            /\ UNCHANGED <<owner, run, result>>
    /\ UNCHANGED <<durableClaims, checkpoint, durable, authority, calls>>

\* Faulty variant, for the check of the properties: the claim directory is not
\* fsynced.
SyncNoClaim(r) ==
    /\ pc[r] = "syncclaim"
    /\ Goto(r, "dispatch")
    /\ UNCHANGED <<disk, owner, authority, calls, run, result>>

\* The fsync of the claim directory; every link before it is durable too.
SyncClaim(r) ==
    /\ pc[r] = "syncclaim"
    /\ durableClaims' = claims
    /\ Goto(r, "dispatch")
    /\ UNCHANGED <<claims, checkpoint, durable, owner, authority, calls, run, result>>

\* One semantic round: budget and authority are revalidated, then the
\* provider is called.
Dispatch(r) ==
    LET w == run[r].window IN
    /\ pc[r] = "dispatch"
    /\ IF ~authority
       THEN Fail(r) /\ UNCHANGED calls
       ELSE /\ calls' = [calls EXCEPT ![w] = @ + 1]
            /\ run' = [run EXCEPT ![r].round = @ + 1]
            /\ Goto(r, "respond")
            /\ UNCHANGED <<owner, result>>
    /\ UNCHANGED <<disk, authority>>

\* Faulty variant, for the check of the properties: an exhausted window is given
\* back to later runs.
ReleaseExhausted(r) ==
    /\ pc[r] = "respond"
    /\ authority
    /\ IF run[r].round < MaxRounds
       THEN Goto(r, "dispatch") /\ UNCHANGED <<claims, owner, run, result>>
       ELSE Fail(r) /\ claims' = [claims EXCEPT ![run[r].window] = {}]
    /\ UNCHANGED <<durableClaims, checkpoint, durable, authority, calls>>

\* A schema-valid proposal that B1.3 rejects: one more round, if any is left.
ResponseRejected(r) ==
    /\ pc[r] = "respond"
    /\ authority
    /\ IF run[r].round < MaxRounds
       THEN Goto(r, "dispatch") /\ UNCHANGED <<owner, run, result>>
       ELSE Fail(r)
    /\ UNCHANGED <<disk, authority, calls>>

ResponseAccepted(r, p) ==
    /\ pc[r] = "respond"
    /\ authority
    /\ StartPlan(r, "presave", [run[r] EXCEPT !.accepted = p])
    /\ UNCHANGED <<disk, owner, authority, calls, result>>

\* The plan is rebuilt before the save; its content is not used.
Presaved(r) ==
    /\ PlanRead(r, "presave")
    /\ authority
    /\ Goto(r, "save")
    /\ UNCHANGED <<disk, owner, authority, calls, run, result>>

\* save_checkpoint: link(2) unless the window has another checkpoint; the
\* same bytes are idempotent.
Save(r) ==
    LET w == run[r].window
        q == run[r].request
    IN
    /\ pc[r] = "save"
    /\ IF OtherCheckpoint(w, q) \/ checkpoint[w][q] \notin {None, run[r].accepted}
       THEN Fail(r) /\ UNCHANGED checkpoint
       ELSE /\ checkpoint' = [checkpoint EXCEPT ![w][q] = run[r].accepted]
            /\ Goto(r, "syncsave")
            /\ UNCHANGED <<owner, run, result>>
    /\ UNCHANGED <<claims, durableClaims, durable, authority, calls>>

OnDisk == {d \in Windows \X Requests : checkpoint[d[1]][d[2]] # None}

SyncSave(r) ==
    /\ pc[r] = "syncsave"
    /\ durable' = OnDisk
    /\ Goto(r, "verify")
    /\ UNCHANGED <<claims, durableClaims, checkpoint, owner, authority, calls, run,
                   result>>

\* load_checkpoint must give the accepted proposal back.
Verify(r) ==
    LET w == run[r].window
        q == run[r].request
    IN
    /\ pc[r] = "verify"
    /\ IF OtherCheckpoint(w, q) \/ checkpoint[w][q] # run[r].accepted
       THEN Fail(r)
       ELSE /\ Goto(r, "next")
            /\ run' = [run EXCEPT ![r] =
                   [@ EXCEPT !.generated[w] = run[r].accepted, !.accepted = None,
                             !.window = 0]]
            /\ UNCHANGED <<owner, result>>
    /\ UNCHANGED <<disk, authority, calls>>

\* Faulty variant, for the check of the properties: a run that did all it was
\* allowed to do is complete.
FinishByQuota(r) ==
    /\ PlanRead(r, "final")
    /\ authority
    /\ End(r, IF Todo(r) = {} THEN "COMPLETE" ELSE "BOUNDED_PROGRESS", run[r].seen)
    /\ UNCHANGED <<disk, authority, calls>>

\* finish(): the last plan must show the initial evidence and what this run
\* generated, nothing else.
Finish(r) ==
    /\ PlanRead(r, "final")
    /\ authority
    /\ IF run[r].seen # Expected(r)
       THEN Fail(r)
       ELSE End(r, IF None \notin {run[r].seen[w] : w \in Windows} THEN "COMPLETE" ELSE "BOUNDED_PROGRESS",
                run[r].seen)
    /\ UNCHANGED <<disk, authority, calls>>

\* The provider, its transport or the schema check of the answer fails, or
\* the call times out: not regenerated.
ProviderFails(r) ==
    /\ pc[r] = "respond"
    /\ Fail(r)
    /\ UNCHANGED <<disk, authority, calls>>

\* Any other step may raise, which ends the run: a link or an fsync, a
\* directory that changes while a checkpoint is loaded from it, the
\* revalidation of budget, client or roots.
Raises(r) ==
    /\ pc[r] \notin {"idle", "respond"}
    /\ Fail(r)
    /\ UNCHANGED <<disk, authority, calls>>

-----------------------------------------------------------------------------
(* The environment.                                                        *)

\* Another publication moves a CURRENT pointer the preparation rests on.
LoseAuthority ==
    /\ authority
    /\ authority' = FALSE
    /\ UNCHANGED <<disk, owner, calls, pc, run, result>>

\* The process dies; the kernel closes the lock file.
Crash(r) ==
    /\ pc[r] # "idle"
    /\ Goto(r, "idle")
    /\ Release(r)
    /\ run' = [run EXCEPT ![r] = NoRun]
    /\ UNCHANGED <<disk, authority, calls, result>>

\* The machine stops; of the files that were not fsynced, some are gone.
PowerLoss ==
    /\ pc' = [r \in Runners |-> "idle"]
    /\ run' = [r \in Runners |-> NoRun]
    /\ owner' = None
    /\ result' = [r \in Runners |-> None]
    /\ \E kept \in SUBSET (Windows \X Requests) :
           /\ claims' = [w \in Windows |->
                  {q \in claims[w] : q \in durableClaims[w] \/ <<w, q>> \in kept}]
           /\ durableClaims' = claims'
    /\ \E kept \in SUBSET (OnDisk \ durable) :
           /\ checkpoint' = [w \in Windows |-> [q \in Requests |->
                  IF <<w, q>> \in durable \union kept THEN checkpoint[w][q] ELSE None]]
           /\ durable' = durable \union kept
    /\ UNCHANGED <<authority, calls>>

Step(r) ==
    \/ LoadNext(r) \/ AuthorityLost(r) \/ Planned(r) \/ Lock(r) \/ Replanned(r)
    \/ Rechecked(r) \/ NextWindow(r) \/ Claim(r) \/ SyncClaim(r) \/ Dispatch(r)
    \/ ResponseRejected(r) \/ \E p \in Proposals : ResponseAccepted(r, p)
    \/ Presaved(r) \/ Save(r) \/ SyncSave(r) \/ Verify(r) \/ Finish(r)
    \/ ProviderFails(r)

RunnerNext ==
    \/ \E r \in Runners :
        \/ \E q \in Requests, m \in 0..N : Start(r, q, m)
        \/ Step(r)
        \/ Raises(r)
        \/ Crash(r)
    \/ LoseAuthority
    \/ PowerLoss

RunnerSpec == RunnerInit /\ [][RunnerNext]_runnerVars

-----------------------------------------------------------------------------
(* Properties.                                                             *)

\* At most once: over all runs, crashes, retries and changes of the prompt,
\* the provider is called for a window in one execution of at most
\* MaxRounds rounds.
ProviderCallsAreBounded == \A w \in Windows : calls[w] \leq MaxRounds

\* Nobody pays for a window twice: while a checkpoint of it is visible, under
\* whatever request, no step calls the provider for it.
NoCallAfterCheckpoint ==
    [][\A w \in Windows :
           (\E q \in Requests : checkpoint[w][q] # None) => calls'[w] = calls[w]]_runnerVars

\* The evidence of an attempt outlives it: a window the provider was called
\* for has exactly one claim, which survives a power loss.
CalledWindowsStayClaimed ==
    \A w \in Windows : calls[w] > 0 =>
        Cardinality(durableClaims[w]) = 1 /\ claims[w] = durableClaims[w]

\* A checkpoint belongs to the request of the window's only claim.
CheckpointsAreClaimed ==
    \A w \in Windows, q \in Requests :
        checkpoint[w][q] # None => claims[w] = {q}

\* COMPLETE and BOUNDED_PROGRESS report what is on disk, and go on doing so
\* until a power loss; COMPLETE covers every window.
ReportsAreTrue ==
    \A r \in Runners : result[r] # None /\ result[r].status # "FAILED" =>
        /\ \A w \in Windows : result[r].proposals[w] # None =>
               checkpoint[w][result[r].request] = result[r].proposals[w]
        /\ result[r].status = "COMPLETE" <=>
               \A w \in Windows : result[r].proposals[w] # None

=============================================================================

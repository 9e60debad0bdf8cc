----------------------------- MODULE PointerStore -----------------------------
(***************************************************************************)
(* FilePointerStore: the current pointer of one pointer_id (ids share no   *)
(* lock, head or artifact identity) and the processes that move it with    *)
(* compare_and_set.  The head file is a locator of an immutable snapshot;  *)
(* snapshots and supersession records are artifacts, written before the    *)
(* head and never afterwards.  A snapshot's reference is its revision:     *)
(* artifacts are write-once (ArtifactStore), so the content hash a         *)
(* reference also holds adds nothing.  0 stands for "no pointer".          *)
(*                                                                         *)
(* A process may die between any two steps, and then leaves its lock file  *)
(* and its artifacts behind; any write may raise.  Stale locks are not     *)
(* reclaimed by the code: an operator removes them.                        *)
(***************************************************************************)
EXTENDS Naturals

CONSTANTS Procs,      \* processes that call compare_and_set
          Revs,       \* pointer revisions (bounded for TLC)
          Targets,    \* artifacts a pointer can name
          Approvals,  \* approval records
          Approves,   \* <<a, t>>: a is a valid APPROVE record for t
          None        \* nothing

ASSUME RevsAreRevisions == Revs \subseteq Nat \ {0}
ASSUME ApprovesIsARelation == Approves \subseteq Approvals \X Targets
VARIABLES head,       \* the head file: a reference, 0 while it does not exist
          snapshot,   \* snapshot[r]: the CurrentPointer artifact, or None
          supersession, \* supersession[r]: the SupersessionRecord, or None
          stored,     \* targets and approval records that resolve
          lock,       \* does the lock file exist
          pc,         \* pc[p]: the next step of p's compare_and_set
          request,    \* request[p]: the arguments of p's call, or of its last one
                      \* if that was granted, else None
          cur,        \* cur[p]: current_ref as p read it
          new,        \* new[p]: the revision p allocated
          known,      \* known[p]: the reference p last resolved or was given
          reply,      \* reply[p]: how p's last call ended, or None
          active      \* history: the references that have been in the head

shared == <<head, snapshot, supersession, active>>
local == <<request, cur, new, known>>
vars == <<head, snapshot, supersession, stored, lock, pc, request, cur, new,
          known, reply, active>>

Kinds == {"CURRENT", "CURRENT_APPROVED"}
Refs == Revs \union {0}
Authorities == Approvals \union {None}
Pointer == [kind : Kinds, target : Targets, authority : Authorities, prev : Refs]
Supersession == [kind : Kinds, superseded : Refs, superseding : Refs,
                 superseded_target : Targets, superseding_target : Targets]
Request == [kind : Kinds, expected : Refs, target : Targets,
            authority : Authorities]
Reply == [status : {"ok", "locked", "conflict", "error"}, ref : Refs]

ASSUME NoneIsNothing ==
    None \notin Approvals \union Pointer \union Supersession \union Request \union Reply

Critical == {"read", "check", "allocate", "put", "supersede", "commit", "unlock"}

TypeOK ==
    /\ head \in Refs
    /\ snapshot \in [Revs -> Pointer \union {None}]
    /\ supersession \in [Revs -> Supersession \union {None}]
    /\ stored \in SUBSET (Targets \union Approvals)
    /\ lock \in BOOLEAN
    /\ pc \in [Procs -> Critical \union {"idle", "acquire"}]
    /\ request \in [Procs -> Request \union {None}]
    /\ cur \in [Procs -> Refs]
    /\ new \in [Procs -> Refs]
    /\ known \in [Procs -> Refs]
    /\ reply \in [Procs -> Reply \union {None}]
    /\ active \in SUBSET Revs

Init ==
    /\ head = 0
    /\ snapshot = [r \in Revs |-> None]
    /\ supersession = [r \in Revs |-> None]
    /\ stored = {}
    /\ lock = FALSE
    /\ pc = [p \in Procs |-> "idle"]
    /\ request = [p \in Procs |-> None]
    /\ cur = [p \in Procs |-> 0]
    /\ new = [p \in Procs |-> 0]
    /\ known = [p \in Procs |-> 0]
    /\ reply = [p \in Procs |-> None]
    /\ active = {}

-----------------------------------------------------------------------------
(* Reading pointers.                                                       *)

\* CurrentPointer.__post_init__: the kind says whether there is an authority.
WellFormed(kind, authority) == (kind = "CURRENT_APPROVED") <=> (authority # None)

\* Faulty variant, for the check of the properties: the record may be of another
\* target.
AuthorizedByAny(target, authority) == authority = None \/ authority \in stored

\* _verify_pointer_authority: the authority is a stored APPROVE record for
\* exactly the target.
Authorized(target, authority) ==
    \/ authority = None
    \/ authority \in stored /\ <<authority, target>> \in Approves

\* _load_pointer_ref on everything but the previous pointer.
LoadsAlone(r) ==
    /\ snapshot[r] # None
    /\ snapshot[r].target \in stored
    /\ WellFormed(snapshot[r].kind, snapshot[r].authority)
    /\ Authorized(snapshot[r].target, snapshot[r].authority)
    /\ snapshot[r].prev # 0 =>
           /\ snapshot[r].prev < r
           /\ snapshot[snapshot[r].prev] # None
           /\ snapshot[snapshot[r].prev].kind = snapshot[r].kind

\* _load_pointer_ref: the snapshot and all its predecessors load.
Loads[r \in Revs] ==
    /\ LoadsAlone(r)
    /\ snapshot[r].prev # 0 => Loads[snapshot[r].prev]

\* active_history: the references from a loadable r back to the first; it ends
\* where nothing is stored.
History[r \in Refs] ==
    IF r = 0 \/ snapshot[r] = None THEN {} ELSE {r} \union History[snapshot[r].prev]

\* resolve_supersession returns a record that matches the transition to r.
SupersessionResolves(r) ==
    supersession[r] = [kind |-> snapshot[r].kind,
                       superseded |-> snapshot[r].prev,
                       superseding |-> r,
                       superseded_target |-> snapshot[snapshot[r].prev].target,
                       superseding_target |-> snapshot[r].target]

\* _is_exact_retry: the current pointer is what this request would produce.
IsExactRetry(current, q) ==
    /\ current # 0
    /\ snapshot[current].prev = q.expected
    /\ snapshot[current].kind = q.kind
    /\ snapshot[current].target = q.target
    /\ snapshot[current].authority = q.authority

-----------------------------------------------------------------------------
(* compare_and_set.                                                        *)

Goto(p, s) == pc' = [pc EXCEPT ![p] = s]
Says(p, s, r) == reply' = [reply EXCEPT ![p] = [status |-> s, ref |-> r]]

\* The call returns or dies: its local variables are gone.
Leave(p) ==
    /\ Goto(p, "idle")
    /\ cur' = [cur EXCEPT ![p] = 0]
    /\ new' = [new EXCEPT ![p] = 0]

\* p's call is decided; it still has to release the lock.
Finish(p, s, r) == Goto(p, "unlock") /\ Says(p, s, r)

\* A bound for TLC: a call starts only while a revision is left.
RevisionsLeft == \E r \in Revs : snapshot[r] = None

\* compare_and_set is called with an expected reference the caller resolved
\* before, or None for the first publication.
Call(p, kind, expected, target, authority) ==
    /\ pc[p] = "idle"
    /\ RevisionsLeft
    /\ expected \in {0, known[p]}
    /\ request' = [request EXCEPT ![p] =
                      [kind |-> kind, expected |-> expected,
                       target |-> target, authority |-> authority]]
    /\ reply' = [reply EXCEPT ![p] = None]
    /\ Goto(p, "acquire")
    /\ UNCHANGED <<shared, stored, lock, cur, new, known>>

\* Faulty variant, for the check of the properties: waits for the lock.
AcquireWaits(p) ==
    /\ pc[p] = "acquire"
    /\ ~lock
    /\ lock' = TRUE
    /\ Goto(p, "read")
    /\ UNCHANGED <<shared, stored, local, reply>>

\* _exclusive_lock: O_CREAT | O_EXCL; an existing lock file refuses the call.
Acquire(p) ==
    /\ pc[p] = "acquire"
    /\ IF lock
       THEN /\ Says(p, "locked", 0)
            /\ Goto(p, "idle")
            /\ request' = [request EXCEPT ![p] = None]
            /\ UNCHANGED lock
       ELSE /\ lock' = TRUE
            /\ Goto(p, "read")
            /\ UNCHANGED <<reply, request>>
    /\ UNCHANGED <<shared, stored, cur, new, known>>

\* Faulty variant, for the check of the properties: what is current is replaced,
\* whatever the caller expected.
ReadHeadUncompared(p) ==
    /\ pc[p] = "read"
    /\ cur' = [cur EXCEPT ![p] = head]
    /\ IF head # 0 /\ ~Loads[head]
       THEN Finish(p, "error", 0)
       ELSE IF IsExactRetry(head, request[p])
       THEN Finish(p, "ok", head)
       ELSE Goto(p, "check") /\ UNCHANGED reply
    /\ UNCHANGED <<shared, stored, lock, request, new, known>>

\* _read_head_ref and the comparison with the expected reference.
ReadHead(p) ==
    /\ pc[p] = "read"
    /\ cur' = [cur EXCEPT ![p] = head]
    /\ IF head # 0 /\ ~Loads[head]
       THEN Finish(p, "error", 0)
       ELSE IF head = request[p].expected
       THEN Goto(p, "check") /\ UNCHANGED reply
       ELSE IF IsExactRetry(head, request[p])
       THEN Finish(p, "ok", head)
       ELSE Finish(p, "conflict", 0)
    /\ UNCHANGED <<shared, stored, lock, request, new, known>>

\* The checks between the comparison and the first write: the target
\* resolves, the kind is kept, the same target again is a no-op, and the
\* authority of the new pointer is valid.
KindChanges(c, q) == c # 0 /\ snapshot[c].kind # q.kind
IsNoOp(c, q) ==
    c # 0 /\ snapshot[c].target = q.target /\ snapshot[c].authority = q.authority

Check(p) ==
    LET q == request[p] IN
    /\ pc[p] = "check"
    /\ IF q.target \notin stored
       THEN Finish(p, "error", 0)
       ELSE IF KindChanges(cur[p], q)
       THEN Finish(p, "conflict", 0)
       ELSE IF IsNoOp(cur[p], q)
       THEN Finish(p, "ok", cur[p])
       ELSE IF ~WellFormed(q.kind, q.authority) \/ ~Authorized(q.target, q.authority)
       THEN Finish(p, "error", 0)
       ELSE Goto(p, "allocate") /\ UNCHANGED reply
    /\ UNCHANGED <<shared, stored, lock, local>>

\* _next_pointer_revision: the first free revision above the current one.
Free(c, r) ==
    /\ r > c
    /\ snapshot[r] = None
    /\ \A s \in Revs : s > c /\ s < r => snapshot[s] # None

\* Faulty variant, for the check of the properties: the head is written before
\* its snapshot.
AllocateAndCommit(p, r) ==
    /\ pc[p] = "allocate"
    /\ Free(cur[p], r)
    /\ new' = [new EXCEPT ![p] = r]
    /\ Goto(p, "commit")
    /\ UNCHANGED <<shared, stored, lock, request, cur, known, reply>>

Allocate(p, r) ==
    /\ pc[p] = "allocate"
    /\ Free(cur[p], r)
    /\ new' = [new EXCEPT ![p] = r]
    /\ Goto(p, "put")
    /\ UNCHANGED <<shared, stored, lock, request, cur, known, reply>>

Candidate(p) ==
    [kind |-> request[p].kind, target |-> request[p].target,
     authority |-> request[p].authority, prev |-> cur[p]]

\* artifact_store.put of the snapshot: write-once, so other bytes under the
\* allocated revision refuse it.
PutSnapshot(p) ==
    /\ pc[p] = "put"
    /\ IF snapshot[new[p]] \in {None, Candidate(p)}
       THEN /\ snapshot' = [snapshot EXCEPT ![new[p]] = Candidate(p)]
            /\ Goto(p, IF cur[p] = 0 THEN "commit" ELSE "supersede")
            /\ UNCHANGED reply
       ELSE /\ Finish(p, "error", 0)
            /\ UNCHANGED snapshot
    /\ UNCHANGED <<head, supersession, active, stored, lock, local>>

\* The SupersessionRecord of the transition, under the same revision.
Record(p) ==
    [kind |-> request[p].kind, superseded |-> cur[p], superseding |-> new[p],
     superseded_target |-> snapshot[cur[p]].target,
     superseding_target |-> request[p].target]

PutSupersession(p) ==
    /\ pc[p] = "supersede"
    /\ IF supersession[new[p]] \in {None, Record(p)}
       THEN /\ supersession' = [supersession EXCEPT ![new[p]] = Record(p)]
            /\ Goto(p, "commit")
            /\ UNCHANGED reply
       ELSE /\ Finish(p, "error", 0)
            /\ UNCHANGED supersession
    /\ UNCHANGED <<head, snapshot, active, stored, lock, local>>

\* _write_head: a temporary file and os.replace.
WriteHead(p) ==
    /\ pc[p] = "commit"
    /\ head' = new[p]
    /\ active' = active \union {new[p]}
    /\ Finish(p, "ok", new[p])
    /\ UNCHANGED <<snapshot, supersession, stored, lock, local>>

\* An OSError between taking the lock and replacing the head.
IOFails(p) ==
    /\ pc[p] \in {"read", "check", "allocate", "put", "supersede", "commit"}
    /\ Finish(p, "error", 0)
    /\ UNCHANGED <<shared, stored, lock, local>>

\* Bound: a call that finds no revision left fails as any write may.
OutOfRevisions(p) ==
    /\ pc[p] = "allocate"
    /\ \A r \in Revs : ~Free(cur[p], r)
    /\ IOFails(p)

\* The finally block of _exclusive_lock; the caller gets the outcome.
Unlock(p) ==
    /\ pc[p] = "unlock"
    /\ lock' = FALSE
    /\ Leave(p)
    /\ known' = [known EXCEPT ![p] =
                    IF reply[p].status = "ok" THEN reply[p].ref ELSE @]
    /\ request' = [request EXCEPT ![p] = IF reply[p].status = "ok" THEN @ ELSE None]
    /\ UNCHANGED <<shared, stored, reply>>

\* unlink raises: the caller is told PointerError, even after a commit, and
\* the lock file stays.
UnlockFails(p) ==
    /\ pc[p] = "unlock"
    /\ Says(p, "error", 0)
    /\ Leave(p)
    /\ request' = [request EXCEPT ![p] = None]
    /\ UNCHANGED <<shared, stored, lock, known>>

-----------------------------------------------------------------------------
(* Other callers and the environment.                                      *)

\* resolve_current_pointer_ref by a process that is not in a call.
Resolve(p) ==
    /\ pc[p] = "idle"
    /\ known' = [known EXCEPT ![p] = head]
    /\ UNCHANGED <<shared, stored, lock, pc, request, cur, new, reply>>

\* A target or an approval record is put into the artifact store, the
\* record after its target.
Store(a) ==
    /\ \A t \in Targets : <<a, t>> \in Approves => t \in stored
    /\ stored' = stored \union {a}
    /\ UNCHANGED <<shared, lock, pc, local, reply>>

\* The process dies; a lock it holds stays behind.
Crash(p) ==
    /\ pc[p] # "idle"
    /\ Leave(p)
    /\ request' = [request EXCEPT ![p] = None]
    /\ reply' = [reply EXCEPT ![p] = None]
    /\ known' = [known EXCEPT ![p] = 0]
    /\ UNCHANGED <<shared, stored, lock>>

\* An operator deletes a lock file that no running call holds.
RemoveStaleLock ==
    /\ lock
    /\ \A p \in Procs : pc[p] \notin Critical
    /\ lock' = FALSE
    /\ UNCHANGED <<shared, stored, pc, local, reply>>

Work(p) ==
    \/ Acquire(p) \/ ReadHead(p) \/ Check(p)
    \/ (\E r \in Revs : Allocate(p, r)) \/ OutOfRevisions(p)
    \/ PutSnapshot(p) \/ PutSupersession(p) \/ WriteHead(p) \/ Unlock(p)

Step(p) == Work(p) \/ IOFails(p) \/ UnlockFails(p)

Next ==
    \/ \E p \in Procs :
        \/ \E k \in Kinds, e \in Refs, t \in Targets, a \in Authorities :
               Call(p, k, e, t, a)
        \/ Step(p)
        \/ Resolve(p)
        \/ Crash(p)
    \/ \E a \in Targets \union Approvals : Store(a)
    \/ RemoveStaleLock

Spec == Init /\ [][Next]_vars

\* A call is sequential code that waits for nobody.
FairSpec == Spec /\ \A p \in Procs : WF_vars(Work(p))

-----------------------------------------------------------------------------
(* Properties.                                                             *)

\* No lost update: a head move replaces exactly the pointer that the new
\* snapshot names as its predecessor, under a larger revision, and its
\* supersession is on record before the move can be seen.  (That the writer
\* expected this predecessor is part of ImplementsRegister.)
HeadMovesAreRecorded ==
    [][head' # head =>
         /\ head' > head
         /\ snapshot[head'].prev = head
         /\ head # 0 => SupersessionResolves(head')]_vars

\* The head always loads: whatever crashed or failed before, a reader of the
\* current pointer never meets an integrity error, and walks back over exactly
\* what was ever current: an orphan never enters the history.
HeadAlwaysLoads ==
    /\ head # 0 => Loads[head]
    /\ History[head] = active

\* No pointer was ever replaced twice.
HistoryIsLinear ==
    \A r, s \in active : snapshot[r].prev = snapshot[s].prev => r = s

\* A returned reference is in the active history for good and says what the
\* caller asked; it follows the expected pointer or is it (a no-op).
OkRepliesAreTrue ==
    \A p \in Procs : reply[p] # None /\ reply[p].status = "ok" =>
        LET r == reply[p].ref IN
        /\ r \in active
        /\ snapshot[r].kind = request[p].kind
        /\ snapshot[r].target = request[p].target
        /\ snapshot[r].authority = request[p].authority
        /\ request[p].expected \in {r, snapshot[r].prev}

\* Every pointer that was ever current still resolves, and its predecessor
\* was current before it (HeadAlwaysLoads and the history, link by link).
ActivePointersLoad ==
    /\ head = 0 => active = {}
    /\ head # 0 => head \in active
    /\ \A r \in active :
           /\ r \leq head
           /\ LoadsAlone(r)
           /\ snapshot[r].prev # 0 =>
                  snapshot[r].prev \in active /\ SupersessionResolves(r)

\* CURRENT_APPROVED never names a target without a stored APPROVE record.
CurrentApprovedIsApproved ==
    head # 0 /\ snapshot[head].kind = "CURRENT_APPROVED" =>
        /\ snapshot[head].authority \in stored
        /\ <<snapshot[head].authority, snapshot[head].target>> \in Approves

\* At most one call is between taking and releasing the lock, and the lock
\* file exists while it is.
MutualExclusion ==
    /\ \A p \in Procs : pc[p] \in Critical => lock
    /\ \A p, q \in Procs : pc[p] \in Critical /\ pc[q] \in Critical => p = q

\* Every call that is not killed returns, also when the lock it meets was left
\* by a dead process and nobody ever removes it.
CallsReturn == \A p \in Procs : pc[p] # "idle" ~> pc[p] = "idle"

-----------------------------------------------------------------------------
(* The store is a compare-and-swap register: the head is the register, the *)
(* active snapshots are its entries, and a caller is told how its call     *)
(* ended when the call returns.                                            *)
Told(p) ==
    IF pc[p] # "idle" \/ reply[p] = None THEN None
    ELSE IF reply[p].status = "ok" THEN [status |-> "ok", ref |-> reply[p].ref]
    ELSE [status |-> "refused", ref |-> 0]

Register == INSTANCE PointerRegister WITH
    current <- head,
    entry <- [r \in active |-> snapshot[r]],
    wish <- request,
    answer <- [p \in Procs |-> Told(p)]

\* No update is lost and no caller is told otherwise: every behaviour of the store
\* is one of the register, in which a pointer is replaced only by what a caller
\* asked for that expected exactly this pointer.
ImplementsRegister == Register!Spec
=============================================================================

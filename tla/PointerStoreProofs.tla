-------------------------- MODULE PointerStoreProofs --------------------------
(***************************************************************************)
(* The pointer store keeps its promises for any processes, revisions,      *)
(* targets and approval records.  The inductive invariant IInv adds to the *)
(* stated properties what a running call has already established: the head *)
(* it compared is still the head, and the artifacts it wrote are there.    *)
(***************************************************************************)
EXTENDS PointerStore, WellFoundedInduction, TLAPS

Deciding == {"check", "allocate", "put", "supersede", "commit"}
Approved == Deciding \ {"check"}
Writing == {"put", "supersede", "commit"}

\* What p's call knows at each step.
CallIsConsistent(p) ==
    /\ pc[p] # "idle" => request[p] # None
    /\ pc[p] = "idle" /\ request[p] # None => reply[p] # None /\ reply[p].status = "ok"
    /\ reply[p] # None /\ reply[p].status = "ok" => request[p] # None
    /\ pc[p] = "unlock" => reply[p] # None
    /\ pc[p] \in Deciding =>
           /\ cur[p] = head
           /\ request[p].expected = head
    /\ pc[p] \in Approved =>
           /\ request[p].target \in stored
           /\ WellFormed(request[p].kind, request[p].authority)
           /\ Authorized(request[p].target, request[p].authority)
           /\ cur[p] # 0 => snapshot[cur[p]].kind = request[p].kind
    /\ pc[p] \in Writing => new[p] \in Revs /\ new[p] > cur[p]
    /\ pc[p] = "supersede" => cur[p] # 0
    /\ pc[p] \in {"supersede", "commit"} => snapshot[new[p]] = Candidate(p)
    /\ pc[p] = "commit" /\ cur[p] # 0 => supersession[new[p]] = Record(p)

CallsAreConsistent == \A p \in Procs : CallIsConsistent(p)

IInv ==
    /\ TypeOK
    /\ MutualExclusion
    /\ CallsAreConsistent
    /\ ActivePointersLoad
    /\ HistoryIsLinear
    /\ OkRepliesAreTrue

LEMMA RefsAreNaturals == \A r \in Refs : r \in Nat
PROOF
<1>1. \A r \in Revs : r \in Nat
    BY RevsAreRevisions
<1> QED
    BY <1>1 DEF Refs

-----------------------------------------------------------------------------
(* Types.                                                                  *)

\* Every step keeps every variable in its type.
LEMMA TypeStep ==
    ASSUME TypeOK, CallsAreConsistent, ActivePointersLoad, [Next]_vars
    PROVE  TypeOK'
PROOF
<1> USE DEF TypeOK, shared, local
<1>a. \A s \in {"ok", "locked", "conflict", "error"}, r \in Refs :
          [status |-> s, ref |-> r] \in Reply
    BY DEF Reply
<1>b. 0 \in Refs /\ Revs \subseteq Refs
    BY DEF Refs
<1>1. ASSUME NEW p \in Procs, NEW k \in Kinds, NEW e \in Refs, NEW t \in Targets, NEW a \in Authorities, Call(p, k, e, t, a)
      PROVE  TypeOK'
    BY <1>1 DEF Call, Goto, Request
<1>2. ASSUME NEW p \in Procs, Acquire(p)
      PROVE  TypeOK'
  <2>1. CASE lock
    <3>1. /\ reply' = [reply EXCEPT ![p] = [status |-> "locked", ref |-> 0]]
          /\ pc' = [pc EXCEPT ![p] = "idle"]
          /\ request' = [request EXCEPT ![p] = None]
          /\ UNCHANGED <<lock, shared, stored, cur, new, known>>
      BY <1>2, <2>1 DEF Acquire, Goto, Says
    <3> QED
      BY <1>a, <1>b, <3>1
  <2>2. CASE ~lock
    <3>1. /\ lock' = TRUE
          /\ pc' = [pc EXCEPT ![p] = "read"]
          /\ UNCHANGED <<reply, shared, stored, local>>
      BY <1>2, <2>2 DEF Acquire, Goto
    <3> QED
      BY <3>1 DEF Critical
  <2> QED
    BY <2>1, <2>2
<1>3. ASSUME NEW p \in Procs, ReadHead(p)
      PROVE  TypeOK'
  <2>1. pc' \in [Procs -> Critical \union {"idle", "acquire"}]
    BY <1>3 DEF ReadHead, Finish, Goto, Critical
  <2>2. reply' \in [Procs -> Reply \union {None}]
    BY <1>a, <1>b, <1>3 DEF ReadHead, Finish, Says
  <2> QED
    BY <1>b, <1>3, <2>1, <2>2 DEF ReadHead
<1>4. ASSUME NEW p \in Procs, Check(p)
      PROVE  TypeOK'
  <2>1. pc' \in [Procs -> Critical \union {"idle", "acquire"}]
    BY <1>4 DEF Check, Finish, Goto, Critical
  <2>2. reply' \in [Procs -> Reply \union {None}]
    BY <1>a, <1>b, <1>4 DEF Check, Finish, Says
  <2> QED
    BY <1>4, <2>1, <2>2 DEF Check
<1>5. ASSUME NEW p \in Procs, NEW r \in Revs, Allocate(p, r)
      PROVE  TypeOK'
    BY <1>b, <1>5 DEF Allocate, Goto, Critical
<1>6. ASSUME NEW p \in Procs, PutSnapshot(p)
      PROVE  TypeOK'
  <2>1. Candidate(p) \in Pointer
    <3>1. request[p] \in Request
      BY <1>6 DEF PutSnapshot, CallsAreConsistent, CallIsConsistent
    <3> QED
      BY <3>1 DEF Candidate, Request, Pointer
  <2>2. new[p] \in Revs
    BY <1>6 DEF PutSnapshot, CallsAreConsistent, CallIsConsistent, Writing
  <2> QED
    BY <1>a, <1>b, <1>6, <2>1, <2>2 DEF PutSnapshot, Finish, Goto, Says, Critical
<1>7. ASSUME NEW p \in Procs, PutSupersession(p)
      PROVE  TypeOK'
  <2>1. Record(p) \in Supersession
    <3>1. request[p] \in Request /\ new[p] \in Revs /\ cur[p] = head /\ cur[p] # 0
      BY <1>7 DEF PutSupersession, CallsAreConsistent, CallIsConsistent, Deciding, Writing
    <3>2. snapshot[cur[p]] \in Pointer
      BY <3>1 DEF ActivePointersLoad, LoadsAlone
    <3> QED
      BY <3>1, <3>2 DEF Record, Supersession, Request, Pointer, Refs
  <2>2. new[p] \in Revs
    BY <1>7 DEF PutSupersession, CallsAreConsistent, CallIsConsistent, Writing
  <2> QED
    BY <1>a, <1>b, <1>7, <2>1, <2>2 DEF PutSupersession, Finish, Goto, Says, Critical
<1>8. ASSUME NEW p \in Procs, WriteHead(p)
      PROVE  TypeOK'
    BY <1>a, <1>b, <1>8 DEF WriteHead, Finish, Goto, Says, Critical, CallsAreConsistent, CallIsConsistent, Writing
<1>9. ASSUME NEW p \in Procs, IOFails(p)
      PROVE  TypeOK'
    BY <1>a, <1>b, <1>9 DEF IOFails, Finish, Goto, Says, Critical
<1>10. ASSUME NEW p \in Procs, Unlock(p)
      PROVE  TypeOK'
  <2>1. reply[p] \in Reply
    BY <1>10 DEF Unlock, CallsAreConsistent, CallIsConsistent
  <2>2. known' \in [Procs -> Refs]
    BY <1>10, <2>1 DEF Unlock, Reply
  <2> QED
    BY <1>b, <1>10, <2>2 DEF Unlock, Leave, Goto
<1>11. ASSUME NEW p \in Procs, UnlockFails(p)
      PROVE  TypeOK'
    BY <1>a, <1>b, <1>11 DEF UnlockFails, Leave, Goto, Says
<1>12. ASSUME NEW p \in Procs, Resolve(p)
      PROVE  TypeOK'
    BY <1>12 DEF Resolve
<1>13. ASSUME NEW p \in Procs, Crash(p)
      PROVE  TypeOK'
    BY <1>b, <1>13 DEF Crash, Leave, Goto
<1>14. ASSUME NEW a \in Targets \union Approvals, Store(a)
      PROVE  TypeOK'
    BY <1>14 DEF Store
<1>15. ASSUME RemoveStaleLock
      PROVE  TypeOK'
    BY <1>15 DEF RemoveStaleLock
<1>16. CASE UNCHANGED vars
    BY <1>16 DEF vars
<1> QED
    BY <1>1, <1>2, <1>3, <1>4, <1>5, <1>6, <1>7, <1>8, <1>9, <1>10, <1>11, <1>12, <1>13, <1>14, <1>15, <1>16 DEF Next, Step, Work, OutOfRevisions

-----------------------------------------------------------------------------
(* What is written stays.                                                  *)

\* Artifacts are never rewritten or removed, and neither is history.
LEMMA FactsPersist ==
    ASSUME TypeOK, CallsAreConsistent, [Next]_vars
    PROVE  /\ \A r \in Revs : snapshot[r] # None => snapshot'[r] = snapshot[r]
           /\ \A r \in Revs : supersession[r] # None =>
                                  supersession'[r] = supersession[r]
           /\ stored \subseteq stored'
           /\ active \subseteq active'
PROOF
<1> USE DEF TypeOK, shared, local
<1>1. ASSUME NEW p \in Procs, PutSnapshot(p)
      PROVE  \A r \in Revs : snapshot[r] # None => snapshot'[r] = snapshot[r]
    BY <1>1 DEF PutSnapshot
<1>2. ASSUME NEW p \in Procs, PutSupersession(p)
      PROVE  \A r \in Revs : supersession[r] # None =>
                                 supersession'[r] = supersession[r]
    BY <1>2 DEF PutSupersession
<1>3. \/ UNCHANGED snapshot
      \/ \E p \in Procs : PutSnapshot(p)
    BY DEF Next, Step, Work, Call, Acquire, ReadHead, Check, Allocate, PutSupersession,
           WriteHead, IOFails, OutOfRevisions, Unlock, UnlockFails, Resolve, Crash, Store,
           RemoveStaleLock, vars
<1>4. \/ UNCHANGED supersession
      \/ \E p \in Procs : PutSupersession(p)
    BY DEF Next, Step, Work, Call, Acquire, ReadHead, Check, Allocate, PutSnapshot,
           WriteHead, IOFails, OutOfRevisions, Unlock, UnlockFails, Resolve, Crash, Store,
           RemoveStaleLock, vars
<1>5. stored \subseteq stored' /\ active \subseteq active'
    BY DEF Next, Step, Work, Call, Acquire, ReadHead, Check, Allocate, PutSnapshot,
           PutSupersession, WriteHead, IOFails, OutOfRevisions, Unlock, UnlockFails, Resolve,
           Crash, Store, RemoveStaleLock, vars
<1> QED
    BY <1>1, <1>2, <1>3, <1>4, <1>5

\* Only WriteHead moves the head.
LEMMA OnlyWriteHeadMoves ==
    ASSUME [Next]_vars
    PROVE  \/ UNCHANGED <<head, active>>
           \/ \E p \in Procs : WriteHead(p)
PROOF
    BY DEF Next, Step, Work, Call, Acquire, ReadHead, Check, Allocate, PutSnapshot,
           PutSupersession, IOFails, OutOfRevisions, Unlock, UnlockFails, Resolve,
           Crash, Store, RemoveStaleLock, vars, shared

-----------------------------------------------------------------------------
(* The lock.                                                               *)

\* Nobody enters the critical section while the lock file exists, and the
\* operator only removes it when nobody is inside.
LEMMA MutualExclusionStep ==
    ASSUME TypeOK, MutualExclusion, [Next]_vars
    PROVE  MutualExclusion'
PROOF
<1> USE DEF TypeOK, MutualExclusion, Critical
<1>1. ASSUME NEW p \in Procs, Acquire(p)
      PROVE  MutualExclusion'
    BY <1>1 DEF Acquire, Goto, Says
<1>2. ASSUME NEW p \in Procs,
             \/ ReadHead(p) \/ Check(p) \/ \E r \in Revs : Allocate(p, r)
             \/ PutSnapshot(p) \/ PutSupersession(p) \/ WriteHead(p) \/ IOFails(p)
      PROVE  MutualExclusion'
  <2>1. /\ pc[p] \in Critical
        /\ \E s \in Critical : pc' = [pc EXCEPT ![p] = s]
        /\ lock' = lock
    BY <1>2 DEF ReadHead, Check, Allocate, PutSnapshot, PutSupersession, WriteHead,
                IOFails, Finish, Goto
  <2> QED
    BY <2>1
<1>3. ASSUME NEW p \in Procs, Unlock(p) \/ UnlockFails(p)
      PROVE  MutualExclusion'
    BY <1>3 DEF Unlock, UnlockFails, Leave, Goto
<1>4. ASSUME NEW p \in Procs, Crash(p)
      PROVE  MutualExclusion'
    BY <1>4 DEF Crash, Leave, Goto
<1>5. ASSUME NEW p \in Procs, NEW k \in Kinds, NEW e \in Refs, NEW t \in Targets,
             NEW a \in Authorities, Call(p, k, e, t, a)
      PROVE  MutualExclusion'
    BY <1>5 DEF Call, Goto
<1>6. CASE RemoveStaleLock
    BY <1>6 DEF RemoveStaleLock
<1>7. CASE UNCHANGED <<pc, lock>>
    BY <1>7
<1>8. ASSUME NEW p \in Procs, Resolve(p)
      PROVE  MutualExclusion'
    BY <1>7, <1>8 DEF Resolve
<1>9. ASSUME NEW a \in Targets \union Approvals, Store(a)
      PROVE  MutualExclusion'
    BY <1>7, <1>9 DEF Store
<1> QED
    BY <1>1, <1>2, <1>3, <1>4, <1>5, <1>6, <1>7, <1>8, <1>9 DEF Next, Step, Work, OutOfRevisions, vars

-----------------------------------------------------------------------------
(* What a running call knows.                                              *)

\* A step that leaves q's call alone, and the head if q has compared it,
\* leaves what q knows true.
LEMMA BystanderStaysConsistent ==
    ASSUME IInv, [Next]_vars,
           NEW q \in Procs,
           pc'[q] = pc[q], request'[q] = request[q], cur'[q] = cur[q],
           new'[q] = new[q], reply'[q] = reply[q],
           pc[q] \in Deciding => head' = head
    PROVE  CallIsConsistent(q)'
PROOF
<1>1. CallIsConsistent(q)
    BY DEF IInv, CallsAreConsistent
<1>2. /\ \A r \in Revs : snapshot[r] # None => snapshot'[r] = snapshot[r]
      /\ \A r \in Revs : supersession[r] # None => supersession'[r] = supersession[r]
      /\ stored \subseteq stored'
    BY FactsPersist DEF IInv
<1>3. pc[q] \in Deciding /\ cur[q] # 0 =>
          cur[q] \in Revs /\ snapshot[cur[q]] # None
    BY <1>1 DEF CallIsConsistent, IInv, ActivePointersLoad, LoadsAlone, TypeOK, Refs
<1>4. (pc[q] \in {"supersede", "commit"} => snapshot[new[q]] = Candidate(q))'
  <2>1. CASE pc[q] \in {"supersede", "commit"}
    <3>1. new[q] \in Revs /\ snapshot[new[q]] = Candidate(q) /\ request[q] # None
      BY <1>1, <2>1 DEF CallIsConsistent, Writing
    <3>2. Candidate(q) \in Pointer
      BY <3>1 DEF IInv, TypeOK, Candidate, Request, Pointer
    <3>3. snapshot[new[q]] # None
      BY <3>1, <3>2, NoneIsNothing
    <3> QED
      BY <1>2, <3>1, <3>3 DEF Candidate
  <2> QED
    BY <2>1
<1>5. (pc[q] = "commit" /\ cur[q] # 0 => supersession[new[q]] = Record(q))'
  <2>1. CASE pc[q] = "commit" /\ cur[q] # 0
    <3>1. /\ new[q] \in Revs
          /\ supersession[new[q]] = Record(q)
          /\ request[q] # None
          /\ cur[q] \in Revs /\ snapshot[cur[q]] # None
      BY <1>1, <1>3, <2>1 DEF CallIsConsistent, Writing, Deciding
    <3>2. Record(q) \in Supersession
      BY <3>1 DEF IInv, TypeOK, Record, Request, Pointer, Supersession, Refs
    <3>3. supersession[new[q]] # None
      BY <3>1, <3>2, NoneIsNothing
    <3> QED
      BY <1>2, <3>1, <3>3 DEF Record
  <2> QED
    BY <2>1
<1>6. /\ (pc[q] # "idle" => request[q] # None)'
      /\ (pc[q] = "idle" /\ request[q] # None => reply[q] # None /\ reply[q].status = "ok")'
      /\ (reply[q] # None /\ reply[q].status = "ok" => request[q] # None)'
      /\ (pc[q] = "unlock" => reply[q] # None)'
      /\ (pc[q] \in Deciding => cur[q] = head /\ request[q].expected = head)'
      /\ (pc[q] \in Writing => new[q] \in Revs /\ new[q] > cur[q])'
      /\ (pc[q] = "supersede" => cur[q] # 0)'
    BY <1>1 DEF CallIsConsistent, Deciding, Writing
<1>7. (pc[q] \in Approved =>
           /\ request[q].target \in stored
           /\ WellFormed(request[q].kind, request[q].authority)
           /\ Authorized(request[q].target, request[q].authority)
           /\ cur[q] # 0 => snapshot[cur[q]].kind = request[q].kind)'
    BY <1>1, <1>2, <1>3 DEF CallIsConsistent, Approved, Deciding, WellFormed, Authorized
<1> QED
    BY <1>4, <1>5, <1>6, <1>7 DEF CallIsConsistent

\* In a step of p, every other call stays consistent: only a writer that
\* holds the lock moves the head, and then no other call has compared it.
LEMMA OthersStayConsistent ==
    ASSUME IInv, [Next]_vars,
           NEW p \in Procs, NEW q \in Procs, q # p,
           pc'[q] = pc[q], request'[q] = request[q], cur'[q] = cur[q],
           new'[q] = new[q], reply'[q] = reply[q],
           head' = head \/ pc[p] \in Critical
    PROVE  CallIsConsistent(q)'
PROOF
<1>1. pc[q] \in Deciding => head' = head
    BY DEF IInv, MutualExclusion, Critical, Deciding
<1> QED
    BY <1>1, BystanderStaysConsistent

\* Every step of a call establishes what the next one relies on.
LEMMA CallsAreConsistentStep ==
    ASSUME IInv, [Next]_vars
    PROVE  CallsAreConsistent'
PROOF
<1> USE DEF TypeOK, shared, local, Goto, Says, Finish, Leave
<1>a. /\ TypeOK /\ TypeOK'
      /\ \A q \in Procs : CallIsConsistent(q)
    BY TypeStep DEF IInv, CallsAreConsistent
<1>1. ASSUME NEW p \in Procs, NEW k \in Kinds, NEW e \in Refs, NEW t \in Targets,
             NEW a \in Authorities, Call(p, k, e, t, a)
      PROVE  CallsAreConsistent'
  <2>1. CallIsConsistent(p)'
    <3>1. request'[p] \in Request
      BY <1>1, <1>a DEF Call, Request
    <3>2. request'[p] # None
      BY <3>1, NoneIsNothing
    <3> QED
      BY <1>1, <1>a, <3>2 DEF Call, CallIsConsistent, Deciding, Approved, Writing
  <2>2. \A q \in Procs \ {p} : CallIsConsistent(q)'
    BY <1>1, <1>a, OthersStayConsistent DEF Call
  <2> QED
    BY <2>1, <2>2 DEF CallsAreConsistent
<1>2. ASSUME NEW p \in Procs, Acquire(p)
      PROVE  CallsAreConsistent'
  <2>1. CallIsConsistent(p)'
    BY <1>2, <1>a DEF Acquire, CallIsConsistent, Deciding, Approved, Writing
  <2>2. \A q \in Procs \ {p} : CallIsConsistent(q)'
    BY <1>2, <1>a, OthersStayConsistent DEF Acquire
  <2> QED
    BY <2>1, <2>2 DEF CallsAreConsistent
<1>3. ASSUME NEW p \in Procs, ReadHead(p)
      PROVE  CallsAreConsistent'
  <2>1. CallIsConsistent(p)'
    <3>1. CASE pc'[p] = "check"
      BY <1>3, <1>a, <3>1 DEF ReadHead, CallIsConsistent, Deciding, Approved, Writing
    <3>2. CASE pc'[p] = "unlock"
      <4>1. reply'[p] \in Reply
        BY <1>3, <1>a, <3>2 DEF ReadHead, Reply, Refs
      <4>2. reply'[p] # None
        BY <4>1, NoneIsNothing
      <4> QED
        BY <1>3, <1>a, <3>2, <4>2 DEF ReadHead, CallIsConsistent, Deciding, Approved, Writing
    <3> QED
      BY <1>3, <1>a, <3>1, <3>2 DEF ReadHead
  <2>2. \A q \in Procs \ {p} : CallIsConsistent(q)'
    BY <1>3, <1>a, OthersStayConsistent DEF ReadHead
  <2> QED
    BY <2>1, <2>2 DEF CallsAreConsistent
<1>4. ASSUME NEW p \in Procs, Check(p)
      PROVE  CallsAreConsistent'
  <2>1. CallIsConsistent(p)'
    <3>1. CASE pc'[p] = "allocate"
      BY <1>4, <1>a, <3>1 DEF Check, CallIsConsistent, Deciding, Approved, Writing,
         KindChanges, WellFormed, Authorized
    <3>2. CASE pc'[p] = "unlock"
      <4>1. reply'[p] \in Reply
        BY <1>4, <1>a, <3>2 DEF Check, Reply, Refs
      <4>2. reply'[p] # None
        BY <4>1, NoneIsNothing
      <4> QED
        BY <1>4, <1>a, <3>2, <4>2 DEF Check, CallIsConsistent, Deciding, Approved, Writing
    <3> QED
      BY <1>4, <1>a, <3>1, <3>2 DEF Check
  <2>2. \A q \in Procs \ {p} : CallIsConsistent(q)'
    BY <1>4, <1>a, OthersStayConsistent DEF Check
  <2> QED
    BY <2>1, <2>2 DEF CallsAreConsistent
<1>5. ASSUME NEW p \in Procs, NEW r \in Revs, Allocate(p, r)
      PROVE  CallsAreConsistent'
  <2>1. CallIsConsistent(p)'
    BY <1>5, <1>a DEF Allocate, Free, CallIsConsistent, Deciding, Approved, Writing,
       WellFormed, Authorized
  <2>2. \A q \in Procs \ {p} : CallIsConsistent(q)'
    BY <1>5, <1>a, OthersStayConsistent DEF Allocate
  <2> QED
    BY <2>1, <2>2 DEF CallsAreConsistent
<1>6. ASSUME NEW p \in Procs, PutSnapshot(p)
      PROVE  CallsAreConsistent'
  <2>1. CallIsConsistent(p)'
    <3>1. /\ request[p] # None /\ cur[p] = head /\ request[p].expected = head
          /\ new[p] \in Revs /\ new[p] > cur[p]
      BY <1>6, <1>a DEF PutSnapshot, CallIsConsistent, Deciding, Writing
    <3>2. cur[p] # 0 => cur[p] \in Revs /\ cur[p] # new[p]
      BY <3>1, <1>a, RevsAreRevisions DEF Refs
    <3>3. CASE snapshot[new[p]] \in {None, Candidate(p)}
      BY <1>6, <1>a, <3>1, <3>2, <3>3, SMTT(20) DEF PutSnapshot, CallIsConsistent,
         Deciding, Approved, Writing, Candidate, WellFormed, Authorized
    <3>4. CASE snapshot[new[p]] \notin {None, Candidate(p)}
      <4>1. reply'[p] # None
        BY <1>6, <1>a, <3>4, NoneIsNothing DEF PutSnapshot, Reply, Refs
      <4> QED
        BY <1>6, <1>a, <3>1, <3>4, <4>1 DEF PutSnapshot, CallIsConsistent, Deciding,
           Approved, Writing
    <3> QED
      BY <3>3, <3>4
  <2>2. \A q \in Procs \ {p} : CallIsConsistent(q)'
    BY <1>6, <1>a, OthersStayConsistent DEF PutSnapshot
  <2> QED
    BY <2>1, <2>2 DEF CallsAreConsistent
<1>7. ASSUME NEW p \in Procs, PutSupersession(p)
      PROVE  CallsAreConsistent'
  <2>1. CallIsConsistent(p)'
    <3>1. /\ request[p] # None /\ new[p] \in Revs /\ snapshot[new[p]] = Candidate(p)
      BY <1>7, <1>a DEF PutSupersession, CallIsConsistent, Deciding, Writing
    <3>2. CASE supersession[new[p]] \in {None, Record(p)}
      BY <1>7, <1>a, <3>1, <3>2 DEF PutSupersession, CallIsConsistent, Deciding,
         Approved, Writing, Candidate, Record, WellFormed, Authorized
    <3>3. CASE supersession[new[p]] \notin {None, Record(p)}
      <4>1. reply'[p] # None
        BY <1>7, <1>a, <3>3, NoneIsNothing DEF PutSupersession, Reply, Refs
      <4> QED
        BY <1>7, <1>a, <3>1, <3>3, <4>1 DEF PutSupersession, CallIsConsistent, Deciding,
           Approved, Writing
    <3> QED
      BY <3>2, <3>3
  <2>2. \A q \in Procs \ {p} : CallIsConsistent(q)'
    BY <1>7, <1>a, OthersStayConsistent DEF PutSupersession
  <2> QED
    BY <2>1, <2>2 DEF CallsAreConsistent
<1>8. ASSUME NEW p \in Procs, WriteHead(p) \/ IOFails(p)
      PROVE  CallsAreConsistent'
  <2>1. CallIsConsistent(p)'
    <3>1. request[p] # None
      BY <1>8, <1>a DEF WriteHead, IOFails, CallIsConsistent
    <3>2. /\ pc'[p] = "unlock" /\ request'[p] = request[p]
          /\ reply'[p] \in Reply
      BY <1>8, <1>a DEF WriteHead, IOFails, Reply, Refs
    <3>3. reply'[p] # None
      BY <3>2, NoneIsNothing
    <3> QED
      BY <3>1, <3>2, <3>3 DEF CallIsConsistent, Deciding, Approved, Writing
  <2>2. \A q \in Procs \ {p} : CallIsConsistent(q)'
    BY <1>8, <1>a, OthersStayConsistent DEF WriteHead, IOFails, Critical
  <2> QED
    BY <2>1, <2>2 DEF CallsAreConsistent
<1>9. ASSUME NEW p \in Procs, Unlock(p) \/ UnlockFails(p) \/ Crash(p)
      PROVE  CallsAreConsistent'
  <2>1. CallIsConsistent(p)'
    BY <1>9, <1>a DEF Unlock, UnlockFails, Crash, CallIsConsistent, Deciding,
       Approved, Writing
  <2>2. \A q \in Procs \ {p} : CallIsConsistent(q)'
    BY <1>9, <1>a, OthersStayConsistent DEF Unlock, UnlockFails, Crash
  <2> QED
    BY <2>1, <2>2 DEF CallsAreConsistent
<1>10. CASE UNCHANGED <<pc, request, cur, new, reply, head>>
    BY <1>10, BystanderStaysConsistent DEF CallsAreConsistent
<1>11. CASE \/ \E p \in Procs : Resolve(p)
            \/ \E a \in Targets \union Approvals : Store(a)
            \/ RemoveStaleLock
            \/ UNCHANGED vars
    BY <1>10, <1>11 DEF Resolve, Store, RemoveStaleLock, vars
<1> QED
    BY <1>1, <1>2, <1>3, <1>4, <1>5, <1>6, <1>7, <1>8, <1>9, <1>11 DEF Next, Step, Work, OutOfRevisions

-----------------------------------------------------------------------------
(* The history.                                                            *)

\* What the writer of the head knows: its snapshot and its record are there.
LEMMA CommitIsPrepared ==
    ASSUME IInv, NEW p \in Procs, pc[p] = "commit"
    PROVE  /\ new[p] \in Revs /\ cur[p] = head /\ new[p] > head
           /\ new[p] \notin active
           /\ LoadsAlone(new[p])
           /\ snapshot[new[p]].prev = head
           /\ head # 0 => SupersessionResolves(new[p])
PROOF
<1>1. CallIsConsistent(p) /\ TypeOK /\ ActivePointersLoad
    BY DEF IInv, CallsAreConsistent
<1>2. /\ new[p] \in Revs /\ cur[p] = head /\ new[p] > head
      /\ snapshot[new[p]] = Candidate(p)
      /\ request[p] # None
    BY <1>1 DEF CallIsConsistent, Deciding, Writing
<1>3. Candidate(p) \in Pointer
    BY <1>1, <1>2 DEF TypeOK, Candidate, Request, Pointer
<1>4. snapshot[new[p]] # None
    BY <1>2, <1>3, NoneIsNothing
<1>5. head # 0 => head \in active /\ head \in Revs /\ snapshot[head] # None
    BY <1>1 DEF ActivePointersLoad, TypeOK, LoadsAlone
<1>6. LoadsAlone(new[p])
    BY <1>1, <1>2, <1>4, <1>5 DEF LoadsAlone, CallIsConsistent, Approved, Deciding, Candidate
<1>7. head # 0 => SupersessionResolves(new[p])
    BY <1>1, <1>2 DEF SupersessionResolves, Candidate, Record, CallIsConsistent
<1>8. new[p] \notin active
  <2>1. new[p] \in Nat /\ head \in Nat
    <3>1. head \in Refs /\ new[p] \in Refs
      BY <1>1, <1>2 DEF TypeOK, Refs
    <3> QED
      BY <3>1, RefsAreNaturals
  <2>2. new[p] \in active => new[p] \leq head
    BY <1>1 DEF ActivePointersLoad
  <2> QED
    BY <1>2, <2>1, <2>2
<1> QED
    BY <1>2, <1>6, <1>7, <1>8 DEF Candidate

\* Orphans stay outside: the history gains exactly the snapshot whose writer
\* compared, and replaces, the current one.
LEMMA ActivePointersLoadStep ==
    ASSUME IInv, [Next]_vars
    PROVE  ActivePointersLoad'
PROOF
<1>1. TypeOK /\ ActivePointersLoad /\ CallsAreConsistent
    BY DEF IInv
<1>2. /\ \A r \in Revs : snapshot[r] # None => snapshot'[r] = snapshot[r]
      /\ \A r \in Revs : supersession[r] # None => supersession'[r] = supersession[r]
      /\ stored \subseteq stored'
    BY <1>1, FactsPersist
<1>3. ASSUME NEW r \in Revs, LoadsAlone(r)
      PROVE  LoadsAlone(r)' /\ snapshot'[r] = snapshot[r]
  <2>1. snapshot[r] # None /\ snapshot[r] \in Pointer /\ snapshot'[r] = snapshot[r]
    BY <1>1, <1>2, <1>3 DEF LoadsAlone, TypeOK
  <2>2. snapshot[r].prev # 0 => /\ snapshot[r].prev \in Revs
                                /\ snapshot'[snapshot[r].prev] = snapshot[snapshot[r].prev]
    BY <1>2, <1>3, <2>1 DEF LoadsAlone, Pointer, Refs
  <2> QED
    BY <1>2, <1>3, <2>1, <2>2 DEF LoadsAlone, WellFormed, Authorized
<1>4. ASSUME NEW r \in Revs, LoadsAlone(r), SupersessionResolves(r), snapshot[r].prev # 0
      PROVE  SupersessionResolves(r)'
  <2>1. /\ snapshot'[r] = snapshot[r] /\ snapshot[r] \in Pointer
        /\ snapshot[r].prev \in Revs
        /\ snapshot'[snapshot[r].prev] = snapshot[snapshot[r].prev]
        /\ snapshot[snapshot[r].prev] \in Pointer
    BY <1>1, <1>2, <1>3, <1>4 DEF LoadsAlone, TypeOK, Pointer, Refs
  <2>2. supersession[r] \in Supersession
    BY <1>4, <2>1 DEF SupersessionResolves, Supersession, Pointer, Refs
  <2>3. supersession'[r] = supersession[r]
    BY <1>2, <2>2, NoneIsNothing
  <2> QED
    BY <1>4, <2>1, <2>3 DEF SupersessionResolves
<1>5. CASE UNCHANGED <<head, active>>
  <2>1. \A r \in active : LoadsAlone(r)' /\ snapshot'[r] = snapshot[r]
    BY <1>1, <1>3 DEF ActivePointersLoad, TypeOK
  <2>2. \A r \in active : snapshot[r].prev # 0 => SupersessionResolves(r)'
    BY <1>1, <1>4 DEF ActivePointersLoad, TypeOK
  <2> QED
    BY <1>1, <1>5, <2>1, <2>2 DEF ActivePointersLoad
<1>6. ASSUME NEW p \in Procs, WriteHead(p)
      PROVE  ActivePointersLoad'
  <2>1. /\ head' = new[p] /\ active' = active \union {new[p]}
        /\ snapshot' = snapshot /\ pc[p] = "commit"
    BY <1>6 DEF WriteHead
  <2>2. /\ new[p] \in Revs /\ new[p] > head
        /\ LoadsAlone(new[p])
        /\ snapshot[new[p]].prev = head
        /\ head # 0 => SupersessionResolves(new[p])
    BY <2>1, CommitIsPrepared
  <2>3. \A r \in active' : LoadsAlone(r)'
    BY <1>1, <1>3, <2>1, <2>2 DEF ActivePointersLoad, TypeOK
  <2>4. \A r \in active' : snapshot[r].prev # 0 =>
            snapshot[r].prev \in active' /\ SupersessionResolves(r)'
    BY <1>1, <1>4, <2>1, <2>2 DEF ActivePointersLoad, TypeOK
  <2>5. \A r \in active' : r \leq head'
    BY <1>1, <2>1, <2>2, RevsAreRevisions DEF ActivePointersLoad, TypeOK, Refs
  <2>6. head' # 0 /\ head' \in active'
    BY <2>1, <2>2, RevsAreRevisions
  <2> QED
    BY <2>1, <2>3, <2>4, <2>5, <2>6 DEF ActivePointersLoad
<1> QED
    BY <1>5, <1>6, OnlyWriteHeadMoves

\* The new head replaces the old one, which nothing in the history replaced.
LEMMA HistoryIsLinearStep ==
    ASSUME IInv, [Next]_vars
    PROVE  HistoryIsLinear'
PROOF
<1>1. TypeOK /\ ActivePointersLoad /\ CallsAreConsistent /\ HistoryIsLinear
    BY DEF IInv
<1>2. \A r \in active : r \in Revs /\ snapshot'[r] = snapshot[r]
    BY <1>1, FactsPersist DEF ActivePointersLoad, LoadsAlone, TypeOK
<1>3. CASE UNCHANGED <<head, active>>
    BY <1>1, <1>2, <1>3 DEF HistoryIsLinear
<1>4. ASSUME NEW p \in Procs, WriteHead(p)
      PROVE  HistoryIsLinear'
  <2>1. /\ active' = active \union {new[p]} /\ snapshot' = snapshot
        /\ new[p] \in Revs /\ snapshot[new[p]].prev = head
    BY <1>4, CommitIsPrepared DEF WriteHead
  <2>2. \A r \in active : snapshot[r].prev # head
    BY <1>1, RevsAreRevisions DEF ActivePointersLoad, LoadsAlone, TypeOK, Refs, Pointer
  <2> QED
    BY <1>1, <2>1, <2>2 DEF HistoryIsLinear
<1> QED
    BY <1>3, <1>4, OnlyWriteHeadMoves

-----------------------------------------------------------------------------
(* What callers are told.                                                  *)

\* An "ok" is only said about the head, and stays true.
LEMMA OkRepliesAreTrueStep ==
    ASSUME IInv, [Next]_vars
    PROVE  OkRepliesAreTrue'
PROOF
<1> USE DEF TypeOK, shared, local, Goto, Says, Finish, Leave
<1> DEFINE OkIsTrue(q) ==
        reply[q] # None /\ reply[q].status = "ok" =>
            LET r == reply[q].ref IN
            /\ r \in active
            /\ snapshot[r].kind = request[q].kind
            /\ snapshot[r].target = request[q].target
            /\ snapshot[r].authority = request[q].authority
            /\ request[q].expected \in {r, snapshot[r].prev}
<1>a. /\ TypeOK /\ ActivePointersLoad /\ CallsAreConsistent
      /\ \A q \in Procs : OkIsTrue(q)
    BY DEF IInv, OkRepliesAreTrue
<1>b. /\ \A r \in active : r \in Revs /\ snapshot'[r] = snapshot[r]
      /\ active \subseteq active'
    BY <1>a, FactsPersist DEF ActivePointersLoad, LoadsAlone
<1>c. ASSUME NEW q \in Procs, reply'[q] = reply[q], request'[q] = request[q]
      PROVE  OkIsTrue(q)'
    BY <1>a, <1>b, <1>c
<1>d. ASSUME NEW q \in Procs,
             reply'[q] = None \/ reply'[q] \in
                 [status : {"locked", "conflict", "error"}, ref : Refs]
      PROVE  OkIsTrue(q)'
    BY <1>d
<1>1. ASSUME NEW p \in Procs, ReadHead(p)
      PROVE  OkIsTrue(p)'
  <2>1. CASE /\ head # 0 /\ IsExactRetry(head, request[p])
             /\ reply' = [reply EXCEPT ![p] = [status |-> "ok", ref |-> head]]
    BY <1>1, <1>a, <1>b, <2>1 DEF ReadHead, IsExactRetry, ActivePointersLoad
  <2>2. CASE reply'[p] = reply[p]
    BY <1>1, <1>c, <2>2 DEF ReadHead
  <2>3. CASE reply'[p] \in [status : {"conflict", "error"}, ref : Refs]
    BY <1>d, <2>3
  <2> QED
    BY <1>1, <1>a, <2>1, <2>2, <2>3 DEF ReadHead, IsExactRetry, Refs
<1>2. ASSUME NEW p \in Procs, Check(p)
      PROVE  OkIsTrue(p)'
  <2>1. CASE /\ IsNoOp(cur[p], request[p]) /\ ~KindChanges(cur[p], request[p])
             /\ reply' = [reply EXCEPT ![p] = [status |-> "ok", ref |-> cur[p]]]
    <3>1. cur[p] = head /\ head \in active /\ request[p].expected = head
      BY <1>2, <1>a, <2>1 DEF Check, IsNoOp, ActivePointersLoad, CallsAreConsistent,
         CallIsConsistent, Deciding
    <3> QED
      BY <1>2, <1>a, <1>b, <2>1, <3>1 DEF Check, IsNoOp, KindChanges
  <2>2. CASE reply'[p] = reply[p]
    BY <1>2, <1>c, <2>2 DEF Check
  <2>3. CASE reply'[p] \in [status : {"conflict", "error"}, ref : Refs]
    BY <1>d, <2>3
  <2> QED
    BY <1>2, <1>a, <2>1, <2>2, <2>3 DEF Check, Refs
<1>3. ASSUME NEW p \in Procs, WriteHead(p)
      PROVE  OkIsTrue(p)'
  <2>1. /\ snapshot[new[p]] = Candidate(p) /\ cur[p] = head
        /\ request[p].expected = head
    BY <1>3, <1>a DEF WriteHead, CallsAreConsistent, CallIsConsistent, Deciding
  <2> QED
    BY <1>3, <1>a, <2>1 DEF WriteHead, Candidate
<1>4. ASSUME NEW p \in Procs,
             Acquire(p) \/ PutSnapshot(p) \/ PutSupersession(p) \/ IOFails(p)
                 \/ UnlockFails(p) \/ Crash(p)
      PROVE  OkIsTrue(p)'
  <2>1. \/ reply'[p] = reply[p] /\ request'[p] = request[p]
        \/ reply'[p] = None
        \/ reply'[p] \in [status : {"locked", "error"}, ref : Refs]
    BY <1>4, <1>a DEF Acquire, PutSnapshot, PutSupersession, IOFails, UnlockFails,
       Crash, Refs
  <2> QED
    BY <1>c, <1>d, <2>1
<1>5. ASSUME NEW p \in Procs, NEW k \in Kinds, NEW e \in Refs, NEW t \in Targets,
             NEW a \in Authorities, Call(p, k, e, t, a)
      PROVE  OkIsTrue(p)'
    BY <1>5, <1>a DEF Call
<1>6. ASSUME NEW p \in Procs, NEW q \in Procs \ {p},
             \/ Step(p) \/ Crash(p)
             \/ \E k \in Kinds, e \in Refs, t \in Targets, a \in Authorities :
                    Call(p, k, e, t, a)
      PROVE  reply'[q] = reply[q] /\ request'[q] = request[q]
  <2>1. CASE Step(p)
    BY <1>6, <2>1, <1>a DEF Step, Work, Acquire, ReadHead, Check, Allocate, PutSnapshot,
       PutSupersession, WriteHead, IOFails, OutOfRevisions, Unlock, UnlockFails
  <2>2. CASE ~Step(p)
    BY <1>6, <2>2, <1>a DEF Crash, Call
  <2> QED
    BY <2>1, <2>2
<1>7. ASSUME NEW p \in Procs, Unlock(p) \/ \E r \in Revs : Allocate(p, r)
      PROVE  OkIsTrue(p)'
  <2>1. \/ reply'[p] = reply[p] /\ request'[p] = request[p]
        \/ reply'[p] = reply[p] /\ reply[p].status # "ok"
    BY <1>7, <1>a DEF Unlock, Allocate
  <2> QED
    BY <1>c, <2>1
<1>8. CASE UNCHANGED <<reply, request>>
    BY <1>8, <1>c DEF OkRepliesAreTrue
<1>9. ASSUME NEW p \in Procs,
             \/ Step(p) \/ Crash(p)
             \/ \E k \in Kinds, e \in Refs, t \in Targets, a \in Authorities :
                    Call(p, k, e, t, a)
      PROVE  OkRepliesAreTrue'
  <2>1. OkIsTrue(p)'
    BY <1>1, <1>2, <1>3, <1>4, <1>5, <1>7, <1>9 DEF Step, Work, OutOfRevisions
  <2>2. \A q \in Procs \ {p} : OkIsTrue(q)'
    BY <1>6, <1>9, <1>c
  <2> QED
    BY <2>1, <2>2 DEF OkRepliesAreTrue
<1> QED
    BY <1>8, <1>9 DEF Next, Resolve, Store, RemoveStaleLock, vars

-----------------------------------------------------------------------------
(* The invariant and what follows from it.                                 *)

\* The inductive invariant holds in every reachable state of the pointer
\* store: the types, the lock, what running calls know, the active history
\* and the truth of "ok".
THEOREM Invariance == Spec => []IInv
PROOF
<1>1. Init => IInv
    BY RevsAreRevisions DEF Init, IInv, TypeOK, MutualExclusion, CallsAreConsistent,
       CallIsConsistent, ActivePointersLoad, HistoryIsLinear, OkRepliesAreTrue,
       Critical, Deciding, Approved, Writing, Refs
<1>2. IInv /\ [Next]_vars => IInv'
    BY TypeStep, MutualExclusionStep, CallsAreConsistentStep, ActivePointersLoadStep,
       HistoryIsLinearStep, OkRepliesAreTrueStep DEF IInv
<1> QED
    BY <1>1, <1>2, PTL DEF Spec

\* Every variable of the pointer store keeps its type.
THEOREM TypeCorrectness == Spec => []TypeOK
PROOF
    BY Invariance, PTL DEF IInv

\* At most one compare_and_set of a pointer is between taking and releasing
\* the lock file, whatever crashes and however stale locks are removed.
THEOREM LockExcludes == Spec => []MutualExclusion
PROOF
    BY Invariance, PTL DEF IInv

\* Every pointer that was ever current resolves: its snapshot, predecessor,
\* target, approval and supersession record are all there, so a crash
\* or an orphan never makes the current pointer unreadable.
THEOREM ActiveHistoryLoads == Spec => []ActivePointersLoad
PROOF
    BY Invariance, PTL DEF IInv

\* No pointer is replaced twice: the active history never forks.
THEOREM HistoryNeverForks == Spec => []HistoryIsLinear
PROOF
    BY Invariance, PTL DEF IInv

\* A reference that compare_and_set returned is in the active history for
\* good, and its pointer is what the caller asked for.
THEOREM RepliesAreKept == Spec => []OkRepliesAreTrue
PROOF
    BY Invariance, PTL DEF IInv

\* A current-approved pointer names a target with a stored APPROVE record.
THEOREM ApprovalIsRequired == Spec => []CurrentApprovedIsApproved
PROOF
<1>1. IInv => CurrentApprovedIsApproved
    BY DEF IInv, ActivePointersLoad, LoadsAlone, WellFormed, Authorized,
       CurrentApprovedIsApproved
<1> QED
    BY <1>1, Invariance, PTL

\* The head only moves to a larger revision that replaces exactly the
\* pointer it held, with the supersession on record: no update is lost.
THEOREM NoLostUpdate == Spec => HeadMovesAreRecorded
PROOF
<1>1. ASSUME IInv, [Next]_vars, head' # head
      PROVE  /\ head' > head
             /\ snapshot[head'].prev = head
             /\ head # 0 => SupersessionResolves(head')
  <2>1. PICK p \in Procs : WriteHead(p)
    BY <1>1, OnlyWriteHeadMoves
  <2>2. pc[p] = "commit" /\ head' = new[p]
    BY <2>1 DEF WriteHead
  <2> QED
    BY <1>1, <2>2, CommitIsPrepared
<1> QED
    BY <1>1, Invariance, PTL DEF Spec, HeadMovesAreRecorded

-----------------------------------------------------------------------------
(* What readers of the head walk over.  Loads and History are recursive    *)
(* along the predecessors: each is chosen because it satisfies its own     *)
(* equation, so a function that does is exhibited, and what holds of every *)
(* active reference is shown for the least one that would violate it.      *)

\* A set of numbers has a least one.
LEMMA LeastExists ==
    ASSUME NEW T, T \subseteq Nat, T # {}
    PROVE  \E x \in T : \A y \in T : x \leq y
PROOF
<1> DEFINE R == OpToRel(<, Nat)
<1>1. IsWellFoundedOn(R, Nat)
    BY NatLessThanWellFounded
<1>2. PICK x \in T : \A y \in T : ~(<<y, x>> \in R)
  <2> HIDE DEF R
  <2> QED
    BY <1>1, WFMin
<1>3. \A y \in T : y < x => <<y, x>> \in R
    BY DEF OpToRel
<1> HIDE DEF R
<1>4. \A y \in T : ~(y < x)
    BY <1>2, <1>3
<1> QED
    BY <1>4

\* What Loads says of a reference is what it says of its predecessor.
LEMMA LoadsUnfolds ==
    ASSUME TypeOK
    PROVE  \A r \in Revs : Loads[r] <=>
               LoadsAlone(r) /\ (snapshot[r].prev # 0 => Loads[snapshot[r].prev])
PROOF
<1> DEFINE Chain(C) == \A x \in C : LoadsAlone(x) /\ (snapshot[x].prev # 0 => snapshot[x].prev \in C)
           f == [r \in Revs |-> \E C \in SUBSET Revs : r \in C /\ Chain(C)]
<1>1. ASSUME NEW r \in Revs
      PROVE  f[r] = (LoadsAlone(r) /\ (snapshot[r].prev # 0 => f[snapshot[r].prev]))
  <2>1. LoadsAlone(r) /\ snapshot[r].prev # 0 => snapshot[r].prev \in Revs
    BY DEF LoadsAlone, TypeOK, Pointer, Refs
  <2>2. ASSUME f[r] PROVE LoadsAlone(r) /\ (snapshot[r].prev # 0 => f[snapshot[r].prev])
    <3>1. PICK C \in SUBSET Revs : r \in C /\ Chain(C)
      BY <2>2
    <3> QED
      BY <3>1, <2>1
  <2>3. ASSUME LoadsAlone(r), snapshot[r].prev # 0 => f[snapshot[r].prev] PROVE f[r]
    <3>1. CASE snapshot[r].prev = 0
      <4>1. Chain({r})
        BY <2>3, <3>1
      <4> QED
        BY <4>1
    <3>2. CASE snapshot[r].prev # 0
      <4>1. PICK C \in SUBSET Revs : snapshot[r].prev \in C /\ Chain(C)
        BY <2>1, <2>3, <3>2
      <4>2. Chain(C \union {r})
        BY <2>3, <3>2, <4>1
      <4>3. C \union {r} \in SUBSET Revs
        OBVIOUS
      <4> HIDE DEF Chain
      <4> QED
        BY <4>2, <4>3
    <3> QED
      BY <3>1, <3>2
  <2> HIDE DEF Chain
  <2> QED
    BY <2>2, <2>3
<1>2. f = [r \in Revs |-> LoadsAlone(r) /\ (snapshot[r].prev # 0 => f[snapshot[r].prev])]
  <2>1. \A r \in Revs : f[r] = (LoadsAlone(r) /\ (snapshot[r].prev # 0 => f[snapshot[r].prev]))
    BY <1>1
  <2>2. DOMAIN f = Revs /\ f = [r \in Revs |-> f[r]]
    OBVIOUS
  <2> HIDE DEF f
  <2> QED
    BY <2>1, <2>2, Zenon
<1> HIDE DEF f
<1>3. Loads = [r \in Revs |-> LoadsAlone(r) /\ (snapshot[r].prev # 0 => Loads[snapshot[r].prev])]
    BY <1>2, Zenon DEF Loads
<1> QED
    BY <1>3, Zenon

\* What History says of a reference is the reference and what it says of its
\* predecessor.
LEMMA HistoryUnfolds ==
    ASSUME TypeOK
    PROVE  \A r \in Refs : History[r] =
               IF r = 0 \/ snapshot[r] = None THEN {} ELSE {r} \union History[snapshot[r].prev]
PROOF
<1> DEFINE Ends(r) == r = 0 \/ snapshot[r] = None
           Closed(C) == \A x \in C : ~Ends(x) => snapshot[x].prev \in C
           f == [r \in Refs |-> {x \in Refs : ~Ends(x) /\ \A C \in SUBSET Refs : r \in C /\ Closed(C) => x \in C}]
<1>1. ASSUME NEW r \in Refs
      PROVE  f[r] = IF r = 0 \/ snapshot[r] = None THEN {} ELSE {r} \union f[snapshot[r].prev]
  <2>1. CASE Ends(r)
    <3>1. Closed({r}) /\ {r} \in SUBSET Refs
      BY <2>1
    <3>2. ASSUME NEW x \in f[r] PROVE FALSE
      <4>1. ~Ends(x) /\ \A C \in SUBSET Refs : r \in C /\ Closed(C) => x \in C
        OBVIOUS
      <4>2. x \in {r}
        <5> HIDE DEF Closed, Ends
        <5> QED
          BY <4>1, <3>1
      <4> QED
        BY <4>1, <4>2, <2>1
    <3>3. f[r] = {}
      <4> HIDE DEF f
      <4> QED
        BY <3>2
    <3> QED
      BY <2>1, <3>3
  <2>2. CASE ~Ends(r)
    <3> DEFINE q == snapshot[r].prev
    <3>1. q \in Refs
      BY <2>2 DEF TypeOK, Pointer, Refs
    <3>2. ASSUME NEW x \in f[r], x # r PROVE x \in f[q]
      <4>1. x \in Refs /\ ~Ends(x) /\ \A C \in SUBSET Refs : r \in C /\ Closed(C) => x \in C
        OBVIOUS
      <4>2. ASSUME NEW C \in SUBSET Refs, q \in C, Closed(C) PROVE x \in C
        <5>1. Closed(C \union {r}) /\ C \union {r} \in SUBSET Refs /\ r \in C \union {r}
          BY <4>2
        <5> HIDE DEF Closed, Ends, q
        <5>2. x \in C \union {r}
          BY <4>1, <5>1
        <5> QED
          BY <5>2, <3>2
      <4> HIDE DEF Closed, Ends, q
      <4> QED
        BY <3>1, <4>1, <4>2
    <3>3. ASSUME NEW x \in f[q] PROVE x \in f[r]
      <4>1. x \in Refs /\ ~Ends(x) /\ \A C \in SUBSET Refs : q \in C /\ Closed(C) => x \in C
        BY <3>1, <3>3
      <4>2. ASSUME NEW C \in SUBSET Refs, r \in C, Closed(C) PROVE q \in C
        BY <4>2, <2>2
      <4> HIDE DEF Closed, Ends, q
      <4> QED
        BY <4>1, <4>2
    <3>4. r \in f[r]
      BY <2>2
    <3>5. f[r] = {r} \union f[q]
      <4> HIDE DEF f, q
      <4> QED
        BY <3>2, <3>3, <3>4
    <3> QED
      BY <2>2, <3>5
  <2> QED
    BY <2>1, <2>2
<1>2. f = [r \in Refs |-> IF r = 0 \/ snapshot[r] = None THEN {} ELSE {r} \union f[snapshot[r].prev]]
  <2>1. DOMAIN f = Refs /\ f = [r \in Refs |-> f[r]]
    OBVIOUS
  <2> HIDE DEF f
  <2> QED
    BY <1>1, <2>1, Zenon
<1> HIDE DEF f
<1>3. History = [r \in Refs |-> IF r = 0 \/ snapshot[r] = None THEN {} ELSE {r} \union History[snapshot[r].prev]]
    BY <1>2, Zenon DEF History
<1> QED
    BY <1>3, Zenon

\* Every pointer that was current and is not was replaced by one that was.
ReplacedByActive == \A r \in active \ {head} : \E s \in active : snapshot[s].prev = r

\* Only the old head gets a successor when the head moves.
LEMMA ReplacedByActiveStep ==
    ASSUME IInv, ReplacedByActive, [Next]_vars
    PROVE  ReplacedByActive'
PROOF
<1>1. CASE UNCHANGED <<head, active>>
  <2>1. \A s \in active : snapshot'[s] = snapshot[s]
    BY FactsPersist DEF IInv, ActivePointersLoad, LoadsAlone, TypeOK
  <2> QED
    BY <1>1, <2>1 DEF ReplacedByActive
<1>2. ASSUME NEW p \in Procs, WriteHead(p)
      PROVE  ReplacedByActive'
  <2>1. /\ head' = new[p] /\ active' = active \union {new[p]} /\ snapshot' = snapshot
        /\ snapshot[new[p]].prev = head
    <3>1. /\ CallIsConsistent(p) /\ pc[p] = "commit" /\ pc[p] \in Deciding
          /\ head' = new[p] /\ active' = active \union {new[p]} /\ snapshot' = snapshot
      BY <1>2 DEF WriteHead, IInv, CallsAreConsistent, Deciding
    <3>2. cur[p] = head /\ snapshot[new[p]] = Candidate(p)
      BY <3>1 DEF CallIsConsistent
    <3> QED
      BY <3>1, <3>2 DEF Candidate
  <2> QED
    BY <2>1 DEF ReplacedByActive
<1> QED
    BY <1>1, <1>2, OnlyWriteHeadMoves

\* Link by link, the head loads.
LEMMA HeadLoads ==
    ASSUME IInv
    PROVE  \A r \in active : Loads[r]
PROOF
<1> DEFINE T == {r \in active : ~Loads[r]}
<1>1. active \subseteq Nat /\ active \subseteq Revs
    BY RevsAreRevisions DEF IInv, TypeOK
<1> SUFFICES ASSUME T # {} PROVE FALSE
    OBVIOUS
<1>2. PICK r \in T : \A s \in T : r \leq s
  <2>1. T \subseteq Nat
    BY <1>1
  <2> HIDE DEF T
  <2> QED
    BY <2>1, LeastExists
<1>3. LoadsAlone(r) /\ (snapshot[r].prev # 0 => snapshot[r].prev \in active /\ snapshot[r].prev < r)
    BY DEF IInv, ActivePointersLoad, LoadsAlone
<1>4. ASSUME snapshot[r].prev # 0 PROVE Loads[snapshot[r].prev]
  <2>1. PICK q \in active : q = snapshot[r].prev /\ q < r /\ q \in Nat /\ r \in Nat
    BY <1>1, <1>3, <1>4
  <2>2. q \notin T
    BY <1>2, <2>1
  <2> QED
    BY <2>1, <2>2
<1>5. Loads[r] <=> LoadsAlone(r) /\ (snapshot[r].prev # 0 => Loads[snapshot[r].prev])
    BY <1>1, LoadsUnfolds DEF IInv
<1> QED
    BY <1>3, <1>4, <1>5

\* The history of an active reference is active, and closed under predecessors.
LEMMA HistoryIsActive ==
    ASSUME IInv
    PROVE  \A r \in active : /\ r \in History[r]
                             /\ \A x \in History[r] : x \in active
                             /\ \A x \in History[r] :
                                    snapshot[x].prev # 0 => snapshot[x].prev \in History[r]
PROOF
<1> DEFINE Good(r) == /\ r \in History[r]
                      /\ \A x \in History[r] : x \in active
                      /\ \A x \in History[r] :
                             snapshot[x].prev # 0 => snapshot[x].prev \in History[r]
           T == {r \in active : ~Good(r)}
<1>1. active \subseteq Nat /\ active \subseteq Revs /\ active \subseteq Refs /\ 0 \in Refs
      /\ 0 \notin active
    BY RevsAreRevisions DEF IInv, TypeOK, Refs
<1> SUFFICES ASSUME T # {} PROVE FALSE
    OBVIOUS
<1>2. PICK r \in T : \A s \in T : r \leq s
  <2>1. T \subseteq Nat
    BY <1>1
  <2> HIDE DEF T
  <2> QED
    BY <2>1, LeastExists
<1>3. /\ snapshot[r] # None
      /\ snapshot[r].prev # 0 => snapshot[r].prev \in active /\ snapshot[r].prev < r
    BY DEF IInv, ActivePointersLoad, LoadsAlone
<1>4. History[r] = {r} \union History[snapshot[r].prev]
    BY <1>1, <1>3, HistoryUnfolds DEF IInv
<1>5. CASE snapshot[r].prev = 0
  <2>1. History[0] = {}
    BY <1>1, HistoryUnfolds DEF IInv
  <2> QED
    BY <1>4, <1>5, <2>1
<1>6. CASE snapshot[r].prev # 0
  <2>1. Good(snapshot[r].prev)
    <3>1. PICK q \in active : q = snapshot[r].prev /\ q < r /\ q \in Nat /\ r \in Nat
      BY <1>1, <1>3, <1>6
    <3>2. q \notin T
      <4> HIDE DEF Good
      <4> QED
        BY <1>2, <3>1
    <3> HIDE DEF Good
    <3> QED
      BY <3>1, <3>2
  <2> QED
    BY <1>3, <1>4, <1>6, <2>1
<1> QED
    BY <1>5, <1>6

\* The history of the head leaves no active reference out.
LEMMA HistoryIsAll ==
    ASSUME IInv, ReplacedByActive
    PROVE  History[head] = active
PROOF
<1>1. active \subseteq Nat /\ active \subseteq Revs /\ 0 \in Refs
    BY RevsAreRevisions DEF IInv, TypeOK, Refs
<1>2. CASE head = 0
  <2>1. History[0] = {}
    BY <1>1, HistoryUnfolds DEF IInv
  <2> QED
    BY <1>2, <2>1 DEF IInv, ActivePointersLoad
<1>3. CASE head # 0
  <2>1. /\ head \in active /\ head \in Nat
        /\ \A r \in active : r \leq head /\ r \in Nat
    BY <1>1, <1>3 DEF IInv, ActivePointersLoad
  <2>2. /\ head \in History[head]
        /\ \A x \in History[head] : x \in active
        /\ \A x \in History[head] : snapshot[x].prev # 0 => snapshot[x].prev \in History[head]
    BY <2>1, HistoryIsActive
  <2> DEFINE T == {n \in Nat : n \leq head /\ head - n \in active \ History[head]}
  <2>3. T = {}
    <3> SUFFICES ASSUME T # {} PROVE FALSE
      OBVIOUS
    <3>1. PICK n \in T : \A m \in T : n \leq m
      <4>1. T \subseteq Nat
        OBVIOUS
      <4> HIDE DEF T
      <4> QED
        BY <4>1, LeastExists
    <3>2. PICK s \in active : snapshot[s].prev = head - n
      BY <2>2, <3>1 DEF ReplacedByActive
    <3>3. /\ head - n \in active /\ head - n \in Nat /\ head - n # 0
          /\ snapshot[s].prev < s /\ s \in Nat /\ s \leq head
      BY <1>1, <2>1, <3>1, <3>2, RevsAreRevisions DEF IInv, ActivePointersLoad, LoadsAlone
    <3>4. s \in History[head]
      <4>1. head - s \in Nat /\ head - s < n /\ head - s \leq head /\ head - (head - s) = s
        BY <2>1, <3>1, <3>2, <3>3
      <4>2. head - s \notin T
        <5>1. n \in Nat /\ ~(n \leq head - s)
          BY <3>1, <4>1
        <5> HIDE DEF T
        <5> QED
          BY <3>1, <5>1
      <4> QED
        BY <4>1, <4>2, <3>2
    <3>5. head - n \in History[head]
      BY <2>2, <3>2, <3>3, <3>4
    <3> QED
      BY <3>1, <3>5
  <2>4. ASSUME NEW r \in active PROVE r \in History[head]
    <3>1. head - r \in Nat /\ head - r \leq head /\ head - (head - r) = r
      BY <2>1
    <3> QED
      BY <2>3, <3>1
  <2> QED
    BY <2>2, <2>4
<1> QED
    BY <1>2, <1>3

\* The head and its whole history load, whoever crashed or failed, and a reader
\* walks back over exactly what was ever current: no orphan is in the history.
THEOREM HeadLoadsWithItsHistory == Spec => []HeadAlwaysLoads
PROOF
<1>1. Init => ReplacedByActive
    BY DEF Init, ReplacedByActive
<1>2. IInv /\ ReplacedByActive /\ [Next]_vars => ReplacedByActive'
    BY ReplacedByActiveStep
<1>3. IInv /\ ReplacedByActive => HeadAlwaysLoads
  <2>1. IInv => (head # 0 => head \in active)
    BY DEF IInv, ActivePointersLoad
  <2> QED
    BY <2>1, HeadLoads, HistoryIsAll DEF HeadAlwaysLoads
<1> QED
    BY <1>1, <1>2, <1>3, Invariance, PTL DEF Spec

-----------------------------------------------------------------------------
(* Refinement.                                                             *)

\* The entries of the register stay as they are while the head stays.
LEMMA EntriesStay ==
    ASSUME IInv, [Next]_vars, UNCHANGED <<head, active>>
    PROVE  [r \in active |-> snapshot[r]]' = [r \in active |-> snapshot[r]]
PROOF
    BY FactsPersist DEF IInv, ActivePointersLoad, LoadsAlone, TypeOK

\* A move of the head is a commit of the register: the writer expected the
\* reference it replaces, and its call waits for the answer.
LEMMA HeadMoveIsACommit ==
    ASSUME IInv, [Next]_vars, NEW p \in Procs, WriteHead(p)
    PROVE  \E r \in Revs : Register!Commit(p, r)
PROOF
<1>1. TypeOK /\ ActivePointersLoad /\ CallIsConsistent(p) /\ pc[p] = "commit"
    BY DEF IInv, CallsAreConsistent, WriteHead
<1>2. /\ new[p] \in Revs /\ new[p] > head
      /\ snapshot[new[p]] = Candidate(p)
      /\ cur[p] = head /\ request[p].expected = head /\ request[p] # None
      /\ head' = new[p] /\ active' = active \union {new[p]} /\ snapshot' = snapshot
    BY <1>1, CommitIsPrepared DEF WriteHead, CallIsConsistent, Deciding
<1>3. head # 0 => /\ request[p].kind = snapshot[head].kind
                  /\ head \in active
    BY <1>1, <1>2 DEF CallIsConsistent, Approved, Deciding, ActivePointersLoad
<1>4. [r \in active |-> snapshot[r]]' =
          [s \in (DOMAIN [r \in active |-> snapshot[r]]) \union {new[p]} |->
              IF s = new[p]
              THEN [kind |-> request[p].kind, target |-> request[p].target,
                    authority |-> request[p].authority, prev |-> request[p].expected]
              ELSE [r \in active |-> snapshot[r]][s]]
    BY <1>2 DEF Candidate
<1>5. UNCHANGED request /\ Told(p) = None
      /\ [q \in Procs |-> Told(q)]' = [q \in Procs |-> Told(q)]
  <2>1. /\ pc' = [pc EXCEPT ![p] = "unlock"] /\ UNCHANGED request
        /\ \A q \in Procs \ {p} : reply'[q] = reply[q]
    BY <1>1 DEF WriteHead, Finish, Goto, Says, local, TypeOK
  <2>2. \A q \in Procs : Told(q)' = Told(q)
    BY <1>1, <2>1 DEF Told, TypeOK
  <2> QED
    BY <1>1, <2>1, <2>2 DEF Told
<1>6. Register!Commit(p, new[p])
  <2> DEFINE answers == [q \in Procs |-> Told(q)]
             entries == [r \in active |-> snapshot[r]]
  <2>1. head # 0 => request[p].kind = entries[head].kind
    BY <1>3
  <2>2. Register!Waits(p)
    BY <1>2, <1>5 DEF Register!Waits
  <2>3. answers' = answers
    BY <1>5
  <2>4. entries' = [s \in (DOMAIN entries) \union {new[p]} |->
              IF s = new[p]
              THEN [kind |-> request[p].kind, target |-> request[p].target,
                    authority |-> request[p].authority, prev |-> request[p].expected]
              ELSE entries[s]]
    BY <1>4
  <2> HIDE DEF answers, entries
  <2> QED
    BY <1>2, <1>5, <2>1, <2>2, <2>3, <2>4 DEF Register!Commit, answers, entries
<1> QED
    BY <1>2, <1>6 DEF Register!Commit

\* A caller that is told "ok" was granted what it asked for.
LEMMA ReplyIsGranted ==
    ASSUME IInv, NEW p \in Procs, reply[p] # None, reply[p].status = "ok"
    PROVE  /\ reply[p].ref \in Revs
           /\ Register!Grants(reply[p].ref, request[p])
PROOF
<1>1. reply[p].ref \in active /\ active \subseteq Revs
    BY DEF IInv, OkRepliesAreTrue, TypeOK
<1> QED
    BY <1>1 DEF IInv, OkRepliesAreTrue, Register!Grants

\* Every step of the store is a step of the register, or none.
LEMMA StepRefines ==
    ASSUME IInv, [Next]_vars
    PROVE  [Register!Next]_(Register!regVars)
PROOF
<1> DEFINE answers == [p \in Procs |-> Told(p)]
           entries == [r \in active |-> snapshot[r]]
<1>a. TypeOK /\ \A p \in Procs : CallIsConsistent(p)
    BY DEF IInv, CallsAreConsistent
<1>b. UNCHANGED <<head, active>> => UNCHANGED <<head, entries>>
    BY EntriesStay
\* What the rest is told while p steps.
<1>c. ASSUME NEW p \in Procs,
             \A q \in Procs \ {p} : pc'[q] = pc[q] /\ reply'[q] = reply[q]
      PROVE  answers' = [answers EXCEPT ![p] = Told(p)']
  <2>1. \A q \in Procs \ {p} : Told(q)' = Told(q)
    BY <1>c DEF Told
  <2> HIDE DEF Told
  <2> QED
    BY <2>1
\* A step inside p's call is none of the register.
<1>d. ASSUME NEW p \in Procs, UNCHANGED <<head, active, request>>,
             pc[p] # "idle", pc'[p] # "idle",
             \A q \in Procs \ {p} : pc'[q] = pc[q] /\ reply'[q] = reply[q]
      PROVE  UNCHANGED Register!regVars
  <2>1. Told(p)' = Told(p)
    BY <1>d DEF Told
  <2>2. answers' = answers
    <3> HIDE DEF Told
    <3> QED
      BY <1>c, <1>d, <2>1
  <2> QED
    BY <1>b, <1>d, <2>2 DEF Register!regVars
<1>1. ASSUME NEW p \in Procs, NEW k \in Kinds, NEW e \in Refs, NEW t \in Targets,
             NEW a \in Authorities, Call(p, k, e, t, a)
      PROVE  Register!Ask(p)
  <2>1. /\ pc[p] = "idle" /\ pc' = [pc EXCEPT ![p] = "acquire"]
        /\ \A q \in Procs \ {p} : pc'[q] = pc[q] /\ reply'[q] = reply[q]
        /\ UNCHANGED <<head, active>>
        /\ \E w \in Request : request' = [request EXCEPT ![p] = w]
    BY <1>1, <1>a DEF Call, Goto, TypeOK, Request, shared
  <2>2. answers' = [answers EXCEPT ![p] = None]
    <3>1. Told(p)' = None
      BY <2>1, <1>a DEF Told, TypeOK
    <3> HIDE DEF Told
    <3> QED
      BY <1>c, <2>1, <3>1
  <2>3. ~Register!Waits(p)
    <3>1. request[p] # None => reply[p] # None /\ reply[p].status = "ok" /\ reply[p] \in Reply
      BY <1>a, <2>1 DEF CallIsConsistent, TypeOK
    <3>2. request[p] # None => Told(p) \in Reply
      BY <2>1, <3>1 DEF Told, Reply
    <3> HIDE DEF Told
    <3> QED
      BY <3>2, NoneIsNothing DEF Register!Waits
  <2>4. \E w \in Register!Wish : request' = [request EXCEPT ![p] = w]
    BY <2>1 DEF Request, Register!Wish, Kinds, Refs, Register!Refs, Authorities
  <2> QED
    BY <1>b, <2>1, <2>2, <2>3, <2>4 DEF Register!Ask
\* p's call ends in a refusal.
<1>2. ASSUME NEW p \in Procs, pc[p] # "idle", pc' = [pc EXCEPT ![p] = "idle"],
             \A q \in Procs \ {p} : reply'[q] = reply[q],
             reply'[p] # None, reply'[p].status # "ok",
             request' = [request EXCEPT ![p] = None], UNCHANGED <<head, active>>
      PROVE  Register!Refuse(p)
  <2>1. \A q \in Procs \ {p} : pc'[q] = pc[q] /\ reply'[q] = reply[q]
    BY <1>2, <1>a DEF TypeOK
  <2>2. answers' = [answers EXCEPT ![p] = [status |-> "refused", ref |-> 0]]
    <3>1. Told(p)' = [status |-> "refused", ref |-> 0]
      BY <1>2, <1>a DEF Told, TypeOK
    <3> HIDE DEF Told
    <3> QED
      BY <1>c, <2>1, <3>1
  <2>3. Register!Waits(p)
    BY <1>2, <1>a DEF Register!Waits, Told, CallIsConsistent
  <2> QED
    BY <1>b, <1>2, <2>2, <2>3 DEF Register!Refuse, Register!Refused
<1>3. ASSUME NEW p \in Procs, Acquire(p)
      PROVE  [Register!Next]_(Register!regVars)
  <2>1. CASE lock
    <3>1. reply' = [reply EXCEPT ![p] = [status |-> "locked", ref |-> 0]]
      BY <1>3, <2>1 DEF Acquire, Says
    <3>2. reply'[p] = [status |-> "locked", ref |-> 0] /\ reply'[p] \in Reply
      BY <3>1, <1>a DEF TypeOK, Reply, Refs
    <3>3. reply'[p] # None /\ reply'[p].status # "ok"
      BY <3>2, NoneIsNothing
    <3>4. /\ pc[p] # "idle" /\ pc' = [pc EXCEPT ![p] = "idle"]
          /\ request' = [request EXCEPT ![p] = None] /\ UNCHANGED <<head, active>>
      BY <1>3, <2>1 DEF Acquire, Goto, shared
    <3>5. \A q \in Procs \ {p} : reply'[q] = reply[q]
      BY <3>1, <1>a DEF TypeOK
    <3>6. Register!Refuse(p)
      BY <1>2, <3>3, <3>4, <3>5
    <3> QED
      BY <3>6 DEF Register!Next
  <2>2. CASE ~lock
    BY <1>3, <1>a, <1>d, <2>2 DEF Acquire, Goto, shared, TypeOK
  <2> QED
    BY <2>1, <2>2
<1>4. ASSUME NEW p \in Procs,
             \/ ReadHead(p) \/ Check(p) \/ \E r \in Revs : Allocate(p, r)
             \/ PutSnapshot(p) \/ PutSupersession(p) \/ IOFails(p)
      PROVE  UNCHANGED Register!regVars
  <2>1. /\ UNCHANGED <<head, active, request>> /\ pc[p] # "idle" /\ pc'[p] # "idle"
        /\ \A q \in Procs \ {p} : pc'[q] = pc[q] /\ reply'[q] = reply[q]
    BY <1>4, <1>a DEF ReadHead, Check, Allocate, PutSnapshot, PutSupersession, IOFails,
       Finish, Goto, Says, shared, local, TypeOK
  <2> QED
    BY <1>d, <2>1
<1>5. ASSUME NEW p \in Procs, WriteHead(p)
      PROVE  Register!Next
    BY <1>5, HeadMoveIsACommit DEF Register!Next
<1>6. ASSUME NEW p \in Procs, Unlock(p)
      PROVE  Register!Next
  <2>1. /\ pc[p] = "unlock" /\ pc' = [pc EXCEPT ![p] = "idle"]
        /\ UNCHANGED <<head, active, reply>>
        /\ reply[p] # None
    BY <1>6, <1>a DEF Unlock, Leave, Goto, shared, CallIsConsistent
  <2>2. CASE reply[p].status = "ok"
    <3>1. UNCHANGED request
      BY <1>6, <1>a, <2>2 DEF Unlock, TypeOK
    <3>2. answers' = [answers EXCEPT ![p] = [status |-> "ok", ref |-> reply[p].ref]]
      <4>1. Told(p)' = [status |-> "ok", ref |-> reply[p].ref]
        BY <1>a, <2>1, <2>2 DEF Told, TypeOK
      <4>2. \A q \in Procs \ {p} : pc'[q] = pc[q] /\ reply'[q] = reply[q]
        BY <1>a, <2>1 DEF TypeOK
      <4> HIDE DEF Told
      <4> QED
        BY <1>c, <4>1, <4>2
    <3>3. Register!Waits(p)
      BY <1>a, <2>1 DEF Register!Waits, Told, CallIsConsistent
    <3>4. Register!Accept(p)
      BY <1>b, <2>1, <2>2, <3>1, <3>2, <3>3, ReplyIsGranted DEF Register!Accept
    <3> QED
      BY <3>4 DEF Register!Next
  <2>3. CASE reply[p].status # "ok"
    <3>1. Register!Refuse(p)
      BY <1>2, <1>6, <2>1, <2>3 DEF Unlock
    <3> QED
      BY <3>1 DEF Register!Next
  <2> QED
    BY <2>2, <2>3
<1>7. ASSUME NEW p \in Procs, UnlockFails(p)
      PROVE  Register!Next
  <2>1. reply'[p] # None /\ reply'[p].status = "error"
    <3>1. reply'[p] = [status |-> "error", ref |-> 0]
      BY <1>7, <1>a DEF UnlockFails, Says, TypeOK
    <3>2. reply'[p] \in Reply
      BY <3>1 DEF Reply, Refs
    <3> QED
      BY <3>1, <3>2, NoneIsNothing
  <2>2. Register!Refuse(p)
    BY <1>2, <1>7, <1>a, <2>1 DEF UnlockFails, Leave, Goto, Says, shared, TypeOK
  <2> QED
    BY <2>2 DEF Register!Next
<1>8. ASSUME NEW p \in Procs, Crash(p)
      PROVE  Register!Next
  <2>1. /\ pc' = [pc EXCEPT ![p] = "idle"] /\ reply' = [reply EXCEPT ![p] = None]
        /\ request' = [request EXCEPT ![p] = None] /\ UNCHANGED <<head, active>>
    BY <1>8 DEF Crash, Leave, Goto, shared
  <2>2. answers' = [answers EXCEPT ![p] = None]
    <3>1. Told(p)' = None
      BY <2>1, <1>a DEF Told, TypeOK
    <3>2. \A q \in Procs \ {p} : pc'[q] = pc[q] /\ reply'[q] = reply[q]
      BY <1>a, <2>1 DEF TypeOK
    <3> HIDE DEF Told
    <3> QED
      BY <1>c, <3>1, <3>2
  <2>3. Register!Forget(p)
    BY <1>b, <2>1, <2>2 DEF Register!Forget
  <2> QED
    BY <2>3 DEF Register!Next
<1>9. CASE \/ \E p \in Procs : Resolve(p)
           \/ \E a \in Targets \union Approvals : Store(a)
           \/ RemoveStaleLock
           \/ UNCHANGED vars
  <2>1. UNCHANGED <<head, active, request, pc, reply>>
    BY <1>9 DEF Resolve, Store, RemoveStaleLock, vars, shared, local
  <2> QED
    BY <1>b, <2>1 DEF Told, Register!regVars
<1>10. ASSUME NEW p \in Procs, Step(p)
       PROVE  [Register!Next]_(Register!regVars)
    BY <1>3, <1>4, <1>5, <1>6, <1>7, <1>10 DEF Step, Work, OutOfRevisions
<1> HIDE DEF answers, entries
<1> QED
    BY <1>1, <1>8, <1>9, <1>10 DEF Next, Register!Next

\* The pointer store implements the compare-and-swap register: a pointer is
\* replaced only by what a caller asked for in its place, and the lock, retries,
\* orphans and crashes are invisible to the callers.
THEOREM StoreImplementsRegister == Spec => ImplementsRegister
PROOF
<1>1. Init => Register!Init
    BY DEF Init, Register!Init, Told
<1>2. IInv /\ [Next]_vars => [Register!Next]_(Register!regVars)
    BY StepRefines
<1> QED
    BY <1>1, <1>2, Invariance, PTL
       DEF Spec, ImplementsRegister, Register!Spec
=============================================================================

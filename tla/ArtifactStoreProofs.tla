-------------------------- MODULE ArtifactStoreProofs --------------------------
(***************************************************************************)
(* FileArtifactStore.put is a write-once store for any processes,          *)
(* identities and contents.  The inductive invariant adds to the stated    *)
(* properties what a running put knows: the temporary it links is complete *)
(* and the target it compares with, or has just published, is there.       *)
(***************************************************************************)
EXTENDS ArtifactStore, TLAPS

PutIsConsistent(w) ==
    /\ pc[w] = "link" => temp[w] = call[w].content
    /\ pc[w] = "sync" => file[call[w].id] = call[w].content
    /\ pc[w] = "compare" => file[call[w].id] # None

IInv ==
    /\ TypeOK
    /\ NoTornArtifact
    /\ RepliesAreTrue
    /\ \A w \in Writers : PutIsConsistent(w)

-----------------------------------------------------------------------------
\* Every step keeps every variable in its type.
LEMMA TypeStep ==
    ASSUME IInv, [Next]_vars
    PROVE  TypeOK'
PROOF
<1> USE DEF TypeOK, Goto
<1>1. ASSUME NEW w \in Writers, NEW i \in Ids, NEW c \in Contents, Begin(w, i, c)
      PROVE  TypeOK'
  <2>1. [id |-> i, content |-> c] \in Call /\ [id |-> i, content |-> c] # None
    BY MarkersAreNoValues DEF Call
  <2> QED
    BY <1>1, <2>1 DEF IInv, Begin, Steps
<1>2. ASSUME NEW w \in Writers, Probe(w) \/ Stage(w) \/ Write(w) \/ Link(w)
      PROVE  TypeOK'
  <2>1. call[w] \in Call
    BY <1>2 DEF IInv, Probe, Stage, Write, Link
  <2> QED
    BY <1>2, <2>1 DEF IInv, Probe, Stage, Write, Link, Steps, Call, PutIsConsistent
<1>3. ASSUME NEW w \in Writers, SyncDirectory(w) \/ Compare(w) \/ CompareFails(w) \/ WriteFails(w)
      PROVE  TypeOK'
  <2>1. call[w] \in Call
    BY <1>3 DEF IInv, SyncDirectory, Compare, CompareFails, WriteFails
  <2>2. \A s \in {"ok", "conflict", "error"} :
            [status |-> s, id |-> call[w].id, content |-> call[w].content] \in Outcome
    BY <2>1 DEF Call, Outcome
  <2> QED
    BY <1>3, <2>2 DEF IInv, SyncDirectory, Compare, CompareFails, WriteFails, Says, Steps
<1>4. ASSUME NEW w \in Writers, Cleanup(w) \/ Crash(w)
      PROVE  TypeOK'
    BY <1>4 DEF IInv, Cleanup, Crash, Steps
<1>5. CASE UNCHANGED vars
    BY <1>5 DEF IInv, vars
<1> QED
    BY <1>1, <1>2, <1>3, <1>4, <1>5 DEF Next, Step, Work

\* Only a link to a free name changes a target, and what it publishes is the
\* complete content of its caller.
LEMMA OnlyLinkPublishes ==
    ASSUME IInv, [Next]_vars
    PROVE  \/ UNCHANGED file
           \/ \E w \in Writers :
                  /\ Link(w)
                  /\ call[w].id \in Ids /\ call[w].content \in Contents
                  /\ file[call[w].id] = None
                  /\ file' = [file EXCEPT ![call[w].id] = call[w].content]
                  /\ UNCHANGED reply
PROOF
<1>1. ASSUME NEW w \in Writers, Link(w)
      PROVE  \/ UNCHANGED file
             \/ /\ call[w].id \in Ids /\ call[w].content \in Contents
                /\ file[call[w].id] = None
                /\ file' = [file EXCEPT ![call[w].id] = call[w].content]
                /\ UNCHANGED reply
  <2>1. call[w] \in Call /\ temp[w] = call[w].content
    BY <1>1 DEF Link, IInv, TypeOK, PutIsConsistent
  <2> QED
    BY <1>1, <2>1 DEF Link, Call
<1> QED
    BY <1>1 DEF Next, Step, Work, Begin, Probe, Stage, Write, SyncDirectory, Compare, CompareFails,
       WriteFails, Cleanup, Crash, vars

\* A target that exists keeps its bytes, and new targets hold contents.
LEMMA TargetsPersist ==
    ASSUME IInv, [Next]_vars
    PROVE  \A i \in Ids : /\ file[i] # None => file'[i] = file[i]
                          /\ file'[i] # Torn
PROOF
<1>1. TypeOK /\ NoTornArtifact
    BY DEF IInv
<1>2. CASE UNCHANGED file
    BY <1>1, <1>2 DEF NoTornArtifact
<1>3. ASSUME NEW w \in Writers,
             call[w].id \in Ids, call[w].content \in Contents,
             file[call[w].id] = None,
             file' = [file EXCEPT ![call[w].id] = call[w].content]
      PROVE  \A i \in Ids : /\ file[i] # None => file'[i] = file[i]
                            /\ file'[i] # Torn
    BY <1>1, <1>3, MarkersAreNoValues DEF TypeOK, NoTornArtifact
<1> QED
    BY <1>2, <1>3, OnlyLinkPublishes

-----------------------------------------------------------------------------
\* Each step of a put establishes what its next step relies on, and no step
\* of another process can take it away.
LEMMA PutsStayConsistent ==
    ASSUME IInv, [Next]_vars, NEW v \in Writers
    PROVE  PutIsConsistent(v)'
PROOF
<1> USE DEF Goto
<1>a. /\ TypeOK /\ TypeOK' /\ PutIsConsistent(v)
      /\ \A i \in Ids : file[i] # None => file'[i] = file[i]
    BY TypeStep, TargetsPersist DEF IInv
<1>b. \A i \in Ids, c \in Contents : file[i] = c => file'[i] = c /\ file[i] # None
    BY <1>a, MarkersAreNoValues
<1>1. CASE pc'[v] = pc[v] /\ call'[v] = call[v] /\ temp'[v] = temp[v]
  <2>1. pc[v] # "idle" => call[v].id \in Ids /\ call[v].content \in Contents
    BY <1>a DEF TypeOK, Call
  <2> QED
    BY <1>1, <1>a, <1>b, <2>1 DEF PutIsConsistent
<1>2. ASSUME NEW i \in Ids, NEW c \in Contents, Begin(v, i, c)
      PROVE  PutIsConsistent(v)'
    BY <1>2, <1>a DEF Begin, PutIsConsistent, TypeOK
<1>3. ASSUME Step(v) \/ Crash(v)
      PROVE  PutIsConsistent(v)'
  <2>1. call[v] \in Call
    BY <1>3, <1>a DEF Step, Work, Probe, Stage, Write, Link, SyncDirectory, Compare, CompareFails,
       WriteFails, Cleanup, Crash, TypeOK
  <2>2. CASE Probe(v) \/ Stage(v) \/ Write(v) \/ Link(v)
    BY <1>a, <2>1, <2>2 DEF Probe, Stage, Write, Link, PutIsConsistent, TypeOK, Call
  <2>3. CASE SyncDirectory(v) \/ Compare(v) \/ CompareFails(v) \/ WriteFails(v) \/ Cleanup(v) \/ Crash(v)
    BY <1>a, <2>1, <2>3 DEF SyncDirectory, Compare, CompareFails, WriteFails, Cleanup, Crash,
       PutIsConsistent, TypeOK
  <2> QED
    BY <1>3, <2>2, <2>3 DEF Step, Work
<1>4. ASSUME NEW w \in Writers \ {v},
             \/ Step(w) \/ Crash(w)
             \/ \E i \in Ids, c \in Contents : Begin(w, i, c)
      PROVE  pc'[v] = pc[v] /\ call'[v] = call[v] /\ temp'[v] = temp[v]
    BY <1>4, <1>a DEF Step, Work, Begin, Probe, Stage, Write, Link, SyncDirectory, Compare, CompareFails,
       WriteFails, Cleanup, Crash, TypeOK
<1> QED
    BY <1>1, <1>2, <1>3, <1>4 DEF Next, vars

\* What a writer is told was true when it was said and stays true.
LEMMA RepliesStayTrue ==
    ASSUME IInv, [Next]_vars
    PROVE  RepliesAreTrue'
PROOF
<1>a. /\ TypeOK /\ RepliesAreTrue
      /\ \A w \in Writers : PutIsConsistent(w)
      /\ \A i \in Ids : file[i] # None => file'[i] = file[i]
    BY TargetsPersist DEF IInv
<1> DEFINE IsTrue(w) ==
        reply[w] # None =>
            /\ reply[w].status = "ok" => file[reply[w].id] = reply[w].content
            /\ reply[w].status = "conflict" =>
                   file[reply[w].id] # None
<1>1. ASSUME NEW v \in Writers, reply'[v] = reply[v]
      PROVE  IsTrue(v)'
  <2>1. reply[v] # None => reply[v].id \in Ids /\ reply[v].content \in Contents
    BY <1>a DEF TypeOK, Outcome
  <2> QED
    BY <1>1, <1>a, <2>1, MarkersAreNoValues DEF RepliesAreTrue
<1>2. ASSUME NEW w \in Writers, SyncDirectory(w) \/ Compare(w) \/ CompareFails(w) \/ WriteFails(w)
      PROVE  IsTrue(w)'
  <2>1. call[w] \in Call /\ UNCHANGED file
    BY <1>2, <1>a DEF SyncDirectory, Compare, CompareFails, WriteFails, TypeOK
  <2>2. CASE SyncDirectory(w)
    BY <1>a, <2>1, <2>2 DEF SyncDirectory, Says, PutIsConsistent, TypeOK
  <2>3. CASE Compare(w) \/ CompareFails(w)
    BY <1>a, <2>1, <2>3 DEF Compare, CompareFails, Says, PutIsConsistent, TypeOK
  <2>4. CASE WriteFails(w)
    BY <1>a, <2>1, <2>4 DEF WriteFails, Says, TypeOK
  <2> QED
    BY <1>2, <2>2, <2>3, <2>4
<1>3. ASSUME NEW w \in Writers, Crash(w) \/ \E i \in Ids, c \in Contents : Begin(w, i, c)
      PROVE  IsTrue(w)'
    BY <1>3, <1>a DEF Crash, Begin, TypeOK
<1>4. ASSUME NEW w \in Writers, Probe(w) \/ Stage(w) \/ Write(w) \/ Link(w) \/ Cleanup(w)
      PROVE  IsTrue(w)'
    BY <1>1, <1>4 DEF Probe, Stage, Write, Link, Cleanup
<1>5. ASSUME NEW w \in Writers, NEW v \in Writers \ {w},
             \/ Step(w) \/ Crash(w)
             \/ \E i \in Ids, c \in Contents : Begin(w, i, c)
      PROVE  reply'[v] = reply[v]
    BY <1>5, <1>a DEF Step, Work, Begin, Probe, Stage, Write, Link, SyncDirectory, Compare, CompareFails,
       WriteFails, Cleanup, Crash, Says, TypeOK
<1>6. ASSUME NEW v \in Writers
      PROVE  IsTrue(v)'
    BY <1>1, <1>2, <1>3, <1>4, <1>5 DEF Next, Step, Work, vars
<1> QED
    BY <1>6 DEF RepliesAreTrue

-----------------------------------------------------------------------------
\* The inductive invariant holds in every reachable state.
THEOREM Invariance == Spec => []IInv
PROOF
<1>1. Init => IInv
    BY MarkersAreNoValues DEF Init, IInv, TypeOK, NoTornArtifact, RepliesAreTrue,
       PutIsConsistent, Steps
<1>2. ASSUME IInv, [Next]_vars
      PROVE  IInv'
  <2>1. NoTornArtifact'
    BY <1>2, TargetsPersist DEF NoTornArtifact
  <2>2. \A w \in Writers : PutIsConsistent(w)'
    BY <1>2, PutsStayConsistent
  <2> QED
    BY <1>2, <2>1, <2>2, TypeStep, RepliesStayTrue DEF IInv
<1> QED
    BY <1>1, <1>2, PTL DEF Spec

\* Every variable of the store keeps its type.
THEOREM TypeCorrectness == Spec => []TypeOK
PROOF
    BY Invariance, PTL DEF IInv

\* A target file is never half-written, whoever crashes when.
THEOREM NoArtifactIsTorn == Spec => []NoTornArtifact
PROOF
    BY Invariance, PTL DEF IInv

\* "ok" and "conflict" are true when said and for ever after.
THEOREM RepliesHold == Spec => []RepliesAreTrue
PROOF
    BY Invariance, PTL DEF IInv

\* The bytes of a stored artifact never change.
THEOREM ArtifactsAreImmutable == Spec => ArtifactsNeverChange
PROOF
<1>1. ASSUME IInv, [Next]_vars
      PROVE  \A i \in Ids : file[i] # None => file'[i] = file[i]
    BY <1>1, TargetsPersist
<1> QED
    BY <1>1, Invariance, PTL DEF Spec, ArtifactsNeverChange

-----------------------------------------------------------------------------
\* Every step of a put is a step of the write-once store, or none.
LEMMA StepRefines ==
    ASSUME IInv, [Next]_vars
    PROVE  [WriteOnce!Next]_(WriteOnce!wosVars)
PROOF
<1>a. TypeOK /\ \A w \in Writers : PutIsConsistent(w)
    BY DEF IInv
<1>1. ASSUME NEW w \in Writers, Link(w), ~UNCHANGED file
      PROVE  WriteOnce!Next
    BY <1>1, OnlyLinkPublishes, <1>a DEF WriteOnce!Next, WriteOnce!Fill
<1>2. ASSUME NEW w \in Writers, SyncDirectory(w) \/ Compare(w) \/ CompareFails(w) \/ WriteFails(w)
      PROVE  WriteOnce!Next
  <2>1. call[w] \in Call
    BY <1>2, <1>a DEF SyncDirectory, Compare, CompareFails, WriteFails, TypeOK
  <2>2. PICK s \in {"ok", "conflict", "error"} :
            /\ s = "ok" => file[call[w].id] = call[w].content
            /\ s = "conflict" => file[call[w].id] # None
            /\ Says(w, s)
            /\ UNCHANGED file
    BY <1>2, <1>a DEF SyncDirectory, Compare, CompareFails, WriteFails, PutIsConsistent
  <2> QED
    BY <2>1, <2>2 DEF Says, Call, WriteOnce!Next, WriteOnce!Answer
<1>3. ASSUME NEW w \in Writers, Crash(w) \/ \E i \in Ids, c \in Contents : Begin(w, i, c)
      PROVE  WriteOnce!Next
    BY <1>3 DEF Crash, Begin, WriteOnce!Next, WriteOnce!Forget
<1>4. CASE UNCHANGED <<file, reply>>
    BY <1>4 DEF WriteOnce!wosVars
<1>5. ASSUME NEW w \in Writers, Probe(w) \/ Stage(w) \/ Write(w) \/ Cleanup(w)
      PROVE  UNCHANGED <<file, reply>>
    BY <1>5 DEF Probe, Stage, Write, Cleanup
<1>6. ASSUME NEW w \in Writers, Link(w)
      PROVE  UNCHANGED reply
    BY <1>6 DEF Link
<1> QED
    BY <1>1, <1>2, <1>3, <1>4, <1>5, <1>6 DEF Next, Step, Work, vars

\* put, with its temporaries, races and crashes, implements the write-once
\* store its callers rely on.
THEOREM PutImplementsWriteOnce == Spec => ImplementsWriteOnce
PROOF
<1>1. Init => WriteOnce!Init
    BY DEF Init, WriteOnce!Init
<1>2. IInv /\ [Next]_vars => [WriteOnce!Next]_(WriteOnce!wosVars)
    BY StepRefines
<1> QED
    BY <1>1, <1>2, Invariance, PTL DEF Spec, ImplementsWriteOnce, WriteOnce!Spec
=============================================================================

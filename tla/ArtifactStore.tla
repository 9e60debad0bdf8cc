---------------------------- MODULE ArtifactStore ----------------------------
(***************************************************************************)
(* FileArtifactStore.put, call by call and file operation by file          *)
(* operation, run by several processes over one directory tree.  An        *)
(* identity (artifact type, id, revision) names one target file; a put     *)
(* writes a private temporary file, fsyncs it and publishes it with        *)
(* link(2), which never replaces an existing name.  Processes crash        *)
(* between any two steps (their temporary stays behind under a name that   *)
(* nobody reads); a write may fail with OSError.                           *)
(*                                                                         *)
(* Canonical bytes determine the content hash, so a content stands for     *)
(* both.  Path and symlink checks are left out: they refuse a call before  *)
(* it has any effect.                                                      *)
(***************************************************************************)

CONSTANTS Writers,    \* processes that call put
          Ids,        \* artifact identities
          Contents,   \* canonical envelope bytes of valid envelopes
          None,       \* no file, no call
          Torn        \* the bytes of a file whose write has not finished

VARIABLES file,       \* file[i]: bytes of the target file of i, or None
          temp,       \* temp[w]: bytes of w's temporary file, or None
          pc,         \* pc[w]: the next step of w's put
          call,       \* call[w]: the envelope w is putting, or None
          reply       \* reply[w]: outcome of w's last put, or None

vars == <<file, temp, pc, call, reply>>

Call == [id : Ids, content : Contents]
Steps == {"idle", "probe", "stage", "write", "link", "sync", "compare", "cleanup"}
Outcome == [status : {"ok", "conflict", "error"}, id : Ids, content : Contents]

ASSUME MarkersAreNoValues ==
    /\ None \notin Contents \union Call \union Outcome
    /\ Torn \notin Contents \union {None}

TypeOK ==
    /\ file \in [Ids -> Contents \union {None, Torn}]
    /\ temp \in [Writers -> Contents \union {None, Torn}]
    /\ pc \in [Writers -> Steps]
    /\ call \in [Writers -> Call \union {None}]
    /\ reply \in [Writers -> Outcome \union {None}]
    /\ \A w \in Writers : pc[w] # "idle" => call[w] # None

Init ==
    /\ file = [i \in Ids |-> None]
    /\ temp = [w \in Writers |-> None]
    /\ pc = [w \in Writers |-> "idle"]
    /\ call = [w \in Writers |-> None]
    /\ reply = [w \in Writers |-> None]

Goto(w, s) == pc' = [pc EXCEPT ![w] = s]

\* The value put() returns, or the error it raises, for w's call.
Says(w, s) ==
    reply' = [reply EXCEPT ![w] =
                 [status |-> s, id |-> call[w].id, content |-> call[w].content]]

-----------------------------------------------------------------------------
\* put(envelope): the type check and the two directories; no artifact yet.
Begin(w, i, c) ==
    /\ pc[w] = "idle"
    /\ call' = [call EXCEPT ![w] = [id |-> i, content |-> c]]
    /\ reply' = [reply EXCEPT ![w] = None]
    /\ Goto(w, "probe")
    /\ UNCHANGED <<file, temp>>

\* target.exists(): an existing target is compared, never written.
Probe(w) ==
    /\ pc[w] = "probe"
    /\ Goto(w, IF file[call[w].id] = None THEN "stage" ELSE "compare")
    /\ UNCHANGED <<file, temp, call, reply>>

\* mkstemp in the target's directory: a new, still empty file.
Stage(w) ==
    /\ pc[w] = "stage"
    /\ temp' = [temp EXCEPT ![w] = Torn]
    /\ Goto(w, "write")
    /\ UNCHANGED <<file, call, reply>>

\* write, flush and fsync of the temporary.
Write(w) ==
    /\ pc[w] = "write"
    /\ temp' = [temp EXCEPT ![w] = call[w].content]
    /\ Goto(w, "link")
    /\ UNCHANGED <<file, call, reply>>

\* os.link(temp, target): publishes when the name is free, and raises
\* FileExistsError when another put won the race.
Link(w) ==
    /\ pc[w] = "link"
    /\ IF file[call[w].id] = None
       THEN /\ file' = [file EXCEPT ![call[w].id] = temp[w]]
            /\ Goto(w, "sync")
       ELSE /\ Goto(w, "compare")
            /\ UNCHANGED file
    /\ UNCHANGED <<temp, call, reply>>

\* _fsync_directory (its failure is ignored), then the ref is returned.
SyncDirectory(w) ==
    /\ pc[w] = "sync"
    /\ Says(w, "ok")
    /\ Goto(w, "cleanup")
    /\ UNCHANGED <<file, temp, call>>

\* Faulty variant, for the check of the properties: an existing target is taken
\* for the caller's own.
CompareByName(w) ==
    /\ pc[w] = "compare"
    /\ Says(w, "ok")
    /\ Goto(w, "cleanup")
    /\ UNCHANGED <<file, temp, call>>

\* Faulty variant, for the check of the properties: other bytes make the writer
\* look again.
CompareUntilEqual(w) ==
    /\ pc[w] = "compare"
    /\ IF file[call[w].id] = call[w].content
       THEN Says(w, "ok") /\ Goto(w, "cleanup")
       ELSE Goto(w, "probe") /\ UNCHANGED reply
    /\ UNCHANGED <<file, temp, call>>

\* _resolve_existing_put: the same verified artifact is idempotent success,
\* anything else a conflict.
Compare(w) ==
    /\ pc[w] = "compare"
    /\ Says(w, IF file[call[w].id] = call[w].content THEN "ok" ELSE "conflict")
    /\ Goto(w, "cleanup")
    /\ UNCHANGED <<file, temp, call>>

\* The existing target cannot be read: reported as a conflict as well.
CompareFails(w) ==
    /\ pc[w] = "compare"
    /\ Says(w, "conflict")
    /\ Goto(w, "cleanup")
    /\ UNCHANGED <<file, temp, call>>

\* Faulty variant, for the check of the properties: any failure is a conflict.
FailsAsConflict(w) ==
    /\ pc[w] \in {"stage", "write", "link"}
    /\ Says(w, "conflict")
    /\ Goto(w, "cleanup")
    /\ UNCHANGED <<file, temp, call>>

\* An OSError of mkstemp, write or link becomes ArtifactStoreError.
WriteFails(w) ==
    /\ pc[w] \in {"stage", "write", "link"}
    /\ Says(w, "error")
    /\ Goto(w, "cleanup")
    /\ UNCHANGED <<file, temp, call>>

\* The finally block: unlink the temporary.
Cleanup(w) ==
    /\ pc[w] = "cleanup"
    /\ temp' = [temp EXCEPT ![w] = None]
    /\ Goto(w, "idle")
    /\ UNCHANGED <<file, call, reply>>

\* The process dies between two steps.
Crash(w) ==
    /\ pc[w] # "idle"
    /\ temp' = [temp EXCEPT ![w] = None]
    /\ call' = [call EXCEPT ![w] = None]
    /\ reply' = [reply EXCEPT ![w] = None]
    /\ Goto(w, "idle")
    /\ UNCHANGED file

Work(w) ==
    \/ Probe(w) \/ Stage(w) \/ Write(w) \/ Link(w) \/ SyncDirectory(w)
    \/ Compare(w) \/ Cleanup(w)

Step(w) == Work(w) \/ CompareFails(w) \/ WriteFails(w)

Next ==
    \E w \in Writers :
        \/ \E i \in Ids, c \in Contents : Begin(w, i, c)
        \/ Step(w)
        \/ Crash(w)

Spec == Init /\ [][Next]_vars

\* A running put is sequential code that does not wait for anybody.
FairSpec == Spec /\ \A w \in Writers : WF_vars(Work(w))

-----------------------------------------------------------------------------
(* Safety.                                                                 *)

\* "Immutable": once a reader can see an artifact, no put, race, failure or
\* crash of any process changes or removes its bytes.
ArtifactsNeverChange ==
    [][\A i \in Ids : file[i] # None => file'[i] = file[i]]_vars

\* A visible target is never a half-written file, whatever crashed when.
NoTornArtifact == \A i \in Ids : file[i] # Torn

\* put() tells the truth for as long as the caller can remember the answer:
\* a returned ref names stored bytes equal to the caller's, and a conflict
\* is only reported about an identity that is taken.
RepliesAreTrue ==
    \A w \in Writers : reply[w] # None =>
        /\ reply[w].status = "ok" => file[reply[w].id] = reply[w].content
        /\ reply[w].status = "conflict" => file[reply[w].id] # None

\* Every put that is not interrupted returns or raises: two writers racing
\* for one identity never wait for each other.
PutsReturn == \A w \in Writers : pc[w] # "idle" ~> pc[w] = "idle"

(* ArtifactStore is a write-once store: target files are the cells.        *)
WriteOnce == INSTANCE WriteOnceStore WITH cell <- file, reply <- reply
ImplementsWriteOnce == WriteOnce!Spec
=============================================================================

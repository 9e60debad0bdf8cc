--------------------------- MODULE WriteOnceStore ---------------------------
(***************************************************************************)
(* What the immutable artifact store promises its callers, with no files,  *)
(* temporaries or retries in sight: every identity is a cell that is       *)
(* written at most once, a writer is told "ok" only about a cell that      *)
(* holds exactly its content and "conflict" only about a cell that is      *)
(* taken.  ArtifactStore implements this specification.                    *)
(***************************************************************************)

CONSTANTS Writers,    \* processes that call put
          Ids,        \* artifact identities (type, id, revision)
          Contents,   \* canonical envelope bytes
          None        \* no content, no call

VARIABLES cell,       \* cell[i]: the content of identity i, or None
          reply       \* reply[w]: what w was last told, and about which call

wosVars == <<cell, reply>>

Reply == [status : {"ok", "conflict", "error"}, id : Ids, content : Contents]

Init ==
    /\ cell = [i \in Ids |-> None]
    /\ reply = [w \in Writers |-> None]

\* A cell that was never written takes a content, for good.
Fill(i, c) ==
    /\ cell[i] = None
    /\ cell' = [cell EXCEPT ![i] = c]
    /\ UNCHANGED reply

\* A writer learns the outcome; an "error" promises nothing.
Answer(w, i, c, s) ==
    /\ s = "ok" => cell[i] = c
    /\ s = "conflict" => cell[i] # None
    /\ reply' = [reply EXCEPT ![w] = [status |-> s, id |-> i, content |-> c]]
    /\ UNCHANGED cell

\* A writer starts over (a new call, or the process died).
Forget(w) ==
    /\ reply' = [reply EXCEPT ![w] = None]
    /\ UNCHANGED cell

Next ==
    \/ \E i \in Ids, c \in Contents : Fill(i, c)
    \/ \E w \in Writers, i \in Ids, c \in Contents, s \in {"ok", "conflict", "error"} :
           Answer(w, i, c, s)
    \/ \E w \in Writers : Forget(w)

Spec == Init /\ [][Next]_wosVars
=============================================================================

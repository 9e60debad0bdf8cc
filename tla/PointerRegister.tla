--------------------------- MODULE PointerRegister ---------------------------
(***************************************************************************)
(* What a current pointer promises, with no files, locks, retries or       *)
(* crashes: a compare-and-swap register that names the current entry.  A   *)
(* caller asks for an entry in the place of the one it expects; the        *)
(* register commits what was asked for only while exactly the expected     *)
(* entry is current, and entries are never rewritten.  A caller that is    *)
(* told "ok" learns an entry that was committed, says what it asked for,   *)
(* and follows the expected one or is it.  PointerStore implements this    *)
(* specification.                                                          *)
(***************************************************************************)
EXTENDS Naturals

CONSTANTS Procs,      \* callers
          Revs,       \* pointer revisions
          Targets,    \* artifacts a pointer can name
          Approvals,  \* approval records that can authorize a target
          None        \* no authority, nothing asked, no answer

VARIABLES current,    \* revision of the current entry, 0 before the first
          entry,      \* the committed entries, by revision
          wish,       \* wish[p]: what p asks for or was granted, or None
          answer      \* answer[p]: how p's last call ended, or None

regVars == <<current, entry, wish, answer>>

Refs == Revs \union {0}
Wish == [kind : {"CURRENT", "CURRENT_APPROVED"}, expected : Refs, target : Targets,
         authority : Approvals \union {None}]
Refused == [status |-> "refused", ref |-> 0]

Init ==
    /\ current = 0
    /\ entry = [r \in {} |-> None]
    /\ wish = [p \in Procs |-> None]
    /\ answer = [p \in Procs |-> None]

\* p waits for the answer to what it asked for.
Waits(p) == wish[p] # None /\ answer[p] = None

\* p asks for an entry, one at a time.
Ask(p) ==
    /\ UNCHANGED <<current, entry>>
    /\ ~Waits(p)
    /\ \E w \in Wish : wish' = [wish EXCEPT ![p] = w]
    /\ answer' = [answer EXCEPT ![p] = None]

\* The compare-and-swap: what p asked for replaces the entry p expected, under a
\* larger revision and of the same kind.
Commit(p, r) ==
    /\ UNCHANGED <<wish, answer>>
    /\ Waits(p)
    /\ wish[p].expected = current
    /\ r > current
    /\ current # 0 => wish[p].kind = entry[current].kind
    /\ current' = r
    /\ entry' = [s \in DOMAIN entry \union {r} |->
           IF s = r THEN [kind |-> wish[p].kind, target |-> wish[p].target,
                          authority |-> wish[p].authority, prev |-> wish[p].expected]
           ELSE entry[s]]

\* The entry r says what the wish w asks for, in the place that w names.
Grants(r, w) ==
    /\ r \in DOMAIN entry
    /\ entry[r].kind = w.kind
    /\ entry[r].target = w.target
    /\ entry[r].authority = w.authority
    /\ w.expected \in {r, entry[r].prev}

\* p is told of an entry that grants its wish: its own, one it asked for before, or
\* the one it expected.
Accept(p) ==
    /\ UNCHANGED <<current, entry, wish>>
    /\ Waits(p)
    /\ \E r \in Revs :
           /\ Grants(r, wish[p])
           /\ answer' = [answer EXCEPT ![p] = [status |-> "ok", ref |-> r]]

\* p is refused, which promises nothing: the commit may have happened.
Refuse(p) ==
    /\ UNCHANGED <<current, entry>>
    /\ Waits(p)
    /\ wish' = [wish EXCEPT ![p] = None]
    /\ answer' = [answer EXCEPT ![p] = Refused]

\* p dies, and with it what it asked for.
Forget(p) ==
    /\ UNCHANGED <<current, entry>>
    /\ wish' = [wish EXCEPT ![p] = None]
    /\ answer' = [answer EXCEPT ![p] = None]

Next ==
    \E p \in Procs : Ask(p) \/ (\E r \in Revs : Commit(p, r)) \/ Accept(p) \/ Refuse(p) \/ Forget(p)

Spec == Init /\ [][Next]_regVars
=============================================================================

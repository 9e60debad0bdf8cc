----------------------- MODULE MCEntityReconciliation -----------------------
(***************************************************************************)
(* Four candidates in two chunks, their order in the first chunk not that  *)
(* of their refs.  "li bai" and "li po" are strong and share a token,      *)
(* "li" is weak, "old man" shares none.  2 and 3 cite a common paragraph.  *)
(***************************************************************************)
EXTENDS EntityReconciliation

TokensOfNames ==
    [k \in {"li bai", "li po", "li", "old man"} |->
        CASE k = "li bai" -> {"li", "bai"} [] k = "li po" -> {"li", "po"}
          [] k = "li" -> {"li"} [] OTHER -> {"old", "man"}]

Fixed(c, kind, keys) ==
    [kind |-> kind, chunk |-> IF c \leq 2 THEN 1 ELSE 2,
     at |-> CASE c = 1 -> 2 [] c = 2 -> 1 [] OTHER -> c, keys |-> keys,
     evidence |-> CASE c = 1 -> <<1>> [] c = 2 -> <<1, 2>> [] c = 3 -> <<3>> [] OTHER -> <<3, 4>>]

Names ==
    [c \in 1..4 |-> CASE c = 1 -> {{"li bai"}}
                      [] c = 2 -> {{"li", "li bai"}, {"li"}}
                      [] c = 3 -> {{"li po"}, {"old man"}}
                      [] OTHER -> {{"li bai", "li po"}, {"li"}}]

Cast ==
    {[c \in 1..4 |-> Fixed(c, IF c = 4 THEN k ELSE "character", n[c])] :
        k \in Kinds, n \in {f \in [1..4 -> UNION {Names[c] : c \in 1..4}] :
                               \A c \in 1..4 : f[c] \in Names[c]}}

LateCast == {i \in Cast : i[4].kind = "character" \/ i[3].keys = {"old man"}}

Hard == {{}, {<<1, 4>>}}

Citations ==
    {<<<<"R", 1>>, <<"L", 1>>>>, <<<<"L", 1>>, <<"L", 1>>>>, <<<<"L", 2>>>>}
=============================================================================

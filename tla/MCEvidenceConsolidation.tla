---------------------- MODULE MCEvidenceConsolidation ----------------------
(***************************************************************************)
(* Four candidates in three chunks.  Evidence puts the second before the   *)
(* first in the text; the last is too far from the first two to meet them  *)
(* by place alone.  A4 may have made a1 and b1 one person; a map that made *)
(* a1 a place, which A4 never writes, must be refused.                     *)
(***************************************************************************)
EXTENDS EvidenceConsolidation

KindsOfEntities ==
    [e \in {"char_1", "char_2", "loc_1", "unres_1"} |->
        CASE e = "loc_1" -> "loc" [] e = "unres_1" -> "unknown" [] OTHER -> "char"]

Map(a, b, c) == [r \in {"a1", "b1", "c1", "p1"} |->
    CASE r = "a1" -> a [] r = "b1" -> b [] r = "c1" -> c [] OTHER -> "loc_1"]
Apart == Map("char_1", "char_2", "unres_1")
OnePerson == Map("char_1", "char_1", "unres_1")
Misplaced == Map("loc_1", "char_2", "unres_1")

Ev(p, r) == [paragraph |-> p, role |-> r]
Fixed(c) ==
    [chunk |-> <<1, 1, 2, 3>>[c], suffix |-> <<1, 2, 1, 1>>[c],
     evidence |-> << <<Ev(1, "supporting"), Ev(2, "primary")>>,
                     <<Ev(1, "supporting")>>,
                     <<Ev(3, "primary"), Ev(3, "primary")>>,
                     <<Ev(4, "primary"), Ev(3, "supporting")>> >>[c]]
Told1(c, text, type, who, what, state) ==
    [chunk |-> Fixed(c).chunk, suffix |-> Fixed(c).suffix, evidence |-> Fixed(c).evidence,
     text |-> text, type |-> type, who |-> who, what |-> what, state |-> state]

\* The last fact repeats the first or not; the third is of another type or not.
Facts(last, type) ==
    [c \in 1..4 |->
        CASE c = 1 -> Told1(1, "x", "trait", <<"a1">>, <<>>, None)
          [] c = 2 -> Told1(2, "y", "continuity_relevant", <<"b1", "a1">>, <<>>, None)
          [] c = 3 -> Told1(3, "z", type, <<"c1">>, <<"p1">>, None)
          [] c = 4 -> Told1(4, last, "trait", <<"a1">>, <<>>, None)]

Events(text, mode, who) ==
    [c \in 1..4 |->
        CASE c = 1 -> Told1(1, "x", "normal", <<"a1">>, <<"p1">>, None)
          [] c = 2 -> Told1(2, text, mode, who, <<"p1">>, None)
          [] c = 3 -> Told1(3, "z", "flashback", <<"b1">>, <<>>, None)
          [] c = 4 -> Told1(4, text, "unknown", <<"b1">>, <<"p1">>, None)]

Relationships(text, type, states) ==
    [c \in 1..4 |->
        CASE c = 1 -> Told1(1, "x", "symmetric", <<"a1">>, <<"b1">>, states[1])
          [] c = 2 -> Told1(2, "y", "symmetric", <<"b1">>, <<"a1">>, states[2])
          [] c = 3 -> Told1(3, text, type, <<"b1">>, <<"a1">>, states[3])
          [] c = 4 -> Told1(4, "z", "symmetric", <<"a1">>, <<"b1">>, states[4])]

StateTales ==
    {<<None, "foes", "friends", "foes">>, <<"friends", None, "friends", "foes">>,
     <<"friends", "friends", None, "friends">>, <<"foes", "friends", "friends", None>>}

Of(d, X, B) == {[domain |-> d, extracted |-> x, binding |-> b] : x \in X, b \in B}
MCInputs ==
    Of("fact", {Facts(l, t) : l \in {"x", "w"}, t \in {"trait", "continuity_relevant"}},
       {Apart, OnePerson})
    \union Of("event", {Events(t, m, w) : t \in {"x", "y"}, m \in {"normal", "unknown"},
                                          w \in {<<"a1">>, <<"a1", "b1">>}},
              {Apart, OnePerson, Misplaced})
    \union Of("relationship",
              {Relationships(t, d, s) : t \in {"x", "z"}, d \in {"symmetric", "directed"},
                                        s \in StateTales},
              {Apart})

Citations == {<<<<"R", 1>>, <<"L", 1>>>>, <<<<"L", 2>>>>}
=============================================================================

-------------------------- MODULE MCStoryAnalysis --------------------------
(***************************************************************************)
(* A story of two characters and two events with a conflict, one of four   *)
(* events without, and one in which nothing happens; with ceilings that    *)
(* hold, that are passed at each of the four packets, and deferred ones.   *)
(* Numbers above 10 are locations.                                         *)
(***************************************************************************)
EXTENDS StoryAnalysis

Event(who, where) == [who |-> who, where |-> where]

Feud ==
    [cast |-> 2,
     events |-> <<Event({1}, {11}), Event({1, 2}, {})>>,
     facts |-> <<{1}, {2, 12}>>, rels |-> <<{1, 2}>>, changes |-> <<{1}>>,
     conflicts |-> <<{<<"fact", 1>>, <<"fact", 2>>}>>]

Voyage ==
    [cast |-> 1,
     events |-> <<Event({1}, {}), Event({}, {12}), Event({1}, {11}), Event({}, {})>>,
     facts |-> <<{11}>>, rels |-> <<>>, changes |-> <<>>, conflicts |-> <<>>]

Silence ==
    [cast |-> 1, events |-> <<>>, facts |-> <<{1}>>, rels |-> <<>>, changes |-> <<{1}>>,
     conflicts |-> <<>>]

Profile(owned, context, character, window, skeleton, storyBible) ==
    [owned |-> owned, context |-> context, character |-> character, window |-> window,
     skeleton |-> skeleton, bible |-> storyBible]

On(s, policies) == {[story |-> s, policy |-> p] : p \in policies}

MCCases ==
    On(Feud, {Profile(1, 0, 9, 9, 99, 99), Profile(1, 0, 5, 9, 99, 99), Profile(2, 1, 9, 6, 99, 99)})
    \union On(Voyage, {Profile(2, 1, 9, 9, 13, 99), Profile(3, 1, 9, 9, 99, 13),
                       Profile(4, 0, 9, 9, Unset, Unset)})
    \union On(Silence, {Profile(2, 1, 9, 9, 99, Unset), Profile(1, 2, 9, 9, 99, 99)})

Proposal(ordinal, cited) == [ordinal |-> ordinal, cited |-> cited]
Arc(ordinal, from, to) == [ordinal |-> ordinal, cited |-> {}, from |-> from, to |-> to]
Section(ordinal) == [ordinal |-> ordinal, cited |-> {<<"char", 1>>}]

Answer(arcs, turns, majorArcs, majorTurns, sections, overlay, main) ==
    [proposals |-> [kind \in Kinds |-> CASE kind = "arc" -> arcs [] kind = "turn" -> turns [] OTHER -> <<>>],
     major |-> [kind \in Major |-> CASE kind = "arc" -> majorArcs [] kind = "turn" -> majorTurns [] OTHER -> <<>>],
     sections |-> sections, overlay |-> overlay, main |-> main, cited |-> {}]

\* Ordinals out of order and with gaps, main ones among them; an empty
\* answer; then each of the ways to be wrong.
Turns == <<Proposal(2, {<<"evt", 2>>}), Proposal(0, {<<"fact", 1>>}), Proposal(1, {})>>
MCOutlines ==
    {Answer(<<>>, <<>>, <<>>, <<>>, <<>>, <<>>, {}),
     Answer(<<Arc(4, 1, 2), Arc(0, 1, 2)>>, Turns, <<0>>, <<1, 2>>, <<Section(1), Section(4)>>, <<2, 1>>, {1}),
     Answer(<<Arc(1, 2, 2)>>, <<>>, <<>>, <<>>, <<>>, <<>>, {}),
     Answer(<<Arc(2, 1, 2), Arc(2, 1, 2)>>, <<>>, <<2>>, <<>>, <<>>, <<>>, {}),
     Answer(<<>>, <<Proposal(1, {<<"conf", 9>>})>>, <<>>, <<>>, <<>>, <<>>, {}),
     Answer(<<>>, Turns, <<>>, <<5>>, <<>>, <<>>, {}),
     Answer(<<>>, <<>>, <<>>, <<>>, <<Section(2), Section(2)>>, <<>>, {}),
     Answer(<<>>, <<>>, <<>>, <<>>, <<>>, <<1, 1>>, {3})}
=============================================================================

---------------------------- MODULE MCAdaptation ----------------------------
(***************************************************************************)
(* Five studies: the layers of a target, the windows and the review of a   *)
(* plan, the orders of a skeleton, two callers while the source moves, and *)
(* three callers of B1.2, one of which reuses what two others publish.     *)
(***************************************************************************)
EXTENDS Adaptation

E(n) == <<"event", n>>
C(n) == <<"character", n>>
F(n) == <<"fact", n>>

-----------------------------------------------------------------------------
(***************************************************************************)
(* What is the same in all studies.                                        *)
(***************************************************************************)
Empty == [f \in Fields |-> None]
NoLayers == [default |-> Empty, raw |-> Empty, override |-> Empty]
NoIndex == [refs |-> {}, aliases |-> <<>>]

Story == [refs |-> {E(1), C(1)}, subplots |-> 1, windows |-> <<{1}>>, important |-> {1},
          directions |-> {"d1"}, hard |-> {}]

Line(n, how, into) == [line |-> n, how |-> how, into |-> into]
Strategy ==
    [choosesTarget |-> FALSE, treated |-> <<C(1)>>, climax |-> {E(1)},
     divergences |-> {}, conflicts |-> {[refs |-> {E(1)}, directions |-> {"d1"}]},
     lines |-> <<Line(1, "keep", 0), Line(2, "merge_into", 1)>>, ending |-> "source_ending"]
Circular == [Strategy EXCEPT !.lines = <<Line(1, "merge_into", 2), Line(2, "merge_into", 1)>>]
Alien == [Strategy EXCEPT !.climax = {E(9)}]
Adapted == [Strategy EXCEPT !.ending = "adapted_ending"]
Other == [Strategy EXCEPT !.divergences = {[refs |-> {C(1)}]}, !.ending = "adapted_ending"]

How(n, how) == [event |-> E(n), how |-> how]
Beat(key, origin, events, anchors, with, text) ==
    [key |-> key, origin |-> origin, events |-> events, anchors |-> anchors, with |-> with,
     text |-> text]
Char(key, origin, from, text) == [key |-> key, origin |-> origin, from |-> from, text |-> text]
Became(ref, kind, key) == [ref |-> ref, kind |-> kind, key |-> key, active |-> TRUE, text |-> 0]
With(kind, key) == [kind |-> kind, key |-> key]

Nothing == [how |-> {}, chars |-> {}, roles |-> {}, beats |-> {}, maps |-> {}, facts |-> {},
            rels |-> {}, states |-> {}]

\* Event n is kept in a beat with one character.
Kept(n, text) ==
    [Nothing EXCEPT !.how = {How(n, "keep")},
                    !.chars = {Char("a", "source_single", {C(1)}, text)},
                    !.beats = {Beat("b", "source_direct", {E(n)}, {}, {With("char", "a")}, text)},
                    !.maps = {Became(E(n), "beat", "b")}]

Base ==
    [callers |-> {1}, moves |-> 0, index |-> NoIndex, layers |-> NoLayers, story |-> Story,
     budget |-> [ceiling |-> 3, context |-> 4, reserved |-> 1], sizes |-> <<2, 3>>,
     strategies |-> {Strategy}, modes |-> {"current"}, proposals |-> <<{Kept(1, 1)}>>,
     reviews |-> {{}}, published |-> <<>>, skeletons |-> {}]

-----------------------------------------------------------------------------
(***************************************************************************)
(* The target.                                                             *)
(***************************************************************************)
Hard(min, max) == <<[kind |-> "range", strength |-> "hard", min |-> min, max |-> max]>>
Fixed(n) == <<[kind |-> "fixed", strength |-> "hard", min |-> n, max |-> n]>>
Aim(n) == <<[kind |-> "target", strength |-> "hard", min |-> n, max |-> n]>>
Soft(n) == <<[kind |-> "fixed", strength |-> "soft", min |-> n, max |-> n]>>

Constraints == {None, Fixed(1), Fixed(2), Fixed(4), Hard(3, None), Hard(None, 3), Hard(2, 3)}

Numeric ==
    {[Base EXCEPT !.strategies = {},
                  !.layers = [default |-> [Empty EXCEPT !["total"] = t],
                              raw |-> [Empty EXCEPT !["each"] = e],
                              override |-> [Empty EXCEPT !["count"] = n]]] :
        t \in Constraints \union {Fixed(4) \o Hard(None, 3), Hard(4, 3)},
        e \in Constraints \union {Aim(4)}, n \in Constraints \union {Soft(4)}}

Layered ==
    {[Base EXCEPT !.strategies = {},
                  !.layers = [default |-> [Empty EXCEPT !["each"] = d, !["total"] = Fixed(3)],
                              raw |-> [Empty EXCEPT !["each"] = r, !["count"] = Fixed(1)],
                              override |-> [Empty EXCEPT !["each"] = o]]] :
        d \in {None, Fixed(2)}, r \in {None, Fixed(3), Fixed(4)}, o \in {None, Fixed(3), Fixed(2)}}

Text(id, key) == [id |-> id, key |-> key]
Element(text) == [ref |-> text, text |-> 0]
Indexes ==
    {[refs |-> {<<"character", 1>>, <<"event", 1>>}, aliases |-> a] :
        a \in {<<>>, <<[key |-> "k", ref |-> C(1)]>>,
               <<[key |-> "k", ref |-> C(1)], [key |-> "k", ref |-> C(1)]>>,
               <<[key |-> "k", ref |-> C(1)], [key |-> "k", ref |-> E(1)]>>,
               <<[key |-> "k", ref |-> C(9)]>>}}

Named1 ==
    {[Base EXCEPT !.strategies = {}, !.index = i,
                  !.layers = [NoLayers EXCEPT
                                 !.raw = [Empty EXCEPT !["required"] = <<Element(t)>>],
                                 !.override = [Empty EXCEPT !["forbidden"] = <<Element(u)>>,
                                                            !["focus"] = <<t>>]]] :
        i \in Indexes, t \in {Text(1, "k"), Text(7, "k"), Text(7, "l")},
        u \in {Text(7, "k"), Text(7, "l"), Text(8, "l")}}

-----------------------------------------------------------------------------
(***************************************************************************)
(* The plan: three windows of one event.                                   *)
(***************************************************************************)
Wide == [Story EXCEPT !.refs = {E(1), E(2), E(3), C(1), C(2), F(1)}, !.windows = <<{1}, {2}, {3}>>,
                      !.important = {2}]

Omitted(n) == [Nothing EXCEPT !.how = {How(n, "omit")}]
\* Event n and another window's event are one beat.
Merged(n, other) ==
    [Nothing EXCEPT !.how = {How(n, "merge_member")},
                    !.beats = {Beat("b", "source_composite", {E(n), E(other)}, {}, {}, 3)},
                    !.maps = {Became(E(n), "beat", "b")}]
\* A context beat rests on another window's event.
Context(n, other) ==
    [Kept(n, 1) EXCEPT
        !.beats = @ \union {Beat("c", "adaptation_invented", {}, {E(other)}, {With("role", "r")}, 2)},
        !.roles = {[key |-> "r", text |-> 1]}]
Bystanding(n, other) ==
    [Kept(n, 1) EXCEPT !.beats = @ \union {Beat("c", "adaptation_invented", {}, {E(other)}, {}, 2)}]
Said1(n, text) == [Kept(n, 1) EXCEPT !.facts = {[ref |-> F(1), text |-> text]}]
WrongKey(n) == [Kept(n, 1) EXCEPT !.maps = {Became(E(n), "beat", "x")}]

CharOf(at, p) == CHOOSE c \in OfKind(CandidatesOf(at, p), "char") : TRUE
BeatOf(at, p, key) == CHOOSE c \in OfKind(CandidatesOf(at, p), "beat") : c.item.key = key
FactOf(at, p) == CHOOSE c \in OfKind(CandidatesOf(at, p), "fact") : TRUE

Identify(c, d) == [kind |-> "identify", over |-> {c, d}, findings |-> {}]
Distinct(c, d) == [kind |-> "distinct", over |-> {c, d}, findings |-> {}]
On(kind, c, findings) == [kind |-> kind, over |-> {c}, findings |-> findings]
About(candidates, c) == {f \in Findings(candidates) : c \in f.over}

\* Reviews of the characters of three windows, all of the same text or not.
Chars(ps) == <<CharOf(1, ps[1]), CharOf(2, ps[2]), CharOf(3, ps[3])>>
Identities3(ps) ==
    LET c == Chars(ps)
        decide(a, b) == {{}, {Identify(c[a], c[b])}, {Distinct(c[a], c[b])}}
    IN  {x \union y \union z : x \in decide(1, 2), y \in decide(2, 3), z \in decide(1, 3)}

Identification ==
    {[Base EXCEPT !.story = Wide, !.proposals = [k \in 1..3 |-> {ps[k]}],
                  !.reviews = Identities3(ps)] :
        ps \in {<<Kept(1, 1), Kept(2, 1), Kept(3, 1)>>, <<Kept(1, 1), Kept(2, 1), Kept(3, 2)>>}}

Contested(ps) ==
    LET all == Inventory(ps)
        rejects == {On("reject", c, About(all, c)) :
                       c \in {c \in all : c.kind # "event" /\ About(all, c) # {}}}
        accepts == {On("accept", c, About(all, c)) : c \in {c \in all : About(all, c) # {}}}
    IN  {{}} \union {{r} : r \in rejects} \union {{r, s} : r \in rejects, s \in rejects \union accepts}
            \union {{[kind |-> "unresolved", over |-> {}, findings |-> Findings(all)]}}

Conflicts ==
    {[Base EXCEPT !.story = Wide, !.proposals = [k \in 1..3 |-> {ps[k]}],
                  !.reviews = Contested(ps)] :
        ps \in {<<Omitted(1), Context(2, 1), Kept(3, 1)>>,
                <<Omitted(1), Bystanding(2, 1), Bystanding(3, 1)>>,
                <<Omitted(1), Merged(2, 1), Kept(3, 1)>>,
                <<Said1(1, 1), Said1(2, 2), Kept(3, 1)>>,
                <<Said1(1, 1), Said1(2, 2), Said1(3, 1)>>}}

\* Two windows propose the same composite beat.
Shared ==
    LET ps == <<Merged(1, 2), Merged(2, 1), Kept(3, 1)>>
    IN  {[Base EXCEPT !.story = Wide, !.proposals = [k \in 1..3 |-> {ps[k]}],
                      !.reviews = {{}, {Identify(BeatOf(1, ps[1], "b"), BeatOf(2, ps[2], "b"))}}]}

Regenerated ==
    {[Base EXCEPT !.story = Wide, !.strategies = {Circular, Alien, Adapted, Other, Strategy},
                  !.modes = {"current", "explicit"},
                  !.proposals = <<{Kept(1, 1), WrongKey(1)}, {Kept(2, 1), Nothing}, {Kept(3, 1)}>>],
     [Base EXCEPT !.sizes = <<2, 4>>, !.strategies = {Circular, Strategy}],
     [Base EXCEPT !.sizes = <<4, 2>>],
     [Base EXCEPT !.story.windows = <<{1}, {1}>>, !.proposals = <<{}, {}>>]}

-----------------------------------------------------------------------------
(***************************************************************************)
(* The skeleton: a plan with two beats and one character; the provider may *)
(* add a third beat.                                                       *)
(***************************************************************************)
Pair == [Story EXCEPT !.refs = {E(1), E(2), C(1), <<"relationship", 1>>}, !.windows = <<{1, 2}>>]
Two ==
    [Kept(1, 1) EXCEPT
        !.how = @ \union {How(2, "keep")},
        !.beats = @ \union {Beat("c", "source_direct", {E(2)}, {}, {}, 2)},
        !.maps = @ \union {Became(E(2), "beat", "c")}]
Earlier ==
    <<1, 1>> :> [source |-> 1, selected |-> 1, pinned |-> 0, proposals |-> <<Two>>, decisions |-> {},
                 plan |-> Assembled(Inventory(<<Two>>), {})]

\* Ids of the provider's own have the form of global ones.
Id(kind, n) == {[at |-> 0, kind |-> kind, item |-> n]}
K == Id("key", 1)
B(n) == CASE n = 1 -> {BeatOf(1, Two, "b")} [] n = 2 -> {BeatOf(1, Two, "c")}
          [] OTHER -> Id("beat", n)
Who == {CharOf(1, Two)}

Shows(bs) == [k \in DOMAIN bs |-> [id |-> Id("entry", k), beat |-> B(bs[k])]]
Accounts(hows) == {[beat |-> B(n), how |-> hows[n]] : n \in DOMAIN hows}
Bare ==
    [order |-> {}, shown |-> Shows(<<1, 2>>), outcomes |-> {}, needs |-> {}, setups |-> {},
     knows |-> {}, learns |-> {}, audience |-> {}, reveals |-> {}, withheld |-> {}, truths |-> {},
     arcs |-> {}, gaps |-> {}, local |-> {},
     accounts |-> Accounts(<<"directly_presented", "directly_presented">>)]

Third == [id |-> B(3), origin |-> "adaptation_invented", anchors |-> {E(1)}]
Orders == SUBSET {<<B(1), B(2)>>, <<B(2), B(3)>>, <<B(1), B(3)>>, <<B(3), B(1)>>}
Step(from, to, b) == [who |-> Who, key |-> K, from |-> from, to |-> to, beat |-> B(b)]
Knows(id, status, beat) == [id |-> id, who |-> Who, key |-> K, status |-> status, beat |-> beat]
Reveal(from, to, at) == [key |-> K, from |-> from, to |-> to, at |-> Id("entry", at)]

\* Three beats, the third invented and not shown.
Hidden(how) ==
    [Bare EXCEPT !.local = {Third},
                 !.accounts = Accounts(<<"directly_presented", "directly_presented", how>>)]

Causal ==
    {[[Hidden(how) EXCEPT !.order = order]
        EXCEPT !.outcomes = {[id |-> 1, beat |-> B(from)]},
               !.needs = {[id |-> Id("need", 1), outcome |-> 1, beat |-> B(to)]}] :
        order \in Orders, from \in {2, 3}, to \in {1, 3},
        how \in {"background_only", "indirectly_revealed"}}

Chained ==
    {[[Hidden("background_only") EXCEPT !.order = order]
        EXCEPT !.setups = {[setup |-> B(3), payoff |-> B(1), refs |-> {E(1)}]},
               !.knows = {Knows(1, start, Absent), Knows(2, "confirmed", B(at))},
               !.learns = {Step("unknown", "suspected", first), Step("suspected", "confirmed", last)}] :
        order \in Orders, start \in {"unknown", "suspected"}, at \in {1, 2},
        first \in {1, 3}, last \in {1, 2}}

Told ==
    {[[Bare EXCEPT !.shown = Shows(<<1, 2, 1>>)]
        EXCEPT !.audience = {[id |-> 9, key |-> K, status |-> start]},
               !.reveals = reveals,
               !.withheld = {[who |-> who, key |-> K, at |-> Id("entry", at)]}] :
        start \in {"unknown", "suspected", "confirmed"}, at \in 1..4, who \in {Absent, Who},
        reveals \in {{}, {Reveal("unknown", "confirmed", 1)}, {Reveal("unknown", "confirmed", 3)},
                     {Reveal("unknown", "suspected", 1), Reveal("suspected", "confirmed", 2)},
                     {Reveal("unknown", "suspected", 2), Reveal("suspected", "confirmed", 2)}}}

Loose ==
    {[Hidden("directly_presented") EXCEPT !.shown = Shows(<<3, 1, 2>>), !.arcs = arcs, !.gaps = gaps,
                                          !.truths = {Absent, B(t)}] :
        arcs \in {{}, {[kind |-> "character", subject |-> Who, beat |-> B(1)]},
                  {[kind |-> "relationship", subject |-> 2, beat |-> B(1)]}},
        gaps \in {{}, {[kind |-> "beat", ref |-> B(3)]}, {[kind |-> "presentation", ref |-> Id("entry", 4)]},
                  {[kind |-> "knowledge", ref |-> K]}, {[kind |-> "dependency", ref |-> Id("need", 1)]}},
        t \in {1, 4}}

Ordering ==
    {[Base EXCEPT !.story = Pair, !.proposals = <<{Two}>>, !.published = Earlier, !.skeletons = S] :
        S \in {Causal, Chained, Told, Loose,
               {[pins |-> [strategy |-> 2, publication |-> <<1, 1>>]] @@ Bare}}}

-----------------------------------------------------------------------------
(***************************************************************************)
(* Two callers, and a source that moves once; three callers of B1.2, of    *)
(* which two publish while the third reads their pointer.                  *)
(***************************************************************************)
Racing ==
    {[Base EXCEPT !.callers = {1, 2}, !.moves = 1, !.modes = modes,
                  !.strategies = {Strategy, Circular}] :
        modes \in {{"current"}, {"explicit"}}}

Crowded == {[Base EXCEPT !.callers = {1, 2, 3}, !.modes = {}, !.strategies = {Strategy, Adapted}]}

MCInputs == Numeric \union Layered \union Named1 \union Identification \union Conflicts
               \union Shared \union Regenerated \union Ordering \union Racing
               \union Crowded
=============================================================================

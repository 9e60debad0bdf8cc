--------------------------- MODULE StorySkeleton ---------------------------
(***************************************************************************)
(* B1.4: the order of an adapted story.  A skeleton lies over the plan of  *)
(* B1.3 and may add invented beats; it says in which order the beats       *)
(* happen (a partial order), in which order the audience is shown them,    *)
(* what depends on what, who comes to know what, and what the audience may *)
(* not know before a given entry.                                          *)
(*                                                                         *)
(* A plan is seen as its beats, its characters and its pins.  A skeleton   *)
(* is a record of sets of records: order (pairs of beats), outcomes [id,   *)
(* beat], needs [id, outcome, beat], setups [setup, payoff, refs], knows   *)
(* [id, who, key, status, beat] (beat Absent: from the start), learns [who,  *)
(* key, from, to, beat], audience [id, key, status], reveals [key, from,   *)
(* to, at], withheld [who, key, at] (who Absent: the audience), truths       *)
(* (beats or Absent), arcs [kind, subject, beat], gaps [kind, ref], accounts *)
(* [beat, how] and local [id, origin, anchors]; shown is the sequence of   *)
(* entries [id, beat].                                                     *)
(***************************************************************************)
EXTENDS Naturals, FiniteSets, FiniteSetsExt, SequencesExt

CONSTANT Absent

Learnt == {<<"unknown", "suspected">>, <<"suspected", "confirmed">>, <<"unknown", "confirmed">>}

Once(S, Key(_)) == \A a, b \in S : Key(a) = Key(b) => a = b

-----------------------------------------------------------------------------
(***************************************************************************)
(* Order.  A beat does not precede itself in precedes, even on a cycle.    *)
(***************************************************************************)
Closure(order, beats) ==
    FoldSet(LAMBDA k, R : R \union {e \in beats \X beats : <<e[1], k>> \in R /\ <<k, e[2]>> \in R},
            order, beats)

IsAcyclic(order, beats) == \A b \in beats : <<b, b>> \notin Closure(order, beats)

Position(shown, entry) == CHOOSE k \in DOMAIN shown : shown[k].id = entry
Entries(skeleton) == {e.id : e \in Range(skeleton.shown)}
Shown(skeleton) == {e.beat : e \in Range(skeleton.shown)}

-----------------------------------------------------------------------------
(***************************************************************************)
(* The forms the records have of themselves.                               *)
(***************************************************************************)
IsWellTyped(skeleton) ==
    /\ \A e \in skeleton.order : e[1] # e[2]
    /\ \A k, l \in DOMAIN skeleton.shown : skeleton.shown[k].id = skeleton.shown[l].id => k = l
    /\ \A t \in skeleton.learns \union skeleton.reveals : <<t.from, t.to>> \in Learnt
    /\ Once(skeleton.outcomes, LAMBDA o : o.id) /\ Once(skeleton.needs, LAMBDA n : n.id)
    /\ Once(skeleton.knows, LAMBDA s : s.id) /\ Once(skeleton.audience, LAMBDA s : s.id)
    /\ {s.id : s \in skeleton.knows} \intersect {s.id : s \in skeleton.audience} = {}
    /\ Once(skeleton.accounts, LAMBDA a : a.beat)
    /\ Once(skeleton.local, LAMBDA b : b.id)
    /\ \A b \in skeleton.local : b.origin = "adaptation_invented"

Beats(skeleton, plan) == plan.beats \union {b.id : b \in skeleton.local}

LocalBeatsAreAnchored(skeleton, plan) ==
    /\ {b.id : b \in skeleton.local} \intersect plan.beats = {}
    /\ \A b \in skeleton.local : b.anchors # {} /\ b.anchors \subseteq plan.refs

-----------------------------------------------------------------------------
(***************************************************************************)
(* Cause and effect: what is required or set up must be known to come      *)
(* first.                                                                  *)
(***************************************************************************)
\* A mutant of Ordered: it is enough that the opposite is not stated.
OrderedUnlessReversed(before, after, precedes) == <<after, before>> \notin precedes

Ordered(before, after, precedes) ==
    <<before, after>> \in precedes /\ <<after, before>> \notin precedes

Producers(skeleton, need) == {o.beat : o \in {o \in skeleton.outcomes : o.id = need.outcome}}

CausesComeFirst(skeleton, beats, precedes) ==
    /\ {o.beat : o \in skeleton.outcomes} \subseteq beats
    /\ \A n \in skeleton.needs :
          /\ Producers(skeleton, n) # {} /\ n.beat \in beats
          /\ \A b \in Producers(skeleton, n) : b # n.beat /\ Ordered(b, n.beat, precedes)

SetupsComeFirst(skeleton, plan, beats, precedes) ==
    \A l \in skeleton.setups :
        /\ {l.setup, l.payoff} \subseteq beats /\ l.setup # l.payoff
        /\ Ordered(l.setup, l.payoff, precedes)
        /\ l.refs \subseteq plan.refs

-----------------------------------------------------------------------------
(***************************************************************************)
(* Knowledge.  A chain is transitions in an order, each from the status    *)
(* the one before it left.                                                 *)
(***************************************************************************)
Chains(start, seq) ==
    \A k \in DOMAIN seq : seq[k].from = IF k = 1 THEN start ELSE seq[k - 1].to

RevealsOf(skeleton, key) == {r \in skeleton.reveals : r.key = key}

AudienceLearnsInOrder(skeleton) ==
    /\ Once(skeleton.audience, LAMBDA s : s.key)
    /\ {r.at : r \in skeleton.reveals} \subseteq Entries(skeleton)
    /\ \A key \in {r.key : r \in skeleton.reveals} :
          LET at(r) == Position(skeleton.shown, r.at)
              chain == SetToSortSeq(RevealsOf(skeleton, key), LAMBDA r, s : at(r) < at(s))
          IN  /\ Once(RevealsOf(skeleton, key), at)
              /\ \E s \in skeleton.audience : s.key = key /\ Chains(s.status, chain)

Knowing(S, who, key) == {s \in S : s.who = who /\ s.key = key}

\* The transitions of one character and key, which must be comparable.
CharacterChain(learns, precedes) ==
    LET rank(t) == Cardinality({u \in learns : <<u.beat, t.beat>> \in precedes /\ u.beat # t.beat})
    IN  SetToSortSeq(learns, LAMBDA t, u : rank(t) < rank(u))

CharacterLearnsInOrder(skeleton, who, key, precedes) ==
    LET learns == Knowing(skeleton.learns, who, key)
        states == Knowing(skeleton.knows, who, key)
    IN  /\ \A t, u \in learns :
              t # u => /\ t.beat # u.beat
                       /\ <<t.beat, u.beat>> \in precedes \/ <<u.beat, t.beat>> \in precedes
        /\ \E s \in states : s.beat = Absent /\ Chains(s.status, CharacterChain(learns, precedes))

CharactersLearnInOrder(skeleton, plan, beats, precedes) ==
    /\ {s.who : s \in skeleton.knows \union skeleton.learns} \subseteq plan.chars
    /\ {s.beat : s \in skeleton.knows} \subseteq beats \union {Absent}
    /\ {t.beat : t \in skeleton.learns} \subseteq beats
    /\ Once(skeleton.knows, LAMBDA s : <<s.who, s.key, s.beat>>)
    /\ \A t \in skeleton.learns : CharacterLearnsInOrder(skeleton, t.who, t.key, precedes)
    /\ \A s \in skeleton.knows :
          s.beat # Absent => \E t \in Knowing(skeleton.learns, s.who, s.key) :
                               t.beat = s.beat /\ t.to = s.status

\* Nothing says when a character's withheld knowledge would be shown.
IsWithheld(skeleton, w) ==
    /\ w.who = Absent
    /\ w.at \in Entries(skeleton)
    /\ \E s \in skeleton.audience : s.key = w.key /\ s.status # "confirmed"
    /\ \A r \in RevealsOf(skeleton, w.key) :
          r.to = "confirmed" => Position(skeleton.shown, r.at) >= Position(skeleton.shown, w.at)

-----------------------------------------------------------------------------
(***************************************************************************)
(* What else points into the skeleton.                                     *)
(***************************************************************************)
KnowledgeKeys(skeleton) ==
    {s.key : s \in skeleton.knows \union skeleton.audience \union skeleton.learns
                      \union skeleton.reveals}

ReferencesResolve(skeleton, plan, beats) ==
    /\ skeleton.truths \subseteq beats \union {Absent}
    /\ \A a \in skeleton.arcs :
          /\ a.beat \in beats
          /\ a.kind = "character" => a.subject \in plan.chars
          /\ a.kind = "relationship" => <<"relationship", a.subject>> \in plan.refs
    /\ \A g \in skeleton.gaps :
          \/ g.kind = "beat" /\ g.ref \in beats
          \/ g.kind = "dependency" /\ g.ref \in {n.id : n \in skeleton.needs}
          \/ g.kind = "presentation" /\ g.ref \in Entries(skeleton)
          \/ g.kind = "knowledge" /\ g.ref \in KnowledgeKeys(skeleton)

\* Beat a matters for beat b: it produces what b needs, sets b up, or leaves
\* a character with what b starts from.
Matters(skeleton, precedes) ==
    UNION {{<<b, n.beat>> : b \in Producers(skeleton, n) \ {n.beat}} : n \in skeleton.needs}
        \union {<<l.setup, l.payoff>> : l \in {l \in skeleton.setups : l.setup # l.payoff}}
        \union {<<pair[1].beat, pair[2].beat>> :
                   pair \in {pair \in skeleton.learns \X skeleton.learns :
                                /\ pair[1] # pair[2] /\ pair[1].beat # pair[2].beat
                                /\ pair[1].who = pair[2].who /\ pair[1].key = pair[2].key
                                /\ pair[1].to = pair[2].from
                                /\ <<pair[1].beat, pair[2].beat>> \in precedes}}

Consequential(skeleton, beats, precedes) ==
    Shown(skeleton)
        \union {b \in beats : \E s \in Shown(skeleton) :
                    <<b, s>> \in Closure(Matters(skeleton, precedes), beats)}

\* Every beat is shown, or matters for one that is.
IsAccounted(skeleton, beats, precedes) ==
    /\ {a.beat : a \in skeleton.accounts} = beats
    /\ \A a \in skeleton.accounts :
          /\ a.how = "directly_presented" => a.beat \in Shown(skeleton)
          /\ a.how = "background_only" => a.beat \notin Shown(skeleton)
          /\ a.how \in {"indirectly_revealed", "background_only"} =>
                a.beat \in Consequential(skeleton, beats, precedes)

-----------------------------------------------------------------------------
ValidSkeleton(skeleton, plan) ==
    LET beats == Beats(skeleton, plan)
        precedes == Closure(skeleton.order, beats)
    IN  /\ skeleton.pins = plan.pins
        /\ LocalBeatsAreAnchored(skeleton, plan)
        /\ Shown(skeleton) \subseteq beats
        /\ \A e \in skeleton.order : {e[1], e[2]} \subseteq beats
        /\ IsAcyclic(skeleton.order, beats)
        /\ CausesComeFirst(skeleton, beats, precedes)
        /\ SetupsComeFirst(skeleton, plan, beats, precedes)
        /\ AudienceLearnsInOrder(skeleton)
        /\ CharactersLearnInOrder(skeleton, plan, beats, precedes)
        /\ \A w \in skeleton.withheld : IsWithheld(skeleton, w)
        /\ ReferencesResolve(skeleton, plan, beats)
        /\ IsAccounted(skeleton, beats, precedes)
=============================================================================

-------------------------- MODULE AdaptationTarget --------------------------
(***************************************************************************)
(* B1.1: what the user wants made of the story.  An intent, the defaults   *)
(* of a profile and the user's overrides are layers of the same fields;    *)
(* the resolved target takes every field from the highest layer that has   *)
(* it, and is refused when no series could satisfy its hard numbers, when  *)
(* it names what the story does not have, or when it both requires and     *)
(* forbids the same thing.                                                 *)
(*                                                                         *)
(* A layer is a function from the fields to values or None.  The elements  *)
(* of the story are pairs of a kind and an id; a text nothing was found    *)
(* for is of kind "text".  The seven fields of prose and enumerations are  *)
(* one, "manner".  Durations are in whole units.                           *)
(***************************************************************************)
EXTENDS Naturals, FiniteSets, SequencesExt, GenerationPolicy

Numbers == {"total", "each", "count"}
Elements == {"required", "forbidden"}
Fields == Numbers \union Elements \union {"focus", "manner"}
Layers == <<"default", "raw", "override">>    \* from the lowest to the highest

-----------------------------------------------------------------------------
(***************************************************************************)
(* References by text: an id, else an alias under its folded spelling.     *)
(***************************************************************************)
IndexIsValid(index) ==
    \A k, l \in DOMAIN index.aliases :
        /\ index.aliases[k].ref \in index.refs
        /\ index.aliases[k].key = index.aliases[l].key
              => index.aliases[k].ref = index.aliases[l].ref

Named(index, text) ==
    LET direct == {ref \in index.refs : ref[2] = text.id}
        aliased == SelectSeq(index.aliases, LAMBDA a : a.key = text.key)
    IN  CASE Cardinality(direct) = 1 -> CHOOSE ref \in direct : TRUE
          [] Cardinality(direct) # 1 /\ Len(aliased) = 1 -> aliased[1].ref
          [] OTHER -> <<"text", text.id>>

\* The layer a client builds from texts.
Referring(index, layer) ==
    [f \in Fields |->
        CASE layer[f] # None /\ f \in Elements ->
                [k \in DOMAIN layer[f] |-> [layer[f][k] EXCEPT !.ref = Named(index, @)]]
          [] layer[f] # None /\ f = "focus" ->
                [k \in DOMAIN layer[f] |-> Named(index, layer[f][k])]
          [] OTHER -> layer[f]]

-----------------------------------------------------------------------------
(***************************************************************************)
(* The values of one layer.  A fixed value and a target are their own      *)
(* minimum and maximum; a derived constraint has neither.                  *)
(***************************************************************************)
ValidConstraint(c) ==
    /\ c.kind = "range" => c.min # None \/ c.max # None
    /\ c.min # None => c.min >= 1
    /\ c.max # None => c.max >= 1
    /\ c.min # None /\ c.max # None => c.min <= c.max

ValidField(f, v) ==
    \/ v = None \/ f = "manner"
    \/ /\ IsInjective(v)
       /\ f \notin Elements => v # <<>>
       /\ f \in Numbers => \A k \in DOMAIN v : ValidConstraint(v[k])

ValidLayer(layer) == \A f \in Fields : ValidField(f, layer[f])

-----------------------------------------------------------------------------
(***************************************************************************)
(* Resolution.                                                             *)
(***************************************************************************)
\* The value of the highest layer that has the field.
Highest(layers, f) ==
    LET given == {k \in DOMAIN Layers : layers[Layers[k]][f] # None}
    IN  IF given = {} THEN None ELSE layers[Layers[Max(given)]][f]

Combined(layers) == [f \in Fields |-> Highest(layers, f)]

Listed(v) == IF v = None THEN {} ELSE Range(v)
Referred(target, f) ==
    IF f = "focus" THEN Listed(target[f]) ELSE {e.ref : e \in Listed(target[f])}
Canonical(refs) == {ref \in refs : ref[1] # "text"}

IsMember(target, snapshot) ==
    \A f \in Elements \union {"focus"} : Canonical(Referred(target, f)) \subseteq snapshot

IsConsistent(target) ==
    Canonical(Referred(target, "required") \intersect Referred(target, "forbidden")) = {}

\* Only fixed values and ranges bind; a hard target remains an aim.
Binding(constraints) ==
    {c \in Listed(constraints) : c.strength = "hard" /\ c.kind \in {"fixed", "range"}}

Least(S) == IF S \ {None} = {} THEN None ELSE Min(S \ {None})

\* From the lowest to the highest value all binding constraints allow.
Allowed(constraints) ==
    [low |-> Max({1} \union ({c.min : c \in Binding(constraints)} \ {None})),
     high |-> Least({c.max : c \in Binding(constraints)})]

UpTo(x, high) == high = None \/ x <= high

CeilDiv(n, d) == (n + d - 1) \div d

\* A mutant of CountFits: the lowest count is rounded down.
CountFitsFloor(total, each, count) ==
    LET low == IF each.high = None THEN count.low ELSE Max({count.low, total.low \div each.high})
        high == IF total.high = None THEN count.high ELSE Least({count.high, total.high \div each.low})
    IN  UpTo(low, high)

\* Some count of episodes can be cut to a total from episodes of a length.
CountFits(total, each, count) ==
    LET low == IF each.high = None THEN count.low
               ELSE Max({count.low, CeilDiv(total.low, each.high)})
        high == IF total.high = None THEN count.high
                ELSE Least({count.high, total.high \div each.low})
    IN  UpTo(low, high)

IsFeasible(target) ==
    LET allowed == [f \in Numbers |-> Allowed(target[f])]
    IN  /\ \A f \in Numbers : UpTo(allowed[f].low, allowed[f].high)
        /\ CountFits(allowed["total"], allowed["each"], allowed["count"])

Accepts(target, snapshot) ==
    IsMember(target, snapshot) /\ IsConsistent(target) /\ IsFeasible(target)
=============================================================================

--------------------------- MODULE DispositionPlan ---------------------------
(***************************************************************************)
(* B1.3 in memory: the provider disposes of the events window by window,   *)
(* each answer speaking only of its own window's events but free to use    *)
(* any event of the story in its beats.  The accepted answers are taken    *)
(* apart into candidates, the conflicts between windows become findings, a *)
(* person decides, and what was not rejected is put together into one plan *)
(* of the adapted story.                                                   *)
(*                                                                         *)
(* A canonical element is a pair of its kind and number.  A proposal is a  *)
(* record of sets of records, its characters, roles and beats under local  *)
(* keys; "text" stands for everything said of one in words.  A candidate   *)
(* is its window, its kind and the record: the code's reference to it and  *)
(* the candidate are one.  The global id of what is identified is the set  *)
(* of its candidates, which the code hashes.                               *)
(***************************************************************************)
EXTENDS Naturals, FiniteSets, FiniteSetsExt

IdentityKinds == {"char", "role", "beat"}
SingleSource == {"source_direct", "source_condensed"}

\* One member for each key.
KeyedBy(S, Key(_)) == \A a, b \in S : Key(a) = Key(b) => a = b
Keys(S) == {item.key : item \in S}

-----------------------------------------------------------------------------
(***************************************************************************)
(* The forms of a character and of a beat: how many sources each origin    *)
(* has.                                                                    *)
(***************************************************************************)
CharForm(c) ==
    /\ c.origin = "source_single" => Cardinality(c.from) = 1
    /\ c.origin = "source_composite" => Cardinality(c.from) >= 2
    /\ c.origin = "adaptation_invented" => c.from = {}

BeatForm(b) ==
    /\ b.origin \in SingleSource => Cardinality(b.events) = 1
    /\ b.origin = "source_composite" => Cardinality(b.events) >= 2
    /\ b.origin = "adaptation_invented" => b.events = {} /\ b.anchors # {}

\* A mapping says what an element became: an event or an anchor of a beat,
\* or a character with that source.
BacksBeat(m, b) ==
    IF m.ref[1] = "event" THEN m.ref \in b.events ELSE m.ref \in b.anchors
BacksChar(m, c) == m.ref \in c.from

\* The beats something actively became.
BecameOf(maps, ref) == {m \in maps : m.active /\ m.ref = ref}

-----------------------------------------------------------------------------
(***************************************************************************)
(* The proposal of a window, after its schema.                             *)
(***************************************************************************)
DisposesOwned(p, owned) ==
    KeyedBy(p.how, LAMBDA d : d.event) /\ {d.event : d \in p.how} = owned

ValidChars(p, refs) ==
    KeyedBy(p.chars, LAMBDA c : c.key)
        /\ \A c \in p.chars : c.from \subseteq refs /\ CharForm(c)

ValidBeats(p, refs) ==
    /\ KeyedBy(p.beats, LAMBDA b : b.key)
    /\ \A b \in p.beats :
          /\ b.events \union b.anchors \subseteq refs
          /\ BeatForm(b)
          /\ \A who \in b.with :
                who.key \in (IF who.kind = "char" THEN Keys(p.chars) ELSE Keys(p.roles))

\* Who takes part in a beat is a character or an anonymous role.
NamesCast(p) == \A b \in p.beats : \A who \in b.with : who.kind \in {"char", "role"}

\* An anonymous role is in one beat, and shares no key with a character.
ValidRoles(p) ==
    /\ KeyedBy(p.roles, LAMBDA r : r.key)
    /\ Keys(p.roles) \intersect Keys(p.chars) = {}
    /\ \A r \in p.roles :
          Cardinality({b \in p.beats : [kind |-> "role", key |-> r.key] \in b.with}) = 1

ValidMaps(p, refs) ==
    \A m \in p.maps :
        /\ m.ref \in refs
        /\ \/ m.kind = "beat" /\ \E b \in p.beats : b.key = m.key /\ BacksBeat(m, b)
           \/ m.kind = "char" /\ \E c \in p.chars : c.key = m.key /\ BacksChar(m, c)

\* What becomes of an owned event agrees with the beats it is in.
DispositionIsCarried(p, d) ==
    LET became == BecameOf(p.maps, d.event)
        beats == {b \in p.beats : \E m \in became : m.kind = "beat" /\ m.key = b.key}
    IN  /\ {b \in p.beats : d.event \in b.events} \subseteq beats
        /\ (d.how = "omit") <=> (became = {})
        /\ d.how = "compress" => \E b \in beats : b.origin \in SingleSource
        /\ d.how = "merge_member" => \A b \in beats : b.origin = "source_composite"

ValidOverlay(p, refs) ==
    /\ KeyedBy(p.facts, LAMBDA f : f.ref) /\ KeyedBy(p.rels, LAMBDA r : r.ref)
    /\ {f.ref : f \in p.facts \union p.rels} \subseteq refs
    /\ KeyedBy(p.states, LAMBDA s : s.beat) /\ {s.beat : s \in p.states} \subseteq Keys(p.beats)

ValidProposal(p, owned, refs) ==
    /\ DisposesOwned(p, owned)
    /\ ValidChars(p, refs) /\ ValidRoles(p) /\ ValidBeats(p, refs) /\ ValidMaps(p, refs)
    /\ \A d \in p.how : DispositionIsCarried(p, d)
    /\ ValidOverlay(p, refs)

-----------------------------------------------------------------------------
(***************************************************************************)
(* The inventory: the proposals of all windows taken apart.  "at" is the   *)
(* window.                                                                 *)
(***************************************************************************)
Taken(at, kind, items) == {[at |-> at, kind |-> kind, item |-> item] : item \in items}

\* Who takes part in a beat is a candidate of its own.
Participants(p) ==
    UNION {{[beat |-> b.key, who |-> who] : who \in b.with} : b \in p.beats}

CandidatesOf(at, p) ==
    Taken(at, "event", p.how) \union Taken(at, "char", p.chars)
        \union Taken(at, "role", p.roles) \union Taken(at, "beat", p.beats)
        \union Taken(at, "part", Participants(p)) \union Taken(at, "map", p.maps)
        \union Taken(at, "fact", p.facts) \union Taken(at, "rel", p.rels)
        \union Taken(at, "state", p.states)

Inventory(proposals) == UNION {CandidatesOf(at, proposals[at]) : at \in DOMAIN proposals}

OfKind(candidates, kind) == {c \in candidates : c.kind = kind}
\* What a local key of c's window names among the candidates.
Local(candidates, c, kind, key) ==
    {d \in OfKind(candidates, kind) : d.at = c.at /\ d.item.key = key}

\* The local keys a candidate needs to resolve.
Needs(c) ==
    CASE c.kind = "beat" -> c.item.with
      [] c.kind = "part" -> {c.item.who, [kind |-> "beat", key |-> c.item.beat]}
      [] c.kind = "map" -> {[kind |-> c.item.kind, key |-> c.item.key]}
      [] c.kind = "state" -> {[kind |-> "beat", key |-> c.item.beat]}
      [] OTHER -> {}

Resolves(candidates, c, need) == Local(candidates, c, need.kind, need.key) # {}

-----------------------------------------------------------------------------
(***************************************************************************)
(* The findings: an owner omits an event another window's beat is built    *)
(* on or anchored in; several windows say something of one fact or one     *)
(* relationship.                                                           *)
(***************************************************************************)
Finding(kind, over, about) == [kind |-> kind, over |-> over, about |-> about]

OmitFindings(candidates) ==
    {Finding("omit", {pair[1], pair[2]}, pair[1].item.event) :
        pair \in {pair \in OfKind(candidates, "event") \X OfKind(candidates, "beat") :
                     /\ pair[1].item.how = "omit"
                     /\ pair[1].at # pair[2].at
                     /\ pair[1].item.event \in pair[2].item.events \union pair[2].item.anchors}}

CompetingFindings(candidates, kind) ==
    LET group(ref) == {c \in OfKind(candidates, kind) : c.item.ref = ref}
    IN  {Finding(kind, group(c.item.ref), c.item.ref) :
            c \in {c \in OfKind(candidates, kind) : Cardinality(group(c.item.ref)) > 1}}

Findings(candidates) ==
    OmitFindings(candidates) \union CompetingFindings(candidates, "fact")
        \union CompetingFindings(candidates, "rel")

-----------------------------------------------------------------------------
(***************************************************************************)
(* The review.  A decision is [kind, over, findings].                      *)
(***************************************************************************)
Identities(decisions) == {d \in decisions : d.kind \in {"identify", "distinct"}}
Contributions(decisions) == {d \in decisions : d.kind \in {"accept", "reject"}}

DecisionForm(d) ==
    /\ d \in Identities({d}) => Cardinality(d.over) = 2 /\ d.findings = {}
    /\ d \in Contributions({d}) => Cardinality(d.over) = 1 /\ d.findings # {}
    /\ d.kind = "unresolved" => d.over = {} /\ d.findings # {}

\* Only what says the same of its sources can be one; beats that both have a
\* required state cannot.
MayBeOne(candidates, pair) ==
    \A c, d \in pair :
        /\ c.kind = "char" => c.item.origin = d.item.origin /\ c.item.from = d.item.from
        /\ c.kind = "beat" => /\ c.item.origin = d.item.origin
                              /\ c.item.events = d.item.events
                              /\ c.item.anchors = d.item.anchors
    /\ \E e \in pair : e.kind # "beat" \/ ~\E s \in OfKind(candidates, "state") :
                                              s.at = e.at /\ s.item.beat = e.item.key

\* The classes of S under the pairs of candidates that were identified.
Classes(S, pairs) ==
    FoldSet(LAMBDA pair, classes :
                {k \in classes : k \intersect pair = {}}
                    \union {UNION {k \in classes : k \intersect pair # {}}},
            {{c} : c \in S}, pairs)

Identified(decisions) == {d.over : d \in {d \in decisions : d.kind = "identify"}}

\* A mutant of ClosureHolds: only the pair itself is looked at.
ClosureHoldsForPairs(candidates, decisions) ==
    \A d \in decisions : d.kind = "distinct" => d.over \notin Identified(decisions)

\* What follows to be one was not decided to be two.
ClosureHolds(candidates, decisions) ==
    LET classes == Classes({c \in candidates : c.kind \in IdentityKinds}, Identified(decisions))
    IN  \A d \in decisions : d.kind = "distinct" => \A k \in classes : ~(d.over \subseteq k)

ReviewIsValid(candidates, decisions) ==
    /\ \A d \in decisions :
          /\ DecisionForm(d)
          /\ d.over \subseteq candidates /\ d.findings \subseteq Findings(candidates)
    /\ \A d \in Identities(decisions) :
          /\ \A c, e \in d.over : c.kind = e.kind /\ c.kind \in IdentityKinds
          /\ d.kind = "identify" => MayBeOne(candidates, d.over)
    /\ KeyedBy(Identities(decisions), LAMBDA d : d.over)
    /\ \A d \in Contributions(decisions) :
          /\ d.kind = "reject" => \A c \in d.over : c.kind # "event"
          /\ \A f \in d.findings : d.over \subseteq f.over
    /\ KeyedBy(Contributions(decisions), LAMBDA d : d.over)
    /\ ClosureHolds(candidates, decisions)

Rejected(decisions) == UNION {d.over : d \in {d \in decisions : d.kind = "reject"}}
Marked(decisions) == UNION {d.findings : d \in {d \in decisions : d.kind = "unresolved"}}

IsResolved(f, decisions) ==
    /\ f \notin Marked(decisions)
    /\ LET kept == f.over \ Rejected(decisions)
       IN  IF f.kind = "omit" THEN \A c \in kept : c.kind = "event"
                              ELSE Cardinality(kept) <= 1

Unresolved(candidates, decisions) ==
    {f \in Findings(candidates) : ~IsResolved(f, decisions)}

-----------------------------------------------------------------------------
(***************************************************************************)
(* The assembly of what is live.  One class of identified candidates is    *)
(* one character, role or beat of the plan, if they agree on all but key   *)
(* and, for beats, on who takes part once that is resolved.                *)
(***************************************************************************)
Live(candidates, decisions) == candidates \ Rejected(decisions)

LiveClasses(live, decisions) ==
    Classes({c \in live : c.kind \in IdentityKinds}, Identified(decisions))

\* The class of what the local key names in c's window.
IdOf(live, classes, c, kind, key) ==
    CHOOSE k \in classes : Local(live, c, kind, key) \subseteq k

\* What candidate c says; a beat, who takes part in it by global id.
Content(live, classes, c) ==
    CASE c.kind = "char" -> [origin |-> c.item.origin, from |-> c.item.from, text |-> c.item.text]
      [] c.kind = "role" -> [text |-> c.item.text]
      [] c.kind = "beat" ->
            [origin |-> c.item.origin, events |-> c.item.events, anchors |-> c.item.anchors,
             text |-> c.item.text,
             with |-> {[kind |-> who.kind, id |-> IdOf(live, classes, c, who.kind, who.key)] :
                          who \in c.item.with}]

\* Two in a beat may not turn out to be one.
KeepsApart(live, classes, c) ==
    c.kind = "beat" => Cardinality(Content(live, classes, c).with) = Cardinality(c.item.with)

Agrees(live, classes, k) ==
    /\ \A c \in k : KeepsApart(live, classes, c)
    /\ \A c, d \in k : Content(live, classes, c) = Content(live, classes, d)

\* A rejected candidate may be neither named nor identified any more.
NothingDangles(live, decisions) ==
    /\ \A c \in live : \A need \in Needs(c) : Resolves(live, c, need)
    /\ UNION Identified(decisions) \subseteq live

Assembled(live, decisions) ==
    LET classes == LiveClasses(live, decisions)
        members(kind) ==
            {[id |-> k, is |-> Content(live, classes, CHOOSE c \in k : TRUE)] :
                k \in {k \in classes : \E c \in k : c.kind = kind}}
    IN  [how |-> {c.item : c \in OfKind(live, "event")},
         chars |-> members("char"), roles |-> members("role"), beats |-> members("beat"),
         maps |-> {[ref |-> c.item.ref, kind |-> c.item.kind, active |-> c.item.active,
                    text |-> c.item.text,
                    id |-> IdOf(live, classes, c, c.item.kind, c.item.key)] :
                      c \in OfKind(live, "map")},
         facts |-> {c.item : c \in OfKind(live, "fact")},
         rels |-> {c.item : c \in OfKind(live, "rel")},
         states |-> {[text |-> c.item.text, id |-> IdOf(live, classes, c, "beat", c.item.beat)] :
                        c \in OfKind(live, "state")}]

-----------------------------------------------------------------------------
(***************************************************************************)
(* The last check of the plan.                                             *)
(***************************************************************************)
EventIsCarried(plan, d) ==
    LET became == BecameOf(plan.maps, d.event)
        beats == {b \in plan.beats : \E m \in became : m.id = b.id}
    IN  /\ {b \in plan.beats : d.event \in b.is.events} \subseteq beats
        /\ (d.how = "omit") <=> (became = {})
        /\ d.how = "compress" => \E b \in beats : b.is.origin \in SingleSource
        /\ d.how = "merge_member" => \A b \in beats : b.is.origin = "source_composite"

RoleIsInOneBeat(plan, r) ==
    Cardinality({b \in plan.beats : [kind |-> "role", id |-> r.id] \in b.is.with}) = 1

PlanIsValid(plan, live, events) ==
    /\ {d.event : d \in plan.how} = events
    /\ \A d \in plan.how : EventIsCarried(plan, d)
    /\ \A r \in plan.roles : RoleIsInOneBeat(plan, r)
    /\ Cardinality(plan.maps) = Cardinality(OfKind(live, "map"))
    /\ KeyedBy(plan.facts, LAMBDA f : f.ref) /\ KeyedBy(plan.rels, LAMBDA r : r.ref)
    /\ Cardinality({s.id : s \in plan.states}) = Cardinality(OfKind(live, "state"))

CanAssemble(candidates, decisions, events) ==
    LET live == Live(candidates, decisions)
    IN  /\ Unresolved(candidates, decisions) = {}
        /\ NothingDangles(live, decisions)
        /\ \A k \in LiveClasses(live, decisions) : Agrees(live, LiveClasses(live, decisions), k)
        /\ PlanIsValid(Assembled(live, decisions), live, events)
=============================================================================

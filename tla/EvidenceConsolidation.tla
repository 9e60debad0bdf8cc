------------------------ MODULE EvidenceConsolidation ------------------------
(***************************************************************************)
(* What A5 does in memory with the facts, the events and the relationships *)
(* of the A3 extractions: their entity refs are bound through the A4 map,  *)
(* they are put in the order of the text, paired, and decided pair by      *)
(* pair, by their exact keys or by the provider; finalization makes        *)
(* canonical records of the same ones, with the state transitions and      *)
(* conflicts between facts and the states of a relationship.               *)
(*                                                                         *)
(* The three domains take the same way one after the other and share       *)
(* nothing but the plan, so a behaviour follows one domain.                *)
(*                                                                         *)
(* A candidate is a number, numbers ordered as the candidate refs are.     *)
(* "text" is a normalized statement, summary or relationship type, "type"  *)
(* a fact type, temporal mode or direction; "who" are subjects,            *)
(* participants or the source, "what" objects, locations or the target.    *)
(* Texts, hashes, prompts and provenance are left out; the concurrency of  *)
(* the provider calls is BlockExecutor's.                                  *)
(***************************************************************************)
EXTENDS Naturals, FiniteSets, SequencesExt

CONSTANTS Candidates,  \* numbers
          Inputs,      \* what A3 and A4 may have left: a domain, the candidates
                       \* extracted of it, and the entity of each local ref
          KindOf,      \* "char", "loc" or the kind of the unresolved entity
          Selections,  \* sequences of evidence selectors the provider may cite
          MaxPairs, MaxCandidates, \* of a semantic block (6 and 12, or 12 and 24)
          None         \* no state is told

Roles == {"primary", "supporting"}
Evidence == [paragraph : Nat \ {0}, role : Roles]

ASSUME CandidatesAreNumbers == IsFiniteSet(Candidates) /\ Candidates \subseteq Nat
ASSUME ExtractionsAreGrounded ==
    \A i \in Inputs : \A c \in Candidates :
        /\ {"chunk", "suffix", "evidence", "text", "type", "who", "what", "state"}
               \subseteq DOMAIN i.extracted[c]
        /\ i.extracted[c].chunk \in Nat /\ i.extracted[c].suffix \in Nat
        /\ i.extracted[c].evidence \in Seq(Evidence) \ {<<>>}
        /\ \A d \in Candidates :
               /\ i.extracted[c].chunk < i.extracted[d].chunk => c < d
               /\ (i.extracted[c].chunk = i.extracted[d].chunk
                  /\ i.extracted[c].suffix = i.extracted[d].suffix) => c = d
ASSUME DomainsAreThree ==
    \A i \in Inputs : i.domain \in {"fact", "event", "relationship"}

\* Selectors name a side of the pair and evidence of that candidate.
ASSUME CitationsAreSelectors ==
    \A sel \in Selections : sel \in Seq({"L", "R"} \X (Nat \ {0}))

\* The indexed candidates.
Entity == DOMAIN KindOf
IsFact(e) == e.evidence # <<>> /\ ToSet(e.who) \union ToSet(e.what) \subseteq Entity
IsEvent(e) ==
    /\ IsFact(e)
    /\ e.type \in {"normal", "flashback", "flashforward", "dream", "memory", "unknown"}
IsRelationship(e) ==
    /\ IsFact(e)
    /\ e.type \in {"directed", "symmetric", "unknown"}
    /\ Len(e.who) = 1 /\ Len(e.what) = 1

VARIABLES input,    \* the domain, its candidates with local refs, the A4 map
          index,    \* the candidates, with entities
          plan,     \* state of each planned pair
          todo,     \* blocks still to be asked about for the first time
          again,    \* blocks whose first answer was invalid
          decided,  \* decision of each decided pair
          canon,    \* the members of each canonical record, in order
          records,  \* what a canonical record says
          links,    \* the state transitions
          conflicts,\* the story conflicts
          stage     \* where the run is, or how it ended

made == <<canon, records, links, conflicts>>
consolidationVars == <<input, index, plan, todo, again, decided, made, stage>>

Pairs == {p \in Candidates \X Candidates : p[1] < p[2]}
Before(p, q) == p[1] < q[1] \/ (p[1] = q[1] /\ p[2] < q[2])
SortedBy(S, Less(_, _)) ==
    [k \in 1..Cardinality(S) |->
        CHOOSE x \in S : Cardinality({y \in S : Less(y, x)}) = k - 1]

\* Decisions by domain: the one that merges, those that forbid it, and
\* "uncertain", which does neither.
Merging == [fact |-> "same_fact", event |-> "same_event", relationship |-> "same_relationship"]
HardNegatives ==
    [fact |-> {"compatible_fact", "state_change", "conflict", "unrelated"},
     event |-> {"different_event"}, relationship |-> {"different_relationship"}]
Verdicts(d) == {Merging[d], "uncertain"} \union HardNegatives[d]
Ends == {"finalized", "failed", "exhausted", "contradicted", "incoherent"}

-----------------------------------------------------------------------------
(* The index.                                                              *)

\* Which entities a field may name: facts any; participants and both ends of a
\* relationship a person, locations a place.
LegalWho(d) ==
    IF d = "fact" THEN DOMAIN KindOf
    ELSE {e \in DOMAIN KindOf : KindOf[e] \in {"char", "character", "person", "unknown"}}
LegalWhat(d) ==
    IF d = "event" THEN {e \in DOMAIN KindOf : KindOf[e] \in {"loc", "location", "unknown"}}
    ELSE LegalWho(d)

FirstOccurrence(s, x) == IF Contains(s, x) THEN s ELSE Append(s, x)
Deduped(s) == FoldLeft(FirstOccurrence, <<>>, s)

\* Refs that A4 made one entity become one; both ends of a relationship stay.
Bound(d, b, refs) ==
    LET ids == [k \in DOMAIN refs |-> b[refs[k]]]
    IN IF d = "relationship" THEN ids ELSE Deduped(ids)

BindingFails(d, x, b) ==
    \E c \in Candidates : \/ \E k \in DOMAIN x[c].who : b[x[c].who[k]] \notin LegalWho(d)
                          \/ \E k \in DOMAIN x[c].what : b[x[c].what[k]] \notin LegalWhat(d)

IndexOf(d, x, b) ==
    [c \in Candidates |-> [x[c] EXCEPT !.who = Bound(d, b, @), !.what = Bound(d, b, @)]]

\* The earliest primary evidence, or the earliest evidence if none is primary.
Anchor(e) ==
    LET primary == {v.paragraph : v \in {w \in ToSet(e.evidence) : w.role = "primary"}}
    IN Min(IF primary # {} THEN primary ELSE {v.paragraph : v \in ToSet(e.evidence)})

\* source_order_key: chunk, anchor, number in the chunk; then the ref.
PlaceInText(c) == <<index[c].chunk, Anchor(index[c]), index[c].suffix>>
Earlier(c, d) ==
    LET p == PlaceInText(c) q == PlaceInText(d)
    IN \E k \in 1..3 : p[k] < q[k] /\ \A j \in 1..(k - 1) : p[j] = q[j]

-----------------------------------------------------------------------------
(* Planning.                                                               *)

\* Who stands in the relationship, in which direction; only a symmetric one
\* reads the same from both ends.
Endpoints(e) ==
    <<e.type, IF e.type = "symmetric" THEN {e.who[1], e.what[1]} ELSE <<e.who[1], e.what[1]>>>>

\* A relationship's state is not part of what it is.
ExactKey(d, e) ==
    IF d = "relationship" THEN <<Endpoints(e), e.text>> ELSE <<e.type, e.text, e.who, e.what>>

Entities(e) == ToSet(e.who) \union ToSet(e.what)
Paragraphs(e) == {v.paragraph : v \in ToSet(e.evidence)}
Near(a, b) == a.chunk \leq b.chunk + 1 /\ b.chunk \leq a.chunk + 1

FactsMeet(a, b) ==
    \/ a.text = b.text
    \/ Paragraphs(a) \cap Paragraphs(b) # {}
    \/ a.type = b.type /\ (Entities(a) \cap Entities(b) # {} \/ Near(a, b))

EventsMeet(a, b) ==
    \/ a.text = b.text
    \/ Paragraphs(a) \cap Paragraphs(b) # {}
    \/ a.chunk = b.chunk
    \/ Near(a, b) /\ Entities(a) \cap Entities(b) # {}
    \/ ToSet(a.who) \cap ToSet(b.who) # {} /\ ToSet(a.what) \cap ToSet(b.what) # {}

RelationshipsMeet(a, b) == Endpoints(a) = Endpoints(b)

\* The pairs that are compared at all.
Blocked(d, i) ==
    {p \in Pairs : LET a == i[p[1]] b == i[p[2]] IN
        CASE d = "fact" -> FactsMeet(a, b)
          [] d = "event" -> EventsMeet(a, b)
          [] d = "relationship" -> RelationshipsMeet(a, b)}

PlanOf(d, i) ==
    [p \in Blocked(d, i) |-> IF ExactKey(d, i[p[1]]) = ExactKey(d, i[p[2]])
                             THEN "auto_same" ELSE "needs_semantic_decision"]

\* The decisions planning takes itself, with the evidence of both sides.
Deterministic(d, i, pl) ==
    [p \in {q \in DOMAIN pl : pl[q] = "auto_same"} |->
        [verdict |-> Merging[d], method |-> "deterministic",
         evidence |-> Deduped(i[p[1]].evidence \o i[p[2]].evidence)]]

Open(pl) == {p \in DOMAIN pl : pl[p] = "needs_semantic_decision"}

\* Greedy packing: a pair joins the last block if that keeps both limits.
Fits(b, p) ==
    /\ Len(b) < MaxPairs
    /\ Cardinality(UNION {{q[1], q[2]} : q \in ToSet(Append(b, p))}) \leq MaxCandidates
Pack(bs, p) ==
    IF bs # <<>> /\ Fits(Last(bs), p)
    THEN Append(Front(bs), Append(Last(bs), p))
    ELSE Append(bs, <<p>>)
BlocksOf(pl) == FoldLeft(Pack, <<>>, SortedBy(Open(pl), Before))

-----------------------------------------------------------------------------
(* What the provider cites: <<side, index>> selectors of a pair.           *)

Cited(p, s) == index[IF s[1] = "L" THEN p[1] ELSE p[2]].evidence
ValidSelection(p, sel) ==
    IsInjective(sel) /\ \A s \in ToSet(sel) : s[2] \in DOMAIN Cited(p, s)

\* The left selectors by index, then the right ones; evidence named twice counts once.
SelectorBefore(s, t) == IF s[1] = t[1] THEN s[2] < t[2] ELSE s[1] = "L"
Selected(p, sel) ==
    LET ordered == SortedBy(ToSet(sel), SelectorBefore)
    IN Deduped([k \in DOMAIN ordered |-> Cited(p, ordered[k])[ordered[k][2]]])

-----------------------------------------------------------------------------
(* Identity: the components of the merging decisions.                      *)

With(verdict) == {p \in DOMAIN decided : decided[p].verdict = verdict}
Merges == SortedBy(With(Merging[input.domain]), Before)

\* Faulty variant: only the endpoint is moved, and what was merged with it
\* stays behind.
UnionEndpoint(rep, p) == [rep EXCEPT ![p[2]] = rep[p[1]]]

\* union: the lesser root becomes the root of both components.
Union(rep, p) ==
    LET roots == {rep[p[1]], rep[p[2]]}
    IN [c \in Candidates |-> IF rep[c] \in roots THEN Min(roots) ELSE rep[c]]
Roots == FoldLeft(Union, [c \in Candidates |-> c], Merges)
ComponentsOf(rep) == {{c \in Candidates : rep[c] = r} : r \in {rep[d] : d \in Candidates}}

\* A decision that forbids the merge inside a component, or a relationship
\* component whose members do not agree on endpoints and direction.
Contradicted(rep) ==
    \/ \E v \in HardNegatives[input.domain] : \E p \in With(v) : rep[p[1]] = rep[p[2]]
    \/ /\ input.domain = "relationship"
       /\ \E c, d \in Candidates : rep[c] = rep[d] /\ Endpoints(index[c]) # Endpoints(index[d])

\* Faulty variant: members in the order of their refs.
MembersByRef(S) == SortedBy(S, LAMBDA c, d : c < d)

\* Members by their place in the text, components by their first member; the
\* number of a component is its canonical id.
Members(S) == SortedBy(S, Earlier)
Canonical(rep) ==
    SortedBy({Members(S) : S \in ComponentsOf(rep)}, LAMBDA m, n : Earlier(m[1], n[1]))

-----------------------------------------------------------------------------
(* What a canonical record says, and what joins facts.                     *)

WithEvidence(s, c) == s \o index[c].evidence
EvidenceOf(m) == Deduped(FoldLeft(WithEvidence, <<>>, m))

\* The one mode that members know, if there is exactly one.
ModeOf(m) ==
    LET known == {index[c].type : c \in ToSet(m)} \ {"unknown"}
    IN IF Cardinality(known) = 1 THEN CHOOSE x \in known : TRUE ELSE "unknown"

\* A relationship's states: successive members that tell the same state make
\* one, members that tell none are passed over; it has the rank of its first
\* member among all candidates.
Rank(c) == Cardinality({d \in Candidates : Earlier(d, c) \/ d = c})
Told(h, c) ==
    IF index[c].state = None THEN h
    ELSE IF h # <<>> /\ Last(h).state = index[c].state
    THEN Append(Front(h), [Last(h) EXCEPT !.members = Append(@, c)])
    ELSE Append(h, [state |-> index[c].state, members |-> <<c>>, order |-> Rank(c)])
History(m) == FoldLeft(Told, <<>>, m)

RecordOf(m) ==
    CASE input.domain = "fact" ->
           [evidence |-> EvidenceOf(m), who |-> index[m[1]].who,
            continuity |-> \E c \in ToSet(m) : index[c].type = "continuity_relevant"]
      [] input.domain = "event" -> [evidence |-> EvidenceOf(m), mode |-> ModeOf(m)]
      [] input.domain = "relationship" ->
           [endpoints |-> Endpoints(index[m[1]]), history |-> History(m)]

IdOf(cs, c) == CHOOSE k \in DOMAIN cs : Contains(cs[k], c)

\* _ordered_fact_endpoints: from the earlier canonical fact to the later one,
\* whichever side the provider named first.
Joined(cs, p) == <<Min({IdOf(cs, p[1]), IdOf(cs, p[2])}), Max({IdOf(cs, p[1]), IdOf(cs, p[2])})>>

JoinBefore(j, k) == j.to < k.to \/ (j.to = k.to /\ j.from < k.from)
Join(cs, p) ==
    [from |-> Joined(cs, p)[1], to |-> Joined(cs, p)[2], pair |-> p,
     evidence |-> decided[p].evidence]
Sorted(S) == {s \in SetToSeqs(S) : \A k, l \in DOMAIN s : JoinBefore(s[k], s[l]) => k < l}

\* Faulty variant: one for each two facts, of whichever decision comes first.
JoinsOnce(verdict, cs) ==
    IF input.domain # "fact" THEN {<<>>}
    ELSE Sorted({Join(cs, p) : p \in {q \in With(verdict) :
             \A o \in With(verdict) : Before(o, q) => Joined(cs, o) # Joined(cs, q)}})

\* One for each decision, by the later fact, then the earlier one; the hash in
\* the decision id orders those of the same two facts.
Joins(verdict, cs) ==
    IF input.domain # "fact" THEN {<<>>} ELSE Sorted({Join(cs, p) : p \in With(verdict)})

\* The subjects of a transition are those of the earlier fact the later one has too.
Transition(cs, j) ==
    [from |-> j.from, to |-> j.to, pair |-> j.pair, evidence |-> j.evidence,
     who |-> SelectSeq(index[cs[j.from][1]].who,
                       LAMBDA e : Contains(index[cs[j.to][1]].who, e))]

\* _validate_final_composition: what was assembled, compared with the decisions
\* and the components once more.
Coherent(cs, rs, ts, fs) ==
    /\ cs = Canonical(Roots)
    /\ \A k \in DOMAIN cs : k > 1 => Earlier(cs[k - 1][1], cs[k][1])
    /\ UNION {ToSet(m) : m \in ToSet(cs)} = Candidates
    /\ input.domain = "relationship" =>
           \A k \in DOMAIN cs : rs[k].history = History(cs[k])
                                /\ \A c \in ToSet(cs[k]) : Endpoints(index[c]) = rs[k].endpoints
    /\ input.domain # "relationship" => \A k \in DOMAIN cs : IsInjective(rs[k].evidence)
    /\ \A t \in ToSet(ts) \union ToSet(fs) :
           /\ t.from # t.to /\ IsInjective(t.evidence) /\ t.evidence = decided[t.pair].evidence
           /\ {t.from, t.to} = {IdOf(cs, t.pair[1]), IdOf(cs, t.pair[2])} /\ t.from < t.to
    /\ {t.pair : t \in ToSet(ts)} = With("state_change")
    /\ {t.pair : t \in ToSet(fs)} = With("conflict")

-----------------------------------------------------------------------------
(* A run.                                                                  *)

\* What the canonical sets hold.
IsCanonicalFact(r) == r.evidence # <<>> /\ ToSet(r.who) \subseteq Entity /\ r.continuity \in BOOLEAN
IsCanonicalEvent(r) == r.evidence # <<>> /\ r.mode # None
IsRelationshipState(h) == h.state # None /\ h.members \in Seq(Candidates) \ {<<>>} /\ h.order > 0
IsCanonicalRelationship(r) == \A h \in ToSet(r.history) : IsRelationshipState(h)
IsStoryConflict(t) == {t.from, t.to} \subseteq DOMAIN canon /\ t.pair \in DOMAIN decided
IsStateTransition(t) == IsStoryConflict(t) /\ ToSet(t.who) \subseteq Entity

ConsolidationTypeOK ==
    /\ \A c \in DOMAIN index :
           CASE input.domain = "fact" -> IsFact(index[c])
             [] input.domain = "event" -> IsEvent(index[c])
             [] input.domain = "relationship" -> IsRelationship(index[c])
    /\ DOMAIN plan \subseteq Pairs
    /\ todo \in Seq(Seq(Pairs)) /\ again \in Seq(Seq(Pairs))
    /\ \A p \in DOMAIN decided : p \in DOMAIN plan /\ decided[p].verdict \in Verdicts(input.domain)
    /\ canon \in Seq(Seq(Candidates))
    /\ \A r \in ToSet(records) :
           CASE input.domain = "fact" -> IsCanonicalFact(r)
             [] input.domain = "event" -> IsCanonicalEvent(r)
             [] input.domain = "relationship" -> IsCanonicalRelationship(r)
    /\ \A t \in ToSet(links) : IsStateTransition(t)
    /\ \A t \in ToSet(conflicts) : IsStoryConflict(t)
    /\ stage \in {"index", "plan", "ask", "finalize", "assemble"} \union Ends

ConsolidationInit ==
    /\ input \in Inputs
    /\ index = <<>> /\ plan = <<>> /\ decided = <<>>
    /\ todo = <<>> /\ again = <<>>
    /\ canon = <<>> /\ records = <<>> /\ links = <<>> /\ conflicts = <<>>
    /\ stage = "index"

Index ==
    /\ stage = "index"
    /\ IF BindingFails(input.domain, input.extracted, input.binding)
       THEN stage' = "failed" /\ UNCHANGED index
       ELSE /\ index' = IndexOf(input.domain, input.extracted, input.binding)
            /\ stage' = "plan"
    /\ UNCHANGED <<input, plan, todo, again, decided, made>>

\* plan_consolidation_pairs, and the blocks of what planning leaves open.
Plan ==
    /\ stage = "plan"
    /\ plan' = PlanOf(input.domain, index)
    /\ decided' = Deterministic(input.domain, index, plan')
    /\ todo' = BlocksOf(plan')
    /\ stage' = "ask"
    /\ UNCHANGED <<input, index, again, made>>

\* A provider call: every block once, then again, in the same order, those
\* whose answer was invalid.
Block == IF todo # <<>> THEN Head(todo) ELSE Head(again)
Round == IF todo # <<>> THEN 1 ELSE 2
Calls ==
    /\ stage = "ask"
    /\ todo # <<>> \/ again # <<>>
    /\ UNCHANGED <<input, index, plan, made>>

\* The provider decides every pair of the block, in order, citing evidence.
Decide(verdicts, sel) ==
    /\ Calls
    /\ \A p \in ToSet(Block) : ValidSelection(p, sel)
    /\ decided' = [p \in DOMAIN decided \union ToSet(Block) |->
           IF p \in DOMAIN decided THEN decided[p]
           ELSE [verdict |-> verdicts[CHOOSE k \in DOMAIN Block : Block[k] = p],
                 method |-> "llm", evidence |-> Selected(p, sel)]]
    /\ IF todo # <<>> THEN todo' = Tail(todo) /\ UNCHANGED again
       ELSE again' = Tail(again) /\ UNCHANGED todo
    /\ UNCHANGED stage

\* A payload that does not load, answers other pairs or cites what is not
\* there waits for the second round; in the second round it ends the run.
Reject ==
    /\ Calls
    /\ IF Round = 1
       THEN todo' = Tail(todo) /\ again' = Append(again, Block) /\ UNCHANGED stage
       ELSE stage' = "exhausted" /\ UNCHANGED <<todo, again>>
    /\ UNCHANGED decided

\* A provider error, or provenance of another request.
Fail ==
    /\ Calls
    /\ stage' = "failed"
    /\ UNCHANGED <<todo, again, decided>>

\* _validate_decision_coverage: each planned pair has its decision, by planning
\* or by the provider, and no other has one.
Covered ==
    /\ DOMAIN decided = DOMAIN plan
    /\ \A p \in DOMAIN plan : plan[p] = "auto_same" <=> decided[p].method = "deterministic"
    /\ \A p \in DOMAIN plan \ Open(plan) : decided[p].verdict = Merging[input.domain]

Resolve ==
    /\ stage = "ask"
    /\ todo = <<>> /\ again = <<>>
    /\ stage' = IF Covered THEN "finalize" ELSE "failed"
    /\ UNCHANGED <<input, index, plan, todo, again, decided, made>>

\* finalize_consolidation_identity.
Identify ==
    /\ stage = "finalize"
    /\ IF Contradicted(Roots)
       THEN stage' = "contradicted" /\ UNCHANGED canon
       ELSE stage' = "assemble" /\ canon' = Canonical(Roots)
    /\ UNCHANGED <<input, index, plan, todo, again, decided, records, links, conflicts>>

\* finalize_consolidation: the canonical sets and their final comparison.
Assemble ==
    /\ stage = "assemble"
    /\ records' = [k \in DOMAIN canon |-> RecordOf(canon[k])]
    /\ \E ts \in Joins("state_change", canon), fs \in Joins("conflict", canon) :
           /\ links' = [k \in DOMAIN ts |-> Transition(canon, ts[k])]
           /\ conflicts' = fs
    /\ stage' = IF Coherent(canon, records', links', conflicts') THEN "finalized" ELSE "incoherent"
    /\ UNCHANGED <<input, index, plan, todo, again, decided, canon>>

Decides ==
    stage = "ask" /\ (todo # <<>> \/ again # <<>>)
    /\ \E v \in [DOMAIN Block -> Verdicts(input.domain)], sel \in Selections : Decide(v, sel)

ConsolidationNext ==
    Index \/ Plan \/ Decides \/ Reject \/ Fail \/ Resolve \/ Identify \/ Assemble

ConsolidationSpec == ConsolidationInit /\ [][ConsolidationNext]_consolidationVars

-----------------------------------------------------------------------------
(* Properties.                                                             *)

\* _build_identity_components: a run is refused exactly when the decisions
\* contradict one another through some chain; otherwise candidates are one
\* record exactly when merging decisions connect them, those that say exactly
\* the same are one, and none of a forbidden pair are.
Connected(c, d) ==
    \A S \in SUBSET Candidates :
        (c \in S /\ \A p \in With(Merging[input.domain]) : p[1] \in S <=> p[2] \in S) => d \in S
Forbidden == UNION {With(v) : v \in HardNegatives[input.domain]}
IdentityHonoursDecisions ==
    /\ stage = "contradicted" => \E p \in Forbidden : Connected(p[1], p[2])
    /\ stage = "finalized" =>
           \A c, d \in Candidates :
               LET one == IdOf(canon, c) = IdOf(canon, d) IN
               /\ one <=> Connected(c, d)
               /\ ExactKey(input.domain, index[c]) = ExactKey(input.domain, index[d]) => one
               /\ one => <<c, d>> \notin Forbidden

\* finalize_consolidation: records are numbered and their members listed as
\* the text tells them, a transition or a conflict leads from an earlier record
\* to a later one, in that order, and the states of a relationship, read
\* off in their order, are what its members tell.
TellNext(told, c) == IF index[c].state = None THEN told ELSE Append(told, index[c].state)
Tells(m) == FoldLeft(TellNext, <<>>, m)
Repeats(s) == {k \in DOMAIN s : k > 1 /\ s[k] = s[k - 1]}
RecordsFollowTheText ==
    stage = "finalized" =>
        /\ \A k, l \in DOMAIN canon : \A a \in DOMAIN canon[k], b \in DOMAIN canon[l] :
               (k < l /\ a = 1) \/ (k = l /\ a < b) => Earlier(canon[k][a], canon[l][b])
        /\ \A s \in {links, conflicts} : \A k \in DOMAIN s :
               /\ Earlier(canon[s[k].from][1], canon[s[k].to][1])
               /\ k > 1 => s[k - 1].to \leq s[k].to
        /\ input.domain = "relationship" => \A k \in DOMAIN canon :
               LET h == records[k].history told == Tells(canon[k]) IN
               /\ FlattenSeq([j \in DOMAIN h |-> [n \in DOMAIN h[j].members |-> h[j].state]]) = told
               /\ Len(h) = Len(told) - Cardinality(Repeats(told))
               /\ \A j \in DOMAIN h : j > 1 => h[j - 1].order < h[j].order

\* finalize_consolidation: each decided state change and each conflict is kept
\* as one transition or conflict between the records of its two candidates, on
\* evidence of these, nothing else becomes one, a record cites the evidence of
\* all its members, each once, and the last comparison refuses nothing.
ChangesAreKept ==
    /\ stage # "incoherent"
    /\ stage = "finalized" =>
           /\ \A p \in Pairs : \A v \in {"state_change", "conflict"} :
                  Cardinality({k \in DOMAIN links : v = "state_change" /\ links[k].pair = p})
                  + Cardinality({k \in DOMAIN conflicts : v = "conflict" /\ conflicts[k].pair = p})
                  = IF p \in With(v) THEN 1 ELSE 0
           /\ \A t \in ToSet(links) \union ToSet(conflicts) :
                  /\ {IdOf(canon, t.pair[1]), IdOf(canon, t.pair[2])} = {t.from, t.to}
                  /\ ToSet(t.evidence) \subseteq
                         ToSet(EvidenceOf(canon[t.from])) \union ToSet(EvidenceOf(canon[t.to]))
           /\ input.domain # "relationship" => \A k \in DOMAIN canon :
                  /\ IsInjective(records[k].evidence)
                  /\ ToSet(records[k].evidence)
                     = UNION {ToSet(index[c].evidence) : c \in ToSet(canon[k])}
=============================================================================

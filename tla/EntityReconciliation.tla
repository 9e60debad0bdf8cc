------------------------ MODULE EntityReconciliation ------------------------
(***************************************************************************)
(* What A4 does in memory with the candidates of the A3 extractions:       *)
(* planning blocks the candidates into pairs and decides those it can,     *)
(* the provider decides the others block by block, finalization merges the *)
(* same ones into canonical entities, and validation says whether the      *)
(* outcome may be published, first on the run's own data and then, as      *)
(* every reader of CURRENT will, from the persisted data alone.            *)
(*                                                                         *)
(* A candidate is a number, numbers ordered as the candidate refs are; its *)
(* place in the text ("at") is another order, both with the chunks.  A     *)
(* name is a key with its blocking tokens, an evidence ref a value.        *)
(* Texts, hashes, prompts and provenance are left out: what is the same    *)
(* data is taken to have the same hash.                                    *)
(***************************************************************************)
EXTENDS Naturals, FiniteSets, SequencesExt

CONSTANTS Candidates,  \* numbers
          Indexes,     \* the candidate indexes a snapshot may give
          Keys, Tokens, \* normalized names; Tokens[k]: the blocking tokens of k
          StrongKeys,  \* those that identify
          Excluded,    \* tokens that are function words
          HardSets,    \* sets of must-not-merge pairs; production derives {{}}
          Selections,  \* sequences of evidence selectors the provider may cite
          MaxPairs, MaxCandidates, \* of a semantic block (6 and 12 in the code)
          MaxRounds    \* provider rounds of a block (2 in the code)

Kinds == {"character", "location", "unresolved"}
Entry == [kind : Kinds, chunk : Nat, at : Nat, keys : SUBSET Keys, evidence : Seq(Nat)]
Selector == {"L", "R"} \X Nat  \* side and evidence index, counted from 1
Pairs == {p \in Candidates \X Candidates : p[1] < p[2]}

ASSUME CandidatesAreNumbers == IsFiniteSet(Candidates) /\ Candidates \subseteq Nat
ASSUME HardSetsAreOfPairs == HardSets \subseteq SUBSET Pairs
ASSUME SelectionsAreOfSelectors == Selections \subseteq Seq(Selector)
ASSUME LimitsArePositive ==
    {MaxPairs, MaxRounds} \subseteq Nat \ {0} /\ MaxCandidates \in Nat \ {0, 1}

\* validate_candidate_index_source_order: places are unique, and chunks come one
\* after the other.
IsIndex(i) ==
    /\ DOMAIN i = Candidates
    /\ \A c \in Candidates : i[c] \in Entry /\ i[c].evidence # <<>>
    /\ \A c, d \in Candidates :
           /\ i[c].at = i[d].at => c = d
           /\ i[c].chunk < i[d].chunk => i[c].at < i[d].at /\ c < d
ASSUME IndexesAreIndexes == \A i \in Indexes : IsIndex(i)
ASSUME NamesHaveTokens == Tokens \in [Keys -> SUBSET STRING] /\ StrongKeys \subseteq Keys

VARIABLES index,    \* the candidate index
          hard,     \* the must-not-merge pairs planning was given
          plan,     \* state of each planned pair
          blocks,   \* the semantic blocks, sequences of pairs
          block,    \* the block the provider works on
          round,    \* provider rounds of this block
          asked,    \* history: the pairs of each provider call
          decided,  \* decision of each decided pair
          todo,     \* pairs still to be merged, in order
          rep,      \* rep[c]: the representative of c's component
          map,      \* the entity map: the target of each candidate
          stage     \* "plan", "resolve", "merge", "finalized" or how the run ended

vars == <<index, hard, plan, blocks, block, round, asked, decided, todo, rep, map, stage>>

States == {"auto_same", "must_not_merge", "needs_semantic_decision"}
Verdicts == {"same_entity", "different_entity", "uncertain"}
Decision == [verdict : Verdicts, method : {"deterministic", "llm"}, evidence : Seq(Nat)]
Target == [status : {"resolved"}, kind : Kinds, number : Nat]
          \union [status : {"unresolved"}, number : Nat]
Ends == {"published", "refused", "blocked", "failed", "exhausted"}

\* The pairs of S in canonical order.
Before(p, q) == p[1] < q[1] \/ (p[1] = q[1] /\ p[2] < q[2])
Ordered(S) ==
    [k \in 1..Cardinality(S) |->
        CHOOSE p \in S : Cardinality({q \in S : Before(q, p)}) = k - 1]

-----------------------------------------------------------------------------
(* Planning.                                                               *)

Mergeable(i, p) == i[p[1]].kind = i[p[2]].kind /\ i[p[1]].kind # "unresolved"
SharedKeys(i, p) == i[p[1]].keys \cap i[p[2]].keys
TokensOf(e) == (UNION {Tokens[k] : k \in e.keys}) \ Excluded
SharedTokens(i, p) == TokensOf(i[p[1]]) \cap TokensOf(i[p[2]])

\* The pairs that are compared at all: a shared name, a shared word, the same
\* chunk, or a constraint.  That chunks are adjacent adds a signal, no pair.
Blocked(i, h) ==
    {p \in Pairs : Mergeable(i, p) /\ ( \/ SharedKeys(i, p) # {}
                                        \/ SharedTokens(i, p) # {}
                                        \/ i[p[1]].chunk = i[p[2]].chunk)}
    \union h

StateOf(i, h, p) ==
    IF p \in h THEN "must_not_merge"
    ELSE IF SharedKeys(i, p) \cap StrongKeys # {} THEN "auto_same"
    ELSE "needs_semantic_decision"

PlanOf(i, h) == [p \in Blocked(i, h) |-> StateOf(i, h, p)]

\* The decisions planning takes itself.
Deterministic(pl) ==
    [p \in {q \in DOMAIN pl : pl[q] # "needs_semantic_decision"} |->
        [verdict |-> IF pl[p] = "auto_same" THEN "same_entity" ELSE "different_entity",
         method |-> "deterministic", evidence |-> <<>>]]

Undecided(pl) == {p \in DOMAIN pl : pl[p] = "needs_semantic_decision"}

\* Greedy packing: a pair joins the last block if that keeps both limits.
Fits(b, p) ==
    /\ Len(b) < MaxPairs
    /\ Cardinality(UNION {{q[1], q[2]} : q \in ToSet(Append(b, p))}) \leq MaxCandidates

\* Faulty variant: the pair that opens a new block is left behind.
PackDropping(bs, p) ==
    IF bs = <<>> THEN <<<<p>>>>
    ELSE IF Fits(Last(bs), p) THEN Append(Front(bs), Append(Last(bs), p))
    ELSE Append(bs, <<>>)

Pack(bs, p) ==
    IF bs # <<>> /\ Fits(Last(bs), p)
    THEN Append(Front(bs), Append(Last(bs), p))
    ELSE Append(bs, <<p>>)

Blocks(pl) == FoldLeft(Pack, <<>>, Ordered(Undecided(pl)))

-----------------------------------------------------------------------------
(* What the provider cites.                                                *)

Cites(i, p, s) == i[IF s[1] = "L" THEN p[1] ELSE p[2]].evidence

\* Selectors in range and each cited once, or the round is spent.
ValidSelection(i, p, sel) ==
    /\ IsInjective(sel)
    /\ \A s \in ToSet(sel) : s[2] \in 1..Len(Cites(i, p, s))

\* The left selectors by index, then the right ones.
SelectorBefore(s, t) == IF s[1] = t[1] THEN s[2] < t[2] ELSE s[1] = "L"
Canonical(sel) ==
    [k \in DOMAIN sel |->
        CHOOSE s \in ToSet(sel) : Cardinality({t \in ToSet(sel) : SelectorBefore(t, s)}) = k - 1]

FirstOccurrence(evs, e) == IF Contains(evs, e) THEN evs ELSE Append(evs, e)

\* Faulty variant: two selectors of one evidence ref are both kept.
EvidenceWithAliases(i, p, sel) == [k \in DOMAIN sel |-> Cites(i, p, Canonical(sel)[k])[Canonical(sel)[k][2]]]

\* The evidence of a decision: what the selectors, so ordered, name, once each.
Evidence(i, p, sel) ==
    FoldLeft(FirstOccurrence, <<>>,
             [k \in DOMAIN sel |-> Cites(i, p, Canonical(sel)[k])[Canonical(sel)[k][2]]])

-----------------------------------------------------------------------------
(* The identity graph: candidates linked by same_entity decisions.  Only   *)
(* characters and locations are its nodes.                                 *)

Nodes == {c \in Candidates : index[c].kind # "unresolved"}
With(verdict) == {p \in DOMAIN decided : decided[p].verdict = verdict}
Component(c) == {d \in Nodes : rep[d] = rep[c]}

\* A different_entity decision inside a component.
Conflicts == {p \in With("different_entity") : rep[p[1]] = rep[p[2]]}

Uncertain(c) == \E p \in With("uncertain") : {p[1], p[2]} \cap Component(c) # {}

\* The uncertainty group of c: c's component and all that uncertain decisions
\* connect it with.
ClosedGroup(S) ==
    /\ \A c \in S : Component(c) \subseteq S
    /\ \A p \in With("uncertain") : p[1] \in S <=> p[2] \in S
Group(c) == {d \in Nodes : \A S \in SUBSET Nodes : c \in S /\ ClosedGroup(S) => d \in S}

\* Faulty variant: a component with a doubt of its own stays an entity.
ResolvedDespiteOwnDoubt(c) ==
    /\ c \in Nodes
    /\ ~ \E p \in With("uncertain") : Cardinality({p[1], p[2]} \cap Component(c)) = 1

Resolved(c) == c \in Nodes /\ ~Uncertain(c)

\* The members of the entity c is in, resolved or not.
Members(c) ==
    IF c \notin Nodes THEN {c} ELSE IF Resolved(c) THEN Component(c) ELSE Group(c)

\* Entities are numbered by first appearance: characters, locations and
\* unresolved ones apart.  m: the members of each candidate's entity.
First(S) == CHOOSE c \in S : \A d \in S : index[c].at \leq index[d].at
Series(c) == IF Resolved(c) THEN index[c].kind ELSE "unresolved"

\* Faulty variant: numbered in the order of the refs.
NumberByRef(m, c) ==
    Cardinality({S \in {m[d] : d \in {e \in Candidates : Series(e) = Series(c)}} :
                     Min(S) \leq Min(m[c])})

Number(m, c) ==
    Cardinality({S \in {m[d] : d \in {e \in Candidates : Series(e) = Series(c)}} :
                     index[First(S)].at \leq index[First(m[c])].at})

TargetOf(m, c) ==
    IF Resolved(c)
    THEN [status |-> "resolved", kind |-> index[c].kind, number |-> Number(m, c)]
    ELSE [status |-> "unresolved", number |-> Number(m, c)]

EntityMap ==
    LET m == [c \in Candidates |-> Members(c)] IN [c \in Candidates |-> TargetOf(m, c)]

-----------------------------------------------------------------------------
(* A run.                                                                  *)

TypeOK ==
    /\ index \in Indexes
    /\ hard \in HardSets
    /\ DOMAIN plan \subseteq Pairs /\ \A p \in DOMAIN plan : plan[p] \in States
    /\ blocks \in Seq(Seq(Pairs))
    /\ block \in Nat
    /\ round \in 0..MaxRounds
    /\ asked \in Seq(Seq(Pairs))
    /\ DOMAIN decided \subseteq Pairs /\ \A p \in DOMAIN decided : decided[p] \in Decision
    /\ todo \in Seq(Pairs)
    /\ rep \in [Candidates -> Candidates]
    /\ DOMAIN map \subseteq Candidates /\ \A c \in DOMAIN map : map[c] \in Target
    /\ stage \in {"plan", "resolve", "merge", "finalized"} \union Ends

Init ==
    /\ index \in Indexes
    /\ hard \in HardSets
    /\ plan = <<>>
    /\ blocks = <<>>
    /\ block = 1
    /\ round = 0
    /\ asked = <<>>
    /\ decided = <<>>
    /\ todo = <<>>
    /\ rep = [c \in Candidates |-> c]
    /\ map = <<>>
    /\ stage = "plan"

\* plan_reconciliation: the plan, after the audit that it pairs like with like.
Plan ==
    /\ stage = "plan"
    /\ \A p \in hard : Mergeable(index, p)
    /\ plan' = PlanOf(index, hard)
    /\ blocks' = Blocks(plan')
    /\ decided' = Deterministic(plan')
    /\ stage' = "resolve"
    /\ UNCHANGED <<index, hard, block, round, asked, todo, rep, map>>

AuditFails ==
    /\ stage = "plan"
    /\ \E p \in hard : ~Mergeable(index, p)
    /\ stage' = "failed"
    /\ UNCHANGED <<index, hard, plan, blocks, block, round, asked, decided, todo, rep, map>>

Calls ==
    /\ stage = "resolve"
    /\ block \leq Len(blocks)
    /\ asked' = Append(asked, blocks[block])
    /\ UNCHANGED <<index, hard, plan, blocks, todo, rep, map>>

\* The provider decides every pair of the block, in order, citing evidence.
Answer(verdicts, sel) ==
    /\ Calls
    /\ \A p \in ToSet(blocks[block]) : ValidSelection(index, p, sel)
    /\ decided' = [p \in DOMAIN decided \union ToSet(blocks[block]) |->
           IF p \in DOMAIN decided THEN decided[p]
           ELSE LET k == CHOOSE j \in DOMAIN blocks[block] : blocks[block][j] = p
                IN [verdict |-> verdicts[k], method |-> "llm",
                    evidence |-> Evidence(index, p, sel)]]
    /\ block' = block + 1
    /\ round' = 0
    /\ UNCHANGED stage

\* A payload that does not load, answers other pairs or cites what is not
\* there: another round, if one is left.
Reject ==
    /\ Calls
    /\ round' = round + 1
    /\ stage' = IF round + 1 = MaxRounds THEN "exhausted" ELSE stage
    /\ UNCHANGED <<block, decided>>

\* A provider error, or provenance of another request: no further round.
Fail ==
    /\ Calls
    /\ stage' = "failed"
    /\ UNCHANGED <<block, round, decided>>

\* _validate_decision_coverage: each planned pair has its decision and no other
\* has one; planning's own stand, the others are the provider's.
Covered(pl) ==
    /\ DOMAIN decided = DOMAIN pl
    /\ \A p \in DOMAIN decided \ Undecided(pl) : decided[p] = Deterministic(pl)[p]
    /\ \A p \in Undecided(pl) : decided[p].method = "llm"

\* All blocks answered: the coverage check and the canonical order.
Resolve ==
    /\ stage = "resolve"
    /\ block > Len(blocks)
    /\ IF Covered(plan)
       THEN stage' = "merge" /\ todo' = Ordered(With("same_entity"))
       ELSE stage' = "failed" /\ UNCHANGED todo
    /\ UNCHANGED <<index, hard, plan, blocks, block, round, asked, decided, rep, map>>

\* union: the lesser root becomes the root of both components.
Merge ==
    /\ stage = "merge"
    /\ todo # <<>>
    /\ LET roots == {rep[Head(todo)[1]], rep[Head(todo)[2]]}
       IN rep' = [c \in Candidates |-> IF rep[c] \in roots THEN Min(roots) ELSE rep[c]]
    /\ todo' = Tail(todo)
    /\ UNCHANGED <<index, hard, plan, blocks, block, round, asked, decided, map, stage>>

\* validate_finalization finds nothing: every candidate has one target, ids have
\* no gap, decisions join like with like, and none contradicts a component.
Clean(m) ==
    /\ DOMAIN m = Candidates
    /\ \A t \in Range(m) : t.number = 1 \/ [t EXCEPT !.number = @ - 1] \in Range(m)
    /\ \A p \in DOMAIN decided : index[p[1]].kind = index[p[2]].kind
    /\ Conflicts = {}

\* finalize_reconciliation: the outputs, and the findings about them.
Finalize ==
    /\ stage = "merge"
    /\ todo = <<>>
    /\ map' = EntityMap
    /\ stage' = IF Clean(map') THEN "finalized" ELSE "blocked"
    /\ UNCHANGED <<index, hard, plan, blocks, block, round, asked, decided, todo, rep>>

\* validate_a4_semantic_identity_binding: the provider's decisions cite evidence
\* of the two candidates, each once.
EvidenceIsBound ==
    \A p \in DOMAIN decided :
        decided[p].method = "llm" =>
            /\ IsInjective(decided[p].evidence)
            /\ ToSet(decided[p].evidence) \subseteq
                   ToSet(index[p[1]].evidence) \union ToSet(index[p[2]].evidence)

\* _verify_finalization_bundle: what publication and every reader of CURRENT
\* check of the persisted data, with the plan they derive from the index alone,
\* without constraints.
Verified ==
    /\ PlanOf(index, {}) = plan
    /\ Covered(PlanOf(index, {}))
    /\ map = EntityMap
    /\ Clean(map)
    /\ EvidenceIsBound

Publish ==
    /\ stage = "finalized"
    /\ stage' = IF Verified THEN "published" ELSE "refused"
    /\ UNCHANGED <<index, hard, plan, blocks, block, round, asked, decided, todo, rep, map>>

Answers ==
    stage = "resolve" /\ block \leq Len(blocks)
    /\ \E v \in [DOMAIN blocks[block] -> Verdicts], sel \in Selections : Answer(v, sel)

Next == Plan \/ AuditFails \/ Answers \/ Reject \/ Fail \/ Resolve \/ Merge \/ Finalize \/ Publish

Spec == Init /\ [][Next]_vars

-----------------------------------------------------------------------------
(* Properties.                                                             *)

\* publish_validated: an EntityMap that may become CURRENT puts candidates
\* decided to be the same, and those that share a strong name, under one
\* target, no two that were told apart under one canonical entity, and a pair
\* in doubt under one unresolved entity, through any chain of decisions.
MapHonoursDecisions ==
    stage \in {"finalized", "published"} =>
        /\ \A p \in With("same_entity") : map[p[1]] = map[p[2]]
        /\ \A p \in With("different_entity") :
               map[p[1]].status = "resolved" => map[p[1]] # map[p[2]]
        /\ \A p \in With("uncertain") :
               map[p[1]].status = "unresolved" /\ map[p[1]] = map[p[2]]
        /\ hard = {} => \A p \in Pairs :
               Mergeable(index, p) /\ SharedKeys(index, p) \cap StrongKeys # {}
               => map[p[1]] = map[p[2]]

\* _assign_canonical_entities, _build_unresolved_entities: ids have no gap, no
\* entity mixes kinds, and ids grow with the first appearance in the text.
Appearance(t) ==
    LET ats == {index[c].at : c \in {d \in Candidates : map[d] = t}} IN Min(ats)
IdsFollowTheText ==
    stage \in {"finalized", "published"} =>
        LET targets == {map[c] : c \in Candidates} IN
        /\ \A t \in targets : t.number = 1
               \/ \E u \in targets : u = [t EXCEPT !.number = @ - 1] /\ Appearance(u) < Appearance(t)
        /\ \A c, d \in Candidates : map[c] = map[d] => index[c].kind = index[d].kind

\* resolve_semantic_ambiguity, pack_semantic_pairs_v1: the provider is asked
\* about open pairs only, about each in one block, within the limits and at
\* most MaxRounds times, and about all of them before anything is finalized.
ProviderIsAskedWhatIsOpen ==
    /\ \A k \in DOMAIN asked :
           /\ ToSet(asked[k]) \subseteq Undecided(plan)
           /\ Len(asked[k]) \in 1..MaxPairs
           /\ Cardinality(UNION {{p[1], p[2]} : p \in ToSet(asked[k])}) \leq MaxCandidates
    /\ \A p \in Pairs :
           LET calls == {k \in DOMAIN asked : p \in ToSet(asked[k])}
           IN Cardinality(calls) \leq MaxRounds /\ Cardinality({asked[k] : k \in calls}) \leq 1
    /\ stage \in {"merge", "finalized", "published"} =>
           UNION {ToSet(asked[k]) : k \in DOMAIN asked} = Undecided(plan)

\* _verify_finalization_bundle: what a run without findings finalizes, readers
\* of CURRENT accept, unless it was planned with constraints they do not know.
RunsVerify == stage = "refused" => hard # {}
=============================================================================

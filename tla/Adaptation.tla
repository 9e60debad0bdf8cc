----------------------------- MODULE Adaptation -----------------------------
(***************************************************************************)
(* Callers take a story to a skeleton: they resolve a target (B1.1), get a *)
(* strategy for it (B1.2), have its events disposed of, reviewed and put   *)
(* together into a published plan (B1.3), and order that plan (B1.4).      *)
(* What each stage computes is in AdaptationTarget, AdaptationStrategy,    *)
(* DispositionPlan and StorySkeleton; this module is who reads and writes  *)
(* what, and when.                                                         *)
(*                                                                         *)
(* Callers share the source (the verified A5/A6 heads, which a later       *)
(* analysis moves), the immutable strategies and publications, and the     *)
(* CURRENT pointers of B1.2 and B1.3 of one target.  A pointer is the      *)
(* sequence of what it was set to; a reference to it is its length.  A     *)
(* check that fails has no effect, so checks of the same thing in a row    *)
(* are one, and a caller that fails, crashes or is refused just stops.     *)
(***************************************************************************)
EXTENDS AdaptationTarget, AdaptationStrategy, DispositionPlan, StorySkeleton

CONSTANT Inputs    \* the cases studied, see InputsAreStudies

InputFields == {"callers", "moves", "index", "layers", "story", "budget", "sizes", "strategies",
                "modes", "proposals", "reviews", "published", "skeletons"}

ASSUME InputsAreStudies ==
    \A i \in Inputs : /\ DOMAIN i = InputFields
                      /\ i.moves \in Nat
                      /\ Len(i.story.windows) \in Nat
                      /\ DOMAIN i.story.windows = 1..Len(i.story.windows)
                      /\ DOMAIN i.proposals = DOMAIN i.story.windows
                      /\ \A k \in DOMAIN i.proposals : \A p \in i.proposals[k] : NamesCast(p)
                      /\ \A decisions \in i.reviews : IsFiniteSet(decisions)
                      /\ DOMAIN i.sizes = 1..MaxRounds

ASSUME RoundsAreBounded == MaxRounds \in Nat \ {0}

\* The events of a window and of a story.
OwnedIn(story, k) == {<<"event", e>> : e \in story.windows[k]}
EventRefs(story) == {<<"event", e>> : e \in EventsOf(story)}

\* What a publication carries, its plan follows from.
WasReviewed(story, p) ==
    LET candidates == Inventory(p.proposals)
    IN  /\ PacketIsSound(story)
        /\ DOMAIN p.proposals = DOMAIN story.windows
        /\ \A k \in DOMAIN p.proposals :
               NamesCast(p.proposals[k])
                  /\ ValidProposal(p.proposals[k], OwnedIn(story, k), story.refs)
        /\ IsFiniteSet(p.decisions) /\ ReviewIsValid(candidates, p.decisions)
        /\ CanAssemble(candidates, p.decisions, EventRefs(story))
        /\ p.plan = Assembled(Live(candidates, p.decisions), p.decisions)

ASSUME PublishedWereReviewed ==
    \A i \in Inputs : \A slot \in DOMAIN i.published : WasReviewed(i.story, i.published[slot])

VARIABLES
    input,           \* the case
    source,          \* how often the A5/A6 heads moved
    strategies,      \* B1.2's artifacts by revision
    current12,       \* the revisions B1.2's pointer was set to
    publications,    \* B1.3's artifacts by source and revision
    current13,       \* the publications B1.3's pointer was set to
    callers,         \* what each caller is doing
    log              \* every <<source, B1.2 pointer, B1.3 pointer>> there was

vars == <<input, source, strategies, current12, publications, current13, callers, log>>

-----------------------------------------------------------------------------
Idle(pc) ==
    [pc |-> pc, then |-> None, target |-> None, source |-> 0, since |-> 1, round |-> 1,
     seen |-> 0, revision |-> 0, strategy |-> None, selected |-> 0, pinned |-> 0,
     current |-> FALSE, answered |-> None, accepted |-> <<>>, decisions |-> {}, skeleton |-> None]

Init ==
    /\ input \in Inputs
    /\ source = 1
    /\ strategies = <<>> /\ current12 = <<>> /\ current13 = <<>>
    /\ publications = input.published
    /\ callers = [c \in input.callers |->
                     Idle(IF input.published = <<>> THEN "target" ELSE "have13")]
    /\ log = <<<<1, 0, 0>>>>

At(c, pc) == callers[c].pc = pc
\* f with the values of g.
Updated(f, g) == [x \in DOMAIN f \union DOMAIN g |-> IF x \in DOMAIN g THEN g[x] ELSE f[x]]
Goes(c, changes) == callers' = [callers EXCEPT ![c] = Updated(@, changes)]
To(pc) == [pc |-> pc]
Fails == To("failed")

SharedIsUnchanged == UNCHANGED <<source, strategies, current12, publications, current13, log>>
Logged == log' = Append(log, <<source', Len(current12'), Len(current13')>>)

\* A later analysis publishes.
Move ==
    /\ source <= input.moves
    /\ source' = source + 1
    /\ UNCHANGED <<input, strategies, current12, publications, current13, callers>>
    /\ Logged

-----------------------------------------------------------------------------
(***************************************************************************)
(* B1.1.  The target is bound to the source there is.                      *)
(***************************************************************************)
ResolveTarget(c) ==
    /\ At(c, "target")
    /\ LET layers == [l \in DOMAIN input.layers |-> Referring(input.index, input.layers[l])]
       IN  IF /\ IndexIsValid(input.index)
              /\ \A l \in DOMAIN layers : ValidLayer(layers[l])
              /\ Accepts(Combined(layers), input.story.refs)
           THEN Goes(c, [pc |-> "prepare12", target |-> Combined(layers), source |-> source])
           ELSE Goes(c, To("rejected"))
    /\ UNCHANGED input /\ SharedIsUnchanged

-----------------------------------------------------------------------------
(***************************************************************************)
(* B1.2: reuse the current strategy, or have one made and publish it.      *)
(***************************************************************************)
IsCurrentSource(c) == source = callers[c].source

Prepare12(c) ==
    /\ At(c, "prepare12")
    /\ IF /\ IsCurrentSource(c)
          /\ PacketIsSound(input.story) /\ WithinBudget(input.budget, input.sizes[1])
       THEN Goes(c, [pc |-> "begin12", since |-> Len(log)])
       ELSE Goes(c, To("refused"))
    /\ UNCHANGED input /\ SharedIsUnchanged

Guard(c, from, to) ==
    /\ At(c, from)
    /\ Goes(c, IF IsCurrentSource(c) THEN To(to) ELSE Fails)
    /\ UNCHANGED input /\ SharedIsUnchanged

\* The reference of the pointer, which an answer of the reuse will name.
PeekStrategy(c) ==
    /\ At(c, "peek12")
    /\ Goes(c, IF current12 = <<>> THEN To("round12")
               ELSE [pc |-> "read12", seen |-> Len(current12)])
    /\ UNCHANGED input /\ SharedIsUnchanged

\* What the pointer names, in a second reading that nothing compares with the
\* first; another request's strategy is a miss.
ReadStrategy(c) ==
    /\ At(c, "read12")
    /\ LET revision == Last(current12)
           kept == strategies[revision]
       IN  Goes(c, IF kept.source # callers[c].source THEN To("round12")
                   ELSE IF ValidStrategy(kept.strategy, input.story)
                   THEN [pc |-> "reused12", selected |-> revision]
                   ELSE Fails)
    /\ UNCHANGED input /\ SharedIsUnchanged

Reused(c) ==
    [pc |-> "have12", answered |-> [stage |-> 12, reused |-> TRUE, pointer |-> callers[c].seen]]

\* A mutant of AnswerReused: the source is not looked at again.
AnswerReusedUnchecked(c) ==
    /\ At(c, "reused12")
    /\ Goes(c, Reused(c))
    /\ UNCHANGED input /\ SharedIsUnchanged

AnswerReused(c) ==
    /\ At(c, "reused12")
    /\ Goes(c, IF IsCurrentSource(c) THEN Reused(c) ELSE Fails)
    /\ UNCHANGED input /\ SharedIsUnchanged

BeginRound(c) ==
    /\ At(c, "round12")
    /\ Goes(c, IF IsCurrentSource(c) /\ WithinBudget(input.budget, input.sizes[callers[c].round])
               THEN To("ask12") ELSE Fails)
    /\ UNCHANGED input /\ SharedIsUnchanged

AskStrategy(c) ==
    /\ At(c, "ask12")
    /\ \E strategy \in input.strategies :
          Goes(c, IF ValidStrategy(strategy, input.story)
                  THEN [pc |-> "asked12", strategy |-> strategy]
                  ELSE IF callers[c].round < MaxRounds
                  THEN [pc |-> "round12", round |-> callers[c].round + 1]
                  ELSE Fails)
    /\ UNCHANGED input /\ SharedIsUnchanged

\* The pointer expected, and the first revision after it that is free.
ClaimStrategy(c) ==
    /\ At(c, "claim12")
    /\ Goes(c, [pc |-> "slot12", seen |-> Len(current12)])
    /\ UNCHANGED input /\ SharedIsUnchanged

AllocateStrategy(c) ==
    /\ At(c, "slot12")
    /\ Goes(c, [pc |-> "put12", revision |-> Len(strategies) + 1])
    /\ UNCHANGED input /\ SharedIsUnchanged

StrategyArtifact(c) ==
    [source |-> callers[c].source, strategy |-> callers[c].strategy,
     review |-> ReviewReasons(callers[c].strategy, input.story)]

PutStrategy(c) ==
    /\ At(c, "put12")
    /\ LET free == callers[c].revision \notin DOMAIN strategies
           same == ~free /\ strategies[callers[c].revision] = StrategyArtifact(c)
       IN  /\ strategies' = IF free THEN Append(strategies, StrategyArtifact(c)) ELSE strategies
           /\ Goes(c, IF free \/ same THEN To("guard12") ELSE Fails)
    /\ UNCHANGED <<input, source, current12, publications, current13, log>>

SetStrategy(c) ==
    /\ At(c, "cas12")
    /\ IF Len(current12) = callers[c].seen
       THEN /\ current12' = Append(current12, callers[c].revision)
            /\ Goes(c, [pc |-> "have12", selected |-> callers[c].revision,
                        answered |-> [stage |-> 12, reused |-> FALSE,
                                      pointer |-> callers[c].seen + 1]])
            /\ UNCHANGED <<source, current13>> /\ Logged
       ELSE /\ Goes(c, Fails)
            /\ UNCHANGED <<source, current12, current13, log>>
    /\ UNCHANGED <<input, strategies, publications>>

ExecuteB12(c) ==
    \/ Prepare12(c) \/ Guard(c, "begin12", "peek12")
    \/ PeekStrategy(c) \/ ReadStrategy(c) \/ AnswerReused(c)
    \/ BeginRound(c) \/ AskStrategy(c) \/ Guard(c, "asked12", "claim12")
    \/ ClaimStrategy(c) \/ AllocateStrategy(c) \/ PutStrategy(c)
    \/ Guard(c, "guard12", "cas12") \/ SetStrategy(c)

-----------------------------------------------------------------------------
(***************************************************************************)
(* B1.3.  The authority of a preparation: the source is read, the strategy *)
(* selected (the explicit one, or what B1.2's pointer says), the source    *)
(* read again and the pointer again.  Preparing selects; every later check *)
(* prepares anew and compares.  "then" is what the caller does after it.   *)
(***************************************************************************)
Check(then) == [pc |-> "source13", then |-> then]
Checks(c, then, changes) == Goes(c, Updated(changes, Check(then)))

\* The caller selects its own strategy by reference, or the current one.
Prepare13(c) ==
    /\ At(c, "have12")
    /\ \E mode \in input.modes :
          Checks(c, "peek13", [current |-> mode = "current", since |-> Len(log),
                               answered |-> None])
    /\ UNCHANGED input /\ SharedIsUnchanged

ReadSource(c) ==
    /\ At(c, "source13")
    /\ Goes(c, IF IsCurrentSource(c) THEN To("select13") ELSE Fails)
    /\ UNCHANGED input /\ SharedIsUnchanged

\* The strategy is selected through one reading of the pointer.
SelectStrategy(c) ==
    /\ At(c, "select13")
    /\ LET me == callers[c]
           revision == IF me.current THEN Last(current12) ELSE me.selected
           pinned == IF me.current THEN Len(current12) ELSE 0
           changed == me.pinned # 0 /\ pinned # me.pinned
       IN  Goes(c, IF strategies[revision].source = me.source /\ ~changed
                   THEN [pc |-> "again13", selected |-> revision, pinned |-> pinned]
                   ELSE Fails)
    /\ UNCHANGED input /\ SharedIsUnchanged

ReadSourceAgain(c) ==
    /\ At(c, "again13")
    /\ Goes(c, IF IsCurrentSource(c) THEN To("confirm13") ELSE Fails)
    /\ UNCHANGED input /\ SharedIsUnchanged

ConfirmSelection(c) ==
    /\ At(c, "confirm13")
    /\ Goes(c, IF callers[c].current => Len(current12) = callers[c].pinned
               THEN To(callers[c].then) ELSE Fails)
    /\ UNCHANGED input /\ SharedIsUnchanged

CheckAuthority(c) ==
    ReadSource(c) \/ SelectStrategy(c) \/ ReadSourceAgain(c) \/ ConfirmSelection(c)

-----------------------------------------------------------------------------
(***************************************************************************)
(* Reuse of the current publication: it is read, the authority checked     *)
(* before and after it is compared, and the pointer read again.            *)
(***************************************************************************)
MatchesRequest(c, kept) ==
    /\ kept.source = callers[c].source
    /\ kept.selected = callers[c].selected /\ kept.pinned = callers[c].pinned

PeekPlan(c) ==
    /\ At(c, "peek13")
    /\ Checks(c, "match13", [seen |-> Len(current13)])
    /\ UNCHANGED input /\ SharedIsUnchanged

MatchPlan(c) ==
    /\ At(c, "match13")
    /\ Goes(c, IF callers[c].seen = 0 THEN To("recheck13") ELSE Check("recheck13"))
    /\ UNCHANGED input /\ SharedIsUnchanged

PlanAt(k) == publications[current13[k]]

RecheckPlan(c) ==
    /\ At(c, "recheck13")
    /\ LET seen == callers[c].seen
       IN  Goes(c, CASE Len(current13) # seen -> Fails
                     [] Len(current13) = seen /\ seen # 0 /\ MatchesRequest(c, PlanAt(seen)) ->
                           [pc |-> "have13", answered |-> [stage |-> 13, pointer |-> seen]]
                     [] OTHER -> To("preflight13"))
    /\ UNCHANGED input /\ SharedIsUnchanged

-----------------------------------------------------------------------------
(***************************************************************************)
(* The windows, one after the other; the authority is checked before and   *)
(* after every call of the provider.                                       *)
(***************************************************************************)
Owned(k) == OwnedIn(input.story, k)
Events == EventRefs(input.story)

Preflight(c) ==
    /\ At(c, "preflight13")
    /\ IF \A r \in 1..MaxRounds : WithinBudget(input.budget, input.sizes[r])
       THEN Checks(c, "ask13", [round |-> 1]) ELSE Goes(c, Fails)
    /\ UNCHANGED input /\ SharedIsUnchanged

AskWindow(c) ==
    /\ At(c, "ask13")
    /\ \E proposal \in input.proposals[Len(callers[c].accepted) + 1] :
          Checks(c, "judge13", [accepted |-> Append(callers[c].accepted, proposal)])
    /\ UNCHANGED input /\ SharedIsUnchanged

JudgeWindow(c) ==
    /\ At(c, "judge13")
    /\ LET accepted == callers[c].accepted
           k == Len(accepted)
       IN  IF ValidProposal(accepted[k], Owned(k), input.story.refs)
           THEN IF k = Len(input.story.windows) THEN Goes(c, To("review13"))
                ELSE Checks(c, "ask13", [round |-> 1])
           ELSE IF callers[c].round < MaxRounds
                THEN Checks(c, "ask13", [accepted |-> Front(accepted),
                                         round |-> callers[c].round + 1])
                ELSE Goes(c, Fails)
    /\ UNCHANGED input /\ SharedIsUnchanged

\* A person decides; the plan is put together, or refused.
Review(c) ==
    /\ At(c, "review13")
    /\ LET candidates == Inventory(callers[c].accepted)
       IN  \E decisions \in input.reviews :
              Goes(c, IF /\ ReviewIsValid(candidates, decisions)
                         /\ CanAssemble(candidates, decisions, Events)
                      THEN [pc |-> "publish13", decisions |-> decisions, since |-> Len(log)]
                      ELSE To("refused"))
    /\ UNCHANGED input /\ SharedIsUnchanged

-----------------------------------------------------------------------------
(***************************************************************************)
(* Publication.  It carries its evidence; the plan follows from it.        *)
(***************************************************************************)
Publication(c) ==
    LET me == callers[c]
    IN  [source |-> me.source, selected |-> me.selected, pinned |-> me.pinned,
         proposals |-> me.accepted, decisions |-> me.decisions,
         plan |-> Assembled(Live(Inventory(me.accepted), me.decisions), me.decisions)]

\* The same but for the pointer the strategy was selected by.
SameMeaning(p, q) == [p EXCEPT !.pinned = 0] = [q EXCEPT !.pinned = 0]

BeginPublication(c) ==
    /\ At(c, "publish13")
    /\ Checks(c, "same13", [seen |-> Len(current13)])
    /\ UNCHANGED input /\ SharedIsUnchanged

ReusePublication(c) ==
    /\ At(c, "same13")
    /\ LET seen == callers[c].seen
       IN  Goes(c, CASE Len(current13) # seen -> Fails
                     [] Len(current13) = seen /\ seen # 0
                           /\ SameMeaning(PlanAt(seen), Publication(c)) ->
                           [pc |-> "have13", answered |-> [stage |-> 13, pointer |-> seen]]
                     [] OTHER -> To("slot13"))
    /\ UNCHANGED input /\ SharedIsUnchanged

\* The first free revision of this source after the current one.
AllocatePublication(c) ==
    /\ At(c, "slot13")
    /\ LET me == callers[c]
           after == IF me.seen = 0 THEN 0 ELSE current13[me.seen][2]
           free == {r \in (after + 1)..(after + 1 + Cardinality(DOMAIN publications)) :
                       <<me.source, r>> \notin DOMAIN publications}
       IN  Goes(c, [pc |-> "put13", revision |-> Min(free)])
    /\ UNCHANGED input /\ SharedIsUnchanged

Slot(c) == <<callers[c].source, callers[c].revision>>

PutPublication(c) ==
    /\ At(c, "put13")
    /\ LET free == Slot(c) \notin DOMAIN publications
           same == ~free /\ publications[Slot(c)] = Publication(c)
       IN  /\ publications' =
                  IF ~free THEN publications
                  ELSE [s \in DOMAIN publications \union {Slot(c)} |->
                           IF s = Slot(c) THEN Publication(c) ELSE publications[s]]
           /\ Goes(c, IF free \/ same THEN Check("stable13") ELSE Fails)
    /\ UNCHANGED <<input, source, strategies, current12, current13, log>>

StillObserved(c) ==
    /\ At(c, "stable13")
    /\ Goes(c, IF Len(current13) = callers[c].seen THEN To("cas13") ELSE Fails)
    /\ UNCHANGED input /\ SharedIsUnchanged

SetPublication(c) ==
    /\ At(c, "cas13")
    /\ IF Len(current13) = callers[c].seen
       THEN /\ current13' = Append(current13, Slot(c))
            /\ Goes(c, [pc |-> "mine13", seen |-> callers[c].seen + 1])
            /\ UNCHANGED <<source, current12>> /\ Logged
       ELSE /\ Goes(c, Fails)
            /\ UNCHANGED <<source, current12, current13, log>>
    /\ UNCHANGED <<input, strategies, publications>>

VerifyMine(c) ==
    /\ At(c, "mine13")
    /\ Goes(c, IF Len(current13) = callers[c].seen THEN Check("done13") ELSE Fails)
    /\ UNCHANGED input /\ SharedIsUnchanged

VerifySuccess(c) ==
    /\ At(c, "done13")
    /\ Goes(c, IF Len(current13) = callers[c].seen
               THEN [pc |-> "have13", answered |-> [stage |-> 13, pointer |-> callers[c].seen]]
               ELSE Fails)
    /\ UNCHANGED input /\ SharedIsUnchanged

ExecuteB13(c) ==
    \/ Prepare13(c) \/ CheckAuthority(c)
    \/ PeekPlan(c) \/ MatchPlan(c) \/ RecheckPlan(c)
    \/ Preflight(c) \/ AskWindow(c) \/ JudgeWindow(c) \/ Review(c)
    \/ BeginPublication(c) \/ ReusePublication(c) \/ AllocatePublication(c)
    \/ PutPublication(c) \/ StillObserved(c) \/ SetPublication(c)
    \/ VerifyMine(c) \/ VerifySuccess(c)

-----------------------------------------------------------------------------
(***************************************************************************)
(* B1.4: the caller names a publication and its strategy; no pointer is    *)
(* read.  The provider may not say what the skeleton is pinned to.         *)
(***************************************************************************)
Ids(S) == {item.id : item \in S}

PlanView(slot) ==
    LET kept == publications[slot]
    IN  [beats |-> Ids(kept.plan.beats), chars |-> Ids(kept.plan.chars),
         refs |-> input.story.refs, pins |-> [strategy |-> kept.selected, publication |-> slot]]

Order(c) ==
    /\ At(c, "have13")
    /\ \E slot \in DOMAIN publications, proposal \in input.skeletons :
          LET skeleton == Updated(proposal, [pins |-> PlanView(slot).pins])
          IN  Goes(c, IF "pins" \notin DOMAIN proposal /\ IsWellTyped(proposal)
                         /\ ValidSkeleton(skeleton, PlanView(slot))
                      THEN [pc |-> "ordered", skeleton |-> skeleton]
                      ELSE To("refused"))
    /\ UNCHANGED input /\ SharedIsUnchanged

-----------------------------------------------------------------------------
Next ==
    \/ Move
    \/ \E c \in DOMAIN callers : ResolveTarget(c) \/ ExecuteB12(c) \/ ExecuteB13(c) \/ Order(c)

Spec == Init /\ [][Next]_vars

-----------------------------------------------------------------------------
(***************************************************************************)
(* TargetsAreSchedulable: AdaptationTarget.resolve computes with the ends  *)
(* of intervals.  What it accepts is exactly what a series can be made     *)
(* for: some number of episodes, each of a length the user's highest layer *)
(* allows, add up to a total that layer allows; and what it accepts names  *)
(* only elements of the story.  Totals are bounded by Horizon.             *)
(***************************************************************************)
Horizon == 16

Wanted(f) ==
    LET l == [k \in DOMAIN input.layers |-> input.layers[k][f]]
    IN  CASE l["override"] # None -> l["override"]
          [] l["override"] = None /\ l["raw"] # None -> l["raw"]
          [] OTHER -> l["default"]

Suits(n, f) ==
    \A c \in Listed(Wanted(f)) :
        c.strength = "hard" /\ c.kind \in {"fixed", "range"} =>
            /\ c.min # None => n >= c.min
            /\ c.max # None => n <= c.max

\* The totals of n episodes.
Series[n \in 0..Horizon] ==
    IF n = 0 THEN {0}
    ELSE LET before == Series[n - 1]
             lengths == {d \in 1..Horizon : Suits(d, "each")}
         IN  {t \in 1..Horizon : \E d \in lengths : t >= d /\ t - d \in before}

IsSchedulable ==
    \E n \in 1..Horizon : Suits(n, "count") /\ \E t \in Series[n] : Suits(t, "total")

TargetsAreSchedulable ==
    \A c \in DOMAIN callers :
        /\ callers[c].target # None =>
              /\ IsSchedulable
              /\ \A f \in Elements \union {"focus"} : \A ref \in Referred(callers[c].target, f) :
                    ref[1] # "text" => ref \in input.story.refs
        /\ At(c, "rejected") =>
              \/ ~IsSchedulable
              \/ ~IndexIsValid(input.index)
              \/ \E l \in DOMAIN input.layers : ~ValidLayer(Referring(input.index, input.layers[l]))
              \/ ~IsConsistent(Combined([l \in DOMAIN input.layers |->
                                            Referring(input.index, input.layers[l])]))

(***************************************************************************)
(* PlanHonoursReview: what assemble_b13_disposition puts together is what  *)
(* the windows proposed and the person decided.  Candidates share an id    *)
(* exactly if a chain of identifications joins them, so nothing is merged  *)
(* undecided and nothing decided distinct is merged by a chain; every live *)
(* candidate is in the plan and every member of the plan is live; every    *)
(* event has its owner's disposition; if that is to omit it, it is in no   *)
(* beat, and only its owner's beats are anchored in it.                    *)
(***************************************************************************)
\* No set of candidates that the identifications do not leave parts c and d.
AreJoined(c, d, candidates, decisions) ==
    \A S \in SUBSET OfKind(candidates, c.kind) :
        c \in S /\ (\A pair \in Identified(decisions) : pair \intersect S # {} => pair \subseteq S)
            => d \in S

Said(plan, c) == {m \in (CASE c.kind = "char" -> plan.chars
                           [] c.kind = "role" -> plan.roles
                           [] OTHER -> plan.beats) : c \in m.id}

HonoursReview(p) ==
    LET candidates == Inventory(p.proposals)
        live == {c \in candidates : ~\E d \in p.decisions : d.kind = "reject" /\ c \in d.over}
        members == p.plan.chars \union p.plan.roles \union p.plan.beats
        identity == {c \in live : c.kind \in IdentityKinds}
    IN  /\ UNION Ids(members) = identity
        /\ \A c \in identity : Cardinality(Said(p.plan, c)) = 1
        /\ \A c, d \in identity :
              c.kind = d.kind =>
                 (AreJoined(c, d, live, p.decisions) <=> Said(p.plan, c) = Said(p.plan, d))
        /\ \A d \in p.decisions :
              d.kind = "distinct" => \A m \in members : ~(d.over \subseteq m.id)
        /\ \A e \in Events : \E k \in DOMAIN p.proposals :
              /\ e \in Owned(k)
              /\ {d \in p.plan.how : d.event = e} = {d \in p.proposals[k].how : d.event = e}
        /\ \A k \in DOMAIN p.proposals : \A d \in p.proposals[k].how :
              d.how = "omit" => \A b \in p.plan.beats :
                 /\ d.event \notin b.is.events
                 /\ d.event \in b.is.anchors => \A c \in b.id : c.at = k
        /\ \A c \in identity : c.kind = "beat" =>
              \A who \in c.item.with : \E m \in Said(p.plan, c) : \E w \in m.is.with :
                 \E o \in w.id : o.at = c.at /\ o.kind = who.kind /\ o.item.key = who.key

PlanHonoursReview == \A slot \in DOMAIN publications : HonoursReview(publications[slot])

(***************************************************************************)
(* SkeletonReplays: validate_adapted_story_skeleton looks at paths in a    *)
(* partial order.  Told in any order the skeleton allows, an accepted one  *)
(* plays: what is required or set up has happened, every character passes  *)
(* from one status to the next, and what is never shown happens before     *)
(* something that is.  Shown in its order, the audience passes from one    *)
(* status to the next, and has not confirmed what is withheld before the   *)
(* entry it is withheld until.                                             *)
(***************************************************************************)
Tellings(skeleton, beats) ==
    {o \in SetToSeqs(beats) : \A e \in skeleton.order : \A j, k \in DOMAIN o :
                                 o[j] = e[1] /\ o[k] = e[2] => j < k}

Before(o, a, b) == \E j, k \in DOMAIN o : o[j] = a /\ o[k] = b /\ j < k

\* The status after the first k of a sequence of moments, "stuck" where a
\* transition does not start from the status then.
After(start, moments, Steps(_)) ==
    LET status[k \in 0..Len(moments)] ==
            IF k = 0 THEN start
            ELSE CASE Steps(moments[k]) = {} -> status[k - 1]
                   [] Cardinality(Steps(moments[k])) = 1
                         /\ \A t \in Steps(moments[k]) : t.from = status[k - 1] ->
                         (CHOOSE t \in Steps(moments[k]) : TRUE).to
                   [] OTHER -> "stuck"
    IN  status

Plays(skeleton, beats, o) ==
    /\ \A n \in skeleton.needs : \E p \in skeleton.outcomes :
          p.id = n.outcome /\ Before(o, p.beat, n.beat)
    /\ \A l \in skeleton.setups : Before(o, l.setup, l.payoff)
    /\ \A t \in skeleton.learns :
          \E s \in skeleton.knows :
             /\ s.who = t.who /\ s.key = t.key /\ s.beat = Absent
             /\ After(s.status, o, LAMBDA b : {u \in skeleton.learns :
                       u.who = t.who /\ u.key = t.key /\ u.beat = b})[Len(o)] # "stuck"
    /\ \A b \in beats \ Shown(skeleton) :
          (\E a \in skeleton.accounts : a.beat = b /\ a.how # "directly_presented")
             => \E e \in Shown(skeleton) : Before(o, b, e)

IsShown(skeleton) ==
    \A s \in skeleton.audience :
        LET status == After(s.status, skeleton.shown, LAMBDA e : {r \in skeleton.reveals :
                                r.key = s.key /\ r.at = e.id})
        IN  /\ status[Len(skeleton.shown)] # "stuck"
            /\ \A w \in skeleton.withheld : \A k \in DOMAIN skeleton.shown :
                  w.key = s.key /\ w.who = Absent /\ skeleton.shown[k].id = w.at
                     => status[k - 1] # "confirmed"

SkeletonReplays ==
    \A c \in DOMAIN callers :
        LET skeleton == callers[c].skeleton
        IN  skeleton # None =>
               LET beats == Beats(skeleton, PlanView(skeleton.pins.publication))
               IN  /\ Tellings(skeleton, beats) # {}
                   /\ \A o \in Tellings(skeleton, beats) : Plays(skeleton, beats, o)
                   /\ IsShown(skeleton)

(***************************************************************************)
(* AnswersWereCurrent.  A strategy that execute_b12_strategy reuses was    *)
(* the current one of a source that was current, at one instant of the     *)
(* call, and the pointer it is answered with was the current one at that   *)
(* instant or before it in the call: the two are read one after the other. *)
(* A strategy it made is what the pointer it is answered with names.  At   *)
(* one instant of the call that answers it, a publication of B1.3 was the  *)
(* current one of the current source, under the B1.2 pointer its strategy  *)
(* was selected by.                                                        *)
(***************************************************************************)
AnswersWereCurrent ==
    \A c \in DOMAIN callers :
        LET me == callers[c]
        IN  me.answered # None =>
               \E k \in me.since..Len(log) :
                  \/ /\ me.answered.stage = 12
                     /\ log[k][2] # 0
                     /\ current12[log[k][2]] = me.selected
                     /\ IF me.answered.reused
                        THEN /\ log[k][1] = me.source
                             /\ me.answered.pointer # 0
                             /\ \E j \in me.since..k : log[j][2] = me.answered.pointer
                        ELSE log[k][2] = me.answered.pointer
                  \/ /\ me.answered.stage = 13
                     /\ log[k][1] = me.source /\ log[k][3] = me.answered.pointer
                     /\ PlanAt(log[k][3]).source = me.source
                     /\ PlanAt(log[k][3]).selected = me.selected
                     /\ me.current => log[k][2] = me.pinned
=============================================================================

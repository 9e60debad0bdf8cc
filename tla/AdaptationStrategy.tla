------------------------- MODULE AdaptationStrategy -------------------------
(***************************************************************************)
(* B1.2: what the provider is shown of a story and a target, and what it   *)
(* may answer.  The packet holds the whole story, its plotlines numbered   *)
(* in the order of A6's outline (1 is the main plot); a strategy disposes  *)
(* of every plotline and cites the story's elements.  Texts and hashes are *)
(* left out; the size of a request is a number of tokens.                  *)
(***************************************************************************)
EXTENDS Naturals, FiniteSets, SequencesExt

EventsOf(story) == {ref[2] : ref \in {ref \in story.refs : ref[1] = "event"}}
Plotlines(story) == 1..(1 + story.subplots)

-----------------------------------------------------------------------------
(***************************************************************************)
(* The packet: A6's windows own every event of A5 once, what A6 found      *)
(* important is an event, and the directions are this project's.           *)
(***************************************************************************)
OwnedOnce(windows, events) ==
    /\ UNION Range(windows) = events
    /\ \A k, l \in DOMAIN windows : k # l => windows[k] \intersect windows[l] = {}

PacketIsSound(story) ==
    /\ EventsOf(story) # {}
    /\ OwnedOnce(story.windows, EventsOf(story))
    /\ story.important \subseteq EventsOf(story)

\* A request fits the ceiling for its size, and the context with its answer.
WithinBudget(budget, size) ==
    size <= budget.ceiling /\ size + budget.reserved <= budget.context

-----------------------------------------------------------------------------
(***************************************************************************)
(* The answer.  A plotline's strategy is [line, how, into].                *)
(***************************************************************************)
Cites(strategy) == UNION {d.refs : d \in strategy.divergences \union strategy.conflicts}
                      \union strategy.climax \union Range(strategy.treated)

IsWellFormed(strategy) ==
    /\ ~strategy.choosesTarget
    /\ IsInjective(strategy.treated)
    /\ strategy.climax # {}
    /\ \A d \in strategy.divergences \union strategy.conflicts : d.refs # {}
    /\ \A k \in DOMAIN strategy.lines :
          (strategy.lines[k].how = "merge_into") <=> (strategy.lines[k].into # 0)
    /\ \A k, l \in DOMAIN strategy.lines :
          strategy.lines[k].line = strategy.lines[l].line => k = l

\* A plotline is merged into another one that is kept.
MergesAreKept(strategy, plotlines) ==
    \A m \in {m \in Range(strategy.lines) : m.how = "merge_into"} :
        /\ m.into \in plotlines \ {m.line}
        /\ \A t \in Range(strategy.lines) : t.line = m.into => t.how \notin {"merge_into", "omit"}

ValidStrategy(strategy, story) ==
    /\ IsWellFormed(strategy)
    /\ Cites(strategy) \subseteq story.refs
    /\ {l.line : l \in Range(strategy.lines)} = Plotlines(story)
    /\ MergesAreKept(strategy, Plotlines(story))
    /\ \A c \in strategy.conflicts : c.directions \subseteq story.directions
    /\ strategy.ending = "adapted_ending" => strategy.divergences # {}

\* Why a person has to look at an accepted strategy.
ReviewReasons(strategy, story) ==
    {reason \in {"divergence", "conflict", "hard"} :
        \/ reason = "divergence" /\ strategy.divergences # {}
        \/ reason = "conflict" /\ strategy.conflicts # {}
        \/ reason = "hard" /\ story.hard # {}}
=============================================================================

---------------------------- MODULE StoryAnalysis ----------------------------
(***************************************************************************)
(* What A6 does in memory with the canonical story of A4 and A5.  The plan *)
(* joins to every character the records that name it and cuts the events,  *)
(* in the order of the narrative, into windows.  The provider then reads:  *)
(* a dossier of every character, a reading of every window, the outline of *)
(* the whole story (the "global skeleton"), its bible.  Each answer is     *)
(* checked against what was shown and asked for again once; a last check   *)
(* goes over all answers before they are published.                        *)
(*                                                                         *)
(* Characters, events and the other records are numbers: the numbers of    *)
(* their canonical ids, events numbered as they are narrated.  Unresolved  *)
(* entities, which are shown but cannot be cited, texts, hashes, prompts   *)
(* and provenance are left out.  The size of a packet is the number of     *)
(* records and citations in it.  Reuse and publication around a run are    *)
(* StoryPublication's.                                                     *)
(***************************************************************************)
EXTENDS Naturals, FiniteSets, SequencesExt

CONSTANTS Cases,     \* what A4 and A5 may have left, and the window sizes and
                     \* ceilings of a profile
          Outlines,  \* what the provider may answer for the whole story
          MaxCited,  \* bound: records a dossier, a reading or a bible cites,
                     \* the summary of conflicts one more
          Unset      \* a deferred ceiling, an answer not there yet

ASSUME StoriesAreCanonical ==
    \A i \in Cases :
        /\ i.story.cast \in Nat
        /\ \A list \in {"events", "facts", "rels", "changes", "conflicts"} :
               i.story[list] \in Seq(ToSet(i.story[list]))
        /\ \A k \in DOMAIN i.story.conflicts : i.story.conflicts[k] # {}
ASSUME PoliciesAreValid ==
    \A i \in Cases :
        /\ i.policy.owned \in Nat \ {0} /\ i.policy.context \in Nat
        /\ i.policy.character \in Nat /\ i.policy.window \in Nat

VARIABLES story,    \* the canonical story
          policy,   \* the numbers of the profile
          windows,  \* the planned windows
          dossiers, \* what the dossier of each character cites
          readings, \* what the reading of each window cites
          outline,  \* the accepted outline of the story
          bible,    \* the accepted bible
          round,    \* semantic round of the request at hand
          calls,    \* calls of the provider
          rounds,   \* rounds the passes report
          stage     \* the pass at work, or how the run ended

answers == <<dossiers, readings, outline, bible>>
analysisVars == <<story, policy, windows, answers, round, calls, rounds, stage>>

Ended == {"done", "refused", "failed", "exhausted", "unloadable", "incoherent"}
Cast == 1..story.cast
Events == DOMAIN story.events

-----------------------------------------------------------------------------
(***************************************************************************)
(* The deterministic plan.  A record is a pair of its kind and number.     *)
(***************************************************************************)
Touching(seq, kind, S) == {<<kind, k>> : k \in {k \in DOMAIN seq : seq[k] \intersect S # {}}}

\* The records but the events that name one of the entities S, and the
\* conflicts between them.
About(S) ==
    LET named == Touching(story.facts, "fact", S) \union Touching(story.rels, "rel", S)
    IN  named \union Touching(story.changes, "trans", S)
              \union Touching(story.conflicts, "conf", named)

PackageOf(c) ==
    {<<"evt", e>> : e \in {e \in Events : c \in story.events[e].who}} \union About({c})

\* A mutant of Window: the event at the edge of the context is lost.
WindowShort(k) ==
    LET first == (k - 1) * policy.owned + 1
        last == Min({k * policy.owned, Len(story.events)})
    IN  [owned |-> first..last,
         context |-> {e \in Events \ (first..last) :
                         e + policy.context > first /\ e <= last + policy.context}]

Window(k) ==
    LET first == (k - 1) * policy.owned + 1
        last == Min({k * policy.owned, Len(story.events)})
    IN  [owned |-> first..last,
         context |-> {e \in Events \ (first..last) :
                         e + policy.context >= first /\ e <= last + policy.context}]

PlanWindows ==
    [k \in 1..((Len(story.events) + policy.owned - 1) \div policy.owned) |-> Window(k)]

Shown(w) == w.owned \union w.context
Bound(w) == UNION {story.events[e].who \union story.events[e].where : e \in Shown(w)}
PacketOf(w) == {<<"evt", e>> : e \in Shown(w)} \union About(Bound(w))

OwnershipHolds(ws) ==
    /\ \A k \in DOMAIN ws : Shown(ws[k]) \subseteq Events /\ ws[k].owned \intersect ws[k].context = {}
    /\ \A e \in Events : Cardinality({k \in DOMAIN ws : e \in ws[k].owned}) = 1

\* The index of the whole story: its entities, events, relationships,
\* transitions and conflicts, in short.  Facts are not part of it.
GlobalIndex ==
    {<<"char", c>> : c \in Cast} \union {<<"evt", e>> : e \in Events}
    \union {<<"rel", k>> : k \in DOMAIN story.rels}
    \union {<<"trans", k>> : k \in DOMAIN story.changes}
    \union {<<"conf", k>> : k \in DOMAIN story.conflicts}

\* What an answer about the whole story may cite: every record.
Universe ==
    (GlobalIndex \union {<<"fact", k>> : k \in DOMAIN story.facts})
    \ {<<"trans", k>> : k \in DOMAIN story.changes}

Citable(packet) == {r \in packet : r[1] # "trans"}

\* What a provider may cite: records, or an event the story does not have.
CitationsUpTo(n) ==
    UNION {kSubset(k, {r \in Universe : r[1] # "char"} \union {<<"evt", 0>>}) : k \in 0..n}
Citations == CitationsUpTo(MaxCited)

SizeOf(cited) == FoldSeq(LAMBDA S, n : n + 1 + Cardinality(S), 0, cited)
-----------------------------------------------------------------------------
AnalysisInit ==
    /\ \E i \in Cases : story = i.story /\ policy = i.policy
    /\ windows = <<>> /\ dossiers = <<>> /\ readings = <<>>
    /\ outline = Unset /\ bible = Unset
    /\ round = 1 /\ calls = 0 /\ rounds = 0
    /\ stage = "plan"

Plan ==
    /\ stage = "plan"
    /\ windows' = PlanWindows
    /\ stage' = IF /\ OwnershipHolds(windows')
                   /\ \A c \in Cast : Cardinality(PackageOf(c)) <= policy.character
                   /\ \A k \in DOMAIN windows' : Cardinality(PacketOf(windows'[k])) <= policy.window
                THEN "characters" ELSE "refused"
    /\ UNCHANGED <<story, policy, answers, round, calls, rounds>>

\* A round of the request at hand: its answer is kept, or it is asked for
\* once more and then the run is over.
Accept ==
    /\ calls' = calls + 1 /\ rounds' = rounds + round /\ round' = 1

Reject ==
    /\ calls' = calls + 1
    /\ round' = 2
    /\ stage' = IF round = 1 THEN stage ELSE "exhausted"
    /\ UNCHANGED <<answers, rounds>>

\* A technical failure of the provider, or an answer to another request.
Fail ==
    /\ \/ stage = "characters" /\ Len(dossiers) < story.cast
       \/ stage = "windows" /\ Len(readings) < Len(windows)
       \/ stage \in {"skeleton", "bible"}
    /\ calls' = calls + 1
    /\ stage' = "failed"
    /\ UNCHANGED <<story, policy, windows, answers, round, rounds>>

\* A mutant: any record of the story will do.
ValidDossierAnyRecord(c, who, cited) == who = c /\ cited \subseteq Universe

ValidDossier(c, who, cited) == who = c /\ cited \subseteq Citable(PackageOf(c))

\* resolve_character_analysis, one character after the other.
ReadCharacter ==
    /\ stage = "characters"
    /\ Len(dossiers) < story.cast
    /\ \E who \in Cast, cited \in Citations, loads \in BOOLEAN :
           IF loads /\ ValidDossier(Len(dossiers) + 1, who, cited)
           THEN /\ Accept
                /\ dossiers' = Append(dossiers, cited)
                /\ UNCHANGED <<readings, outline, bible, stage>>
           ELSE Reject
    /\ UNCHANGED <<story, policy, windows>>

CharactersRead ==
    /\ stage = "characters"
    /\ Len(dossiers) = story.cast
    /\ stage' = "windows"
    /\ UNCHANGED <<story, policy, windows, answers, round, calls, rounds>>

ValidReading(k, who, cited) == who = k /\ cited \subseteq Citable(PacketOf(windows[k]))

\* resolve_plot_window_analysis, one window after the other.
ReadWindow ==
    /\ stage = "windows"
    /\ Len(readings) < Len(windows)
    /\ \E who \in DOMAIN windows, cited \in Citations, loads \in BOOLEAN :
           IF loads /\ ValidReading(Len(readings) + 1, who, cited)
           THEN /\ Accept
                /\ readings' = Append(readings, cited)
                /\ UNCHANGED <<dossiers, outline, bible, stage>>
           ELSE Reject
    /\ UNCHANGED <<story, policy, windows>>

\* The packet of the outline exists only now, all dossiers and readings
\* paid for: here its ceiling is enforced, never by cutting it.
SkeletonSize == SizeOf(dossiers) + SizeOf(readings) + Cardinality(GlobalIndex)

Within(size, ceiling) == ceiling # Unset /\ size <= ceiling

WindowsRead ==
    /\ stage = "windows"
    /\ Len(readings) = Len(windows)
    /\ stage' = IF Within(SkeletonSize, policy.skeleton) THEN "skeleton" ELSE "refused"
    /\ UNCHANGED <<story, policy, windows, answers, round, calls, rounds>>

-----------------------------------------------------------------------------
(***************************************************************************)
(* The outline: arcs, turning points, reveals and payoffs, each with the   *)
(* ordinal the provider gave it, sections, and the main ones of all these. *)
(***************************************************************************)
Kinds == {"arc", "turn", "reveal", "payoff"}
Major == Kinds \ {"payoff"}

Ordinals(proposals) == {p.ordinal : p \in ToSet(proposals)}
Distinct(seq) == \A i, j \in DOMAIN seq : seq[i] = seq[j] => i = j

ValidProposals(kind, proposals) ==
    /\ Distinct([k \in DOMAIN proposals |-> proposals[k].ordinal])
    /\ \A p \in ToSet(proposals) : p.cited \subseteq Universe
    /\ kind = "arc" =>
           \A p \in ToSet(proposals) : {p.from, p.to} \subseteq Events /\ p.from < p.to

ValidSections(sections) ==
    \A k \in DOMAIN sections :
        /\ sections[k].ordinal >= 1 /\ sections[k].cited \subseteq Universe
        /\ k > 1 => sections[k - 1].ordinal < sections[k].ordinal

ValidOutline(o) ==
    /\ Distinct(o.overlay) /\ ToSet(o.overlay) \subseteq Events
    /\ \A kind \in Kinds : ValidProposals(kind, o.proposals[kind])
    /\ ValidSections(o.sections)
    /\ o.main \subseteq Cast
    /\ o.cited \subseteq Universe
    /\ \A kind \in Major : ToSet(o.major[kind]) \subseteq Ordinals(o.proposals[kind])

\* A mutant of IdOf: the ordinal is taken for the position.
IdByOrdinal(proposals, ordinal) == ordinal + 1

\* Ids are given by position, whatever ordinals the provider chose; the main
\* proposals are named by ordinal and found through it.
IdOf(proposals, ordinal) ==
    CHOOSE k \in DOMAIN proposals : proposals[k].ordinal = ordinal

MajorIds(o) ==
    [kind \in Major |->
        [k \in DOMAIN o.major[kind] |-> IdOf(o.proposals[kind], o.major[kind][k])]]

BuildOutline(o) ==
    [proposals |-> o.proposals, sections |-> o.sections, overlay |-> o.overlay,
     main |-> o.main, cited |-> o.cited, asked |-> o.major, major |-> MajorIds(o)]

\* The main proposals of a kind are a list, and an outline is something.
ASSUME OutlinesAreAnswers ==
    \A o \in Outlines :
        /\ \A kind \in Major : o.major[kind] \in Seq(ToSet(o.major[kind]))
        /\ (\A kind \in Major : ToSet(o.major[kind]) \subseteq Ordinals(o.proposals[kind])) =>
               BuildOutline(o) # Unset

\* The rounds end with the checks of the refs: an outline that then does not
\* load, its texts blank say, fails the run without a further round.
Outline ==
    /\ stage = "skeleton"
    /\ \E o \in Outlines, loads \in BOOLEAN :
           IF ~ValidOutline(o)
           THEN Reject
           ELSE IF loads
           THEN /\ Accept
                /\ outline' = BuildOutline(o)
                /\ stage' = "gate"
                /\ UNCHANGED <<dossiers, readings, bible>>
           ELSE /\ calls' = calls + 1
                /\ stage' = "unloadable"
                /\ UNCHANGED <<answers, round, rounds>>
    /\ UNCHANGED <<story, policy, windows>>

SizeOfOutline(o) ==
    Len(o.sections) + Len(o.overlay) + Cardinality(o.cited)
    + Cardinality(UNION {{kind} \X DOMAIN o.proposals[kind] : kind \in Kinds})

BibleSize == SkeletonSize + SizeOfOutline(outline)

BibleGate ==
    /\ stage = "gate"
    /\ stage' = IF Within(BibleSize, policy.bible) THEN "bible" ELSE "refused"
    /\ UNCHANGED <<story, policy, windows, answers, round, calls, rounds>>

-----------------------------------------------------------------------------
(***************************************************************************)
(* The bible: premise, synopsis, themes and a summary of the conflicts of  *)
(* the source.  What it says of main characters, arcs, turning points and  *)
(* reveals is copied from the outline.                                     *)
(***************************************************************************)
Conflicts == {<<"conf", k>> : k \in DOMAIN story.conflicts}

BuildBible(cited, summary) ==
    [cited |-> cited, summary |-> IF Conflicts = {} THEN {} ELSE summary,
     main |-> outline.main, major |-> outline.major]

SummaryHolds(summary) ==
    /\ {r \in summary : r[1] = "conf"} = Conflicts
    /\ summary \ Conflicts \subseteq UNION ToSet(story.conflicts)

ValidBible(b) ==
    /\ b.cited \union b.summary \subseteq Universe
    /\ b.main \subseteq Cast
    /\ \A kind \in Major : ToSet(b.major[kind]) \subseteq DOMAIN outline.proposals[kind]
    /\ SummaryHolds(b.summary)

Bible ==
    /\ stage = "bible"
    /\ \E cited \in Citations, summary \in CitationsUpTo(MaxCited + 1), loads \in BOOLEAN :
           LET b == BuildBible(cited, summary)
           IN  IF loads /\ ValidBible(b)
               THEN /\ Accept
                    /\ bible' = b
                    /\ stage' = "check"
                    /\ UNCHANGED <<dossiers, readings, outline>>
               ELSE Reject
    /\ UNCHANGED <<story, policy, windows>>

\* validate_whole_a6: every answer again, against the whole story.
IsCoherent ==
    /\ Len(dossiers) = story.cast /\ Len(readings) = Len(windows)
    /\ OwnershipHolds(windows)
    /\ \A cited \in ToSet(dossiers) \union ToSet(readings) : cited \subseteq Universe
    /\ ToSet(outline.overlay) \subseteq Events
    /\ \A kind \in Kinds : \A p \in ToSet(outline.proposals[kind]) :
           /\ p.cited \subseteq Universe
           /\ kind = "arc" => {p.from, p.to} \subseteq Events
    /\ \A s \in ToSet(outline.sections) : s.cited \subseteq Universe
    /\ outline.cited \union bible.cited \union bible.summary \subseteq Universe
    /\ outline.main \union bible.main \subseteq Cast
    /\ \A kind \in Major :
           ToSet(outline.major[kind]) \union ToSet(bible.major[kind])
               \subseteq DOMAIN outline.proposals[kind]

Check ==
    /\ stage = "check"
    /\ stage' = IF IsCoherent THEN "done" ELSE "incoherent"
    /\ UNCHANGED <<story, policy, windows, answers, round, calls, rounds>>

AnalysisNext ==
    \/ Plan \/ ReadCharacter \/ CharactersRead \/ ReadWindow \/ WindowsRead
    \/ Outline \/ BibleGate \/ Bible \/ Check \/ Fail

AnalysisSpec == AnalysisInit /\ [][AnalysisNext]_analysisVars
-----------------------------------------------------------------------------
(***************************************************************************)
(* Properties.                                                             *)
(***************************************************************************)
\* What a window is to be: events next to each other that no other window
\* owns, shown with those at most "context" events away.
Near(w) ==
    {e \in Events : \E o \in w.owned : e <= o + policy.context /\ o <= e + policy.context}

\* A run ended before its ceilings were respected only for one of them.
TooLarge ==
    \/ \E c \in Cast : Cardinality(PackageOf(c)) > policy.character
    \/ \E k \in DOMAIN windows : Cardinality(PacketOf(windows[k])) > policy.window

(* Every event of the story is owned by exactly one window, the windows    *)
(* follow the narrative and each shows exactly the neighbours of what it   *)
(* owns (plan_plot_windows, validate_window_ownership); no run is refused  *)
(* for another reason than a packet above its ceiling or a ceiling not set *)
(* yet, and what can be seen to be too large in the plan costs no call.    *)
EveryEventIsReadOnce ==
    stage # "plan" =>
        /\ \A e \in Events : \E k \in DOMAIN windows :
               /\ e \in windows[k].owned
               /\ \A l \in DOMAIN windows : e \in windows[l].owned => l = k
        /\ \A k, l \in DOMAIN windows : k < l =>
               \A e \in windows[k].owned, f \in windows[l].owned : e < f
        /\ \A k \in DOMAIN windows : Shown(windows[k]) = Near(windows[k])
        /\ TooLarge => stage = "refused" /\ calls = 0
        /\ stage = "refused" =>
               \/ TooLarge
               \/ outline = Unset /\ ~Within(SkeletonSize, policy.skeleton)
               \/ outline # Unset /\ ~Within(BibleSize, policy.bible)

\* A record is of some entities if it names one, a conflict if one of the
\* records it is between does.
Naming(r) ==
    CASE r[1] = "evt" -> story.events[r[2]].who
      [] r[1] = "fact" -> story.facts[r[2]]
      [] r[1] = "rel" -> story.rels[r[2]]
Of(r, S) ==
    IF r[1] = "conf" THEN \E q \in story.conflicts[r[2]] : Naming(q) \intersect S # {}
    ELSE Naming(r) \intersect S # {}

(* What is kept of an answer, in whatever round it came and whatever was   *)
(* rejected before it, rests on what that request was shown: a dossier on  *)
(* records that name its own character, a reading on the events around     *)
(* its window and the records of who and what is in them; and the bible    *)
(* tells of the conflicts of A5, of all of them and of no others           *)
(* (validate_character_evidence, validate_plot_window_evidence,            *)
(* validate_story_bible_output).                                           *)
ReadingsStayGrounded ==
    /\ \A k \in DOMAIN dossiers : \A r \in dossiers[k] :
           r \in Universe /\ Of(r, {k})
    /\ \A k \in DOMAIN readings : \A r \in readings[k] :
           IF r[1] = "evt" THEN r[2] \in Near(windows[k])
           ELSE r \in Universe /\ Of(r, Bound(windows[k]))
    /\ bible # Unset =>
           /\ \A k \in DOMAIN story.conflicts : <<"conf", k>> \in bible.summary
           /\ \A r \in bible.summary :
                  \E k \in DOMAIN story.conflicts : r \in {<<"conf", k>>} \union story.conflicts[k]

(* The main arcs, turning points and reveals of the bible are the ones the *)
(* provider meant when it named them by its own ordinals                   *)
(* (_build_global_structure, build_story_bible_from_provider_output);      *)
(* answers accepted one by one are coherent together, so nothing paid for  *)
(* is lost to the last check (validate_whole_a6); and every request is     *)
(* asked twice at most and every call is reported                          *)
(* (StoryAnalysisService.build_story_bible).                               *)
MeaningSurvives ==
    LET requests == story.cast + Len(windows) + 2
    IN  /\ stage # "incoherent"
        /\ bible # Unset => \A kind \in Major :
               /\ Len(bible.major[kind]) = Len(outline.asked[kind])
               /\ \A k \in DOMAIN bible.major[kind] :
                      outline.proposals[kind][bible.major[kind][k]].ordinal = outline.asked[kind][k]
        /\ calls <= 2 * requests
        /\ stage = "done" => rounds = calls /\ requests <= rounds
=============================================================================

# Verification of short_drama

This directory holds TLA+ models of the core of the repository (`src/src/short_drama`
in the paths below, abbreviated `short_drama/`), the TLC runs that check them on small
instances and the TLAPS proofs of their main theorems.

The program turns a novel into a short drama. It is a batch pipeline of Python
processes over one directory tree: each phase reads the artifacts that earlier phases
published, asks a language model for proposals, validates them, and publishes new
immutable artifacts; mutable state is confined to small "current pointer" files.
Nothing runs as a server and nothing locks globally, so the difficult behaviour is in
the steps between file operations: two processes in one project, a process that dies
or an fsync that fails half-way, a provider call that must not be paid for twice, an
input that moves while a phase is working from it.

## 1. Inventory

| component | source | state it keeps | operations | hard behaviour | correct when |
|---|---|---|---|---|---|
| artifact store | `artifacts/store.py` | one file per (type, id, revision) | `put`, `get`, `get_ref` | link(2) race, crash before link, failed writes | an artifact is written once, whole, and answers about it stay true |
| envelopes, canonical JSON | `artifacts/models.py`, `canonical.py` | none | encode, decode, hash | numeric and Unicode edges | equal values have equal bytes |
| pointer store | `foundation/pointers.py` | head and lock file per pointer id, snapshots and supersession records as artifacts | `compare_and_set`, `resolve_*`, `active_history` | lost updates, orphans, lost answers, stale locks | a compare-and-swap register whose history is linear |
| approval and validation | `foundation/approval.py`, `validation.py`, `lineage.py` | reports and approval records as artifacts | `summarize`, `create`, `verify_approval_record`, `resolve_approval_ref` | an approval of something else, or with open findings | only reviewed targets are approved |
| A1/A2 story source and chunk plan | `story/service.py`, `source.py`, `chunking.py`, `persistence.py` | manifest, source and chapter artifacts, chunk plan; their pointers | ingest, add revision, plan, resolve | a source that moves during planning, partial publication | a resolved plan belongs to the resolved source |
| LLM client | `llm/*` | none | `generate_structured`, retry | attempts and error classes | at most the policy's attempts, only transient errors retried |
| A3 chunk extraction | `story/extraction*.py` | one extraction artifact per chunk and its pointer, batch manifest | `extract_chunk`, batch | resume, reuse against a moved plan | a chunk is extracted once per lineage |
| A4 reconciliation | `story/reconciliation*.py` | candidates, decisions, registry artifacts | plan, adjudicate, finalize, publish | order of decisions, transitive merges | every mention ends in exactly one entity |
| A5 consolidation | `story/consolidation*.py` | packets, window results, manifest | plan, concurrent semantic execution, finalize, publish | a pool with results out of order and partial failure | the result does not depend on completion order |
| A6 story analysis | `story/story_analysis*.py` | windows, skeleton, story bible | plan, window semantic, global skeleton, publish | resume of windows, lineage of three levels | analysis covers the whole story once |
| Phase A service | `story/phase_a_service.py` | none | runs A1 to A6 | a failing phase | later phases see only complete earlier ones |
| B1.1/B1.2 strategy | `adaptation/target.py`, `strategy*.py` | target and strategy artifacts, pointer | select, execute, persist | retry, lineage | a strategy follows the current analysis |
| B1.3 disposition | `adaptation/disposition_*.py` | claims, checkpoints, records, publication | prepare, claim, execute, checkpoint, resume, assemble, publish | double dispatch, power loss, changed requests | one execution per window, evidence is kept |
| B1.3 recovery chain | `adaptation/disposition_recovery_*.py` | trust manifest, audit records | audit, ratify, store | order of ratifications | only ratified recoveries are applied |
| B1.4 skeleton | `adaptation/skeleton*.py` | none | build a packet, load, validate | a chronology that is a partial order, what characters and audience know | an accepted skeleton holds in every order it allows |
| guidance | `guidance/*` | guidance artifacts | create, project | conflicting directives | projections contain exactly what applies |
| QC and workflow retry | `qc/state.py`, `workflows/*` | state of a shot | transitions, retry | exhausted retries | terminal states are final |
| rendering | `comfyui/*`, `assets/*`, `assembly/*`, `prompting/*`, `cli.py` | files | submit, poll, concat | I/O | not modelled: pure I/O and formatting |

**Interaction.** Every phase calls the artifact store for its data and the pointer
store for "what is current"; phases never call each other except through those two,
plus the LLM client. A pointer snapshot refers to a target artifact, a target to its
inputs by exact reference (type, id, revision, content hash), so a moved pointer
changes what a later phase starts from and never what an earlier phase wrote. B1.3 adds
two private directories of its own: claims (who may call the provider) and checkpoints
(what the provider's accepted answer was).

## 2. Modules

| module | models | abstract specification | proofs |
|---|---|---|---|
| `ArtifactStore` | `FileArtifactStore.put`, one action per file operation | `WriteOnceStore` | `ArtifactStoreProofs` |
| `PointerStore` | `FilePointerStore`: `compare_and_set` step by step, the resolvers as predicates | `PointerRegister` | `PointerStoreProofs` |
| `StorySource` | A1 `ingest_source_project`, A2 `plan_chunks_project`, `resolve_current_story_snapshot` over the two stores | – | `StorySourceProofs` |
| `StoryText` | A1 and A2 in memory: lines to chapters and paragraphs, paragraphs to chunks | – | – |
| `CandidatePayload` | one answer of A3: typed load, sanitizing, validation, canonical order | – | – |
| `ChunkExtraction` | A3 `extract_chunks` with `run_with_retry`, reuse and publication, and A4's resolution of its inputs | – | `ChunkExtractionProofs` |
| `EntityReconciliation` | A4 in memory: pairs, provider decisions, canonical entities, verification | – | `EntityReconciliationProofs` |
| `EvidenceConsolidation` | A5 in memory: binding, order of the text, pairs, canonical records, transitions | – | `ConsolidationProofs` |
| `BlockExecutor` | A5's two-stage executor over a `ThreadPoolExecutor` | a serial run, as a formula (`SerialSucceeds`) | `ConsolidationProofs` |
| `StoryAnalysis` | A6 in memory: packages and windows, four passes of the provider, the last check | – | `StoryPublicationProofs` |
| `StoryPublication` | A4, A5 and A6 around that work, and `analyze_story_project`: reads, reuse, revisions, pointers | `Lineage` | `StoryPublicationProofs` |
| `AdaptationTarget` | B1.1: the layers of a target, its feasibility and references | – | – |
| `AdaptationStrategy` | B1.2: what a packet and a strategy may contain | – | – |
| `DispositionPlan` | B1.3: proposals, candidates, findings, the review, the assembly | – | – |
| `StorySkeleton` | B1.4: the order of an adapted story, and what it must satisfy | – | – |
| `Adaptation` | callers of B1.1 to B1.4 over the four modules before: guards, rounds, windows, pointers | – | `AdaptationProofs` |
| `B13Runner` | `run_b13_resumable` with guard, claims, checkpoints, plans and semantic rounds | – | `AdaptationProofs` |
| `GenerationPolicy` | the two constants `Adaptation` and `B13Runner` share: the marker for nothing, the rounds of a policy | – | – |

The modules build on one another by what they abstract: `PointerStore` represents a
stored artifact by its revision, which `ArtifactStore` justifies (the content under a
revision never changes); the modules above take `put` and `compare_and_set` as one step
each, which `WriteOnceStore` and `PointerRegister` justify. `ChunkExtraction` EXTENDS
`CandidatePayload`, which EXTENDS `StoryText`: the plan of a file decides what an answer
may cite. It takes the current A1/A2 pair as a number that moves, which `StorySource`
produces; `StoryPublication` takes the moves of A1 to A3 as a counter in the same way, and
the outcome of a stage as one of a set, which `EntityReconciliation`,
`EvidenceConsolidation` (with `BlockExecutor`) and `StoryAnalysis` produce; `Adaptation`
takes the verified A5/A6 heads as a counter. Its windows are run by
`generate_b13_disposition_batch` in one process; `B13Runner` has the resumable entry.

Every module except the abstract specifications and those that only define operators has
an `MC` module that instantiates it for TLC. Definitions whose comment says "Faulty
variant" are not part of any specification: each is a plausible bug of the operator it
precedes, kept to show that the properties detect it.

**ArtifactStore.** `file[i]` is the target file of identity `i`, `temp[w]` the private
temporary of a put, `pc[w]` the next statement of `put`. Readers see `file` only. A
content stands for the canonical bytes of a valid envelope (equal envelopes have equal
bytes, so the content hash adds nothing); `Torn` for bytes that are not one. Path and
symlink checks refuse a call before it has any effect and are left out.

**PointerStore.** One pointer id (two ids share no file). A snapshot's reference is its
revision. `stored` is the set of targets and approval records that resolve. `cur`, `new`,
`known` and `request` are the local variables of a call or of its caller; `active` is a
history variable (which references were ever in the head). A crash keeps the lock file;
`RemoveStaleLock` is the operator the source expects ("stale locks are not auto-reclaimed"),
and assumes that the operator does not delete the lock of a running call. `Revs` bounds the
model: a call starts only while a revision is left (`RevisionsLeft`), and one that finds
none when it allocates fails (`OutOfRevisions`). The register it implements is a
compare-and-swap: a caller's `wish` names the reference it expects, `Commit` replaces an
entry only if it is the expected one, and a wish that was refused is forgotten, so that
nothing is committed for it later.

**StorySource.** One project, one document, one chunk profile. `source`, `chunk`,
`manifest` and the two report sets are the artifacts by revision, each with what the
calls tell apart (the text of a source; the source a chunk or a manifest pins).
`sourceHead` and `planHead` are the histories of the two CURRENT pointers, so that a
pointer reference is a position. Every read and every write of the code is a step:
`_current_pointer` is two (`ReadSourceRef` and `ReadSource`, `ReadPlanRef` and `ReadPlan`),
the recheck before publication one, the compare-and-set one. `Fails` ends a call anywhere, by
an exception or a death; in `CompareAndSet` the head may move and the call still raise. A
process that dies inside `compare_and_set` leaves the lock file as well
(`PointerStore`); every later call then ends in `PointerError`, which here is one more
`failed`. Bounds: `MaxRev` revisions, and a call starts only when the revisions suffice for
the calls under way, `Rivals` of which may contend for the last one.

**StoryText.** A file is its pages, a page its lines; a line is blank, a heading or prose
of some bytes. `ParseLines` is `_parse_lines` as a fold: a chapter ends at the next
heading, and one without a paragraph is dropped, its heading with it (`source.py:601`).
`OwnershipRanges` and `ContextOf` are the two loops of `_build_chapter_chunks`;
`StepsThatFit` is the `while ... break` both use. Token counts are those of the joined text:
a third of its bytes, with one byte between the lines of a paragraph and two between
paragraphs. `FewestChunks`, `ParagraphStarts` and `ReadsTheText` are the reference
definitions the plan is compared with; they do not follow the code.

**CandidatePayload.** The six arrays of a payload are one sequence of candidates; an excerpt
is the paragraph whose words it repeats, and its strength a place in the alphabet, because the
canonical order compares it. `IsPayload` is the shape the typed load leaves; `Sorted` is
Python's stable `sorted`. `Judge` is steps 7c to 7d of `extract_chunk`.

**ChunkExtraction.** `study` is what a behaviour is about: the plans of its files and what
each chunk makes of each answer. `snapshot` is the current A1/A2 pair, `extraction[c]`,
`report[c]` and `head[c]` what is stored for chunk `c`. The same three steps (`ReadRef`,
`ReadTarget`, `Recheck`) read a pointer for reuse before the provider call, for reuse at
publication and for A4; `use` says which. `Generate` is one provider call with any outcome:
a transient error (retried up to `MaxAttempts[p]`, a parameter of the client a process calls
with), another error, or an answer, which is judged (up to `MaxRounds` rounds, each with
fresh attempts). A batch's `request` is what it asks of the provider; one pointer per chunk
serves all requests. `paid`, `found` and `shared` are history variables. Bound: `MaxRev`
revisions.

**EntityReconciliation.** One behaviour is one run: `Init` chooses an index of candidates and a
set of must-not-merge pairs, `Plan` blocks and decides what names decide, `Answer` and
`Reject` are one provider round of a block, `Merge` one union of the union-find,
`Finalize` the derivation of the entity map and the verification of the bundle, first with
what the run knows and then from what was persisted. Block limits are those of the code
scaled down (2 pairs, 3 candidates).

**EvidenceConsolidation.** The three domains (facts, events, relationships) share their code
and nothing else, so a behaviour follows one. The order of the provider's calls is left to
`BlockExecutor`. A map in which a character's ref names a place is no map that A4 writes;
that input exercises a defensive re-check of the binding.

**StoryAnalysis.** Records are the numbers of their canonical ids. A packet's size is the
number of its records and citations, a ceiling may be deferred as in the profile's
`None`. Each pass is one action per round with every answer the bounds allow, cited records
included, and the last check (`Check`) goes over all answers.

**StoryPublication.** See the module's header: a revision has leaves, root and report, a
pointer is the sequence of its targets, and every read, write and recheck of the three
services is a step. `coherent`, `fresh`, `before`, `after`, `shared` and `overtaken` are
history. Bounds: `MaxInput` moves of the input, `MaxRev` revisions, `MaxOrphans` orphans
when a call fails.

**Adaptation** and the four modules under it. The pure parts (which target is feasible, what
a proposal may contain, which findings a review must resolve, whether a skeleton respects
its order) are operators; `Adaptation` has the callers: what they read, in which order they
check it and what they publish. A reuse of B1.2 reads its pointer twice, the reference
(`PeekStrategy`, kept in `seen`) and what it names (`ReadStrategy`), and answers both.
`from_store`'s reads of the A6 and A5 heads are one read of one counter, `source`. A check
that fails has no effect, so equal checks in a row are one; a caller that fails, dies or is
refused stops.

**BlockExecutor.** The caller's program counter `pc` follows `_execute_prepared_blocks` and
`_execute_two_stage_semantic_blocks`; `future[b]` is the work item of block `b` in Python's
pool: queued, taken by a thread, running, finished or cancelled. `Take` and `Run` are two
steps because a thread that has taken an item can still find it cancelled. What the model
answers for each block and round is fixed at the beginning but unconstrained, so that a
concurrent run can be compared with the serial one. `ordinal` is the block's `block_ordinal`,
which is not the preparation order in benchmark subsets.

**B13Runner.** Windows of one preparation, two request identities (what a changed prompt
makes of a window), claims and checkpoints as files named by both. A run's local
variables are in `run[r]`. Each checkpoint is read in a step of its own, because the
plan is no atomic snapshot of the directory. `durableClaims` and `durable` are what a
power loss cannot take; a power loss keeps any subset of the rest. `Raises` ends a run
at any step, which covers failing links and fsyncs, failed revalidation of budgets,
client and roots. `LoseAuthority` is another publication that moves a pointer the
preparation rests on; pointers only move forward, so lost authority stays lost. One
`Dispatch` is one call of `generate_structured`; the transport retries inside it
belong to the LLM client.

## 3. Runs

| run | bounds | question |
|---|---|---|
| `artifact_store` | 3 writers, 1 identity, 2 contents, fair | truth of answers, refinement of `WriteOnceStore` (nothing is overwritten or torn), every put ends |
| `pointer_store` | 2 callers, 2 revisions, 2 targets of which the one record approves the first, fair | the head loads, CURRENT_APPROVED has the approval of its own target, refinement of `PointerRegister` (no lost update), calls return, stale lock or not |
| `story_source` | 2 planners (one resolves), 1 ingester, 2 texts, 2 revisions | what is published is whole, answers are true, an unmoved snapshot is the current one |
| `chunk_extraction` | a race of 2 batches and A4 over a text that moves; 2 batches of different requests, one with a client of 2 attempts; some thirty answers for 2 chunks; 2 rounds; 2320 texts | summaries, cost and resume, grounding, and the plan of a text |
| `entity_reconciliation` | 4 candidates, 2 chunks, 4 names, 2 rounds, blocks of 2 pairs | the map honours every decision, ids follow the text, readers accept what is published |
| `evidence_consolidation` | 4 candidates, 3 chunks, 3 domains | canonical records honour decisions, follow the text, and lose no change |
| `a5_executor` | 3 blocks, 1 to 3 calls at a time, two numberings, fair | concurrency is invisible, errors, cancellation, termination |
| `story_analysis` | 3 stories, 8 profiles, 1 citation | windows partition the narrative, refusals, grounding, meaning of the main plot |
| `story_publication` | a whole analysis and a rival of A4 and A5, 2 inputs, 2 revisions, 1 orphan | completeness, staleness, truth, free reruns, refinement of `Lineage` |
| `story_reuse` | an analysis and a rival of A6, 1 input | expected violation: a reuse with a pointer ref of something else (section 5) |
| `adaptation` | 5 studies: targets, reviewed windows, skeletons, 2 callers with 1 move, 3 callers of B1.2 | accepted targets can be scheduled, the plan is what was decided, skeletons replay, answers were current |
| `b13_runner` | 2 runners, 2 windows, 2 requests, 2 proposals, 2 rounds | double dispatch, durability of evidence, truth of reports |

**Why these bounds are enough to be interesting.** Identities of the artifact store share
nothing, so one suffices; three writers give a winner, a loser with equal and one with other
content. Two revisions of a pointer let an orphan lie next to a committed one, and two
callers contend for the second; with two targets a record can be of another one. Two texts,
one planned as one chunk and one as two, give plans that share a chunk id; two revisions
give a source that moves under a planner and an orphan revision next to a published one. In
`chunk_extraction` the text of the race loses its second chunk when it moves, so that a
batch of the old and one of the new snapshot meet at the first; two requests let a batch
find CURRENT what is of its snapshot and not its own, and two attempts let technical errors
fall within semantic rounds, before and after an invalid answer. The texts of up to four
lines of six kinds (blank, two and one to a chunk, too long, heading, page break) and five
of four kinds reach every branch of the parser and the planner, with overlaps that exceed
the context budget only through their separators. Four candidates are the least with two
merged pairs that a fifth decision contradicts, and blocks of two pairs leave a pair for the
next block. Three blocks with at most three threads give calls that are queued, taken and
running when another fails. A third caller of B1.2 lets the pointer that a reuse reads be
moved between its two readings. Two inputs and two revisions let a stage be overtaken while
it works and an orphan be skipped. Three windows of one event are the least in which two
merges chain and an omission in one window reaches a beat of another. The policy of the
source has two semantic rounds; two windows are needed for a bounded run (`max_new_windows`
below the number of windows) and two requests for evidence of another request. The number of
crashes, failures and power losses is not bounded, except for the orphans of
`story_publication`.

**Fairness.** Calls and runs are sequential code that never waits for another process
(locks are refused, not awaited), so weak fairness of the steps of a running call is
what the operating system's scheduler gives. Failures are outside the fair actions:
no property relies on an error to get a call unstuck, with one exception: a provider
call that does not answer ends in the client's timeout. A5's caller does wait for its
pool; both are threads of one interpreter, each fair.

**Deadlock** is checked where the fair runs and `b13_runner` are. In the others a run of
a stage ends, or every process may have used up the bounded revisions.

## 4. Proofs

All theorems hold for any number of processes, identities, revisions, targets and
records, windows, requests, rounds, blocks and threads. The assumptions are named in the
modules: `MarkersAreNoValues`, `NoneIsNothing`, `RevsAreRevisions` and `ApprovesIsARelation`
only say that markers such as `None` are not values; `BoundsArePositive` that there is a
window and a round; `BlockBounds` that there is a block and a thread and that no two blocks
of a preparation have the same ordinal; `BoundsAreNaturals` and `CallsAreRanges` that bounds
are numbers and that a call runs a range of the stages; `RolesAreOps` and `ExtractionBounds`
that a process has the roles of the model, a policy one to three attempts (`validate_max_attempts`, `llm/retry.py:18`)
and a study a first file; `AnswersArePayloads` that an answer, once read, is a sequence of
candidates, each of an array, an id and evidence whose excerpts have one of the two roles and
three strengths (`EvidenceRef`, `extraction.py:302`), whatever it says with them;
`PlansAreSequences` that a plan is a sequence of chunks, for A1/A2
of at least one; and for A4 that there are finitely many candidates, ordered as their refs are
(`CandidatesAreNumbers`), that an index is one (`IndexesAreIndexes`, what
`validate_candidate_index_source_order` checks), that constraints are pairs and
citations selectors (`HardSetsAreOfPairs`, `SelectionsAreOfSelectors`), and that a block has room
for a pair and its two candidates and a round (`LimitsArePositive`). For A5, there
are finitely many candidates, numbered as their refs are ordered (`CandidatesAreNumbers`), an
extraction is of a chunk, has a place in it and evidence (`ExtractionsAreGrounded`, what A3's
schema demands), the domain is one of three (`DomainsAreThree`) and citations are selectors
(`CitationsAreSelectors`). For A6, a story's records are
lists and a conflict is between some (`StoriesAreCanonical`), a window owns at least one event and
ceilings are numbers (`PoliciesAreValid`; the two of the whole-story packets may be
deferred), and a proposed outline has its main proposals in a list (`OutlinesAreAnswers`). For B1, a
study's windows are a list with possible answers for each, whoever takes part in a beat is a
character or an anonymous role (`NamesCast`, the two kinds of `ParticipantKind`) and a review is
finitely many decisions (`InputsAreStudies`); a publication there is at the start was made of
valid answers and a valid review, as `_verify_historical_publication` demands of every one it loads
(`PublishedWereReviewed`).

*ArtifactStoreProofs.* The inductive invariant is `TypeOK`, "no target is torn", "a
put that is at `link` has exactly its own content in its temporary" (`PutIsConsistent`:
without it `Link` could publish anything) and the truth of answers. Immutability rests
on one lemma (`OnlyLinkPublishes`); the refinement maps `Link` to `Fill`, the answers to
`Answer`, `Begin` and `Crash` to `Forget`.

*PointerStoreProofs.* `MutualExclusion` comes first; with it, what a call has read stays
true while it is critical (`CallsAreConsistent`: `cur[p] = head`, the allocated revision is
above every active one, its snapshot and supersession are exactly the candidate when
`commit` is reached). From that follow the active history (`ActivePointersLoad`), its
linearity, the truth of answers, and the refinement of the register. That maps the start of
a call to `Ask`, `WriteHead` to `Commit`, a release after success to `Accept`, every other
return to `Refuse` and a crash to `Forget`; that what `Commit` replaces is what the caller
expected is again `CallsAreConsistent`, which keeps `expected` equal to the head from the
comparison to the write. `HeadAlwaysLoads` speaks of two recursive functions along the chain
of predecessors, `Loads` and `History`. Neither is known to satisfy its equation until a
function is exhibited that does (`LoadsUnfolds`, `HistoryUnfolds`); then the least active
reference that would not load, or the greatest that the history would leave out, is a
contradiction. The second needs one more invariant, that every active reference but the head
was replaced by an active one (`ReplacedByActive`). The theorems about torn artifacts,
immutability, mutual exclusion, linearity and replies state properties that no run checks by
name; the runs check them through the refinements, which imply them.

*AdaptationProofs, the callers.* `AnswersWereCurrent` is proved for any cases, callers and
rounds. What others do between two reads of a caller is the whole difficulty, so the
invariant (`CallersInv`) speaks of instants: the log records source and pointers after every
step, an instant in it never changes (`SharedOnlyGrows`), and everything a caller knows is
that some instant since it began had a property. `PlaceOK` says what its place in the code
tells of the reads behind it, `SelectionOK` that the pin it read names its strategy and
that, once it has read the source again, one instant had that pin and its source together,
`PublicationOK` that the slot it wrote or matched holds what it means, `WasPeeked` that a
reference B1.2 reads was that of the pointer at an instant of the call, `AnswerOK` is the
property. `HoldsOn` carries all of it over the steps of others once and for all; what is
left is one lemma per action about the caller who moves. Source and pointers only move
forward, and that closes the argument: a pointer read before and after an instant and found
the same was the same at it.

*AdaptationProofs, the plan.* `PlanHonoursReview` is proved for any proposals and decisions. Two
things are in the way. The first is that `Classes` is a fold over a set, in whatever order: a
fold of the community modules is a `CHOOSE` of a function with an equation, so one that has the
equation is exhibited first (`FoldExists`, by induction over cardinalities through the least
counterexample), and then every set of pairs gives the connected components
(`ClassesPartition`): classes that are disjoint, that no pair leaves, and that are no larger
than that demands. Merging what one more pair meets keeps this (`MergedPartitions`). From
it follows each part of the property by itself: a class of the living has one member in the plan
(`SaidFacts`), shared exactly by what is joined (`JoinedShare`); a pair kept distinct was compared
with the classes of all candidates, and what lives is in no larger class (`DistinctIsApart`); an
event omitted by its owner that another window's beat is anchored in is a finding, and a finding that
is resolved has no such beat left (`OmittedIsOmitted`). The second is that the callers publish what
they accepted many steps before, across failures, rounds and checks: `ReviewInv` says for each
place in the code which answers were judged and what was decided (`Phase` is where a caller goes
after the check of its authority it is in), so that what is put was reviewed.

*AdaptationProofs, the windows' run.* Every safety property of `b13_runner` is proved. The
heart is that a run executes only while it owns the flock, so that claims and checkpoints
change under nobody who acts on them, and that a checkpoint, once seen, stays as it was seen
as long as the run lives (`RunIsConsistent`). Per window, `WindowIsConsistent` ties the three
traces of an execution together: a provider call was preceded by a durable claim, a
checkpoint by its claim, and at most one request owns both. `ExecutionIsConsistent` is
what holds between the claim and the end of an execution: this process wrote the claim,
so there is no checkpoint yet and the number of calls is exactly the round reached.
Without it, "at most `MaxRounds` calls" is not inductive: a run that entered execution
of a window already paid for would exceed it.

*ConsolidationProofs, the executor.* Every safety property of the run is proved. The invariant has one
clause per phase of the calling thread (`SerialIsConsistent`, `WindowIsConsistent`,
`FailureIsConsistent`, `RetriesAreConsistent`, `EndIsConsistent`) and one for the pool
(`PoolIsConsistent`): a work item that is not watched any more has settled. That is what
makes the threads harmless: a thread only moves a watched future, and in every phase in
which nothing is watched the pool can take no step. `FailureIsConsistent` carries the
error through cancelling and draining: a call that was begun is watched or its error is
recorded, so that the minimum is over all of them.

*ConsolidationProofs, the work in memory.* The three properties of `evidence_consolidation` are
proved for any candidates, extractions, decisions and citations. `ConsolidationInv` says
what each stage leaves to the next: the plan is that of the index (`Planned`), each decision
is of a known verdict and cites evidence of its two candidates (`Grounded`), the records are the
components of what was joined (`canon = Canonical(Roots)`), and transitions and conflicts
are exactly the decided ones, each once (`Kept`). The steps keep it easily; what has to be
shown is what the operators return.

- The unions are folded over the pairs (`FoldExists`, `FoldsAlong`, as for A4). A union joins
  two classes and separates none (`UnionJoins`), so that after all of them the classes are
  closed under the pairs and within every closed set (`RootsJoin`, `RootsAreComponents`): the
  order of the decisions does not matter.
- Records are cut by sorting the classes by their first candidates and each class by the
  text (`EnumerationProperties`, `CanonicalRecords`); the id of a candidate is the number of
  the one record that has it (`IdsAreOfRoots`).
- The history of a relationship is told member after member; `Agree` holds of each prefix that
  the history so far spreads to the states told so far, with one spell less for each repetition,
  and its orders grow (`HistoryStep`).
- A transition leads from an earlier record to a later one because a change or a conflict
  forbids the merge: the records differ (`ContradictionsAreForbidden`, `KeptFacts`).
- The last comparison never refuses (`AssemblyIsCoherent`). One of its refusals, members of a relationship with
  different endpoints, cannot happen because pairs of relationships are planned only
  between equal endpoints (`EndpointsAgree`).

*StorySourceProofs.* Every property of `story_source` is proved. Pointers only go up
(`HeadsGoUp`), and that carries the rest. A call that read a pointer, ref first and target
second, knows a target that was CURRENT at that ref or later, and that still is while the
pointer has not moved (`Knows`). So the revision a call allocates above it is above everything
that was CURRENT when its compare-and-set succeeds, and what it wrote under that revision is
its own, because puts are conditional: `CallsAreSound` has one clause per step for it.
`UnmovedSnapshotIsCurrent` is why the later stages may compare two refs instead of two
contents: a ref that is read again names what it named before.

*ChunkExtractionProofs.* All properties of `chunk_extraction` but `PlansReadTheText` are
proved, in three layers. The first (`BaseInv`) is about the stores and the calls under way: every outcome a
call has collected is an intact extraction of its snapshot that the pointer named at the
ref given (`IsDone`), and an outcome stays true because pointers only grow. The second
(`HistoryIsSound`) is about money: what a call has paid for a chunk is at most
what the rounds and attempts of its client that it has used allow, nothing for the chunks ahead of it, and a call that runs
alone still finds current every chunk that was when it began, so that it reads the chunk
before it could pay for it. The third (`PayloadInv`) is about content: what is stored for a
chunk, and what a call is about to publish, is what *that* chunk of *that* text made of one of
the answers (`IsJudged`), however many calls race for the chunk. With the first layer, what a
batch or A4 is given is judged, chunk by chunk (`FoundIsJudged`), and `ExtractionsAreGrounded`
is then about `Judge`: an answer is sanitized, validated and sorted, and each of the three
must keep what the one before it established. The sort is a stable one by key; places in a weak order
are ranks, and ranks are a bijection, so that sorting loses and invents nothing and leaves
no neighbour out of order (`StableSort`). That no paragraph is primary evidence of two chunks
is the coverage check of the plan, which counts the owners of a paragraph
(`TextsAreRead`).

*EntityReconciliationProofs.* Every property of `entity_reconciliation` is proved, for every
index, set of constraints, limit, answer and citation. The invariant of the steps is short:
plan and blocks are those of the index (`PlanInv`), the blocks are asked about in order and
the calls of the current one are its rounds (`AskedInv`), components are of one kind and a
`same_entity` pair is merged or waits in `todo` (`MergeInv`), and the map is that of the
decisions (`MapInv`). The work is in what the operators compute:

- `Pack` and `FirstOccurrence` are folded with `FoldLeft`, which the community modules define by a
  recursive function. `FoldExists` shows that there is one, and the fold is followed
  along the sequence (`BlocksAreWellPacked`: every open pair is in exactly one block, within both
  limits; `FirstOccurrencesAreUnique`). Induction is over a set that holds 0 and the successor
  of each of its elements (`SetInduction`).
- `Ordered` and `Canonical` choose the k-th element of a finite order; ranks are a bijection
  (`RankIsABijection`), so each element is chosen once.
- The map: a component shares its doubt, its group and its kind (`ComponentProperties`); a group is the
  least closed set around each of its members, because the complement of a closed
  set is closed (`GroupProperties`); so entities partition the candidates
  (`MembersProperties`), two candidates have one target exactly if they are of one entity, and the
  number of an entity counts a strictly larger set than that of an earlier one
  (`TargetProperties`).

*StoryPublicationProofs.* Every property of `story_publication` is proved. The invariant has
one clause per question a step depends on.

- What a call knows (`CallsAreConsistent`): the upstream it resolved was CURRENT at the
  pointer ref it captured; if its own pointer has not moved since it read it, its revision is
  above everything that was CURRENT; what it has written so far is there, under its number.
  Each clause stays true while others step because the stores only grow (`Grow`): a put never
  replaces, a pointer never forgets.
- Pointers only go up (`Sorted`). This is what turns "the pointer moved" into "the revision
  that is CURRENT now is higher", and so gives the lineage its order.
- A revision that is CURRENT, or that a call is about to publish, is settled
  (`CurrentIsSettled`, `WorkIsSettled`): complete, not overtaken, and no other call holds the
  same number and input with work that is not fresh. The last part is the one that is easy to
  miss. Two calls may race for one revision with equal content, and both puts succeed; without
  it, the slower one could mark the revision as overtaken after the faster one published it.
- Overtaken work is older than its upstream's CURRENT (`OvertakenIsOld`), and never A4's,
  which rechecks before it writes. When A5 or A6 finds its upstream unmoved after the last
  put, the revision therefore is not overtaken, whoever wrote it (`StableIsSettled`).
- Every answer, of a call under way or ended, is true (`AnswersHold`), and stays true because
  what was CURRENT keeps its place and its content (`AnswerStays`).

`AloneIsServed` rests on a second invariant (`AloneInv`) about the calls no other overlapped. A
call is alone exactly while it is not `shared`, so what it read is still so when it compares
again (`StillTrue`), and the slots it found free are free when it writes: it is never refused,
whatever half-written revisions others left. The stages it has answered for are made one from
the other (`Built`), because each answered with what is CURRENT at that moment. And if the
chain was whole at the start (`Rerun`), it stays whole, since every stage then finds its
CURRENT root to match and goes on to reuse it: no step of such a call leads to the provider.

The refinement maps a step that appends to a pointer to `Publish` of `Lineage`, the moves of
A1 to A3 to `MoveInput`, and everything else to a stutter; what a revision was made from is
read from its root, which a CURRENT revision keeps (`MadeStays`).

*StoryPublicationProofs, the work of A6.* All three properties of `story_analysis` are proved, for
any stories, profiles and answers. The invariant (`AnalysisInv`) follows the four passes.
The windows are those of the plan from the first step on (`WindowsOK`), so that everything about them is
arithmetic: window `k` owns the events from one multiple of the window size to the next, and
quotients say which (`Multiples`, `Quotients`, `EveryEventHasAWindow`, `OneOwner`). A packet that
is too large is so in the plan, hence such a run is refused with no call made (`CeilingsOK`); with
this a refusal later can only be for a ceiling of the whole-story packets. What is kept of an
answer is within what its packet let it cite (`DossiersOK`, `ReadingsOK`), and what a packet
shows is followed to the records it was made of (`CharactersAreGrounded`,
`WindowsAreGrounded`). Outline and bible are valid answers and the bible took its main proposals from
the outline (`WholeOK`), from which the last check cannot fail (`AnswersAreCoherent`): the ids
it compares were given by position, and each main proposal has one (`MainProposals`). The
bill needs two inequalities at a time, calls against rounds and rounds against answered
requests (`AccountsOK`); "at most two calls per request" alone is not inductive.

**Only model-checked:** liveness, and what `Adaptation` says of targets and skeletons
(`TargetsAreSchedulable`, `SkeletonReplays`). What the recursive functions of
`StoryText` (`PlansReadTheText`), `StorySkeleton` and their like compute for every input would need
the same unfolding as the folds of A4, A5 and `Classes`, for each of them.

## 5. What the checks found

**A reuse with somebody else's pointer ref** (`story_reuse`, expected violation).
`_current_a6_pointer` resolves the pointer's ref and then its target in two reads
(`story_analysis_persistence.py:213`), and nothing compares them again; when another
publication lies between them, `try_reuse_current` of A6 answers the new manifest with the
old ref, although its docstring (line 182) promises an exact, currently published hit. A4 and
A5 read the ref once more after the verification and refuse.

**Observations that contradict no text a run checks.**

*Stores and A1 to A3.* An `ArtifactConflictError` may be raised for equal bytes when the existing
target cannot be read (`artifacts/store.py:175`), so `RepliesAreTrue` claims only that the
identity is taken. `resolve_current_story_snapshot` reads A1 before A2 and does not look at
A1 again, and `plan_chunks_project` rechecks A1 before, not in, its compare-and-set: together
with an ingest a resolver can pair a source with a plan that were never current at one
time (the comment at `story/service.py:137` speaks of a stale manifest only). The guard of
the later stages catches it (`UnmovedIsCurrent`); `extract_chunks` has no such guard and works
for a snapshot that A4 refuses. A batch of A3 that resolved its snapshot before the source
moved supersedes the extraction of the newer one (`extraction_persistence.py:923`), until a
newer batch runs. A heading without a body is dropped with its title (`source.py:601`). That
a profile's context budget is at least ownership plus twice the overlap does not bound the
joined context, because separators add bytes; the check of the total does
(`chunking.py:436`).

*A5 and A6.* Transitions follow the order of canonical facts, and a "continuity-relevant"
pair (docstring at `consolidation.py:1689`) is what the provider calls so; no check enforces
it. The typed load of the outline happens after the rounds in `resolve_global_skeleton`, so
that an answer it rejects ends the run instead of another round, as the docstring of
`story_analysis_global_skeleton_semantic.py` (lines 28 to 36) has it; ids are by position, not
by `proposal_ordinal`. The bible's pass loads each answer within its round.

*B1.* `try_reuse_current` of B1.2 has the two readings of A6's: the pointer's reference
(`strategy_execution.py:392`), then what it names (393), both answered at line 411 with no
comparison between or after them. When another caller publishes between the two, an accepted
strategy is answered with the reference of the pointer before it. `AnswersWereCurrent`
therefore claims no more than that the reference was current at or before the instant at which
the strategy was. Unlike at A6 this contradicts no docstring or test
(`tests/test_adaptation_strategy_execution.py:129` checks the type of the reference), and
B1.3 does not take the pair over: it resolves reference and target itself and reads the
reference again (`disposition_preparation.py:124` to 128 and 167).

`execute_b12_strategy` does not regenerate after an `AdaptationTargetError`, and the
source may move between its last guard and its compare-and-set; what it answers was current
when it last looked (`AnswersWereCurrent`). A rejected context beat that others map to or that
has participants can never be assembled, which fails closed as
`tests/test_b13_disposition_assembly.py:207` wants. A review in which every finding is
resolved does not guarantee an assembly: a merge member that another window maps to a beat of
its own yields no finding. The last head reads of B1.3 are redundant for `AnswersWereCurrent`,
since source and pointers only move forward.

## 6. Not modelled

Canonical JSON, hashing and schemas (data); path, symlink and ownership checks (they
refuse a call before any effect); prompts, redaction and HTTP of the LLM client; the B1.3
recovery chain (audit and ratification of checkpoints from one incident, a chain of one-off
manifests) and its feedback session; guidance (pure projections of immutable artifacts);
QC and workflow retry, rendering, ComfyUI, ffmpeg and the command line (I/O, apart from the
story pipeline); recursion depth of the interpreter (`_load_pointer_ref` recurses along the
history). Within the modelled parts: user directions of B1.2, corruption of artifacts other than
by a crash, and errors of JSON schemas, which are one more invalid answer. `PROJECT.json`
lists every component with its status.

## 7. What could come next

1. The approval of B1.1 to B1.4 results in front of CURRENT_APPROVED, composed with
   `PointerStore`.
2. B1.3's feedback session, and `B13Runner` as an implementation of what `Adaptation` takes as
   the windows' outcome.
3. Guidance projection and the state machine of `qc/state.py`.

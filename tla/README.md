# NovelWriter in TLA+

NovelWriter writes a novel chapter by chapter. For each chapter it runs a graph of language-model
agents, pauses when a human has to decide, and commits the result to a graph store (Neo4j), a
vector store and SQLite. Before the first chapter a macro compile makes the plan of the story, a
DAG of anchors the chapters work through. These modules model what decides whether that works: the
control of the chapter graph, the stored run that several threads share, the commit over three
stores, the plan with everyone who builds, edits and consumes it, and the way from a text to what
the graph store remembers of it. What the models write is a choice; what the code does with it is
not.

Paths below are relative to `src/backend/app/`; `graph.py` and `service.py` are in
`services/workflow/`.

## The system

| Component | State it keeps | Operations | Talks to |
| --- | --- | --- | --- |
| Chapter graph: `build_chapter_graph`, 20 nodes and their routes (`graph.py`, `nodes/`) | `AgentWorkflowState`, a dictionary passed from node to node | one node at a time, each in a thread with a timeout | run repository after every node, the stores in the last ones |
| HITL decisions: eleven endpoints under `/workflows/{id}/hitl` (`api/routes.py`, `apply_hitl_*` in `service.py`) | none of their own | read the row, check that it waits, edit, write it back, schedule the executor | run repository, story repository, graph store |
| Executor: `start_run_chapter`, `execute_stored_run` (`service.py`) | its copy of the run's state | run the graph from `resume_from`, record a failure | graph, run repository |
| Commit and replay: `commit_to_databases_node`, `replay_state_transaction` | a row of `state_transactions` | graph mutations, documents, chapter, runtime, topology, cast, marks in between | all stores |
| Run repository and recorder | `workflow_runs`, `workflow_steps`, `hitl_actions`, `state_transactions` | whole-row writes, without locks or versions | SQLite |
| Anchor runtime and topology (`domain/story_runtime.py`, the guardrails of `service.py`) | `story_runtime_json`, `anchor_nodes_json` | unlock, guard a selection, resolve, delay, inject, merge at commit | story repository |
| Macro plan and compile (`service.py`, `anchor_service.py`, `story_repository.py`) | the plan, `macro_compile_status` | compile under a lock, check, store, edit, replace the cast | LLM, story repository, graph store |
| Extraction (`extraction.py`, `chapter_pipeline.py`, `nodes/extraction_gate.py`, `nodes/state_updater.py`) | the artifacts in the run's state | ask in parallel, fall back, gate, repair, identify, turn into mutations | LLM, graph store |
| Graph store (`graph_store.py`, Neo4j or in memory) | nodes and edges with a life cycle and who knows of them | apply mutations, replace the cast, show a narrator what he knows | |
| LLM client (`llm.py`) | none | one request: stream, fall back, repair the JSON, fail by status | the provider |
| Story repository, vector store | the story, its chapters, its documents | reads and writes | |
| Agents, graph RAG, masking, bible service | none | turn state into prompts, answers into verdicts | LLM |
| HTTP API, settings, logging; frontend; tests, scripts, infrastructure | none the server depends on | | |

What makes this hard is not the graph, which is sequential, but what surrounds it. Two fields hold
drafts and four nodes write them. Three retry loops share one node. Decisions reset counters at
their own discretion. A pause becomes visible in the database before the task that caused it has
ended. Every writer of a run writes the whole row from a copy. A node that times out cannot be
stopped. The commit spans three stores with no transaction across them. The plan of a story is one
row that compiles, saves and runs read and later write whole. And the graph is changed by what
parallel requests happened to answer, seen through the eyes of one narrator. `PROJECT.json` lists
these hazards with the line at which each bites and the properties that watch it.

What makes each component correct:

- **chapter graph**: the archived text went through every gate and belongs to the graph mutations
  archived with it; every execution ends; a run at rest can be answered;
- **executor and decisions**: no run is stranded, none claims to be complete without a chapter, no
  accepted decision disappears, no chapter is committed twice by a run;
- **commit and replay**: a flag of a transaction is true of its store, COMMITTED means all three
  stores, a resolved anchor stays resolved;
- **anchors**: unlocking follows the dependencies, and what a completed chapter resolved is never
  lost;
- **macro plan**: one compile at a time, none once a chapter is completed; what is stored is a DAG,
  and plan and graph have the same cast;
- **macro compile**: whatever the planner model drafts, the plan divides the story, spends its
  words, keeps what the author pinned, and can be worked off to its end; a later save refuses it for
  one reason only, a volume for which no chapter was left;
- **extraction and graph**: only relations the types and the plan allow are kept, nobody is in two
  places, and every extraction ends.

## The modules

### ChapterWorkflow

One run, one executor, one human. There is one action per graph node (some split by verdict:
`PlanApproved`, `PlanRejected`) and one per kind of decision, with the routes inside them, since a
LangGraph route only reads what its node returned. `StartRun`, `ExecuteStoredRun` and `NodeFails`
are the executor. `node` is the node that runs next; `"idle"` is a run nobody executes.

Variables have the names of the fields of `AgentWorkflowState`. A draft is an identity, and the
only thing known of an extraction is the text it was made from. Three texts suffice: two are in
use when a third is written, and an identity that has gone out of use is used again. Counters are
kept up to limit + 1, since the code asks no more of them than whether they exceed the limit. The
ghost `vouched` records which texts passed which check, or were let past it by a human who
resumed the run behind it.

One pause is more generous than the code of today: the director's B_STORY cooldown depends on
`recent_b_story_types`, which `start_run_chapter` only ever sets to the empty list
(`service.py:1270`), so it never fires. The model lets it.

### RunExecution

The same run as seen from its row in `workflow_runs`. A request of a human is three steps (read the
row, write the decision, let the scheduled task fetch the row), a task is a step per node, and
every step writes the whole row from the task's copy (`record_and_update_run`). Any number of
requests and tasks interleave. Nodes may raise (`Raise`), time out and leave a thread behind that
writes later (`TimesOut`, `LateWrite`), the recording of a failure may fail (`IsLost`), the process
may stop (`Crash`). The nodes are those of ChapterWorkflow reduced to what they do to the row's
status, its flag, `resume_from` and the decisions in it; `author` stands for everything between
the plan and the commit.

Three ghosts tell when the system was on its own: `decided` holds the accepted decisions,
`shared` says that two threads were at work on the run at the same time, `orphaned` that a crash
or a lost task left the run to itself. ChapterWorkflow assumes that the row and the executor's
state are one. The properties `AloneNothingIsLost` and `AloneCommitsOnce` say exactly when it may.

### ChapterCommit and ChapterSaga

The last three nodes, write by write, and `replay_state_transaction` beside them.
`update_state_transaction` is the read and the write that it is, on two connections. The graph
mutations are auto-committed statements, so a failure leaves a part of them (`PartOfGraph`). With
`Overlap` any number of commits and replays of a story are under way at a time; without it, one.
A replay does not write the runtime, the topology and the cast, as in the code.

ChapterSaga is what a commit promises: a transaction over three stores that may fail, may be taken
up again, and is committed only when all three have it. `ImplementsSaga` is the refinement.

### AnchorPlan and StoryPlan

AnchorPlan is the plot DAG and what the code computes from it, as pure operators: the derived
statuses (checkpoints and endings resolve themselves), the candidates of `recompute_anchor_unlocks`,
the guardrails of a selection, the validation of a save, the repair of the main storyline, and the
merge a commit makes of resolved anchors. Recursion is written as recursive functions over rounds.

StoryPlan is everyone who writes the plan of one story: background compiles (`BeginCompile` is the
compare-and-set that is the lock, `MacroCompile` the second look at the completed chapters,
`StoreCompiled` and `ReplaceCast` the two writes), a human who takes a snapshot, edits it and saves
it (`GetSnapshot`, `PutMacroPlan`, `StoreEdited`, `ReplaceCastEdited`), and the run of a chapter as far
as it reads and writes anchors (`StartRunChapter` to `UpdatePlanOfRun`, the last of which writes the
nodes the run holds, however old). Any step between two writes may fail and the process may stop.
Bible, volumes, storylines and cast are one version, `frozen`, since the code compares them as a
whole. A version stands for the chapters of its volumes (`Ranges`), which a save looks at before it
looks at the nodes: a compile may store volumes a save would refuse. Edits are the least that touches the DAG: none, a node removed, a node added, any claim about
statuses that the client could have been shown.

Four ghosts say when a promise is off, and no more: `raced` (somebody wrote the story while another
held what it had read of it), `torn` (a plan was stored, its cast never reached the graph),
`orphaned` (a compile ended without leaving a status), `careless` (a human, or the director's model,
aimed at or declared resolved what was not unlocked, which the code accepts). `Overlap` lets the
writers overlap; without it each has the story to himself.

### Fishbone and MacroCompile

MacroCompile is `compile_macro_plan`: two attempts at the planner, the checks of notes and language,
the fall-back volumes, `_normalize_macro_plan` with its bounds and word budgets, the allotment of the
author's subplots to storylines, the DAG, and its checks. The volumes the model drafts are an input
of any quality. Volumes that are replaced bring other words, so their language is judged anew
(`WithVolumes`). Without a model nothing is judged (`NoModel`): `_build_mock_macro_plan` has an empty
cast and anchors that cite no note, and hands the fall-back's volumes on. Fishbone is the construction of the DAG, a fold over the volumes: the main line,
series arcs that go on where they ended, volume arcs, beats, checkpoints, the ending. What the code
draws from a random generator (numbers and lengths of arcs, where they start) is a choice. Only the
functions a compile reaches are modelled; the weaving of `anchor_service.py` lines 350-400, 932-997,
1030-1596 and 1775-1936 is called by nobody.

### LlmClient, RelationGate and ChapterMemory

LlmClient is `invoke_json` as a small machine over one call: a request is streamed if the settings
say so, repeated plainly when a structured stream is refused, and its JSON is repaired a bounded
number of times. RelationGate is what the validation gate does with relations, as pure operators:
resolution of endpoints, direction rules, duplicates, the planner's causal and temporal links.

ChapterMemory composes both: entity and memory requests in parallel, relation batches in parallel
and merged in the order in which they come in, a second phase for events, the gate with its repair
rounds, the identifications of the extraction gate, `state_updater`'s mutations against the part of
the graph its narrator may see, and `apply_mutations` statement by statement for the store that is
configured (Neo4j keeps a part when it fails). Of the graph only nodes and
`LOCATED_IN` edges are kept, since they alone have a life cycle; other relations are checked and
dropped. `SavePlan` is the replacement of the cast a save of the plan makes at any moment. The ghost
`blind` says that a chapter moved somebody whose place its narrator could not see.

## The runs

| Run | Instance | What it shows |
| --- | --- | --- |
| `workflow_safety` | 3 texts, scores on both sides of the pass score, retry limits 0/1/2, every decision | the archived text was supervised, reviewed if asked for, passed the language gate and fits its extraction; a run at rest can be answered |
| `workflow_liveness` | the default limits, started at every node with every value of every counter a human can leave | every execution comes to rest; one execution writes at most `DraftLoopRetryLimit + ExtractionHitlLimit` drafts |
| `commit_serial` | 2 commits of a chapter, 2 replays, one after the other | flags and stores agree with the saga; resolved anchors only grow; a commit that ran to its end is in the story for good |
| `commit_overlap` | 2 commits and a replay at the same time | a flag is true of its store, COMMITTED means all three |
| `story_writers` | two compiles, a save and the run of one chapter in any order, with failures and a stop of the process; a plan of two anchors and one a human may add; three versions of the volumes, one with an empty volume | the compile lock holds, every stored plan is a DAG, plan and graph have one cast, a completed story changes only in a race, a compile ends |
| `story_anchors` | two volumes with a checkpoint, three chapters, a save, an injected anchor, one writer at a time | anchors are resolved in the order of the DAG and survive edits |
| `macro_compile` | 12 chapters in 3 volumes; drafts out of order, overlapping, with gaps, beyond the end, too few; nine hints, of which some are for no volume | the plan divides the story, spends its words, keeps what was pinned, passes its own checks and can be resolved to its end; a save refuses it only for a volume without chapters |
| `chapter_memory` | two chapters told by two narrators, two batches, one repair of JSON and one of relations, a failed write or a save | kept relations are sound, nobody is in two places, every extraction ends |
| `execution_tasks` | a run, 2 requests, a first task with timeouts | RUNNING is attended, COMPLETED is backed by a commit, nothing is lost or committed twice while the run is not shared |

Three more runs have counterexamples (`commit_cast`, `memory_return`, `memory_save`). Each checks one
sentence of the repository's documentation or tests; see Findings.

The bounds are small but let everything happen. Limits of 0, 1 and 2 make a first rejection exceed
one limit, a second another and a third the last. Two commits of one chapter and one replay are
the least that let one mark be written from a row read before another's mark, and a third thread
change the store in between. Two requests and the task they find make three writers of one row,
each of which may read before and write after each of the others. What does not depend on the
bounds is proved (below).

The named bounds of the later modules: `MaxChapters`, `MaxSaves` and `MaxSelected` in StoryPlan (the
code selects two anchors at most; one is enough where a chapter can resolve one and a human force
another); two compiles, since a third finds the lock as the second does. In ChapterMemory
`MaxChapters`, `MaxTroubles` (failed writes and saves of the plan, taken together), and the code's own
`MaxJsonRepairs` and `MaxAlignRetries`, at one repair each.
Two chapters are enough for somebody to move away from where an earlier chapter put him, three for
him to come back. In MacroCompile three volumes are the least with a first, a middle and a last one,
and the anchors of a volume range over the code's own minimum and maximum.

Under `Overlap` neither `ResolvedAnchorsOnlyGrow` nor `FinishedCommitReachedTheStory` holds: the
commit reads `story_runtime_json`, merges into it and writes it whole, and of two that overlap one
loses its anchors. No document promises otherwise, so this is stated here and not as a finding.

`CHECK_DEADLOCK FALSE` stands in the configurations because a run may really stop: at its end, or
waiting for a human who never answers.

## Fairness

Three modules have any, and each has what goes on by itself:

- ChapterWorkflow: `WF_vars(Executor)`. The background task goes on once `execute_stored_run` was
  scheduled, each node either returns or times out, and a timeout is a failure (`NodeFails`).
- StoryPlan: `WF_vars(CompilerStep(c))` for each compile. The background task has no lock to wait
  for; a stop of the process takes it away and sets `orphaned`, which `CompileEnds` excludes.
- ChapterMemory: `WF_<<stage, calls>>(Extracting)`. Every request has a timeout, so it ends somehow. What it
  answers is never fair: an extraction ends because its repairs are counted.

Nothing obliges a human to start, save or answer anything, and no verdict is fair: the loops end
because of their counters, not because a model eventually writes a good draft. RunExecution,
ChapterCommit and MacroCompile state safety only.

## The proofs

The proofs hold for every value of the constants, that is for any number of commits, replays,
requests and tasks, of texts, plans, compiles, chapters, saves, nodes and answers of a model. They
assume what the modules name:

- `WorkersAssumption`, `PayloadAssumption`, `RowsAssumption`: commits and replays are distinct; `None`
  is no row;
- `TasksAssumption`, `LateAssumption`: the first task is no request; `None` is no state;
- `BibleAssumption`: a version has a range of chapters, any two numbers, for each volume;
- `PlanAssumption`: a compile comes up with plans whose nodes are valid, and there is a volume. That
  MacroCompile builds no other is part of the theorem `OnlyEmptyRefused`;
- `GateAssumption`, `ClientAssumption`, `MemoryAssumption`: the nodes are finitely many, the planned
  events are of type EVENT, and what a model answers has the shape its schema enforces. Nothing is
  assumed about what it says;
- `CompileAssumption`: drafts and hints have the shape their schemas enforce, with any numbers in them,
  and there are no more volumes than chapters. The code takes `max(12, words // unit)` chapters and
  `max(3, ceil(words / (unit * macro_chapters_per_volume)))` volumes, so that holds unless the setting
  (10 by default, `core/config.py:85`) is 1.

Two theorems have a hypothesis of their own. `~Overlap`, in three theorems of ChapterCommit, is the
instance with one worker at a time. `CopyeditorEnabled`, in `CheckedIsCommitted`, is the default
(`core/config.py:52`): with the copyeditor off the language gate looks at `current_draft`, and what is
committed is `best_draft_content`, so the property is false there.

**ChapterWorkflow_proofs**. All seven safety properties of a run, from one invariant. Each of its
parts is what one check leaves behind on the way to the commit: `Supervised`, `Reviewed`,
`Extracted` and `LanguagePassed` say of every node beyond the check (also of the node a paused run
will resume at) that the text which would be committed from there has passed it, and of the
envelope of the commit that its text has. `Controlled` says that the pause flag and the node agree,
without which a decision could resume a run at a node it must not be at; `Archived` that nothing
goes on after the commit; `Budgeted` counts the author's runs by the counters that allow the next
one. A node that only moves on, and a decision that only chooses where to, are dealt with once.

**ChapterCommit_proofs**. `TypeCorrect`; `FlagsAreTruthful` and `CommittedMeansApplied` in every
interleaving. A flag is written back from a row read earlier, so an invariant about the stored rows
alone is not inductive: it has to speak of every copy of a row, the ones held between the read and
the write of a mark and the ones replays were started with. That is enough because no store ever
loses what it has (lemma `StoresGrow`). `SerialAnchorsGrow` and `SerialCommitReachesStory` add
that one worker is active at a time, so the anchors it read are the anchors there are.
`CommitImplementsSaga`: each step of the serial commit is a step of the saga or a stutter. The
invariant needed is that the row a worker is about to write back is the stored row, so that a mark
moves the outcome only the way the saga does.

**RunExecution_proofs**. `TypeCorrect`; `RunningAttended` needs to know only that a task at its end
has a settled status in its copy (`EndsSettled`); `CompletedBacked` speaks of every copy (`Backed`).
`AloneKeepsDecisions` and `AloneCommits` rest on `Alone`: while the run is not shared one task is at
work at most, its copy is the row, no straggler is left, nothing waits when a node that does not
answer a pause is about to run, and after a commit nobody can be sent to the commit again.

**Rounds_proofs**. Recursive functions and folds. An induction theorem that takes the statement as an
operator is out of the prover's reach, but one about a *set* of numbers is not: `Induction` follows
from the least number that is not in it, which `WFMin` provides. From it: a sequence of rounds of an
operation exists and is unique (`RoundsExist`, `RoundsOf`); rounds that only add to a finite set are
over after as many as it has elements (`RoundsSettle`); the library's folds, which choose a function
on sets of places, go one place at a time (`IterationExists`, `IterationSteps`).

**AnchorPlan_proofs**. What the code computes from the plot DAG, for every finite plan. The rounds
that derive the statuses reach the least set that is closed under settling (`DerivedIsSettled`,
`DerivedIsLeast`). The rounds of Kahn's algorithm leave the greatest set of nodes that depend on each
other, so a plan passes the search for cycles exactly when every set of its nodes has one that
depends on nothing in the set (`AcyclicMeansFounded`). The walk back from a set of nodes and the
component of a node are closed under what they follow (`ReachingIsClosed`, `ComponentIsClosed`).

**StoryPlan_proofs**. `TypeCorrect`, from the lemmas that an edit, a repair and an injected anchor make
plans of plans. `CompileLock` is inductive as it stands. `FrozenOnceCompleted` needs `Checked`: without
a race, nobody holds an unchecked bible once a chapter is completed, since the commit that completes
it takes note of whoever holds one. `StoresHaveOneCast` needs `Pending`: the version that waits for its
second write is the stored one. `ResolvedSurvive` needs `Held`: what a save was accepted against is the
plan as it is, and the nodes a run holds are those of the plan, or those and one more. The run
`story_anchors` checks it with one writer at a time; the theorem holds with overlapping ones too.
`StoredPlansAreSound` needs `SoundOnes`: not only the stored plan is a DAG without unknown
dependencies, but each one somebody is about to store; that an injected anchor and the repair of the
main line keep it one is what `AcyclicMeansFounded` is for. `ResolvedInOrderHolds` needs `Ordered`: in the
stored plan, in a save on its way and in a run, whatever is resolved, claimed or aimed at has all it
depends on derived from what is resolved.

**ChapterMemory_proofs**. `TypeCorrect`; `KeptAreSound`: whatever the gate has passed was sound for the
nodes it knew, nothing changes these before the extraction ends (`Checked`), and that rests on
requests being under way in their own stage only (`Controlled`). `OnePlace`: when `state_updater` has made its
list, there is for each prefix of it a set of places that may be open by then, and whom the next
mutation places is in none of them but the new one (`Tracked`, kept by each relation that is folded
in, `PlacedStays`). If the narrator saw every open place of those he moves, the store's open places
are among the foreseen ones after any prefix that was written (`WrittenIsSingle`); a save of the plan only
takes edges away, so it may come in between (`PlacingStays`).

**MacroCompile_proofs**. The invariant says what there is in which phase and what it was made from; what
it takes is what each step makes of its input, and the steps are folds, followed with
`IterationSteps`. `BudgetsSpent`: while the volumes are paid one after the other, the words left are never
overdrawn by more than one for each volume that got the least (`SpendSafe`), and the last one takes
the rest. `VolumesApart`: sorting keeps the drafts (`RankFacts`: ranks are places, and no two the same),
a volume starts behind the end of the one before, and the fallback's volumes go through sorting and
clamping as they are because their lengths add up to the story (`ComeFacts`). `NothingUnchecked` needs
to know which way an answer came (`Vetted`): it was accepted after its volumes were repaired, or nobody
was asked and it is the fallback. `PinnedTaken`: when the storylines are built there is `Room` for what the
author pinned to a volume, as many arcs as hints and a beat of its own for every hint. A hint that is
still free to the last is there for each storyline that looks for one, so each of them finds another,
and one more hint is taken than there are (`HintTaken`).

Four theorems are about the plot DAG, for any number of volumes, anchors, arcs and beats and whatever
the generator chooses. That each dependency is in the list (`FishboneTyped`) is not enough for them. What
is carried through the folds is what the code never says in one place: which nodes may depend on which
(`Trunk`, `Joint`, `Rib`), that a series arc has begun a later volume behind the checkpoint before
(`Staged`), and that whatever nobody follows in its volume is among the tails a checkpoint will gather
(`Loose` while a volume is built, `Gathers` once it is, `Bound` when the short beats have joined).
`FishboneStands` says that the finished plan is `Fished`, and the invariant of MacroCompile has it in
every phase from the topology on. Then:

- `OwnPlanAccepted`. A checkpoint gathers short beats that come later in the list, so the order of the
  list does not show that there is no cycle. The main line and the short beats depend on nothing but each
  other, on nodes that come earlier, so of a set of nodes that has one of them the least of those depends
  on nothing in it; of any other set the least node does (`FishedIsAcyclic`). The other checks follow
  from `Bound` and `Rib`; `named`, the nodes whose titles the model made look like an end, does not
  matter.
- `CheckpointsDivide`. If an anchor did not lead to the checkpoint of its volume, take the last one: either
  a later one follows it, or the checkpoint has gathered it (`GatheredBy`). For a series arc, take its
  first beat in the volume (`FishedWaits`).
- `OnlyEmptyRefused`. That no volume starts before the story or ends behind it, and that one which
  starts in it has chapters, is an induction over the volumes (`BoundsWithin`); so the check of their
  ranges refuses exactly those that start behind the end. The nodes are never refused: the main line hangs together, the last node of each volume that is reached leads
  to its checkpoint, and from there all is reached (`FishedIsConnected`). What the repair would add a
  volume's first main anchor has already (`FishedNeedsNoRepair`).
- `Finishable`. A plan without a cycle or unknown dependency, also one that was edited, can be resolved to
  its end (`SoundIsResolvable`): of the nodes that were left one would depend on none of them, and would
  be settled or a candidate.

Some definitions were changed for these proofs, not what they say: the drafts are sorted by ranks
(`InOrder`) instead of `SortSeq`, which chooses an order, and records are built whole. One property was
wrong: `BudgetsSpendTheTarget` once allowed as many words too many as there were volumes that asked
for none. In the attempt to prove it the rounding of shares stood in the way: when two volumes ask for
999999 words and 1, the share of the first rounds to the whole target, and the second gets a word all
the same. The property now counts the volumes that are left with a single word.

Every invariant and every action property that a passing run checks is a theorem, and so is the
refinement. Only model-checked are the liveness properties: they need `ENABLED`, which is out of reach
of the prover. For Neo4j the proof of `OnePlace` needs that edges join nodes that are there (`JoinedIn`),
which TLC checked first, as it did with each of the invariants above.

## Findings

Each is a run with a counterexample that quotes the sentence it contradicts.

1. **Cast updates are never applied** (`commit_cast`). `state_updater_node` empties
   `pending_cast_updates` one node before `commit_to_databases_node` loops over it.
2. **Who returns is nowhere** (`memory_return`). A move retires the edge to the place that was left by
   an `end_event_id`. A later `CREATE_EDGE` to that place merges attributes that name no end, so the
   edge stays retired and the query hides it.
3. **A save of the plan deletes whom a chapter brought in** (`memory_save`). It deletes every
   CHARACTER node that is not of the cast, not only those of an earlier plan.

Seen while modelling, the first ones in counterexamples of ChapterWorkflow, RunExecution, ChapterCommit
and StoryPlan, the others in the code; the project keeps no run for them:

- After an extraction failure the rewrite is on the screen, but when it scored lower the earlier,
  failed draft stays `best_draft_content` and is archived.
- The planner asks for a human and goes on to `plan_supervisor`, which clears the request.
- `commit_executed` is written and never read; two tasks of a run commit twice (the reason for
  `shared` in RunExecution).
- A failed commit may have written the runtime and the topology; a replay writes neither, and is
  COMMITTED without them.
- A save that changes nothing may be refused once a chapter is completed: the snapshot shows a
  checkpoint RESOLVED when all it depends on is, the lock asks `resolved_anchors`, which never has a
  checkpoint (`service.py:728`).
- For the same reason the guardrails and the director never offer an anchor that depends on a
  checkpoint (`service.py:213`, `nodes/director.py:57`).
- The commit writes the anchor nodes its run holds over a newer plan (`graph.py:1142`).
- A save of the plan writes its cast as alive, also who died in a chapter.
- The compile may store a plan that a save refuses although nobody touched it: of 12 chapters drafted
  as 1..30, 2..30 and 40..50, the normalization makes 1..12, 13..12 and 40..12 (`anchor_service.py:3285`),
  and `_validate_macro_plan_put` asks for `chapter_end >= chapter_start` (`service.py:533`).
- Without a model and with key points in the author's notes, the compile builds a plan whose anchors cite
  none of them, in whatever language (`anchor_service.py:2925`).
- A planned node that the extraction gate identified with another one passes as present; then
  `state_updater` resolves names against the graph of that moment and may undo it
  (`nodes/state_updater.py:221`).

## Not modelled

The texts, prompts and retrieval (graph RAG, masking, bible service), the HTTP layer and the
frontend: they keep no state that the above depends on, or only read. The `recursion_limit` of
LangGraph is a matter of the installed version; exceeding it is a failure that `NodeFails` covers.
Several runs of one chapter appear as overlapping commits only; the legacy runs that
`execute_stored_run` refuses (`state_version` below 2) do not appear.

Of the extraction: bridge events of the second phase (off by default), figurative wording, deaths,
tags, the wording of the chapter's memory and its documents. One epoch is assumed. A stream that
breaks off is taken for a complete answer by the code (`llm.py:321`), and so by the model. Mock mode
skips the gate and is left out. The extraction may be shown any node of the graph, where Neo4j's
`query_context` shows those near the words of the directive (`graph_store.py:538`); the edges are a subset
already. It may fall back to no entities in a case the code does not (`BeginRelations`, `NoEntities`:
the code asks whether the request failed or its raw list was empty, `extraction.py:1491`). Both only add
behaviours. A failed write discards the mutations of its chapter; that a replay of that old transaction
applies them after a later chapter (`service.py:1989`) is left out, and so is a failure of the second
read in `update_state_transaction` (`workflow_repository.py:379`), which comes after the write it reports. Of the macro compile: the texts of the anchors and their slots, the
cast and the generated bible. `TargetWords` is the target after the floor of 12,000 words
(`anchor_service.py:3304`). A story may be created with a plan in its input; StoryPlan starts with
an empty one. Of the story repository: patches, summaries and milestones.

## Plan

Done: the modules above, and the proofs of every safety property that a passing run checks. Left:

1. **ChapterRuns**: several runs of a chapter, the completed-chapter check of `start_run_chapter`
   that is made long before the run is created, and the replay of an old FAILED transaction after a
   newer run was committed. It would compose ChapterCommit (through ChapterSaga) with RunExecution.

---------------------------- MODULE ChapterCommit ----------------------------
(***************************************************************************)
(* The end of a chapter run, step by step: profile_expander,               *)
(* state_updater and commit_to_databases (workflow/graph.py), which write  *)
(* the state_transactions row, the graph store, the vector store, the      *)
(* chapter and the story's runtime one after the other; and                *)
(* replay_state_transaction (workflow/service.py), which takes an          *)
(* unfinished transaction up again.  Any step may raise, the process may   *)
(* crash between any two, and with Overlap several of them are under way   *)
(* at a time: neither endpoint excludes another.                           *)
(*                                                                         *)
(* A commit and the transaction it creates share their identity.  What a   *)
(* transaction writes is told apart by that identity; all of them belong   *)
(* to one story.                                                           *)
(***************************************************************************)
CONSTANTS
    Commits,          \* executions of the end of a run: one transaction each
    Replays,          \* requests to replay a transaction
    Chapters,         \* the chapters of the story
    ChapterOf,        \* commit -> the chapter it is about
    Anchors,          \* the anchors of the story
    ResolvedAnchors,  \* commit -> resolved_anchors in the state of its run
    Overlap,          \* TRUE: commits and replays may run at the same time
    None              \* no transaction, no row

ASSUME WorkersAssumption ==
    /\ Commits \cap Replays = {}
    /\ None \notin Commits \cup Replays
ASSUME PayloadAssumption ==
    /\ ChapterOf \in [Commits -> Chapters]
    /\ ResolvedAnchors \in [Commits -> SUBSET Anchors]
    /\ Overlap \in BOOLEAN

VARIABLES
    pc,                \* worker -> the step it does next
    target,            \* worker -> the transaction it works on
    seen,              \* replay -> the row as read when the request came in
    row,               \* worker -> the row read by update_state_transaction, until written back
    story,             \* commit -> the resolved anchors in the story row it read
    txs,               \* transaction -> its row in state_transactions
    graph,             \* transaction -> how much of its mutations the graph store has
    vectors,           \* transactions whose documents the vector store has
    chapters,          \* chapter -> the transaction whose text it has, or None
    stored,            \* transactions whose text was ever stored
    resolved_anchors,  \* story_runtime_json: the resolved anchors
    topology,          \* transactions whose anchor nodes were stored
    pending_cast,      \* commits whose run carries pending_cast_updates
    cast,              \* commits whose cast updates were applied
    expanded           \* ghost: commits whose profile_expander produced cast updates

workers == <<pc, target, seen, row, story>>
stores  == <<graph, vectors, chapters, stored>>
runtime == <<resolved_anchors, topology, cast>>
castVars == <<pending_cast, expanded>>
vars == <<workers, txs, stores, runtime, castVars>>

Workers == Commits \cup Replays

Statuses == {"PENDING", "GRAPH_APPLIED", "VECTOR_APPLIED", "SQLITE_APPLIED", "COMMITTED",
             "FAILED"}
Flags == {"graph_applied", "vector_applied", "sqlite_applied"}
Rows == [status : Statuses, flags : SUBSET Flags]
NewRow == [status |-> "PENDING", flags |-> {}]

ASSUME RowsAssumption == None \notin Rows

\* The steps that call update_state_transaction, and what each sets.
Marks == {"mark_graph", "mark_vector", "mark_sqlite", "mark_committed", "mark_failed"}

\* Mutant of Marked: the workflow's COMPLETED for the transaction's COMMITTED.
MarkedCompleted(w, old) ==
    [status |-> IF pc[w] = "mark_committed" THEN "COMPLETED" ELSE old.status,
     flags |-> old.flags]

Marked(w, old) ==
    CASE pc[w] = "mark_graph"  -> [status |-> "GRAPH_APPLIED",
                                   flags |-> old.flags \cup {"graph_applied"}]
      [] pc[w] = "mark_vector" -> [status |-> "VECTOR_APPLIED",
                                   flags |-> old.flags \cup {"vector_applied"}]
      [] pc[w] = "mark_sqlite" -> [status |-> "SQLITE_APPLIED",
                                   flags |-> old.flags \cup {"sqlite_applied"}]
      [] pc[w] = "mark_committed" ->
             [status |-> "COMMITTED",
              flags |-> IF w \in Commits THEN old.flags \cup {"sqlite_applied"} ELSE old.flags]
      [] OTHER -> [status |-> "FAILED", flags |-> old.flags]

\* Mutant of AfterMark: the vector store is forgotten.
AfterMarkWithoutVector(w) ==
    CASE pc[w] = "mark_graph"     -> "chapter"
      [] pc[w] = "mark_sqlite"    -> "mark_committed"
      [] pc[w] = "mark_committed" -> "done"
      [] OTHER                    -> "failed"

\* Where a worker goes after a mark.
AfterMark(w) ==
    CASE pc[w] = "mark_graph"     -> "vector"
      [] pc[w] = "mark_vector"    -> "chapter"
      [] pc[w] = "mark_sqlite"    -> "mark_committed"
      [] pc[w] = "mark_committed" -> "done"
      [] OTHER                    -> "failed"

Steps == {"profile_expander", "state_updater", "create", "graph", "vector", "chapter",
          "read_story", "runtime", "topology", "cast"} \cup Marks
Resting == {"idle", "done", "failed", "dead"}

Goto(w, step) == pc' = [pc EXCEPT ![w] = step]

\* A request starts; without Overlap only when nothing else is under way.
MayStart(w) ==
    /\ pc[w] = "idle"
    /\ Overlap \/ \A v \in Workers : pc[v] \in Resting

\* Mutant of Skips: a replay goes by the status.
SkipsByStatus(w, flag) == w \in Replays /\ seen[w].status # "PENDING"

\* A replay skips a store whose flag it saw set when it started.
Skips(w, flag) == w \in Replays /\ flag \in seen[w].flags
Does(w, flag)  == ~Skips(w, flag)
-----------------------------------------------------------------------------
(* The nodes before the commit. *)

StartCommit(c) ==
    /\ MayStart(c)
    /\ Goto(c, "profile_expander")
    /\ UNCHANGED <<target, seen, row, story, txs, stores, runtime, castVars>>

ProfileExpander(c) ==
    /\ pc[c] = "profile_expander"
    /\ Goto(c, "state_updater")
    /\ \/ pending_cast' = pending_cast \cup {c} /\ expanded' = expanded \cup {c}
       \/ UNCHANGED castVars
    /\ UNCHANGED <<target, seen, row, story, txs, stores, runtime>>

\* The node hands over to the commit with pending_cast_updates emptied.
StateUpdater(c) ==
    /\ pc[c] = "state_updater"
    /\ Goto(c, "create")
    /\ pending_cast' = pending_cast \ {c}
    /\ UNCHANGED <<target, seen, row, story, txs, stores, runtime, expanded>>

CreateTransaction(c) ==
    /\ pc[c] = "create"
    /\ txs' = [txs EXCEPT ![c] = NewRow]
    /\ Goto(c, "graph")
    /\ UNCHANGED <<target, seen, row, story, stores, runtime, castVars>>

StartReplay(r, t) ==
    /\ MayStart(r)
    /\ txs[t] # None
    /\ target' = [target EXCEPT ![r] = t]
    /\ seen' = [seen EXCEPT ![r] = txs[t]]
    /\ Goto(r, "graph")
    /\ UNCHANGED <<row, story, txs, stores, runtime, castVars>>
-----------------------------------------------------------------------------
(* The effects. *)

Skip(w, step, flag, next) ==
    /\ pc[w] = step
    /\ Skips(w, flag)
    /\ Goto(w, next)
    /\ UNCHANGED <<target, seen, row, story, txs, stores, runtime, castVars>>

SkipGraph(w)  == Skip(w, "graph", "graph_applied", "vector")
SkipVector(w) == Skip(w, "vector", "vector_applied", "chapter")
SkipSqlite(w) == Skip(w, "chapter", "sqlite_applied", "mark_committed")

\* apply_mutations runs one statement per mutation; PartOfGraph is an interrupted one.
ApplyGraph(w) ==
    /\ pc[w] = "graph"
    /\ Does(w, "graph_applied")
    /\ graph' = [graph EXCEPT ![target[w]] = "full"]
    /\ Goto(w, "mark_graph")
    /\ UNCHANGED <<target, seen, row, story, txs, vectors, chapters, stored, runtime, castVars>>

\* Mutant of PartOfGraph: the exception of a statement is swallowed.
PartOfGraphSwallowed(w) ==
    /\ pc[w] = "graph"
    /\ Does(w, "graph_applied")
    /\ graph' = [graph EXCEPT ![target[w]] = "part"]
    /\ Goto(w, "mark_graph")
    /\ UNCHANGED <<target, seen, row, story, txs, vectors, chapters, stored, runtime, castVars>>

PartOfGraph(w) ==
    /\ pc[w] = "graph"
    /\ Does(w, "graph_applied")
    /\ graph[target[w]] = "none"
    /\ graph' = [graph EXCEPT ![target[w]] = "part"]
    /\ UNCHANGED <<workers, txs, vectors, chapters, stored, runtime, castVars>>

AddDocuments(w) ==
    /\ pc[w] = "vector"
    /\ Does(w, "vector_applied")
    /\ vectors' = vectors \cup {target[w]}
    /\ Goto(w, "mark_vector")
    /\ UNCHANGED <<target, seen, row, story, txs, graph, chapters, stored, runtime, castVars>>

\* Mutant of UpsertChapter: a commit goes on as a replay does.
UpsertChapterOnly(w) ==
    /\ pc[w] = "chapter"
    /\ Does(w, "sqlite_applied")
    /\ chapters' = [chapters EXCEPT ![ChapterOf[target[w]]] = target[w]]
    /\ stored' = stored \cup {target[w]}
    /\ Goto(w, "mark_sqlite")
    /\ UNCHANGED <<target, seen, row, story, txs, graph, vectors, runtime, castVars>>

UpsertChapter(w) ==
    /\ pc[w] = "chapter"
    /\ Does(w, "sqlite_applied")
    /\ chapters' = [chapters EXCEPT ![ChapterOf[target[w]]] = target[w]]
    /\ stored' = stored \cup {target[w]}
    /\ Goto(w, IF w \in Commits THEN "read_story" ELSE "mark_sqlite")
    /\ UNCHANGED <<target, seen, row, story, txs, graph, vectors, runtime, castVars>>

ReadStory(c) ==
    /\ pc[c] = "read_story"
    /\ story' = [story EXCEPT ![c] = resolved_anchors]
    /\ Goto(c, "runtime")
    /\ UNCHANGED <<target, seen, row, txs, stores, runtime, castVars>>

\* Mutant of UpdateRuntime: the run's anchors replace the story's.
OverwriteRuntime(c) ==
    /\ pc[c] = "runtime"
    /\ resolved_anchors' = ResolvedAnchors[c]
    /\ Goto(c, "topology")
    /\ UNCHANGED <<target, seen, row, story, txs, stores, topology, cast, castVars>>

\* merge_runtime_resolved_anchors_for_commit: the union with what was read.
UpdateRuntime(c) ==
    /\ pc[c] = "runtime"
    /\ resolved_anchors' = story[c] \cup ResolvedAnchors[c]
    /\ Goto(c, "topology")
    /\ UNCHANGED <<target, seen, row, story, txs, stores, topology, cast, castVars>>

UpdateTopology(c) ==
    /\ pc[c] = "topology"
    /\ topology' = topology \cup {c}
    /\ Goto(c, "cast")
    /\ UNCHANGED <<target, seen, row, story, txs, stores, resolved_anchors, cast, castVars>>

ApplyCastUpdates(c) ==
    /\ pc[c] = "cast"
    /\ cast' = cast \cup (pending_cast \cap {c})
    /\ Goto(c, "mark_committed")
    /\ UNCHANGED <<target, seen, row, story, txs, stores, resolved_anchors, topology, castVars>>
-----------------------------------------------------------------------------
(* update_state_transaction reads the row on one connection and writes all of it, with  *)
(* the fields it was given replaced, on another.                                        *)

MarkRead(w) ==
    /\ pc[w] \in Marks
    /\ row[w] = None
    /\ row' = [row EXCEPT ![w] = txs[target[w]]]
    /\ UNCHANGED <<pc, target, seen, story, txs, stores, runtime, castVars>>

MarkWrite(w) ==
    /\ pc[w] \in Marks
    /\ row[w] # None
    /\ txs' = [txs EXCEPT ![target[w]] = Marked(w, row[w])]
    /\ row' = [row EXCEPT ![w] = None]
    /\ Goto(w, AfterMark(w))
    /\ UNCHANGED <<target, seen, story, stores, runtime, castVars>>

\* An exception in a step before the transaction exists, in a replay, or while the failure
\* itself is recorded leaves the row as it is; any other is recorded as FAILED.
Raise(w) ==
    /\ pc[w] \in Steps
    /\ Goto(w, IF \/ w \in Replays
                  \/ pc[w] \in {"profile_expander", "state_updater", "create", "mark_failed"}
               THEN "failed" ELSE "mark_failed")
    /\ row' = [row EXCEPT ![w] = None]
    /\ UNCHANGED <<target, seen, story, txs, stores, runtime, castVars>>

\* The process stops: whatever was under way is gone, the stores keep what they have.
Crash ==
    /\ \E w \in Workers : pc[w] \in Steps
    /\ pc' = [w \in Workers |-> IF pc[w] \in Steps THEN "dead" ELSE pc[w]]
    /\ row' = [w \in Workers |-> None]
    /\ UNCHANGED <<target, seen, story, txs, stores, runtime, castVars>>
-----------------------------------------------------------------------------
Init ==
    /\ pc = [w \in Workers |-> "idle"]
    /\ target = [w \in Workers |-> IF w \in Commits THEN w ELSE None]
    /\ seen = [r \in Replays |-> NewRow]
    /\ row = [w \in Workers |-> None]
    /\ story = [c \in Commits |-> {}]
    /\ txs = [t \in Commits |-> None]
    /\ graph = [t \in Commits |-> "none"]
    /\ vectors = {}
    /\ chapters = [ch \in Chapters |-> None]
    /\ stored = {}
    /\ resolved_anchors = {}
    /\ topology = {}
    /\ pending_cast = {}
    /\ cast = {}
    /\ expanded = {}

CommitStep(c) ==
    \/ StartCommit(c)
    \/ ProfileExpander(c)
    \/ StateUpdater(c)
    \/ CreateTransaction(c)
    \/ ReadStory(c)
    \/ UpdateRuntime(c)
    \/ UpdateTopology(c)
    \/ ApplyCastUpdates(c)

ReplayStep(r) ==
    \/ \E t \in Commits : StartReplay(r, t)
    \/ SkipGraph(r)
    \/ SkipVector(r)
    \/ SkipSqlite(r)

SharedStep(w) ==
    \/ ApplyGraph(w)
    \/ PartOfGraph(w)
    \/ AddDocuments(w)
    \/ UpsertChapter(w)
    \/ MarkRead(w)
    \/ MarkWrite(w)
    \/ Raise(w)

Next ==
    \/ \E c \in Commits : CommitStep(c)
    \/ \E r \in Replays : ReplayStep(r)
    \/ \E w \in Workers : SharedStep(w)
    \/ Crash

Spec == Init /\ [][Next]_vars
-----------------------------------------------------------------------------
(* Properties. *)

TypeOK ==
    /\ pc \in [Workers -> Steps \cup Resting]
    /\ target \in [Workers -> Commits \cup {None}]
    /\ seen \in [Replays -> Rows]
    /\ row \in [Workers -> Rows \cup {None}]
    /\ story \in [Commits -> SUBSET Anchors]
    /\ txs \in [Commits -> Rows \cup {None}]
    /\ graph \in [Commits -> {"none", "part", "full"}]
    /\ vectors \subseteq Commits
    /\ chapters \in [Chapters -> Commits \cup {None}]
    /\ stored \subseteq Commits
    /\ resolved_anchors \subseteq Anchors
    /\ topology \subseteq Commits
    /\ pending_cast \subseteq Commits
    /\ cast \subseteq Commits
    /\ expanded \subseteq Commits

\* What a flag claims about the stores.
Holds(t, flag) ==
    \/ flag = "graph_applied"  /\ graph[t] = "full"
    \/ flag = "vector_applied" /\ t \in vectors
    \/ flag = "sqlite_applied" /\ t \in stored

\* A flag that is set tells the truth: a replay may skip the store.  It does so in every
\* interleaving, although update_state_transaction writes back flags it read earlier.
FlagsTruthful ==
    \A t \in Commits : txs[t] # None => \A flag \in txs[t].flags : Holds(t, flag)

\* A transaction that says COMMITTED is in all three stores, whoever finished it and
\* whatever else went wrong.
CommittedIsApplied ==
    \A t \in Commits :
        txs[t] # None /\ txs[t].status = "COMMITTED" => \A flag \in Flags : Holds(t, flag)

\* One commit at a time, with crashes, failures and replays in between: what a chapter
\* resolved stays resolved in the story.
ResolvedAnchorsOnlyGrow == [][resolved_anchors \subseteq resolved_anchors']_vars

\* One at a time: a transaction that was not left half done by a failure or a crash has
\* merged its run into the story.
FinishedCommitReachedTheStory ==
    \A c \in Commits : pc[c] = "done" => c \in topology /\ ResolvedAnchors[c] \subseteq resolved_anchors

\* agent_workflow.md: the commit applies pending_cast_updates.
CastUpdatesAreApplied ==
    \A c \in Commits : pc[c] = "done" /\ c \in expanded => c \in cast

-----------------------------------------------------------------------------
(* The refinement: a row and the stores as the abstract transaction sees them. *)

OutcomeOf(t) ==
    IF txs[t] = None THEN "none"
    ELSE CASE txs[t].status = "COMMITTED" -> "committed"
           [] txs[t].status = "FAILED"    -> "failed"
           [] OTHER                       -> "open"

AppliedOf(t) ==
    {store \in {"graph", "vector", "chapter"} :
        \/ store = "graph"   /\ graph[t] = "full"
        \/ store = "vector"  /\ t \in vectors
        \/ store = "chapter" /\ t \in stored}

Saga == INSTANCE ChapterSaga WITH
    outcome <- [t \in Commits |-> OutcomeOf(t)],
    applied <- [t \in Commits |-> AppliedOf(t)]

ImplementsSaga == Saga!SagaSpec
=============================================================================

------------------------ MODULE ChapterCommit_proofs ------------------------
(***************************************************************************)
(* What a row of state_transactions says is true, for any number of        *)
(* commits and replays, whether or not they overlap.                       *)
(*                                                                         *)
(* The flags are written back from a row that was read earlier, so the     *)
(* invariant has to speak of every copy of a row: the stored one, the ones *)
(* update_state_transaction holds between its read and its write, and the  *)
(* ones replays were started with.  None of the stores ever loses what it  *)
(* has (StoresGrow), so a copy that told the truth keeps telling it.       *)
(***************************************************************************)
EXTENDS ChapterCommit, TLAPS

\* Steps after each of the three effects of a worker.
AfterGraph == {"mark_graph", "vector", "mark_vector", "chapter", "read_story", "runtime",
               "topology", "cast", "mark_sqlite", "mark_committed"}
AfterVector == AfterGraph \ {"mark_graph", "vector"}
AfterChapter == AfterVector \ {"mark_vector", "chapter"}

\* Steps on a transaction, which therefore exists.
OnTransaction == AfterGraph \cup {"graph", "mark_failed"}

TargetsExist ==
    /\ \A c \in Commits : target[c] = c
    /\ \A w \in Workers :
          pc[w] \in OnTransaction => target[w] \in Commits /\ txs[target[w]] # None
    /\ \A r \in Replays : pc[r] \notin Steps \ OnTransaction

RowsAreBeingMarked == \A w \in Workers : row[w] # None => pc[w] \in Marks

CopiesTruthful ==
    /\ \A w \in Workers : row[w] # None => \A flag \in row[w].flags : Holds(target[w], flag)
    /\ \A r \in Replays :
          pc[r] \in Steps => \A flag \in seen[r].flags : Holds(target[r], flag)

Progress ==
    \A w \in Workers :
        /\ pc[w] \in AfterGraph => Holds(target[w], "graph_applied")
        /\ pc[w] \in AfterVector => Holds(target[w], "vector_applied")
        /\ pc[w] \in AfterChapter => Holds(target[w], "sqlite_applied")

-----------------------------------------------------------------------------
(* Type correctness. *)

\* A new row is a row of the table.
LEMMA NewRowIsRow == NewRow \in Rows /\ NewRow # None
<1>1. NewRow \in Rows
  BY DEF NewRow, Rows, Statuses, Flags
<1> QED BY <1>1, RowsAssumption

\* The row update_state_transaction writes is a row of the table.
LEMMA MarkedIsRow ==
    ASSUME NEW w \in Workers, NEW old \in Rows
    PROVE  Marked(w, old) \in Rows /\ Marked(w, old) # None
<1>1. old.flags \subseteq Flags
  BY DEF Rows
<1>2. Marked(w, old) \in Rows
  BY <1>1 DEF Marked, Rows, Statuses, Flags
<1> QED BY <1>2, RowsAssumption

\* A step on a transaction works on one that was created, and no variable leaves its type.
LEMMA TypeInvariant == Spec => [](TypeOK /\ TargetsExist)
<1> DEFINE TypeInv == TypeOK /\ TargetsExist
<1>1. Init => TypeInv
  <2> SUFFICES ASSUME Init
               PROVE  TypeInv
    OBVIOUS
  <2> USE DEF Init, Workers
  <2>1. /\ pc \in [Workers -> Steps \cup Resting]
        /\ target \in [Workers -> Commits \cup {None}]
        /\ row \in [Workers -> Rows \cup {None}]
    BY DEF Resting
  <2>2. seen \in [Replays -> Rows]
    BY NewRowIsRow
  <2>3. /\ txs \in [Commits -> Rows \cup {None}]
        /\ chapters \in [Chapters -> Commits \cup {None}]
    OBVIOUS
  <2>4. /\ story \in [Commits -> SUBSET Anchors]
        /\ graph \in [Commits -> {"none", "part", "full"}]
    OBVIOUS
  <2>5. TargetsExist
    BY DEF TargetsExist, OnTransaction, AfterGraph, Steps, Marks
  <2> QED BY <2>1, <2>2, <2>3, <2>4, <2>5 DEF TypeOK
<1>2. TypeInv /\ [Next]_vars => TypeInv'
  <2> SUFFICES ASSUME TypeOK, TargetsExist, [Next]_vars
               PROVE  TypeInv'
    OBVIOUS
  <2> USE WorkersAssumption
      DEF TypeOK, TargetsExist, OnTransaction, AfterGraph, Goto, Workers, Steps, Resting, Marks,
          workers, stores, runtime, castVars
  <2>1. ASSUME NEW c \in Commits, CommitStep(c)
        PROVE  TypeInv'
    <3>1. CASE StartCommit(c)
      BY <3>1 DEF StartCommit, MayStart
    <3>2. CASE ProfileExpander(c)
      BY <3>2 DEF ProfileExpander
    <3>3. CASE StateUpdater(c)
      BY <3>3 DEF StateUpdater
    <3>4. CASE CreateTransaction(c)
      BY <3>4, NewRowIsRow DEF CreateTransaction
    <3>5. CASE ReadStory(c)
      BY <3>5 DEF ReadStory
    <3>6. CASE UpdateRuntime(c)
      BY <3>6, PayloadAssumption DEF UpdateRuntime
    <3>7. CASE UpdateTopology(c)
      BY <3>7 DEF UpdateTopology
    <3>8. CASE ApplyCastUpdates(c)
      BY <3>8 DEF ApplyCastUpdates
    <3> QED BY <2>1, <3>1, <3>2, <3>3, <3>4, <3>5, <3>6, <3>7, <3>8 DEF CommitStep
  <2>2. ASSUME NEW r \in Replays, ReplayStep(r)
        PROVE  TypeInv'
    <3>1. CASE \E t \in Commits : StartReplay(r, t)
      BY <3>1 DEF StartReplay, MayStart
    <3>2. CASE SkipGraph(r)
      BY <3>2 DEF SkipGraph, Skip
    <3>3. CASE SkipVector(r)
      BY <3>3 DEF SkipVector, Skip
    <3>4. CASE SkipSqlite(r)
      BY <3>4 DEF SkipSqlite, Skip
    <3> QED BY <2>2, <3>1, <3>2, <3>3, <3>4 DEF ReplayStep
  <2>3. ASSUME NEW w \in Workers, SharedStep(w)
        PROVE  TypeInv'
    <3>1. CASE ApplyGraph(w)
      BY <3>1 DEF ApplyGraph
    <3>2. CASE PartOfGraph(w)
      BY <3>2 DEF PartOfGraph
    <3>3. CASE AddDocuments(w)
      BY <3>3 DEF AddDocuments
    <3>4. CASE UpsertChapter(w)
      BY <3>4, PayloadAssumption DEF UpsertChapter
    <3>5. CASE MarkRead(w)
      BY <3>5 DEF MarkRead
    <3>6. CASE MarkWrite(w)
      BY <3>6, MarkedIsRow DEF MarkWrite, AfterMark
    <3>7. CASE Raise(w)
      BY <3>7 DEF Raise
    <3> QED BY <2>3, <3>1, <3>2, <3>3, <3>4, <3>5, <3>6, <3>7 DEF SharedStep
  <2>4. CASE Crash
    BY <2>4 DEF Crash
  <2>5. CASE UNCHANGED vars
    BY <2>5 DEF vars
  <2> QED BY <2>1, <2>2, <2>3, <2>4, <2>5 DEF Next
<1> QED BY <1>1, <1>2, PTL DEF Spec

-----------------------------------------------------------------------------
(* What the rows say. *)

\* No step takes anything back from a store.
StoresKeep ==
    /\ vectors \subseteq vectors'
    /\ stored \subseteq stored'
    /\ \A t \in Commits : graph[t] = "full" => graph'[t] = "full"

LEMMA StoresGrow == TypeOK /\ TargetsExist /\ [Next]_vars => StoresKeep
<1> SUFFICES ASSUME TypeOK, TargetsExist, [Next]_vars
             PROVE  StoresKeep
  OBVIOUS
<1> USE DEF TypeOK, TargetsExist, OnTransaction, StoresKeep, Workers, stores, workers
<1>1. ASSUME NEW c \in Commits, CommitStep(c)
      PROVE  StoresKeep
  <2>1. CASE StartCommit(c)
    BY <2>1 DEF StartCommit
  <2>2. CASE ProfileExpander(c)
    BY <2>2 DEF ProfileExpander
  <2>3. CASE StateUpdater(c)
    BY <2>3 DEF StateUpdater
  <2>4. CASE CreateTransaction(c)
    BY <2>4 DEF CreateTransaction
  <2>5. CASE ReadStory(c)
    BY <2>5 DEF ReadStory
  <2>6. CASE UpdateRuntime(c)
    BY <2>6 DEF UpdateRuntime
  <2>7. CASE UpdateTopology(c)
    BY <2>7 DEF UpdateTopology
  <2>8. CASE ApplyCastUpdates(c)
    BY <2>8 DEF ApplyCastUpdates
  <2> QED BY <1>1, <2>1, <2>2, <2>3, <2>4, <2>5, <2>6, <2>7, <2>8 DEF CommitStep
<1>2. ASSUME NEW r \in Replays, ReplayStep(r)
      PROVE  StoresKeep
  <2>1. CASE SkipGraph(r)
    BY <2>1 DEF SkipGraph, Skip
  <2>2. CASE SkipVector(r)
    BY <2>2 DEF SkipVector, Skip
  <2>3. CASE SkipSqlite(r)
    BY <2>3 DEF SkipSqlite, Skip
  <2>4. ASSUME NEW t \in Commits, StartReplay(r, t)
        PROVE  StoresKeep
    BY <2>4 DEF StartReplay
  <2> QED BY <1>2, <2>1, <2>2, <2>3, <2>4 DEF ReplayStep
<1>3. ASSUME NEW w \in Workers, SharedStep(w)
      PROVE  StoresKeep
  <2>1. CASE ApplyGraph(w)
    BY <2>1 DEF ApplyGraph
  <2>2. CASE PartOfGraph(w)
    BY <2>2 DEF PartOfGraph
  <2>3. CASE AddDocuments(w)
    BY <2>3 DEF AddDocuments
  <2>4. CASE UpsertChapter(w)
    BY <2>4 DEF UpsertChapter
  <2>5. CASE MarkRead(w)
    BY <2>5 DEF MarkRead
  <2>6. CASE MarkWrite(w)
    BY <2>6 DEF MarkWrite
  <2>7. CASE Raise(w)
    BY <2>7 DEF Raise
  <2> QED BY <1>3, <2>1, <2>2, <2>3, <2>4, <2>5, <2>6, <2>7 DEF SharedStep
<1>4. CASE Crash
  BY <1>4 DEF Crash
<1>5. CASE UNCHANGED vars
  BY <1>5 DEF vars
<1> QED BY <1>1, <1>2, <1>3, <1>4, <1>5 DEF Next

RowInv ==
    /\ RowsAreBeingMarked
    /\ CopiesTruthful
    /\ Progress
    /\ FlagsTruthful
    /\ CommittedIsApplied

LEMMA RowInvariant == Spec => []RowInv
<1> DEFINE TypeInv == TypeOK /\ TargetsExist
<1>1. Init => RowInv
  BY DEF Init, RowInv, RowsAreBeingMarked, CopiesTruthful, Progress, FlagsTruthful, CommittedIsApplied,
         AfterGraph, AfterVector, AfterChapter, Workers, NewRow, Steps, Marks
<1>2. TypeInv /\ RowInv /\ [Next]_vars => RowInv'
  <2> SUFFICES ASSUME TypeOK, TargetsExist, RowInv, [Next]_vars
               PROVE  RowInv'
    OBVIOUS
  <2>0. StoresKeep
    BY StoresGrow
  <2> USE <2>0, WorkersAssumption
      DEF StoresKeep, TypeOK, TargetsExist, OnTransaction, Holds, Flags, RowInv, RowsAreBeingMarked,
          CopiesTruthful, Progress, FlagsTruthful, CommittedIsApplied, AfterGraph, AfterVector,
          AfterChapter, Goto, Workers, Steps, Marks, Resting, workers, stores, runtime, castVars
  <2>1. ASSUME NEW c \in Commits, CommitStep(c)
        PROVE  RowInv'
    <3>1. CASE StartCommit(c)
      BY <3>1 DEF StartCommit, MayStart, Rows
    <3>2. CASE ProfileExpander(c)
      BY <3>2 DEF ProfileExpander
    <3>3. CASE StateUpdater(c)
      BY <3>3 DEF StateUpdater
    <3>4. CASE CreateTransaction(c)
      BY <3>4, NewRowIsRow DEF CreateTransaction, NewRow
    <3>5. CASE ReadStory(c)
      BY <3>5 DEF ReadStory
    <3>6. CASE UpdateRuntime(c)
      BY <3>6 DEF UpdateRuntime
    <3>7. CASE UpdateTopology(c)
      BY <3>7 DEF UpdateTopology
    <3>8. CASE ApplyCastUpdates(c)
      BY <3>8 DEF ApplyCastUpdates
    <3> QED BY <2>1, <3>1, <3>2, <3>3, <3>4, <3>5, <3>6, <3>7, <3>8 DEF CommitStep
  <2>2. ASSUME NEW r \in Replays, ReplayStep(r)
        PROVE  RowInv'
    <3>1. CASE SkipGraph(r)
      BY <3>1 DEF SkipGraph, Skip, Skips
    <3>2. CASE SkipVector(r)
      BY <3>2 DEF SkipVector, Skip, Skips
    <3>3. CASE SkipSqlite(r)
      BY <3>3 DEF SkipSqlite, Skip, Skips
    <3>4. ASSUME NEW t \in Commits, StartReplay(r, t)
          PROVE  RowInv'
      BY <3>4 DEF StartReplay, MayStart, Rows
    <3> QED BY <2>2, <3>1, <3>2, <3>3, <3>4 DEF ReplayStep
  <2>3. ASSUME NEW w \in Workers, SharedStep(w)
        PROVE  RowInv'
    <3>1. CASE ApplyGraph(w)
      BY <3>1 DEF ApplyGraph
    <3>2. CASE PartOfGraph(w)
      BY <3>2 DEF PartOfGraph
    <3>3. CASE AddDocuments(w)
      BY <3>3 DEF AddDocuments
    <3>4. CASE UpsertChapter(w)
      BY <3>4 DEF UpsertChapter
    <3>5. CASE MarkRead(w)
      BY <3>5 DEF MarkRead
    <3>6. CASE MarkWrite(w)
      BY <3>6, RowsAssumption DEF MarkWrite, Marked, AfterMark, Rows
    <3>7. CASE Raise(w)
      BY <3>7 DEF Raise
    <3> QED BY <2>3, <3>1, <3>2, <3>3, <3>4, <3>5, <3>6, <3>7 DEF SharedStep
  <2>4. CASE Crash
    BY <2>4 DEF Crash
  <2>5. CASE UNCHANGED vars
    BY <2>5 DEF vars
  <2> QED BY <2>1, <2>2, <2>3, <2>4, <2>5 DEF Next
<1> QED BY <1>1, <1>2, TypeInvariant, PTL DEF Spec

\* No variable ever leaves its type.
THEOREM TypeCorrect == Spec => []TypeOK
<1> QED BY TypeInvariant, PTL

\* A set flag is true of its store in every interleaving of commits, replays, failures and
\* crashes, so that a replay may go by it.
THEOREM FlagsAreTruthful == Spec => []FlagsTruthful
<1>1. RowInv => FlagsTruthful
  BY DEF RowInv
<1> QED BY <1>1, RowInvariant, PTL

\* A transaction that update_state_transaction marked COMMITTED is in all three stores, in
\* every such interleaving.
THEOREM CommittedMeansApplied == Spec => []CommittedIsApplied
<1>1. RowInv => CommittedIsApplied
  BY DEF RowInv
<1> QED BY <1>1, RowInvariant, PTL
-----------------------------------------------------------------------------
(* One commit or replay at a time. *)

OneAtATime == \A v, w \in Workers : pc[v] \in Steps /\ pc[w] \in Steps => v = w

\* What a commit has merged into the story by the step it is at.
StoryProgress ==
    \A c \in Commits :
        /\ pc[c] # "mark_sqlite"
        /\ pc[c] = "runtime" => story[c] = resolved_anchors
        /\ pc[c] \in {"topology", "cast", "mark_committed", "done"} =>
              ResolvedAnchors[c] \subseteq resolved_anchors
        /\ pc[c] \in {"cast", "mark_committed", "done"} => c \in topology

SerialInv == OneAtATime /\ StoryProgress


LEMMA SerialInvariant ==
    ASSUME ~Overlap
    PROVE  Spec => []SerialInv
<1> DEFINE TypeInv == TypeOK /\ TargetsExist
<1>1. Init => SerialInv
  BY DEF Init, SerialInv, OneAtATime, StoryProgress, Workers, Steps, Marks
<1>2. TypeInv /\ SerialInv /\ [Next]_vars => SerialInv'
  <2> SUFFICES ASSUME TypeOK, TargetsExist, SerialInv, [Next]_vars
               PROVE  SerialInv'
    OBVIOUS
  <2> USE WorkersAssumption
      DEF TypeOK, TargetsExist, OnTransaction, SerialInv, OneAtATime, StoryProgress, AfterGraph,
          Goto, Workers, Steps, Marks, Resting, workers, stores, runtime, castVars
  <2>1. ASSUME NEW c \in Commits, CommitStep(c)
        PROVE  SerialInv'
    <3>1. CASE StartCommit(c)
      BY <3>1 DEF StartCommit, MayStart
    <3>2. CASE ProfileExpander(c)
      BY <3>2 DEF ProfileExpander
    <3>3. CASE StateUpdater(c)
      BY <3>3 DEF StateUpdater
    <3>4. CASE CreateTransaction(c)
      BY <3>4 DEF CreateTransaction
    <3>5. CASE ReadStory(c)
      BY <3>5 DEF ReadStory
    <3>6. CASE UpdateRuntime(c)
      BY <3>6 DEF UpdateRuntime
    <3>7. CASE UpdateTopology(c)
      BY <3>7 DEF UpdateTopology
    <3>8. CASE ApplyCastUpdates(c)
      BY <3>8 DEF ApplyCastUpdates
    <3> QED BY <2>1, <3>1, <3>2, <3>3, <3>4, <3>5, <3>6, <3>7, <3>8 DEF CommitStep
  <2>2. ASSUME NEW r \in Replays, ReplayStep(r)
        PROVE  SerialInv'
    <3>1. CASE SkipGraph(r)
      BY <3>1 DEF SkipGraph, Skip
    <3>2. CASE SkipVector(r)
      BY <3>2 DEF SkipVector, Skip
    <3>3. CASE SkipSqlite(r)
      BY <3>3 DEF SkipSqlite, Skip
    <3>4. ASSUME NEW t \in Commits, StartReplay(r, t)
          PROVE  SerialInv'
      BY <3>4 DEF StartReplay, MayStart
    <3> QED BY <2>2, <3>1, <3>2, <3>3, <3>4 DEF ReplayStep
  <2>3. ASSUME NEW w \in Workers, SharedStep(w)
        PROVE  SerialInv'
    <3>1. CASE ApplyGraph(w)
      BY <3>1 DEF ApplyGraph
    <3>2. CASE PartOfGraph(w)
      BY <3>2 DEF PartOfGraph
    <3>3. CASE AddDocuments(w)
      BY <3>3 DEF AddDocuments
    <3>4. CASE UpsertChapter(w)
      BY <3>4 DEF UpsertChapter
    <3>5. CASE MarkRead(w)
      BY <3>5 DEF MarkRead
    <3>6. CASE MarkWrite(w)
      BY <3>6 DEF MarkWrite, AfterMark
    <3>7. CASE Raise(w)
      BY <3>7 DEF Raise
    <3> QED BY <2>3, <3>1, <3>2, <3>3, <3>4, <3>5, <3>6, <3>7 DEF SharedStep
  <2>4. CASE Crash
    BY <2>4 DEF Crash
  <2>5. CASE UNCHANGED vars
    BY <2>5 DEF vars
  <2> QED BY <2>1, <2>2, <2>3, <2>4, <2>5 DEF Next
<1> QED BY <1>1, <1>2, TypeInvariant, PTL DEF Spec

\* merge_runtime_resolved_anchors_for_commit loses nothing as long as nobody writes the
\* runtime between its read and its write: the resolved anchors of a story only grow.
THEOREM SerialAnchorsGrow ==
    ASSUME ~Overlap
    PROVE  Spec => ResolvedAnchorsOnlyGrow
<1> DEFINE TypeInv == TypeOK /\ TargetsExist
<1>1. TypeInv /\ SerialInv /\ [Next]_vars => [resolved_anchors \subseteq resolved_anchors']_vars
  <2> SUFFICES ASSUME TypeOK, TargetsExist, SerialInv, [Next]_vars
               PROVE  resolved_anchors \subseteq resolved_anchors'
    OBVIOUS
  <2> USE DEF StoryProgress, SerialInv, stores, runtime, workers
  <2>1. ASSUME NEW c \in Commits, CommitStep(c)
        PROVE  resolved_anchors \subseteq resolved_anchors'
    <3>1. CASE StartCommit(c)
      BY <3>1 DEF StartCommit
    <3>2. CASE ProfileExpander(c)
      BY <3>2 DEF ProfileExpander
    <3>3. CASE StateUpdater(c)
      BY <3>3 DEF StateUpdater
    <3>4. CASE CreateTransaction(c)
      BY <3>4 DEF CreateTransaction
    <3>5. CASE ReadStory(c)
      BY <3>5 DEF ReadStory
    <3>6. CASE UpdateRuntime(c)
      BY <3>6 DEF UpdateRuntime
    <3>7. CASE UpdateTopology(c)
      BY <3>7 DEF UpdateTopology
    <3>8. CASE ApplyCastUpdates(c)
      BY <3>8 DEF ApplyCastUpdates
    <3> QED BY <2>1, <3>1, <3>2, <3>3, <3>4, <3>5, <3>6, <3>7, <3>8 DEF CommitStep
  <2>2. ASSUME NEW r \in Replays, ReplayStep(r)
        PROVE  resolved_anchors \subseteq resolved_anchors'
    <3>1. CASE SkipGraph(r)
      BY <3>1 DEF SkipGraph, Skip
    <3>2. CASE SkipVector(r)
      BY <3>2 DEF SkipVector, Skip
    <3>3. CASE SkipSqlite(r)
      BY <3>3 DEF SkipSqlite, Skip
    <3>4. ASSUME NEW t \in Commits, StartReplay(r, t)
          PROVE  resolved_anchors \subseteq resolved_anchors'
      BY <3>4 DEF StartReplay
    <3> QED BY <2>2, <3>1, <3>2, <3>3, <3>4 DEF ReplayStep
  <2>3. ASSUME NEW w \in Workers, SharedStep(w)
        PROVE  resolved_anchors \subseteq resolved_anchors'
    <3>1. CASE ApplyGraph(w)
      BY <3>1 DEF ApplyGraph
    <3>2. CASE PartOfGraph(w)
      BY <3>2 DEF PartOfGraph
    <3>3. CASE AddDocuments(w)
      BY <3>3 DEF AddDocuments
    <3>4. CASE UpsertChapter(w)
      BY <3>4 DEF UpsertChapter
    <3>5. CASE MarkRead(w)
      BY <3>5 DEF MarkRead
    <3>6. CASE MarkWrite(w)
      BY <3>6 DEF MarkWrite
    <3>7. CASE Raise(w)
      BY <3>7 DEF Raise
    <3> QED BY <2>3, <3>1, <3>2, <3>3, <3>4, <3>5, <3>6, <3>7 DEF SharedStep
  <2>4. CASE Crash
    BY <2>4 DEF Crash
  <2>5. CASE UNCHANGED vars
    BY <2>5 DEF vars
  <2> QED BY <2>1, <2>2, <2>3, <2>4, <2>5 DEF Next
<1> QED BY <1>1, TypeInvariant, SerialInvariant, PTL DEF Spec, ResolvedAnchorsOnlyGrow

\* A commit that ran to its end has merged its run into the story, whatever was replayed,
\* failed or crashed before and after it.
THEOREM SerialCommitReachesStory ==
    ASSUME ~Overlap
    PROVE  Spec => []FinishedCommitReachedTheStory
<1>1. SerialInv => FinishedCommitReachedTheStory
  BY DEF SerialInv, StoryProgress, FinishedCommitReachedTheStory
<1> QED BY <1>1, SerialInvariant, PTL
-----------------------------------------------------------------------------
(* One commit or replay at a time, the commit of a chapter is the transaction over three      *)
(* stores that ChapterSaga describes. The only steps that mean something there are the four   *)
(* that write a store and the writes of update_state_transaction; the invariant says that     *)
(* such a write takes up the row as it is, and that a worker that still has a store to write  *)
(* works on a transaction that is not committed.                                              *)

\* The copies of a row are up to date, the flags say how far a worker is, and a worker that
\* still has a store to write works on a transaction that is not committed.
CopiesCurrent ==
    /\ \A w \in Workers : row[w] # None => row[w] = txs[target[w]]
    /\ \A r \in Replays : pc[r] \in Steps => seen[r].flags \subseteq txs[target[r]].flags

FlagsRecorded ==
    /\ \A w \in Workers :
          /\ pc[w] \in AfterGraph \ {"mark_graph"} => "graph_applied" \in txs[target[w]].flags
          /\ pc[w] \in AfterVector \ {"mark_vector"} => "vector_applied" \in txs[target[w]].flags
          /\ pc[w] = "mark_committed" /\ w \in Replays =>
                "sqlite_applied" \in txs[target[w]].flags
    /\ \A t \in Commits :
          txs[t] # None /\ txs[t].status = "COMMITTED" => txs[t].flags = Flags

OpenWhileWorking ==
    /\ \A c \in Commits :
          /\ pc[c] \in {"idle", "profile_expander", "state_updater", "create"} => txs[c] = None
          /\ pc[c] \in OnTransaction => txs[c].status # "COMMITTED"
    /\ \A r \in Replays :
          /\ pc[r] \in Steps /\ txs[target[r]].status = "COMMITTED" => seen[r].flags = Flags
          /\ pc[r] = "mark_graph" => "graph_applied" \notin seen[r].flags
          /\ pc[r] = "mark_vector" => "vector_applied" \notin seen[r].flags
          /\ pc[r] = "mark_sqlite" => "sqlite_applied" \notin seen[r].flags
          /\ pc[r] # "mark_failed"

SagaInv == OneAtATime /\ CopiesCurrent /\ FlagsRecorded /\ OpenWhileWorking

LEMMA SagaInvariant ==
    ASSUME ~Overlap
    PROVE  Spec => []SagaInv
<1> DEFINE TypeInv == TypeOK /\ TargetsExist /\ RowsAreBeingMarked
<1>1. Init => SagaInv
  BY DEF Init, SagaInv, OneAtATime, CopiesCurrent, FlagsRecorded, OpenWhileWorking,
         OnTransaction, AfterGraph, AfterVector, Workers, Steps, Marks
<1>2. TypeInv /\ SagaInv /\ [Next]_vars => SagaInv'
  <2> SUFFICES ASSUME TypeOK, TargetsExist, RowsAreBeingMarked, SagaInv, [Next]_vars
               PROVE  SagaInv'
    OBVIOUS
  <2> USE WorkersAssumption, RowsAssumption
      DEF TypeOK, TargetsExist, OnTransaction, RowsAreBeingMarked, SagaInv, OneAtATime,
          CopiesCurrent, FlagsRecorded, OpenWhileWorking, AfterGraph, AfterVector, Flags, Goto,
          Workers, Steps, Marks, Resting, workers, stores, runtime, castVars
  <2>1. ASSUME NEW c \in Commits, CommitStep(c)
        PROVE  SagaInv'
    <3>1. CASE StartCommit(c)
      <4>1. OneAtATime'
        BY <3>1 DEF StartCommit, MayStart
      <4>2. CopiesCurrent'
        BY <3>1 DEF StartCommit, MayStart
      <4>3. FlagsRecorded'
        BY <3>1 DEF StartCommit, MayStart
      <4>4. OpenWhileWorking'
        BY <3>1 DEF StartCommit, MayStart
      <4> QED BY <4>1, <4>2, <4>3, <4>4
    <3>2. CASE ProfileExpander(c)
      BY <3>2 DEF ProfileExpander
    <3>3. CASE StateUpdater(c)
      BY <3>3 DEF StateUpdater
    <3>4. CASE CreateTransaction(c)
      BY <3>4, NewRowIsRow DEF CreateTransaction, NewRow
    <3>5. CASE ReadStory(c)
      BY <3>5 DEF ReadStory
    <3>6. CASE UpdateRuntime(c)
      BY <3>6 DEF UpdateRuntime
    <3>7. CASE UpdateTopology(c)
      BY <3>7 DEF UpdateTopology
    <3>8. CASE ApplyCastUpdates(c)
      BY <3>8 DEF ApplyCastUpdates
    <3> QED BY <2>1, <3>1, <3>2, <3>3, <3>4, <3>5, <3>6, <3>7, <3>8 DEF CommitStep
  <2>2. ASSUME NEW r \in Replays, ReplayStep(r)
        PROVE  SagaInv'
    <3>1. CASE SkipGraph(r)
      BY <3>1 DEF SkipGraph, Skip, Skips
    <3>2. CASE SkipVector(r)
      BY <3>2 DEF SkipVector, Skip, Skips
    <3>3. CASE SkipSqlite(r)
      BY <3>3 DEF SkipSqlite, Skip, Skips
    <3>4. ASSUME NEW t \in Commits, StartReplay(r, t)
          PROVE  SagaInv'
      <4>1. OneAtATime'
        BY <3>4 DEF StartReplay, MayStart
      <4>2. CopiesCurrent'
        BY <3>4 DEF StartReplay, MayStart, Rows
      <4>3. FlagsRecorded'
        BY <3>4 DEF StartReplay, MayStart
      <4>4. OpenWhileWorking'
        BY <3>4 DEF StartReplay, MayStart
      <4> QED BY <4>1, <4>2, <4>3, <4>4
    <3> QED BY <2>2, <3>1, <3>2, <3>3, <3>4 DEF ReplayStep
  <2>3. ASSUME NEW w \in Workers, SharedStep(w)
        PROVE  SagaInv'
    <3>1. CASE ApplyGraph(w)
      BY <3>1 DEF ApplyGraph, Does, Skips
    <3>2. CASE PartOfGraph(w)
      BY <3>2 DEF PartOfGraph, Does, Skips
    <3>3. CASE AddDocuments(w)
      BY <3>3 DEF AddDocuments, Does, Skips
    <3>4. CASE UpsertChapter(w)
      BY <3>4 DEF UpsertChapter, Does, Skips
    <3>5. CASE MarkRead(w)
      BY <3>5 DEF MarkRead
    <3>6. CASE MarkWrite(w)
      BY <3>6 DEF MarkWrite, Marked, AfterMark, Rows
    <3>7. CASE Raise(w)
      BY <3>7 DEF Raise
    <3> QED BY <2>3, <3>1, <3>2, <3>3, <3>4, <3>5, <3>6, <3>7 DEF SharedStep
  <2>4. CASE Crash
    BY <2>4 DEF Crash
  <2>5. CASE UNCHANGED vars
    BY <2>5 DEF vars
  <2> QED BY <2>1, <2>2, <2>3, <2>4, <2>5 DEF Next
<1>3. RowInv => RowsAreBeingMarked
  BY DEF RowInv
<1> QED BY <1>1, <1>2, <1>3, TypeInvariant, RowInvariant, PTL DEF Spec
-----------------------------------------------------------------------------
(* The step simulation. *)

\* What a step does to the abstract transaction is decided by the rows and the stores.
LEMMA SagaStutters ==
    ASSUME UNCHANGED <<txs, graph, vectors, stored>>
    PROVE  UNCHANGED Saga!sagaVars
BY DEF Saga!sagaVars, OutcomeOf, AppliedOf

\* update_state_transaction: a new status is an Open, a Commit or a Fail of the transaction.
LEMMA MarkImplementsSaga ==
    ASSUME TypeOK, TargetsExist, RowInv, SagaInv, NEW w \in Workers, MarkWrite(w)
    PROVE  [Saga!SagaNext]_(Saga!sagaVars)
<1> USE DEF MarkWrite, TypeOK, stores, Workers
<1>1. PICK t \in Commits : t = target[w] /\ txs[t] # None /\ txs[t] \in Rows
  BY DEF TargetsExist, OnTransaction, AfterGraph, Marks
<1>2. /\ txs' = [txs EXCEPT ![t] = Marked(w, txs[t])]
      /\ Marked(w, txs[t]) \in Rows
      /\ Marked(w, txs[t]) # None
  BY <1>1, MarkedIsRow DEF SagaInv, CopiesCurrent
<1>3. UNCHANGED [u \in Commits |-> AppliedOf(u)]
  BY DEF AppliedOf
<1>4. \A u \in Commits \ {t} : OutcomeOf(u)' = OutcomeOf(u)
  BY <1>1, <1>2 DEF OutcomeOf
<1>5. OutcomeOf(t)' = CASE Marked(w, txs[t]).status = "COMMITTED" -> "committed"
                        [] Marked(w, txs[t]).status = "FAILED" -> "failed"
                        [] OTHER -> "open"
  BY <1>1, <1>2 DEF OutcomeOf
<1>6. CASE pc[w] \in {"mark_graph", "mark_vector", "mark_sqlite"}
  <2>1. OutcomeOf(t)' = "open"
    BY <1>5, <1>6 DEF Marked
  <2>2. OutcomeOf(t) \in {"open", "failed"}
    BY <1>1, <1>6
    DEF OutcomeOf, SagaInv, OpenWhileWorking, OnTransaction, AfterGraph, TargetsExist, Rows,
        Flags, Steps, Marks
  <2>3. Saga!Open(t) \/ UNCHANGED Saga!sagaVars
    BY <1>1, <1>3, <1>4, <2>1, <2>2 DEF Saga!Open, Saga!sagaVars
  <2> QED BY <1>1, <2>3 DEF Saga!SagaNext
<1>7. CASE pc[w] = "mark_committed"
  <2>1. OutcomeOf(t)' = "committed"
    BY <1>5, <1>7 DEF Marked
  <2>2. AppliedOf(t) = Saga!Stores
    BY <1>1, <1>7 DEF AppliedOf, Saga!Stores, RowInv, Progress, Holds, AfterGraph, AfterVector,
                AfterChapter
  <2>3. OutcomeOf(t) \in {"open", "failed", "committed"}
    BY <1>1 DEF OutcomeOf
  <2>4. Saga!Commit(t) \/ UNCHANGED Saga!sagaVars
    BY <1>1, <1>3, <1>4, <2>1, <2>2, <2>3 DEF Saga!Commit, Saga!sagaVars
  <2> QED BY <1>1, <2>4 DEF Saga!SagaNext
<1>8. CASE pc[w] = "mark_failed"
  <2>1. OutcomeOf(t)' = "failed"
    BY <1>5, <1>8 DEF Marked
  <2>2. OutcomeOf(t) \in {"open", "failed"}
    BY <1>1, <1>8
    DEF OutcomeOf, SagaInv, OpenWhileWorking, OnTransaction, TargetsExist
  <2>3. Saga!Fail(t) \/ UNCHANGED Saga!sagaVars
    BY <1>1, <1>3, <1>4, <2>1, <2>2 DEF Saga!Fail, Saga!sagaVars
  <2> QED BY <1>1, <2>3 DEF Saga!SagaNext
<1> QED BY <1>6, <1>7, <1>8 DEF Marks

\* Writing a store in full is an Apply of the transaction, and a stutter when it was there.
LEMMA EffectImplementsSaga ==
    ASSUME TypeOK, TargetsExist, RowInv, SagaInv, NEW w \in Workers,
           ApplyGraph(w) \/ AddDocuments(w) \/ UpsertChapter(w)
    PROVE  [Saga!SagaNext]_(Saga!sagaVars)
<1> DEFINE store == IF ApplyGraph(w) THEN "graph" ELSE IF AddDocuments(w) THEN "vector" ELSE "chapter"
<1> USE DEF TypeOK, ApplyGraph, AddDocuments, UpsertChapter
<1>1. PICK t \in Commits : t = target[w] /\ txs[t] # None
  BY DEF TargetsExist, OnTransaction, AfterGraph
<1>2. UNCHANGED [u \in Commits |-> OutcomeOf(u)]
  BY DEF OutcomeOf
<1>3. \A u \in Commits \ {t} : AppliedOf(u)' = AppliedOf(u)
  BY <1>1 DEF AppliedOf
<1>4. AppliedOf(t)' = AppliedOf(t) \cup {store}
  BY <1>1 DEF AppliedOf
<1>5. store \in Saga!Stores
  BY DEF Saga!Stores
<1>6. OutcomeOf(t) = "committed" => AppliedOf(t) = Saga!Stores
  BY <1>1 DEF OutcomeOf, AppliedOf, RowInv, CommittedIsApplied, Holds, Flags, Saga!Stores
<1>7. OutcomeOf(t) \in {"open", "failed", "committed"}
  BY <1>1 DEF OutcomeOf
<1>8. [u \in Commits |-> AppliedOf(u)]'
        = [[u \in Commits |-> AppliedOf(u)] EXCEPT ![t] = AppliedOf(t) \cup {store}]
  BY <1>1, <1>3, <1>4
<1>9. CASE OutcomeOf(t) = "committed"
  <2>1. AppliedOf(t) \cup {store} = AppliedOf(t)
    BY <1>5, <1>6, <1>9
  <2>2. UNCHANGED [u \in Commits |-> AppliedOf(u)]
    BY <1>1, <1>8, <2>1
  <2> QED BY <1>2, <2>2 DEF Saga!sagaVars
<1>10. CASE OutcomeOf(t) \in {"open", "failed"}
  <2>1. Saga!Apply(t, store)
    BY <1>1, <1>2, <1>8, <1>10 DEF Saga!Apply
  <2> QED BY <1>1, <1>5, <2>1 DEF Saga!SagaNext
<1> QED BY <1>7, <1>9, <1>10

\* An interrupted apply_mutations is no step of the abstract transaction.
LEMMA PartOfGraphStutters ==
    ASSUME TypeOK, TargetsExist, NEW w \in Workers, PartOfGraph(w)
    PROVE  UNCHANGED Saga!sagaVars
<1> USE DEF TypeOK, PartOfGraph, workers
<1>1. target[w] \in Commits
  BY DEF TargetsExist, OnTransaction
<1>2. \A u \in Commits : AppliedOf(u)' = AppliedOf(u)
  BY <1>1 DEF AppliedOf
<1>3. \A u \in Commits : OutcomeOf(u)' = OutcomeOf(u)
  BY DEF OutcomeOf
<1> QED BY <1>2, <1>3 DEF Saga!sagaVars

\* Creating the row opens the transaction.
LEMMA CreateImplementsSaga ==
    ASSUME TypeOK, SagaInv, NEW c \in Commits, CreateTransaction(c)
    PROVE  [Saga!SagaNext]_(Saga!sagaVars)
<1> USE DEF TypeOK, CreateTransaction, stores
<1>1. txs[c] = None
  BY DEF SagaInv, OpenWhileWorking
<1>2. OutcomeOf(c) = "none" /\ OutcomeOf(c)' = "open"
  BY <1>1, NewRowIsRow DEF OutcomeOf, NewRow
<1>3. \A u \in Commits \ {c} : OutcomeOf(u)' = OutcomeOf(u)
  BY DEF OutcomeOf
<1>4. UNCHANGED [u \in Commits |-> AppliedOf(u)]
  BY DEF AppliedOf
<1>5. Saga!Open(c)
  BY <1>2, <1>3, <1>4 DEF Saga!Open
<1> QED BY <1>5 DEF Saga!SagaNext

\* One commit or replay at a time, the steps of graph.py and service.py implement the
\* transaction over three stores: it is COMMITTED only when all of them have it, nothing is
\* taken back from a store, and only a FAILED transaction is opened again.
THEOREM CommitImplementsSaga ==
    ASSUME ~Overlap
    PROVE  Spec => ImplementsSaga
<1> DEFINE TypeInv == TypeOK /\ TargetsExist
<1>1. Init => Saga!SagaInit
  BY DEF Init, Saga!SagaInit, OutcomeOf, AppliedOf
<1>2. TypeInv /\ RowInv /\ SagaInv /\ [Next]_vars => [Saga!SagaNext]_(Saga!sagaVars)
  <2> SUFFICES ASSUME TypeOK, TargetsExist, RowInv, SagaInv, [Next]_vars
               PROVE  [Saga!SagaNext]_(Saga!sagaVars)
    OBVIOUS
  <2> USE DEF stores, workers
  <2>1. ASSUME NEW c \in Commits, CommitStep(c)
        PROVE  [Saga!SagaNext]_(Saga!sagaVars)
    <3>1. CASE StartCommit(c)
      BY <3>1, SagaStutters DEF StartCommit
    <3>2. CASE ProfileExpander(c)
      BY <3>2, SagaStutters DEF ProfileExpander
    <3>3. CASE StateUpdater(c)
      BY <3>3, SagaStutters DEF StateUpdater
    <3>4. CASE CreateTransaction(c)
      BY <3>4, CreateImplementsSaga
    <3>5. CASE ReadStory(c)
      BY <3>5, SagaStutters DEF ReadStory
    <3>6. CASE UpdateRuntime(c)
      BY <3>6, SagaStutters DEF UpdateRuntime
    <3>7. CASE UpdateTopology(c)
      BY <3>7, SagaStutters DEF UpdateTopology
    <3>8. CASE ApplyCastUpdates(c)
      BY <3>8, SagaStutters DEF ApplyCastUpdates
    <3> QED BY <2>1, <3>1, <3>2, <3>3, <3>4, <3>5, <3>6, <3>7, <3>8 DEF CommitStep
  <2>2. ASSUME NEW r \in Replays, ReplayStep(r)
        PROVE  [Saga!SagaNext]_(Saga!sagaVars)
    <3>1. CASE SkipGraph(r)
      BY <3>1, SagaStutters DEF SkipGraph, Skip
    <3>2. CASE SkipVector(r)
      BY <3>2, SagaStutters DEF SkipVector, Skip
    <3>3. CASE SkipSqlite(r)
      BY <3>3, SagaStutters DEF SkipSqlite, Skip
    <3>4. ASSUME NEW t \in Commits, StartReplay(r, t)
          PROVE  [Saga!SagaNext]_(Saga!sagaVars)
      BY <3>4, SagaStutters DEF StartReplay
    <3> QED BY <2>2, <3>1, <3>2, <3>3, <3>4 DEF ReplayStep
  <2>3. ASSUME NEW w \in Workers, SharedStep(w)
        PROVE  [Saga!SagaNext]_(Saga!sagaVars)
    <3>1. CASE ApplyGraph(w)
      BY <3>1, EffectImplementsSaga
    <3>2. CASE PartOfGraph(w)
      BY <3>2, PartOfGraphStutters
    <3>3. CASE AddDocuments(w)
      BY <3>3, EffectImplementsSaga
    <3>4. CASE UpsertChapter(w)
      BY <3>4, EffectImplementsSaga
    <3>5. CASE MarkRead(w)
      BY <3>5, SagaStutters DEF MarkRead
    <3>6. CASE MarkWrite(w)
      BY <3>6, MarkImplementsSaga
    <3>7. CASE Raise(w)
      BY <3>7, SagaStutters DEF Raise
    <3> QED BY <2>3, <3>1, <3>2, <3>3, <3>4, <3>5, <3>6, <3>7 DEF SharedStep
  <2>4. CASE Crash
    BY <2>4, SagaStutters DEF Crash
  <2>5. CASE UNCHANGED vars
    BY <2>5, SagaStutters DEF vars
  <2> QED BY <2>1, <2>2, <2>3, <2>4, <2>5 DEF Next
<1> QED BY <1>1, <1>2, TypeInvariant, RowInvariant, SagaInvariant, PTL
    DEF Spec, ImplementsSaga, Saga!SagaSpec
=============================================================================

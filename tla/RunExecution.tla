----------------------------- MODULE RunExecution -----------------------------
(***************************************************************************)
(* One stored run and everybody who works on it.  The row of workflow_runs *)
(* is the only thing they share: every background task                     *)
(* (execute_stored_run, workflow/service.py) reads the whole state once,   *)
(* works on a copy of its own and writes the copy back after every node    *)
(* (WorkflowRecorder.record_and_update_run); every request of a human      *)
(* (the apply_hitl methods) reads the row, edits the copy, writes it back  *)
(* and schedules one more task.  Nothing locks the row, and a pausing node *)
(* shows that the run waits before the task that runs it has come to an    *)
(* end.                                                                    *)
(*                                                                         *)
(* The nodes are those of ChapterWorkflow, reduced to what they do to the  *)
(* row.  A request and the task it schedules share their identity.         *)
(***************************************************************************)
CONSTANTS
    Requests,    \* requests a human may send
    FirstTask,   \* the task scheduled by start_run_chapter
    Slow,        \* tasks in which a node may run out of time
    None

ASSUME TasksAssumption == FirstTask \notin Requests /\ Slow \subseteq Requests \cup {FirstTask}

VARIABLES
    row,       \* the stored state: status, flags, and what the decisions left in it
    at,        \* task -> where it is: a stage of its request, a node, or its end
    state,     \* task -> its copy of the state
    late,      \* task -> what a node that timed out has yet to write, or None
    commits,   \* tasks whose commit wrote the chapter
    decided,   \* ghost: the accepted decisions the state should show
    shared,    \* ghost: two threads were at work on the run at the same time
    orphaned   \* ghost: the run was left to itself by a crash or a lost task

vars == <<row, at, state, late, commits, decided, shared, orphaned>>

Tasks == Requests \cup {FirstTask}

\* planner, plan_supervisor, commit_to_databases and hitl are nodes of their own; author
\* stands for all between the plan and the commit.  What a node writes before it goes back
\* for a retry, it writes before it goes on as well; that the retries end is the subject of
\* ChapterWorkflow.
Nodes == {"planner", "plan_supervisor", "author", "commit_to_databases", "hitl"}
ResumeNodes == {"planner", "author", "commit_to_databases"}
    \* where resume_from may lead; "none" is the empty string

Statuses == {"RUNNING", "WAITING_HITL", "COMPLETED", "FAILED", "CANCELLED"}
States == [workflow_status : Statuses, requires_hitl : BOOLEAN,
           resume_from : ResumeNodes \cup {"none"}, decisions : SUBSET Requests]

ASSUME LateAssumption == None \notin States

Resting == {"idle", "done"}
AtWork(t) == at[t] \notin Resting

NewRun == [workflow_status |-> "RUNNING", requires_hitl |-> FALSE, resume_from |-> "planner",
           decisions |-> {}]

\* A task that is at its end has forgotten its copy.
Leave(t) ==
    /\ at' = [at EXCEPT ![t] = "done"]
    /\ state' = [state EXCEPT ![t] = NewRun]
-----------------------------------------------------------------------------
(* What a node makes of the state it is given, and where it leads. *)

Paused(s, resume) ==
    [s EXCEPT !.workflow_status = "WAITING_HITL", !.requires_hitl = TRUE, !.resume_from = resume]
Cleared(s) ==
    [s EXCEPT !.workflow_status = "RUNNING", !.requires_hitl = FALSE]
Resumable(s, resume) == [s EXCEPT !.resume_from = resume]
To(next, s) == [node |-> next, state |-> s]

\* Mutant of PlannerOutcomes: the node names its successor, where no run can resume.
PlannerOutcomesNamed(s) == {To("plan_supervisor", Resumable(s, "plan_supervisor"))}

\* The planner may ask for a pause and goes on all the same.
PlannerOutcomes(s) ==
    {To("plan_supervisor", Resumable(s, "planner")), To("plan_supervisor", Paused(s, "planner"))}

PlanSupervisorOutcomes(s) ==
    {To("author", Resumable(Cleared(s), "author")), To("hitl", Paused(s, "planner"))}

\* Some of the nodes clear the flags when they do not pause, some leave them alone; the
\* state_updater before the commit resets the status and no flag.
AuthorOutcomes(s) ==
    {To("commit_to_databases", Resumable(Cleared(s), "commit_to_databases")),
     To("commit_to_databases",
        Resumable([s EXCEPT !.workflow_status = "RUNNING"], "commit_to_databases")),
     To("hitl", Paused(s, "author"))}

CommitOutcomes(s) == {To("end", [s EXCEPT !.workflow_status = "COMPLETED"])}

HitlOutcomes(s) ==
    {To("end", [s EXCEPT !.workflow_status = "WAITING_HITL", !.requires_hitl = TRUE])}

Outcomes(node, s) ==
    CASE node = "planner"         -> PlannerOutcomes(s)
      [] node = "plan_supervisor" -> PlanSupervisorOutcomes(s)
      [] node = "author"          -> AuthorOutcomes(s)
      [] node = "commit_to_databases" -> CommitOutcomes(s)
      [] OTHER                    -> HitlOutcomes(s)
-----------------------------------------------------------------------------
(* The requests of a human. *)

\* Mutant of ReadState: the run is not asked whether it waits.
ReadStateUnchecked(q) ==
    /\ at[q] = "idle"
    /\ state' = [state EXCEPT ![q] = row]
    /\ shared' = (shared \/ \E t \in Tasks : AtWork(t))
    /\ at' = [at EXCEPT ![q] = "edit"]
    /\ UNCHANGED <<row, late, commits, decided, orphaned>>

\* _ensure_hitl_waiting; a request that finds the run not waiting is refused.
ReadState(q) ==
    /\ at[q] = "idle"
    /\ row.workflow_status = "WAITING_HITL" \/ row.requires_hitl
    /\ state' = [state EXCEPT ![q] = row]
    /\ shared' = (shared \/ \E t \in Tasks : AtWork(t))
    /\ at' = [at EXCEPT ![q] = "edit"]
    /\ UNCHANGED <<row, late, commits, decided, orphaned>>

\* A request names a node before the commit or goes on where the run stands.
Chosen(s) == {"planner", "author"} \cup ({s.resume_from} \ {"none"})

\* Mutant of Answers: the state is built anew, as for an abort, but the run goes on.
AnswersFromScratch(q, s) ==
    {[Cleared(s) EXCEPT !.resume_from = resume, !.decisions = {q}] : resume \in Chosen(s)}

\* A decision that lets the run go on; ABORT_AND_RESTART, which keeps nothing of earlier
\* decisions; and ABANDON_CHAPTER.
Answers(q, s) ==
    {[Cleared(s) EXCEPT !.resume_from = resume, !.decisions = @ \cup {q}] :
        resume \in Chosen(s)}
Aborts(q, s) ==
    {[Cleared(s) EXCEPT !.resume_from = "planner", !.decisions = {q}]}
Abandons(q, s) ==
    {[Cleared(s) EXCEPT !.workflow_status = "CANCELLED", !.resume_from = "none",
                        !.decisions = @ \cup {q}]}

\* update_run with the edited copy; the background task is scheduled with the response.
WriteDecision(q) ==
    /\ at[q] = "edit"
    /\ \/ row' \in Answers(q, state[q]) \cup Abandons(q, state[q])
          /\ decided' = decided \cup {q}
       \/ row' \in Aborts(q, state[q])
          /\ decided' = {q}
    /\ at' = [at EXCEPT ![q] = "queued"]
    /\ UNCHANGED <<state, late, commits, shared, orphaned>>

\* The request turns out to be unfit for what the run waits for, and nothing is written.
Refuse(q) ==
    /\ at[q] = "edit"
    /\ Leave(q)
    /\ UNCHANGED <<row, late, commits, decided, shared, orphaned>>
-----------------------------------------------------------------------------
(* execute_stored_run. *)

\* The state is read and the graph entered at resume_from, whatever the status has become
\* since, unless the run was abandoned.
Fetch(t) ==
    /\ at[t] = "queued"
    /\ \/ /\ row.workflow_status = "CANCELLED"
          /\ Leave(t)
       \/ /\ row.workflow_status # "CANCELLED"
          /\ state' = [state EXCEPT ![t] = row]
          /\ at' = [at EXCEPT ![t] = IF row.resume_from = "none" THEN "planner"
                                     ELSE row.resume_from]
    /\ UNCHANGED <<row, late, commits, decided, shared, orphaned>>

\* Mutant of Committers: a failing store is passed over.
CommittersUnlessFailed(t) == commits

Committers(t) == IF at[t] = "commit_to_databases" THEN commits \cup {t} ELSE commits

\* A node, and what it records.
RunNode(t) ==
    /\ at[t] \in Nodes
    /\ \E outcome \in Outcomes(at[t], state[t]) :
          /\ row' = outcome.state
          /\ state' = [state EXCEPT ![t] = outcome.state]
          /\ at' = [at EXCEPT ![t] = outcome.node]
    /\ commits' = Committers(t)
    /\ UNCHANGED <<late, decided, shared, orphaned>>

\* The update_run that follows graph.invoke.
Finish(t) ==
    /\ at[t] = "end"
    /\ row' = state[t]
    /\ Leave(t)
    /\ UNCHANGED <<late, commits, decided, shared, orphaned>>

\* A node raises, perhaps after the commit wrote what it had to write; the row is read back.
Raise(t) ==
    /\ at[t] \in Nodes \cup {"end"}
    /\ state' = [state EXCEPT ![t] = row]
    /\ at' = [at EXCEPT ![t] = "failing"]
    /\ commits' \in {commits, Committers(t)}
    /\ UNCHANGED <<row, late, decided, shared, orphaned>>

\* A node runs out of time: the task goes on to record the failure, the thread of the node
\* cannot be stopped and goes on too.
TimesOut(t) ==
    /\ t \in Slow
    /\ at[t] \in Nodes \ {"hitl"}
    /\ \E outcome \in Outcomes(at[t], state[t]) :
          late' = [late EXCEPT ![t] = outcome.state]
    /\ state' = [state EXCEPT ![t] = row]
    /\ at' = [at EXCEPT ![t] = "failing"]
    /\ commits' = Committers(t)
    /\ shared' = TRUE
    /\ UNCHANGED <<row, decided, orphaned>>

\* The thread of a node that timed out writes what it found; nobody waits for it.
LateWrite(t) ==
    /\ late[t] # None
    /\ row' = late[t]
    /\ late' = [late EXCEPT ![t] = None]
    /\ orphaned' = TRUE
    /\ UNCHANGED <<at, state, commits, decided, shared>>

\* Mutant of RecordFailure: the failure is logged and not stored.
RecordFailureInLogOnly(t) ==
    /\ at[t] = "failing"
    /\ Leave(t)
    /\ UNCHANGED <<row, late, commits, decided, shared, orphaned>>

RecordFailure(t) ==
    /\ at[t] = "failing"
    /\ row' = [state[t] EXCEPT !.workflow_status = "FAILED", !.requires_hitl = FALSE]
    /\ Leave(t)
    /\ UNCHANGED <<late, commits, decided, shared, orphaned>>

\* An exception that nobody catches: recording the failure fails as well, the task cannot
\* read the row, or the request fails before its response, which would schedule the task.
IsLost(t) ==
    /\ at[t] \in {"queued", "failing"}
    /\ Leave(t)
    /\ orphaned' = TRUE
    /\ UNCHANGED <<row, late, commits, decided, shared>>

\* The process stops: requests, tasks and threads are gone, the row stays as it is.
Crash ==
    /\ \E t \in Tasks : AtWork(t) \/ late[t] # None
    /\ at' = [t \in Tasks |-> IF AtWork(t) THEN "done" ELSE at[t]]
    /\ state' = [t \in Tasks |-> NewRun]
    /\ late' = [t \in Tasks |-> None]
    /\ orphaned' = TRUE
    /\ UNCHANGED <<row, commits, decided, shared>>
-----------------------------------------------------------------------------
Init ==
    /\ row = NewRun
    /\ at = [t \in Tasks |-> IF t = FirstTask THEN "queued" ELSE "idle"]
    /\ state = [t \in Tasks |-> NewRun]
    /\ late = [t \in Tasks |-> None]
    /\ commits = {}
    /\ decided = {}
    /\ shared = FALSE
    /\ orphaned = FALSE

\* What a task does by itself once it has been set going.
Work(t) ==
    \/ t \in Requests /\ (WriteDecision(t) \/ Refuse(t))
    \/ Fetch(t)
    \/ RunNode(t)
    \/ Finish(t)
    \/ Raise(t)
    \/ TimesOut(t)
    \/ RecordFailure(t)
    \/ IsLost(t)

Next ==
    \/ \E q \in Requests : ReadState(q)
    \/ \E t \in Tasks : Work(t) \/ LateWrite(t)
    \/ Crash

Spec == Init /\ [][Next]_vars
-----------------------------------------------------------------------------
(* Properties. *)

TypeOK ==
    /\ row \in States
    /\ at \in [Tasks -> {"idle", "edit", "queued", "end", "failing", "done"} \cup Nodes]
    /\ state \in [Tasks -> States]
    /\ late \in [Tasks -> States \cup {None}]
    /\ commits \subseteq Tasks
    /\ decided \subseteq Requests
    /\ shared \in BOOLEAN
    /\ orphaned \in BOOLEAN

\* However requests and tasks overwrite each other's rows, the last one to go never leaves
\* the run RUNNING with nobody but a request that may be refused to run it.
RunningIsAttended ==
    row.workflow_status = "RUNNING" /\ ~orphaned =>
        \E t \in Tasks : AtWork(t) /\ at[t] # "edit"

\* A row that says COMPLETED has a chapter behind it, even when it was written back from an
\* old copy.
CompletedMeansCommitted == row.workflow_status = "COMPLETED" => commits # {}

\* As long as every decision comes when nobody is at work on the run, no accepted decision
\* is overwritten, through any number of failures and crashes.
AloneNothingIsLost == ~shared => row.decisions = decided

\* As long as every decision comes when nobody is at work, a run commits its chapter once.
AloneCommitsOnce == ~shared => \A s, t \in commits : s = t
=============================================================================

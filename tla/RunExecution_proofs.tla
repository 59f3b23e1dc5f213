------------------------- MODULE RunExecution_proofs -------------------------
(***************************************************************************)
(* Proofs about RunExecution.  What holds in every interleaving (Attended, *)
(* Backed) needs no more than what a task at its end has in its copy.      *)
(* What holds while nobody shares the run (Alone) rests on one fact: then  *)
(* there is one task at work at most, and its copy is the row.             *)
(***************************************************************************)
EXTENDS RunExecution, TLAPS

\* A task at its end leaves a status behind that is not RUNNING.
EndsSettled ==
    \A t \in Tasks : at[t] = "end" => state[t].workflow_status \in {"COMPLETED", "WAITING_HITL"}

Attended == RunningIsAttended /\ EndsSettled

\* No copy says COMPLETED before a commit.
Backed ==
    \/ commits # {}
    \/ /\ row.workflow_status # "COMPLETED"
       /\ \A t \in Tasks : state[t].workflow_status # "COMPLETED"
       /\ \A t \in Tasks : late[t] # None => late[t].workflow_status # "COMPLETED"

OneAtWork  == \A s, t \in Tasks : AtWork(s) /\ AtWork(t) => s = t
NobodyLate == \A t \in Tasks : late[t] = None
CopyIsRow  == \A t \in Tasks : AtWork(t) /\ at[t] # "queued" => state[t] = row

NotWaiting == row.requires_hitl = FALSE /\ row.workflow_status # "WAITING_HITL"

\* Nothing waits when a task is about to run a node that does not answer a pause.
FlagsCleared ==
    \A t \in Tasks : at[t] \in {"queued", "planner", "author", "commit_to_databases"} => NotWaiting

\* After a commit nobody can be sent to the commit again.
CommitIsLast ==
    commits # {} => NotWaiting /\ \A t \in Tasks : AtWork(t) => at[t] \in {"end", "failing"}

Alone ==
    ~shared =>
        /\ OneAtWork
        /\ NobodyLate
        /\ CopyIsRow
        /\ FlagsCleared
        /\ CommitIsLast
        /\ row.decisions = decided
        /\ \A s, t \in commits : s = t
-----------------------------------------------------------------------------
(* What the nodes and the decisions make of a state. *)

\* The outcomes of each node are its own.
LEMMA OutcomesByNode ==
    ASSUME NEW s
    PROVE  /\ Outcomes("planner", s) = PlannerOutcomes(s)
           /\ Outcomes("plan_supervisor", s) = PlanSupervisorOutcomes(s)
           /\ Outcomes("author", s) = AuthorOutcomes(s)
           /\ Outcomes("commit_to_databases", s) = CommitOutcomes(s)
           /\ Outcomes("hitl", s) = HitlOutcomes(s)
<1>1. Outcomes("planner", s) = PlannerOutcomes(s)
  BY DEF Outcomes
<1>2. Outcomes("plan_supervisor", s) = PlanSupervisorOutcomes(s)
  BY DEF Outcomes
<1>3. Outcomes("author", s) = AuthorOutcomes(s)
  BY DEF Outcomes
<1>4. Outcomes("commit_to_databases", s) = CommitOutcomes(s)
  BY DEF Outcomes
<1>5. Outcomes("hitl", s) = HitlOutcomes(s)
  BY DEF Outcomes
<1> QED BY <1>1, <1>2, <1>3, <1>4, <1>5

\* A state whose flags were cleared.
LEMMA ClearedFacts ==
    ASSUME NEW s \in States
    PROVE  /\ Cleared(s) \in States
           /\ Cleared(s).workflow_status = "RUNNING"
           /\ Cleared(s).requires_hitl = FALSE
           /\ Cleared(s).decisions = s.decisions
BY DEF Cleared, States, Statuses

\* Where a run may resume changes nothing else of its state.
LEMMA ResumableFacts ==
    ASSUME NEW s \in States, NEW resume \in ResumeNodes
    PROVE  /\ Resumable(s, resume) \in States
           /\ Resumable(s, resume).workflow_status = s.workflow_status
           /\ Resumable(s, resume).requires_hitl = s.requires_hitl
           /\ Resumable(s, resume).decisions = s.decisions
BY DEF Resumable, States

\* A state whose flags were cleared and that says where it may resume.
LEMMA ClearedResumableFacts ==
    ASSUME NEW s \in States, NEW resume \in ResumeNodes
    PROVE  /\ Resumable(Cleared(s), resume) \in States
           /\ Resumable(Cleared(s), resume).workflow_status = "RUNNING"
           /\ Resumable(Cleared(s), resume).requires_hitl = FALSE
           /\ Resumable(Cleared(s), resume).decisions = s.decisions
<1> DEFINE k == Cleared(s)
<1>1. k \in States /\ k.workflow_status = "RUNNING" /\ k.requires_hitl = FALSE
      /\ k.decisions = s.decisions
  BY ClearedFacts
<1> HIDE DEF k
<1>2. /\ Resumable(k, resume) \in States
      /\ Resumable(k, resume).workflow_status = "RUNNING"
      /\ Resumable(k, resume).requires_hitl = FALSE
      /\ Resumable(k, resume).decisions = s.decisions
  BY <1>1, ResumableFacts
<1> QED BY <1>2 DEF k

\* A state that asks for a pause.
LEMMA PausedFacts ==
    ASSUME NEW s \in States, NEW resume \in ResumeNodes
    PROVE  /\ Paused(s, resume) \in States
           /\ Paused(s, resume).workflow_status = "WAITING_HITL"
           /\ Paused(s, resume).decisions = s.decisions
BY DEF Paused, States, Statuses

\* What a node records is a state, and it leads to a node or to the end.  No node touches
\* the decisions, only the commit completes a run, only hitl and the commit end an
\* execution, and no node that does not answer a pause follows one that asks for it.
Effect(node, s, outcome) ==
    /\ outcome.state \in States
    /\ outcome.node \in Nodes \cup {"end"}
    /\ outcome.state.decisions = s.decisions
    /\ outcome.node = "end" => outcome.state.workflow_status \in {"COMPLETED", "WAITING_HITL"}
    /\ outcome.state.workflow_status = "COMPLETED" =>
          node = "commit_to_databases" \/ s.workflow_status = "COMPLETED"
    /\ outcome.node # "planner"
    /\ outcome.node = "author" =>
          /\ outcome.state.workflow_status = "RUNNING"
          /\ outcome.state.requires_hitl = FALSE
    /\ outcome.node = "commit_to_databases" =>
          /\ node = "author"
          /\ outcome.state.workflow_status = "RUNNING"
          /\ outcome.state.requires_hitl \in {FALSE, s.requires_hitl}
    /\ node = "commit_to_databases" =>
          /\ outcome.node = "end"
          /\ outcome.state.workflow_status = "COMPLETED"
          /\ outcome.state.requires_hitl = s.requires_hitl

\* Every node has these effects.
LEMMA OutcomeFacts ==
    ASSUME NEW node \in Nodes, NEW s \in States, NEW outcome \in Outcomes(node, s)
    PROVE  Effect(node, s, outcome)
<1> USE DEF Effect
<1> DEFINE Completed == [s EXCEPT !.workflow_status = "COMPLETED"]
           Waiting   == [s EXCEPT !.workflow_status = "WAITING_HITL", !.requires_hitl = TRUE]
           Running   == [s EXCEPT !.workflow_status = "RUNNING"]
<1>1. /\ Completed \in States
      /\ Completed.workflow_status = "COMPLETED"
      /\ Completed.requires_hitl = s.requires_hitl
      /\ Completed.decisions = s.decisions
  BY DEF States, Statuses, ResumeNodes
<1>2. /\ Waiting \in States
      /\ Waiting.workflow_status = "WAITING_HITL"
      /\ Waiting.decisions = s.decisions
  BY DEF States, Statuses, ResumeNodes
<1>3. /\ Running \in States
      /\ Running.workflow_status = "RUNNING"
      /\ Running.requires_hitl = s.requires_hitl
      /\ Running.decisions = s.decisions
  BY DEF States, Statuses, ResumeNodes
<1>4. CASE node = "planner"
  <2>1. \/ outcome = To("plan_supervisor", Resumable(s, "planner"))
        \/ outcome = To("plan_supervisor", Paused(s, "planner"))
    BY <1>4, OutcomesByNode DEF PlannerOutcomes
  <2>2. CASE outcome = To("plan_supervisor", Resumable(s, "planner"))
    <3>1. outcome.state = Resumable(s, "planner") /\ outcome.node = "plan_supervisor"
      BY <2>2 DEF To
    <3> QED BY <1>4, <3>1, ResumableFacts DEF Nodes, ResumeNodes
  <2>3. CASE outcome = To("plan_supervisor", Paused(s, "planner"))
    <3>1. outcome.state = Paused(s, "planner") /\ outcome.node = "plan_supervisor"
      BY <2>3 DEF To
    <3> QED BY <1>4, <3>1, PausedFacts DEF Nodes, ResumeNodes
  <2> QED BY <2>1, <2>2, <2>3
<1>5. CASE node = "plan_supervisor"
  <2>1. \/ outcome = To("author", Resumable(Cleared(s), "author"))
        \/ outcome = To("hitl", Paused(s, "planner"))
    BY <1>5, OutcomesByNode DEF PlanSupervisorOutcomes
  <2>2. CASE outcome = To("author", Resumable(Cleared(s), "author"))
    <3>1. outcome.state = Resumable(Cleared(s), "author") /\ outcome.node = "author"
      BY <2>2 DEF To
    <3>2. \E resume \in ResumeNodes : outcome.state = Resumable(Cleared(s), resume)
      BY <3>1 DEF ResumeNodes
    <3>3. /\ outcome.state \in States
          /\ outcome.state.workflow_status = "RUNNING"
          /\ outcome.state.requires_hitl = FALSE
          /\ outcome.state.decisions = s.decisions
      BY <3>2, ClearedResumableFacts
    <3> QED BY <1>5, <3>1, <3>3 DEF Nodes
  <2>3. CASE outcome = To("hitl", Paused(s, "planner"))
    <3>1. outcome.state = Paused(s, "planner") /\ outcome.node = "hitl"
      BY <2>3 DEF To
    <3> QED BY <1>5, <3>1, PausedFacts DEF Nodes, ResumeNodes
  <2> QED BY <2>1, <2>2, <2>3
<1>6. CASE node = "author"
  <2>1. \/ outcome = To("commit_to_databases", Resumable(Cleared(s), "commit_to_databases"))
        \/ outcome = To("hitl", Paused(s, "author"))
        \/ outcome = To("commit_to_databases", Resumable(Running, "commit_to_databases"))
    BY <1>6, OutcomesByNode DEF AuthorOutcomes
  <2>2. CASE outcome = To("commit_to_databases", Resumable(Cleared(s), "commit_to_databases"))
    <3>1. /\ outcome.state = Resumable(Cleared(s), "commit_to_databases")
          /\ outcome.node = "commit_to_databases"
      BY <2>2 DEF To
    <3>2. \E resume \in ResumeNodes : outcome.state = Resumable(Cleared(s), resume)
      BY <3>1 DEF ResumeNodes
    <3>3. /\ outcome.state \in States
          /\ outcome.state.workflow_status = "RUNNING"
          /\ outcome.state.requires_hitl = FALSE
          /\ outcome.state.decisions = s.decisions
      BY <3>2, ClearedResumableFacts
    <3> QED BY <1>6, <3>1, <3>3 DEF Nodes
  <2>3. CASE outcome = To("hitl", Paused(s, "author"))
    <3>1. outcome.state = Paused(s, "author") /\ outcome.node = "hitl"
      BY <2>3 DEF To
    <3> QED BY <1>6, <3>1, PausedFacts DEF Nodes, ResumeNodes
  <2>4. CASE outcome = To("commit_to_databases", Resumable(Running, "commit_to_databases"))
    <3>1. /\ outcome.state = Resumable(Running, "commit_to_databases")
          /\ outcome.node = "commit_to_databases"
      BY <2>4 DEF To
    <3> HIDE DEF Running
    <3>2. /\ outcome.state \in States
          /\ outcome.state.workflow_status = "RUNNING"
          /\ outcome.state.requires_hitl = s.requires_hitl
          /\ outcome.state.decisions = s.decisions
      BY <1>3, <3>1, ResumableFacts DEF ResumeNodes
    <3> QED BY <1>6, <3>1, <3>2 DEF Nodes
  <2> QED BY <2>1, <2>2, <2>3, <2>4
<1>7. CASE node = "commit_to_databases"
  <2>1. outcome = To("end", Completed)
    BY <1>7, OutcomesByNode DEF CommitOutcomes
  <2> QED BY <1>1, <1>7, <2>1 DEF To, Nodes
<1>8. CASE node = "hitl"
  <2>1. outcome = To("end", Waiting)
    BY <1>8, OutcomesByNode DEF HitlOutcomes
  <2> QED BY <1>2, <1>8, <2>1 DEF To, Nodes
<1> QED BY <1>4, <1>5, <1>6, <1>7, <1>8 DEF Nodes

\* What an accepted decision leaves behind that keeps the earlier ones: nothing waits, and
\* the decision is there with them.
Kept(q, s, r) ==
    /\ r \in States
    /\ r.requires_hitl = FALSE
    /\ r.workflow_status \in {"RUNNING", "CANCELLED"}
    /\ r.decisions = s.decisions \cup {q}

\* A decision that lets the run go on keeps the earlier ones.
LEMMA AnswerFacts ==
    ASSUME NEW q \in Requests, NEW s \in States, NEW r \in Answers(q, s)
    PROVE  Kept(q, s, r)
<1> DEFINE k == Cleared(s)
<1>1. k \in States /\ k.requires_hitl = FALSE /\ k.workflow_status = "RUNNING"
      /\ k.decisions = s.decisions
  BY ClearedFacts
<1> HIDE DEF k
<1>2. PICK resume \in Chosen(s) :
          r = [k EXCEPT !.resume_from = resume, !.decisions = @ \cup {q}]
  BY DEF Answers, k
<1>3. resume \in ResumeNodes
  BY <1>2 DEF Chosen, States, ResumeNodes
<1> QED BY <1>1, <1>2, <1>3 DEF Kept, States

\* So does the one that abandons it.
LEMMA AbandonFacts ==
    ASSUME NEW q \in Requests, NEW s \in States, NEW r \in Abandons(q, s)
    PROVE  Kept(q, s, r)
<1> DEFINE k == Cleared(s)
<1>1. k \in States /\ k.requires_hitl = FALSE /\ k.decisions = s.decisions
  BY ClearedFacts
<1> HIDE DEF k
<1>2. r = [k EXCEPT !.workflow_status = "CANCELLED", !.resume_from = "none",
                    !.decisions = @ \cup {q}]
  BY DEF Abandons, k
<1> QED BY <1>1, <1>2 DEF Kept, States, Statuses

\* What either leaves behind, as a fact of the step that writes it.
LEMMA WriteFacts ==
    ASSUME NEW q \in Requests, state[q] \in States, WriteDecision(q)
    PROVE  \/ Kept(q, state[q], row') /\ decided' = decided \cup {q}
           \/ row' \in Aborts(q, state[q]) /\ decided' = {q}
<1>1. CASE row' \in Answers(q, state[q])
  BY <1>1, AnswerFacts DEF WriteDecision
<1>2. CASE row' \in Abandons(q, state[q])
  BY <1>2, AbandonFacts DEF WriteDecision
<1>3. CASE row' \notin Answers(q, state[q]) \cup Abandons(q, state[q])
  BY <1>3 DEF WriteDecision
<1> QED BY <1>1, <1>2, <1>3

\* What an abort leaves behind.
LEMMA AbortFacts ==
    ASSUME NEW q \in Requests, NEW s \in States, NEW r \in Aborts(q, s)
    PROVE  /\ r \in States
           /\ r.requires_hitl = FALSE
           /\ r.workflow_status = "RUNNING"
           /\ r.decisions = {q}
<1> DEFINE k == Cleared(s)
<1>1. k \in States /\ k.requires_hitl = FALSE /\ k.workflow_status = "RUNNING"
  BY ClearedFacts
<1> HIDE DEF k
<1>2. r = [k EXCEPT !.resume_from = "planner", !.decisions = {q}]
  BY DEF Aborts, k
<1> QED BY <1>1, <1>2 DEF States, ResumeNodes

\* A recorded failure.
LEMMA FailureFacts ==
    ASSUME NEW s \in States
    PROVE  LET f == [s EXCEPT !.workflow_status = "FAILED", !.requires_hitl = FALSE]
           IN  /\ f \in States
               /\ f.requires_hitl = FALSE
               /\ f.workflow_status = "FAILED"
               /\ f.decisions = s.decisions
BY DEF States, Statuses

\* A new run.
LEMMA NewRunFacts ==
    NewRun \in States /\ NewRun.requires_hitl = FALSE /\ NewRun.workflow_status = "RUNNING"
    /\ NewRun.decisions = {} /\ NewRun.resume_from = "planner"
BY DEF NewRun, States, Statuses, ResumeNodes
-----------------------------------------------------------------------------
(* Type correctness. *)

\* A new run is well typed.
LEMMA InitTypeOK == Init => TypeOK
BY NewRunFacts DEF Init, TypeOK, Nodes, Tasks


\* Every step keeps the types.
LEMMA NextTypeOK == TypeOK /\ [Next]_vars => TypeOK'
<1> SUFFICES ASSUME TypeOK, [Next]_vars PROVE TypeOK'
  OBVIOUS
<1> USE NewRunFacts DEF TypeOK
<1>1. ASSUME NEW q \in Requests, ReadState(q) PROVE TypeOK'
  BY <1>1 DEF ReadState, Tasks
<1>2. ASSUME NEW q \in Requests, WriteDecision(q) PROVE TypeOK'
  <2>1. state[q] \in States
    BY DEF Tasks
  <2>2. row' \in States
    BY <1>2, <2>1, WriteFacts, AbortFacts DEF Kept
  <2> QED BY <1>2, <2>2 DEF WriteDecision, Tasks
<1>3. ASSUME NEW t \in Tasks, Fetch(t) PROVE TypeOK'
  <2>1. CASE row.workflow_status = "CANCELLED"
    BY <1>3, <2>1 DEF Fetch, Leave
  <2>2. CASE row.workflow_status # "CANCELLED"
    <3>1. row.resume_from \in ResumeNodes \cup {"none"}
      BY DEF States
    <3> QED BY <1>3, <2>2, <3>1 DEF Fetch, Nodes, ResumeNodes
  <2> QED BY <2>1, <2>2
<1>4. ASSUME NEW t \in Tasks, RunNode(t) PROVE TypeOK'
  <2>1. PICK outcome \in Outcomes(at[t], state[t]) :
            /\ row' = outcome.state
            /\ state' = [state EXCEPT ![t] = outcome.state]
            /\ at' = [at EXCEPT ![t] = outcome.node]
    BY <1>4 DEF RunNode
  <2>2. Effect(at[t], state[t], outcome)
    BY <1>4, OutcomeFacts DEF RunNode
  <2>3. commits' \subseteq Tasks
    BY <1>4 DEF RunNode, Committers
  <2> QED BY <1>4, <2>1, <2>2, <2>3 DEF RunNode, Effect
<1>5. ASSUME NEW t \in Tasks, Finish(t) PROVE TypeOK'
  BY <1>5 DEF Finish, Leave
<1>6. ASSUME NEW t \in Tasks, Raise(t) PROVE TypeOK'
  <2>1. commits' \subseteq Tasks
    BY <1>6 DEF Raise, Committers
  <2> QED BY <1>6, <2>1 DEF Raise
<1>7. ASSUME NEW t \in Tasks, TimesOut(t) PROVE TypeOK'
  <2>1. PICK outcome \in Outcomes(at[t], state[t]) : late' = [late EXCEPT ![t] = outcome.state]
    BY <1>7 DEF TimesOut
  <2>2. Effect(at[t], state[t], outcome)
    BY <1>7, OutcomeFacts DEF TimesOut
  <2>3. commits' \subseteq Tasks
    BY <1>7 DEF TimesOut, Committers
  <2> QED BY <1>7, <2>1, <2>2, <2>3 DEF TimesOut, Effect
<1>8. ASSUME NEW t \in Tasks, RecordFailure(t) PROVE TypeOK'
  BY <1>8, FailureFacts DEF RecordFailure, Leave
<1>9. ASSUME NEW t \in Tasks, IsLost(t) PROVE TypeOK'
  BY <1>9 DEF IsLost, Leave
<1>10. ASSUME NEW t \in Tasks, LateWrite(t) PROVE TypeOK'
  BY <1>10 DEF LateWrite
<1>11. CASE Crash
  BY <1>11 DEF Crash
<1>12. CASE UNCHANGED vars
  BY <1>12 DEF vars
<1>13. ASSUME NEW q \in Requests, Refuse(q) PROVE TypeOK'
  BY <1>13 DEF Refuse, Leave
<1> QED BY <1>1, <1>2, <1>3, <1>4, <1>5, <1>6, <1>7, <1>8, <1>9, <1>10, <1>11, <1>12, <1>13
        DEF Next, Work

\* Whatever tasks and requests do to each other, the row and every copy of it stay states a
\* run can be stored in.
THEOREM TypeCorrect == Spec => []TypeOK
BY InitTypeOK, NextTypeOK, PTL DEF Spec
-----------------------------------------------------------------------------
(* What holds in every interleaving. *)

\* A run that is RUNNING is attended.
LEMMA NextAttended == TypeOK /\ Attended /\ [Next]_vars => Attended'
<1> SUFFICES ASSUME TypeOK, Attended, [Next]_vars PROVE Attended'
  OBVIOUS
<1> USE DEF Attended, RunningIsAttended, EndsSettled, AtWork, Resting
<1>1. ASSUME NEW q \in Requests, ReadState(q) PROVE Attended'
  BY <1>1 DEF ReadState, Tasks, TypeOK
<1>2. ASSUME NEW q \in Requests, WriteDecision(q) PROVE Attended'
  BY <1>2 DEF WriteDecision, Tasks, TypeOK
<1>3. ASSUME NEW t \in Tasks, Fetch(t) PROVE Attended'
  <2>1. CASE row.workflow_status = "CANCELLED"
    BY <1>3, <2>1 DEF Fetch, Leave, TypeOK
  <2>2. CASE row.workflow_status # "CANCELLED"
    <3>1. row.resume_from \in ResumeNodes \cup {"none"}
      BY DEF TypeOK, States
    <3>2. at'[t] \in {"planner", "author", "commit_to_databases"}
      BY <1>3, <2>2, <3>1 DEF Fetch, ResumeNodes, TypeOK
    <3> QED BY <1>3, <2>2, <3>2 DEF Fetch, TypeOK
  <2> QED BY <2>1, <2>2
<1>4. ASSUME NEW t \in Tasks, RunNode(t) PROVE Attended'
  <2>1. PICK outcome \in Outcomes(at[t], state[t]) :
            /\ state' = [state EXCEPT ![t] = outcome.state]
            /\ at' = [at EXCEPT ![t] = outcome.node]
    BY <1>4 DEF RunNode
  <2>2. Effect(at[t], state[t], outcome)
    BY <1>4, OutcomeFacts DEF RunNode, TypeOK
  <2> QED BY <1>4, <2>1, <2>2 DEF RunNode, TypeOK, Nodes, Effect
<1>5. ASSUME NEW t \in Tasks, Finish(t) PROVE Attended'
  <2>1. row'.workflow_status # "RUNNING"
    BY <1>5 DEF Finish
  <2> QED BY <1>5, <2>1 DEF Finish, Leave, TypeOK
<1>6. ASSUME NEW t \in Tasks, Raise(t) PROVE Attended'
  BY <1>6 DEF Raise, TypeOK
<1>7. ASSUME NEW t \in Tasks, TimesOut(t) PROVE Attended'
  BY <1>7 DEF TimesOut, TypeOK
<1>8. ASSUME NEW t \in Tasks, RecordFailure(t) PROVE Attended'
  <2>1. row'.workflow_status # "RUNNING"
    BY <1>8, FailureFacts DEF RecordFailure, TypeOK
  <2> QED BY <1>8, <2>1 DEF RecordFailure, Leave, TypeOK
<1>9. ASSUME NEW t \in Tasks, IsLost(t) PROVE Attended'
  BY <1>9 DEF IsLost, Leave, TypeOK
<1>10. ASSUME NEW t \in Tasks, LateWrite(t) PROVE Attended'
  BY <1>10 DEF LateWrite, TypeOK
<1>11. CASE Crash
  BY <1>11 DEF Crash, TypeOK
<1>12. CASE UNCHANGED vars
  BY <1>12 DEF vars
<1>13. ASSUME NEW q \in Requests, Refuse(q) PROVE Attended'
  BY <1>13, NewRunFacts DEF Refuse, Leave, TypeOK
<1> QED BY <1>1, <1>2, <1>3, <1>4, <1>5, <1>6, <1>7, <1>8, <1>9, <1>10, <1>11, <1>12, <1>13
        DEF Next, Work

\* Unless a crash, a lost failure or a straggler left the run to itself, a row that says
\* RUNNING has a request or a task at work: the overwriting of rows never strands a run.
THEOREM RunningAttended == Spec => []RunningIsAttended
<1>1. Init => Attended
  BY NewRunFacts DEF Init, Attended, RunningIsAttended, EndsSettled, AtWork, Resting, Tasks
<1>2. Attended => RunningIsAttended
  BY DEF Attended
<1> QED BY <1>1, <1>2, TypeCorrect, NextAttended, PTL DEF Spec

\* A commit takes nothing back and adds the task that commits.
LEMMA CommittersFacts ==
    ASSUME NEW t \in Tasks
    PROVE  /\ commits \subseteq Committers(t)
           /\ at[t] = "commit_to_databases" => t \in Committers(t)
BY DEF Committers

\* What was committed stays committed.
LEMMA CommitsGrow == [Next]_vars => commits \subseteq commits'
<1> SUFFICES ASSUME [Next]_vars PROVE commits \subseteq commits'
  OBVIOUS
<1>1. ASSUME NEW t \in Tasks, RunNode(t) \/ Raise(t) \/ TimesOut(t)
      PROVE  commits \subseteq commits'
  <2>1. commits' \in {commits, Committers(t)}
    BY <1>1 DEF RunNode, Raise, TimesOut
  <2> QED BY <2>1, CommittersFacts
<1>2. ASSUME NEW t \in Tasks, Fetch(t) \/ Finish(t) \/ RecordFailure(t) \/ IsLost(t)
                              \/ LateWrite(t)
      PROVE  commits \subseteq commits'
  BY <1>2 DEF Fetch, Finish, RecordFailure, IsLost, LateWrite
<1>3. ASSUME NEW q \in Requests, ReadState(q) \/ WriteDecision(q) \/ Refuse(q)
      PROVE  commits \subseteq commits'
  BY <1>3 DEF ReadState, WriteDecision, Refuse
<1>4. CASE Crash \/ UNCHANGED vars
  BY <1>4 DEF Crash, vars
<1> QED BY <1>1, <1>2, <1>3, <1>4 DEF Next, Work

\* No copy of the state says COMPLETED before a commit.
LEMMA NextBacked == TypeOK /\ Backed /\ [Next]_vars => Backed'
<1> SUFFICES ASSUME TypeOK, Backed, [Next]_vars, commits = {}, commits' = {} PROVE Backed'
  BY CommitsGrow DEF Backed
<1> USE DEF Backed
<1>1. ASSUME NEW q \in Requests, ReadState(q) PROVE Backed'
  BY <1>1 DEF ReadState, Tasks, TypeOK
<1>2. ASSUME NEW q \in Requests, WriteDecision(q) PROVE Backed'
  <2>1. state[q] \in States
    BY DEF TypeOK, Tasks
  <2>2. row'.workflow_status # "COMPLETED"
    BY <1>2, <2>1, WriteFacts, AbortFacts DEF Kept
  <2> QED BY <1>2, <2>2 DEF WriteDecision
<1>3. ASSUME NEW t \in Tasks, Fetch(t) PROVE Backed'
  BY <1>3, NewRunFacts DEF Fetch, Leave, TypeOK
<1>4. ASSUME NEW t \in Tasks, RunNode(t) PROVE Backed'
  <2>1. PICK outcome \in Outcomes(at[t], state[t]) :
            /\ row' = outcome.state
            /\ state' = [state EXCEPT ![t] = outcome.state]
    BY <1>4 DEF RunNode
  <2>2. at[t] # "commit_to_databases"
    BY <1>4, CommittersFacts DEF RunNode
  <2>3. Effect(at[t], state[t], outcome)
    BY <1>4, OutcomeFacts DEF RunNode, TypeOK
  <2>4. outcome.state.workflow_status # "COMPLETED"
    BY <2>2, <2>3 DEF Effect
  <2> QED BY <1>4, <2>1, <2>4 DEF RunNode, TypeOK
<1>5. ASSUME NEW t \in Tasks, Finish(t) PROVE Backed'
  BY <1>5, NewRunFacts DEF Finish, Leave, TypeOK
<1>6. ASSUME NEW t \in Tasks, Raise(t) PROVE Backed'
  BY <1>6 DEF Raise, TypeOK
<1>7. ASSUME NEW t \in Tasks, TimesOut(t) PROVE Backed'
  <2>1. PICK outcome \in Outcomes(at[t], state[t]) : late' = [late EXCEPT ![t] = outcome.state]
    BY <1>7 DEF TimesOut
  <2>2. at[t] # "commit_to_databases"
    BY <1>7, CommittersFacts DEF TimesOut
  <2>3. Effect(at[t], state[t], outcome)
    BY <1>7, OutcomeFacts DEF TimesOut, TypeOK
  <2>4. outcome.state.workflow_status # "COMPLETED"
    BY <2>2, <2>3 DEF Effect
  <2> QED BY <1>7, <2>1, <2>4 DEF TimesOut, TypeOK
<1>8. ASSUME NEW t \in Tasks, RecordFailure(t) PROVE Backed'
  <2>1. row'.workflow_status # "COMPLETED"
    BY <1>8, FailureFacts DEF RecordFailure, TypeOK
  <2> QED BY <1>8, <2>1, NewRunFacts DEF RecordFailure, Leave, TypeOK
<1>9. ASSUME NEW t \in Tasks, IsLost(t) PROVE Backed'
  BY <1>9, NewRunFacts DEF IsLost, Leave, TypeOK
<1>10. ASSUME NEW t \in Tasks, LateWrite(t) PROVE Backed'
  BY <1>10 DEF LateWrite, TypeOK
<1>11. CASE Crash
  BY <1>11, NewRunFacts DEF Crash, TypeOK
<1>12. CASE UNCHANGED vars
  BY <1>12 DEF vars
<1>13. ASSUME NEW q \in Requests, Refuse(q) PROVE Backed'
  BY <1>13, NewRunFacts DEF Refuse, Leave, TypeOK
<1> QED BY <1>1, <1>2, <1>3, <1>4, <1>5, <1>6, <1>7, <1>8, <1>9, <1>10, <1>11, <1>12, <1>13
        DEF Next, Work

\* A row that says COMPLETED has a commit behind it, although rows are written back from
\* copies of any age.
THEOREM CompletedBacked == Spec => []CompletedMeansCommitted
<1>1. Init => Backed
  BY NewRunFacts DEF Init, Backed
<1>2. Backed => CompletedMeansCommitted
  BY DEF Backed, CompletedMeansCommitted
<1> QED BY <1>1, <1>2, TypeCorrect, NextBacked, PTL DEF Spec
-----------------------------------------------------------------------------
(* What holds while every decision comes when nobody is at work. *)

\* A step that leaves the run unshared finds it unshared.
LEMMA SharedStays == TypeOK /\ [Next]_vars /\ ~shared' => ~shared
<1> SUFFICES ASSUME TypeOK, [Next]_vars, shared PROVE shared'
  BY DEF TypeOK
<1>1. ASSUME NEW q \in Requests, ReadState(q) \/ WriteDecision(q) PROVE shared'
  BY <1>1 DEF ReadState, WriteDecision
<1>2. ASSUME NEW t \in Tasks, Work(t) \/ LateWrite(t) PROVE shared'
  BY <1>2 DEF Work, WriteDecision, Refuse, Fetch, RunNode, Finish, Raise, TimesOut, RecordFailure,
              IsLost, LateWrite
<1>3. CASE Crash \/ UNCHANGED vars
  BY <1>3 DEF Crash, vars
<1> QED BY <1>1, <1>2, <1>3 DEF Next

\* What a task does by itself disturbs nobody while it is alone.
LEMMA NextAlone == TypeOK /\ Alone /\ [Next]_vars => Alone'
<1> SUFFICES ASSUME TypeOK, Alone, [Next]_vars, ~shared' PROVE Alone'
  BY DEF Alone
<1>0. /\ OneAtWork /\ NobodyLate /\ CopyIsRow /\ FlagsCleared /\ CommitIsLast
      /\ row.decisions = decided
      /\ \A s, t \in commits : s = t
  BY SharedStays DEF Alone
<1> USE DEF AtWork, Resting
<1>1. ASSUME NEW q \in Requests, ReadState(q) PROVE Alone'
  <2>1. \A t \in Tasks : ~AtWork(t)
    BY <1>1 DEF ReadState
  <2>2. commits = {}
    BY <1>0, <1>1 DEF ReadState, CommitIsLast, NotWaiting
  <2>3. /\ at' = [at EXCEPT ![q] = "edit"] /\ state' = [state EXCEPT ![q] = row]
        /\ UNCHANGED <<row, late, commits, decided>>
    BY <1>1 DEF ReadState
  <2>4. \A t \in Tasks : AtWork(t)' => t = q /\ at'[t] = "edit" /\ state'[t] = row
    BY <2>1, <2>3 DEF TypeOK
  <2>5. OneAtWork'
    BY <2>4 DEF OneAtWork
  <2>6. CopyIsRow'
    BY <2>3, <2>4 DEF CopyIsRow
  <2>7. FlagsCleared'
    BY <2>4 DEF FlagsCleared
  <2> QED BY <1>0, <2>2, <2>3, <2>5, <2>6, <2>7 DEF Alone, NobodyLate, CommitIsLast
<1>2. ASSUME NEW q \in Requests, WriteDecision(q) PROVE Alone'
  <2>1. q \in Tasks /\ at[q] = "edit" /\ state[q] \in States
    BY <1>2 DEF WriteDecision, TypeOK, Tasks
  <2>2. state[q] = row /\ commits = {} /\ \A t \in Tasks : AtWork(t) => t = q
    BY <1>0, <2>1 DEF OneAtWork, CopyIsRow, CommitIsLast
  <2>3. /\ NotWaiting'
        /\ row'.decisions = decided'
    <3>1. CASE Kept(q, state[q], row') /\ decided' = decided \cup {q}
      BY <1>0, <2>2, <3>1 DEF Kept, NotWaiting
    <3>2. CASE row' \in Aborts(q, state[q]) /\ decided' = {q}
      BY <2>1, <3>2, AbortFacts DEF NotWaiting
    <3> QED BY <1>2, <2>1, <3>1, <3>2, WriteFacts
  <2>4. at' = [at EXCEPT ![q] = "queued"] /\ UNCHANGED <<state, late, commits>>
    BY <1>2 DEF WriteDecision
  <2>5. \A t \in Tasks : AtWork(t)' => t = q /\ at'[t] = "queued"
    BY <2>2, <2>4 DEF TypeOK
  <2>6. OneAtWork' /\ CopyIsRow'
    BY <2>5 DEF OneAtWork, CopyIsRow
  <2>7. FlagsCleared'
    BY <2>3 DEF FlagsCleared
  <2> QED BY <1>0, <2>2, <2>3, <2>4, <2>6, <2>7 DEF Alone, NobodyLate, CommitIsLast
<1>3. ASSUME NEW t \in Tasks, Fetch(t) PROVE Alone'
  <2>1. at[t] = "queued" /\ UNCHANGED <<row, late, commits, decided>>
    BY <1>3 DEF Fetch
  <2>2. commits = {} /\ NotWaiting /\ \A u \in Tasks : AtWork(u) => u = t
    BY <1>0, <2>1 DEF OneAtWork, FlagsCleared, CommitIsLast
  <2>3. \A u \in Tasks : AtWork(u)' => u = t /\ state'[u] = row
    BY <1>3, <2>2 DEF Fetch, Leave, TypeOK
  <2>4. OneAtWork' /\ CopyIsRow'
    BY <2>1, <2>3 DEF OneAtWork, CopyIsRow
  <2>5. FlagsCleared'
    BY <2>1, <2>2 DEF FlagsCleared, NotWaiting
  <2> QED BY <1>0, <2>1, <2>2, <2>4, <2>5 DEF Alone, NobodyLate, CommitIsLast
<1>4. ASSUME NEW t \in Tasks, RunNode(t) PROVE Alone'
  <2>1. PICK outcome \in Outcomes(at[t], state[t]) :
            /\ row' = outcome.state
            /\ state' = [state EXCEPT ![t] = outcome.state]
            /\ at' = [at EXCEPT ![t] = outcome.node]
    BY <1>4 DEF RunNode
  <2>2. /\ at[t] \in Nodes /\ state[t] \in States
        /\ commits' = Committers(t) /\ UNCHANGED <<late, decided>>
    BY <1>4 DEF RunNode, TypeOK
  <2>3. state[t] = row /\ commits = {} /\ \A u \in Tasks : AtWork(u) => u = t
    BY <1>0, <2>2 DEF OneAtWork, CopyIsRow, CommitIsLast, Nodes
  <2>4. Effect(at[t], state[t], outcome)
    BY <2>1, <2>2, OutcomeFacts
  <2>5. at[t] \in {"author", "commit_to_databases"} => NotWaiting
    BY <1>0 DEF FlagsCleared
  <2>6. at' \in [Tasks -> {"idle", "done", outcome.node}]
        /\ at'[t] = outcome.node /\ \A u \in Tasks : AtWork(u)' => u = t
    BY <2>1, <2>3 DEF TypeOK
  <2>7. OneAtWork'
    BY <2>6 DEF OneAtWork
  <2>8. CopyIsRow'
    BY <2>1, <2>6 DEF CopyIsRow, TypeOK
  <2>9. FlagsCleared'
    <3> SUFFICES ASSUME outcome.node \in {"planner", "queued", "author", "commit_to_databases"}
                 PROVE  NotWaiting'
      BY <2>6 DEF FlagsCleared
    <3>1. outcome.node # "planner" /\ outcome.node # "queued"
      BY <2>4 DEF Effect, Nodes
    <3>2. CASE outcome.node = "author"
      BY <2>1, <2>4, <3>2 DEF Effect, NotWaiting
    <3>3. CASE outcome.node = "commit_to_databases"
      BY <2>1, <2>3, <2>4, <2>5, <3>3 DEF Effect, NotWaiting
    <3> QED BY <3>1, <3>2, <3>3
  <2>10. CASE at[t] = "commit_to_databases"
    <3>1. commits' = {t}
      BY <2>2, <2>3, <2>10 DEF Committers
    <3>2. NotWaiting' /\ outcome.node = "end"
      BY <2>1, <2>3, <2>4, <2>5, <2>10 DEF Effect, NotWaiting
    <3>3. CommitIsLast'
      BY <2>6, <3>2 DEF CommitIsLast
    <3>4. row'.decisions = decided'
      BY <1>0, <2>1, <2>2, <2>3, <2>4 DEF Effect
    <3> QED BY <1>0, <2>2, <2>7, <2>8, <2>9, <3>1, <3>3, <3>4 DEF Alone, NobodyLate
  <2>11. CASE at[t] # "commit_to_databases"
    <3>1. commits' = {}
      BY <2>2, <2>3, <2>11 DEF Committers
    <3>2. row'.decisions = decided'
      BY <1>0, <2>1, <2>2, <2>3, <2>4 DEF Effect
    <3> QED BY <1>0, <2>2, <2>7, <2>8, <2>9, <3>1, <3>2 DEF Alone, NobodyLate, CommitIsLast
  <2> QED BY <2>10, <2>11
<1>5. ASSUME NEW t \in Tasks, Finish(t) PROVE Alone'
  <2>1. row' = row /\ UNCHANGED <<late, commits, decided>>
    BY <1>0, <1>5 DEF Finish, CopyIsRow
  <2>2. \A u \in Tasks : AtWork(u)' => AtWork(u) /\ at'[u] = at[u] /\ state'[u] = state[u]
    BY <1>5 DEF Finish, Leave, TypeOK
  <2>3. FlagsCleared'
    BY <1>0, <2>1, <2>2 DEF FlagsCleared, NotWaiting
  <2> QED BY <1>0, <2>1, <2>2, <2>3
          DEF Alone, OneAtWork, NobodyLate, CopyIsRow, CommitIsLast, NotWaiting
<1>6. ASSUME NEW t \in Tasks, Raise(t) PROVE Alone'
  <2>1. /\ at[t] \in Nodes \cup {"end"} /\ commits' \in {commits, Committers(t)}
        /\ at' = [at EXCEPT ![t] = "failing"] /\ state' = [state EXCEPT ![t] = row]
        /\ UNCHANGED <<row, late, decided>>
    BY <1>6 DEF Raise
  <2>2. \A u \in Tasks : AtWork(u) => u = t
    BY <1>0, <2>1 DEF OneAtWork, Nodes
  <2>3. \A u \in Tasks : AtWork(u)' => u = t /\ at'[u] = "failing" /\ state'[u] = row
    BY <2>1, <2>2 DEF TypeOK
  <2>4. OneAtWork' /\ CopyIsRow' /\ FlagsCleared'
    BY <2>1, <2>3 DEF OneAtWork, CopyIsRow, FlagsCleared
  <2>5. commits' # {} => NotWaiting
    BY <1>0, <2>1 DEF Committers, CommitIsLast, FlagsCleared
  <2>6. \A s, u \in commits' : s = u
    BY <1>0, <2>1 DEF Committers, CommitIsLast
  <2>7. CommitIsLast'
    BY <2>1, <2>3, <2>5 DEF CommitIsLast, NotWaiting
  <2> QED BY <1>0, <2>1, <2>4, <2>6, <2>7 DEF Alone, NobodyLate
<1>7. ASSUME NEW t \in Tasks, TimesOut(t) PROVE Alone'
  BY <1>7 DEF TimesOut
<1>8. ASSUME NEW t \in Tasks, RecordFailure(t) PROVE Alone'
  <2>1. state[t] = row /\ state[t] \in States
    BY <1>0, <1>8 DEF RecordFailure, CopyIsRow, TypeOK
  <2>2. NotWaiting' /\ row'.decisions = row.decisions
    BY <1>8, <2>1, FailureFacts DEF RecordFailure, NotWaiting
  <2>3. \A u \in Tasks : ~AtWork(u)'
    BY <1>0, <1>8 DEF RecordFailure, Leave, OneAtWork, TypeOK
  <2>4. UNCHANGED <<late, commits, decided>>
    BY <1>8 DEF RecordFailure
  <2>5. FlagsCleared'
    BY <2>2 DEF FlagsCleared
  <2> QED BY <1>0, <2>2, <2>3, <2>4, <2>5
          DEF Alone, OneAtWork, NobodyLate, CopyIsRow, CommitIsLast
<1>9. ASSUME NEW t \in Tasks, IsLost(t) PROVE Alone'
  <2>1. UNCHANGED <<row, late, commits, decided>>
    BY <1>9 DEF IsLost
  <2>2. \A u \in Tasks : ~AtWork(u)'
    BY <1>0, <1>9 DEF IsLost, Leave, OneAtWork, TypeOK
  <2>3. FlagsCleared'
    BY <2>2 DEF FlagsCleared
  <2> QED BY <1>0, <2>1, <2>2, <2>3
          DEF Alone, OneAtWork, NobodyLate, CopyIsRow, CommitIsLast, NotWaiting
<1>10. ASSUME NEW t \in Tasks, LateWrite(t) PROVE Alone'
  BY <1>0, <1>10 DEF LateWrite, NobodyLate
<1>11. CASE Crash
  <2>1. UNCHANGED <<row, commits, decided>> /\ NobodyLate'
    BY <1>11 DEF Crash, NobodyLate
  <2>2. \A u \in Tasks : ~AtWork(u)'
    BY <1>11 DEF Crash
  <2>3. FlagsCleared'
    BY <2>2 DEF FlagsCleared
  <2> QED BY <1>0, <2>1, <2>2, <2>3
          DEF Alone, OneAtWork, CopyIsRow, CommitIsLast, NotWaiting
<1>12. CASE UNCHANGED vars
  BY <1>0, <1>12 DEF vars, Alone, OneAtWork, NobodyLate, CopyIsRow, FlagsCleared, CommitIsLast,
                     NotWaiting
<1>13. ASSUME NEW q \in Requests, Refuse(q) PROVE Alone'
  <2>1. UNCHANGED <<row, late, commits, decided>>
    BY <1>13 DEF Refuse
  <2>2. \A u \in Tasks : ~AtWork(u)'
    BY <1>0, <1>13 DEF Refuse, Leave, OneAtWork, TypeOK, Tasks
  <2>3. FlagsCleared'
    BY <2>2 DEF FlagsCleared
  <2> QED BY <1>0, <2>1, <2>2, <2>3
          DEF Alone, OneAtWork, NobodyLate, CopyIsRow, CommitIsLast, NotWaiting
<1> QED BY <1>1, <1>2, <1>3, <1>4, <1>5, <1>6, <1>7, <1>8, <1>9, <1>10, <1>11, <1>12, <1>13
        DEF Next, Work

\* While nobody shares the run, its one task and the row agree.
LEMMA AloneHolds == Spec => []Alone
<1>1. Init => Alone
  BY NewRunFacts DEF Init, Alone, OneAtWork, NobodyLate, CopyIsRow, FlagsCleared, CommitIsLast,
                     NotWaiting, AtWork, Resting
<1> QED BY <1>1, TypeCorrect, NextAlone, PTL DEF Spec

\* A decision that was accepted when nobody was at work on the run stays in the row, through
\* any number of pauses, failures and crashes, until an abort takes it back.
THEOREM AloneKeepsDecisions == Spec => []AloneNothingIsLost
<1>1. Alone => AloneNothingIsLost
  BY DEF Alone, AloneNothingIsLost
<1> QED BY <1>1, AloneHolds, PTL

\* A run that nobody shared writes its chapter once: commit_executed never has to be asked.
THEOREM AloneCommits == Spec => []AloneCommitsOnce
<1>1. Alone => AloneCommitsOnce
  BY DEF Alone, AloneCommitsOnce
<1> QED BY <1>1, AloneHolds, PTL
=============================================================================

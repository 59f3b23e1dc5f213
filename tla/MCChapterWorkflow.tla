-------------------------- MODULE MCChapterWorkflow --------------------------
(* Small instances of ChapterWorkflow for TLC. *)
EXTENDS ChapterWorkflow, TLC

CONSTANTS t1, t2, t3

MCTexts == {t1, t2, t3}
MCScores == {50, 70, 90}
Symmetry == Permutations(MCTexts)

(***************************************************************************)
(* Executions on their own, for the liveness property: they start from     *)
(* every state of the counters a chain of human decisions can leave behind *)
(* and at every node a human can choose.  A draft is there and none is the *)
(* best yet; which texts there are has no influence on where the run goes. *)
(***************************************************************************)
AfterSomeDecision ==
    /\ workflow_status = "RUNNING"
    /\ requires_hitl = FALSE
    /\ hitl_reason = NoReason
    /\ resume_from \in AllowedResumeNodes
    /\ plan_retry_count \in 0..(PlanRetryLimit + 1)
    /\ alignment_hitl_retry_count \in 0..(MaxHitlRetry + 1)
    /\ draft_loop_retry_count \in 0..(DraftLoopRetryLimit + 1)
    /\ extraction_gate_failure_streak \in 0..ExtractionHitlLimit
    /\ current_draft = t1
    /\ best_draft_content = NoText
    /\ best_draft_score = 0
    /\ pending_chapter_extraction = NoText
    /\ output_language_hitl_waived \in {FALSE, resume_from = "output_language_gate"}
    /\ require_chapter_review \in BOOLEAN
    /\ pending_db_commit = Nothing
    /\ chapter = Nothing
    /\ node = "start"
    /\ vouched = [c \in Checks |-> {}]
    /\ authored = 0

\* A human who only ever approves the draft on the review screen.
ApprovingHuman == Init /\ [][StartRun \/ ApproveDraft \/ Executor]_vars

Executions == AfterSomeDecision /\ [][Executor]_vars /\ WF_vars(Executor)
=============================================================================

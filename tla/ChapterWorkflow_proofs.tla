------------------------ MODULE ChapterWorkflow_proofs ------------------------
(***************************************************************************)
(* Proofs about ChapterWorkflow, for any texts, scores and retry limits.   *)
(* What is committed had its checks because the drafts had them on the     *)
(* way: each check is required of the drafts from the node that makes it   *)
(* on, whether the run is there or is to be resumed there, until           *)
(* state_updater puts them into the envelope that is committed.  The nodes *)
(* that only move the run on, and the decisions that only choose where it  *)
(* goes on, are dealt with once for all (MoversPass, DecisionsRedirect).   *)
(***************************************************************************)
EXTENDS ChapterWorkflow, TLAPS

\* The run is at a node of S, or will be resumed there.
Here(S) ==
    \/ node \in S
    \/ node = "start" /\ workflow_status # "CANCELLED" /\ resume_from \in S

\* The pause flag is down while nodes run, and a run that is to stop says where it goes on.
Controlled ==
    /\ node \notin {"idle", "hitl", "plan_supervisor"} => ~requires_hitl
    /\ node = "hitl" => hitl_reason \in HitlReasons /\ resume_from \in AllowedResumeNodes
    /\ node = "start" => workflow_status = "CANCELLED" \/ resume_from \in AllowedResumeNodes

\* A stored chapter ends its run.
Archived ==
    chapter.done => node = "idle" /\ ~requires_hitl /\ workflow_status \in {"COMPLETED", "FAILED"}

\* The best draft is one the supervisor approved, and so is what later nodes work on.
Supervised ==
    /\ best_draft_content # NoText => best_draft_content \in vouched["supervisor"]
    /\ Here({"reader"}) => current_draft \in vouched["supervisor"]
    /\ Here(BeyondSupervisor) => Content \in vouched["supervisor"]
    /\ node = "commit_to_databases" => pending_db_commit.text \in vouched["supervisor"]

\* Behind the review gate the text is one that was reviewed.
Reviewed ==
    require_chapter_review =>
        /\ Here(BeyondReview) => Content \in vouched["review"]
        /\ node = "commit_to_databases" => pending_db_commit.text \in vouched["review"]

\* Behind the extraction gate what is pending was extracted from the text that is kept.
Extracted ==
    /\ Here(BeyondExtraction) => \/ pending_chapter_extraction \in {NoText, Content}
                                 \/ Content \in vouched["extraction"]
    /\ node = "commit_to_databases" => \/ pending_db_commit.extraction = pending_db_commit.text
                                       \/ pending_db_commit.text \in vouched["extraction"]

Gate == "output_language_gate"

\* At the language gate there is one text, behind it that text has passed.  It takes the
\* copyeditor to make the two drafts agree.
LanguagePassed ==
    /\ Here({Gate}) => Content = current_draft \/ Content \in vouched["language"]
    /\ Here(BeyondLanguage \ {Gate}) => Content \in vouched["language"]
    /\ node = "commit_to_databases" => pending_db_commit.text \in vouched["language"]

Least(a, b) == IF a <= b THEN a ELSE b

\* The rewrites the two retry counters have paid for.
Used ==
    Least(draft_loop_retry_count, DraftLoopRetryLimit)
        + Least(extraction_gate_failure_streak, ExtractionHitlLimit - 1)

\* Every draft but the one being looked at was paid for by a counter.
Budgeted ==
    /\ authored <= AuthorBudget
    /\ node \in {"director", "graph_rag", "planner", "plan_supervisor", "logic_alignment",
                 "author"} =>
           authored <= Used
    /\ node \in {"draft_supervisor", "reader", "chapter_review_gate", "chunker",
                 "vectorize_chunks", "extraction_gate"} =>
           authored <= Used + 1

\* A human sends the run on at `resume', with the drafts as they are.
Redirected(resume) ==
    /\ Waiting
    /\ workflow_status' = "RUNNING"
    /\ requires_hitl' = FALSE
    /\ hitl_reason' = NoReason
    /\ resume_from' = resume
    /\ node' = "start"
    /\ plan_retry_count' \in {0, plan_retry_count}
    /\ draft_loop_retry_count' \in {0, draft_loop_retry_count}
    /\ extraction_gate_failure_streak' \in {0, extraction_gate_failure_streak}
    /\ output_language_hitl_waived' \in {TRUE, FALSE, output_language_hitl_waived}
    /\ vouched' = [c \in Checks |->
                      IF c \in Skipped(resume)
                      THEN vouched[c] \cup {current_draft, best_draft_content}
                      ELSE vouched[c]]
    /\ UNCHANGED <<alignment_hitl_retry_count, drafts, pending_chapter_extraction,
                   require_chapter_review, outcome, authored>>

\* A step of the executor that moves on and leaves the texts and what is known of them alone.
Passes ==
    /\ node \notin {"idle", "commit_to_databases"}
    /\ node' # "commit_to_databases"
    /\ UNCHANGED <<drafts, pending_chapter_extraction, require_chapter_review, outcome, vouched>>
    /\ Here({"reader"})' => Here({"reader"})
    /\ Here(BeyondSupervisor)' => Here(BeyondSupervisor)
    /\ Here(BeyondReview)' => Here(BeyondReview) \/ ~require_chapter_review
    /\ Here(BeyondExtraction)' => Here(BeyondExtraction)
    /\ Here({Gate})' => Here({Gate})
    /\ Here(BeyondLanguage \ {Gate})' => Here(BeyondLanguage \ {Gate})
-----------------------------------------------------------------------------
(* What the steps have in common. *)

\* The author's text is not one of those in use.
LEMMA NewTextIsText ==
    ASSUME NEW a \in Drafts, NEW b \in Drafts
    PROVE  NewText(a, b) \in Texts /\ NewText(a, b) \notin {a, b, NoText}
BY TextsAssumption DEF NewText, Drafts


\* Every decision but three leaves the drafts alone and chooses a node START knows.
LEMMA DecisionsRedirect ==
    ASSUME TypeOK, RestIsAnswerable, HumanDecides
    PROVE  \/ AbortAndRestart
           \/ AbandonChapter
           \/ DraftEdit
           \/ \E resume \in AllowedResumeNodes : Redirected(resume)
<1> USE DEF planning, drafting, drafts, gates, outcome, Redirected
<1>0. Waiting => resume_from \in AllowedResumeNodes
  BY DEF Waiting, RestIsAnswerable
<1>1. CASE ApproveDraft
  <2>1. Redirected("chunker")
    BY <1>1 DEF ApproveDraft, Resume, ResumeFrom, Clear
  <2> QED BY <2>1 DEF AllowedResumeNodes, StartNodes
<1>2. ASSUME NEW resume, Redirect(resume)
      PROVE  Redirected(resume)
  BY <1>2 DEF Redirect, Resume, ResumeFrom, Clear
<1>3. CASE \E option \in OptionIds : ChooseOption(option)
  <2>1. PICK option \in OptionIds : ChooseOption(option)
    BY <1>3
  <2> DEFINE resume == ResumeOfOption(option)
  <2>2. Resume(resume) /\ resume \in AllowedResumeNodes
    BY <1>0, <2>1
       DEF ChooseOption, ResumeOfOption, Resume, ResumeFrom, AllowedResumeNodes, StartNodes
  <2>3. output_language_hitl_waived' \in {TRUE, FALSE, output_language_hitl_waived}
    BY <2>1 DEF ChooseOption
  <2> HIDE DEF resume
  <2>4. Redirected(resume)
    BY <2>1, <2>2, <2>3 DEF ChooseOption, Resume, ResumeFrom, Clear
  <2> QED BY <2>2, <2>4
<1>4. ASSUME NEW resume \in AllowedResumeNodes, Redirect(resume)
      PROVE  \E r \in AllowedResumeNodes : Redirected(r)
  BY <1>2, <1>4
<1>5. CASE OutlineEdit
  BY <1>4, <1>5 DEF OutlineEdit, AllowedResumeNodes, StartNodes
<1>6. CASE StateInjection
  <2>0. resume_from \in AllowedResumeNodes
    BY <1>0, <1>6 DEF StateInjection, Redirect, Resume, ResumeFrom
  <2>1. PICK requested \in AllowedResumeNodes :
           Redirect(IF hitl_reason = "ALIGNMENT_RULES_REQUIRED" THEN "logic_alignment"
                                                                ELSE requested)
    BY <2>0, <1>6 DEF StateInjection
  <2> QED BY <1>4, <2>1 DEF AllowedResumeNodes, StartNodes
<1>7. CASE DirectorPatch
  BY <1>4, <1>7 DEF DirectorPatch, AllowedResumeNodes, StartNodes
<1>8. CASE ExtractionRemap
  <2>1. Redirected("extraction_gate")
    BY <1>8 DEF ExtractionRemap, Resume, ResumeFrom, Clear
  <2> QED BY <2>1 DEF AllowedResumeNodes, StartNodes
<1>9. CASE AnchorResolution
  BY <1>4, <1>9 DEF AnchorResolution, AllowedResumeNodes, StartNodes
<1>10. CASE AnchorDelay
  <2>1. Redirected("planner")
    BY <1>10 DEF AnchorDelay, Resume, ResumeFrom, Clear
  <2> QED BY <2>1 DEF AllowedResumeNodes, StartNodes
<1>11. CASE ContextPrune
  BY <1>4, <1>11 DEF ContextPrune, AllowedResumeNodes, StartNodes
<1> QED
  BY <1>1, <1>3, <1>5, <1>6, <1>7, <1>8, <1>9, <1>10, <1>11 DEF HumanDecides

\* The nodes that move the run on without a word about the texts.
Movers ==
    \/ ExecuteStoredRun
    \/ Director
    \/ GraphRag
    \/ Planner
    \/ PlanApproved
    \/ PlanRejected
    \/ LogicAlignment
    \/ DraftRejected
    \/ ChapterReviewGate
    \/ Chunker
    \/ VectorizeChunks
    \/ ChapterSummarizer
    \/ AnchorResolve
    \/ ProfileExpander
    \/ HitlNode

\* None of these nodes takes the run behind a check it has not passed.
LEMMA MoversPass ==
    ASSUME TypeOK, Controlled, Movers
    PROVE  Passes
<1> USE
    DEF Passes, Here, drafts, gates, outcome, ghosts, control, Pause, Clear, HandOver,
        BeyondSupervisor, BeyondReview, BeyondExtraction, BeyondLanguage, Gate
<1>1. CASE ExecuteStoredRun
  BY <1>1 DEF ExecuteStoredRun, Controlled, AllowedResumeNodes, StartNodes
<1>2. CASE Director
  BY <1>2 DEF Director
<1>3. CASE GraphRag
  BY <1>3 DEF GraphRag
<1>4. CASE Planner
  BY <1>4 DEF Planner
<1>5. CASE PlanApproved
  BY <1>5 DEF PlanApproved
<1>6. CASE PlanRejected
  BY <1>6 DEF PlanRejected
<1>7. CASE LogicAlignment
  BY <1>7 DEF LogicAlignment
<1>8. CASE DraftRejected
  BY <1>8 DEF DraftRejected
<1>9. CASE ChapterReviewGate
  BY <1>9 DEF ChapterReviewGate
<1>10. CASE Chunker
  BY <1>10 DEF Chunker
<1>11. CASE VectorizeChunks
  BY <1>11 DEF VectorizeChunks
<1>12. CASE ChapterSummarizer
  BY <1>12 DEF ChapterSummarizer
<1>13. CASE AnchorResolve
  BY <1>13 DEF AnchorResolve
<1>14. CASE ProfileExpander
  BY <1>14 DEF ProfileExpander
<1>15. CASE HitlNode
  BY <1>15 DEF HitlNode
<1> QED
  BY <1>1, <1>2, <1>3, <1>4, <1>5, <1>6, <1>7, <1>8, <1>9, <1>10, <1>11, <1>12, <1>13, <1>14,
     <1>15
     DEF Movers

-----------------------------------------------------------------------------
(* What every step preserves. *)

\* The flags stay flags.
LEMMA FlagsTyped ==
    ASSUME TypeOK, RestIsAnswerable, Next
    PROVE  /\ requires_hitl' \in BOOLEAN
           /\ output_language_hitl_waived' \in BOOLEAN
           /\ require_chapter_review' \in BOOLEAN
<1> USE DEF control, gates, FreshState, Clear, Pause, HandOver
<1>1. /\ requires_hitl' \in {TRUE, FALSE, requires_hitl}
      /\ output_language_hitl_waived' \in {TRUE, FALSE, output_language_hitl_waived}
  BY DecisionsRedirect
     DEF Next, Executor, Redirected, ResumeFrom, StartRun, AbortAndRestart, AbandonChapter,
         DraftEdit, ExecuteStoredRun, Director, GraphRag, Planner, PlanApproved, PlanRejected,
         LogicAlignment, DraftRejected, ChapterReviewGate, Chunker, VectorizeChunks,
         ChapterSummarizer, AnchorResolve, ProfileExpander, HitlNode, Author, DraftApproved,
         ReaderApproves, ReaderRejects, ExtractionPasses, ExtractionFails, Copyeditor,
         LanguageWaived, LanguageChecked, StateUpdater, CommitToDatabases, NodeFails
<1>2. require_chapter_review' \in {TRUE, FALSE, require_chapter_review}
  BY DecisionsRedirect
     DEF Next, Executor, Redirected, ResumeFrom, StartRun, AbortAndRestart, AbandonChapter,
         DraftEdit, ExecuteStoredRun, Director, GraphRag, Planner, PlanApproved, PlanRejected,
         LogicAlignment, DraftRejected, ChapterReviewGate, Chunker, VectorizeChunks,
         ChapterSummarizer, AnchorResolve, ProfileExpander, HitlNode, Author, DraftApproved,
         ReaderApproves, ReaderRejects, ExtractionPasses, ExtractionFails, Copyeditor,
         LanguageWaived, LanguageChecked, StateUpdater, CommitToDatabases, NodeFails
<1> QED BY <1>1, <1>2 DEF TypeOK

\* The texts a human writes are drafts.
LEMMA TextTyped ==
    ASSUME NEW a \in Drafts
    PROVE  NewText(a, NoText) \in Drafts /\ NewText(a, NewText(a, NoText)) \in Drafts
BY NewTextIsText DEF Drafts

\* Types.
LEMMA TypesHold ==
    ASSUME TypeOK, RestIsAnswerable, Next
    PROVE  TypeOK'
<1> USE LimitsAssumption, ScoresAssumption, SettingsAssumption
    DEF control, planning, drafting, drafts, gates, outcome, ghosts, Statuses, HitlReasons,
        GraphNodes, StartNodes, AllowedResumeNodes, MaxHitlRetry, AuthorBudget, Bump, Content,
        Pause, Clear, HandOver
<1>0. /\ requires_hitl' \in BOOLEAN
      /\ output_language_hitl_waived' \in BOOLEAN
      /\ require_chapter_review' \in BOOLEAN
  BY FlagsTyped
<1>41. Nothing \in Envelopes
  BY DEF Nothing, Envelopes, Drafts
<1> USE <1>0, <1>41 DEF TypeOK
<1>1. ASSUME FreshState
      PROVE  /\ plan_retry_count' \in 0..(PlanRetryLimit + 1)
             /\ alignment_hitl_retry_count' \in 0..(MaxHitlRetry + 1)
             /\ draft_loop_retry_count' \in 0..(DraftLoopRetryLimit + 1)
             /\ extraction_gate_failure_streak' \in 0..ExtractionHitlLimit
             /\ 0 \in 0..(AuthorBudget + 1)
  BY <1>1 DEF FreshState
<1>40. CASE StartRun
  BY <1>1, <1>40 DEF StartRun, FreshState, Drafts
<1>2. CASE AbortAndRestart
  BY <1>1, <1>2 DEF AbortAndRestart, FreshState, Waiting, Drafts
<1>3. CASE AbandonChapter
  BY <1>3 DEF AbandonChapter, Waiting
<1>4. CASE DraftEdit
  BY <1>4, NewTextIsText, TextTyped DEF DraftEdit, Waiting, ResumeFrom
<1>5. CASE ExecuteStoredRun
  BY <1>5 DEF ExecuteStoredRun
<1>6. CASE Director
  BY <1>6 DEF Director
<1>7. CASE GraphRag
  BY <1>7 DEF GraphRag
<1>8. CASE Planner
  BY <1>8 DEF Planner
<1>9. CASE PlanApproved
  BY <1>9 DEF PlanApproved
<1>10. CASE PlanRejected
  BY <1>10 DEF PlanRejected
<1>11. CASE LogicAlignment
  BY <1>11 DEF LogicAlignment
<1>12. CASE DraftRejected
  BY <1>12 DEF DraftRejected
<1>13. CASE ChapterReviewGate
  BY <1>13 DEF ChapterReviewGate
<1>14. CASE Chunker
  BY <1>14 DEF Chunker
<1>15. CASE VectorizeChunks
  BY <1>15 DEF VectorizeChunks
<1>16. CASE ChapterSummarizer
  BY <1>16 DEF ChapterSummarizer
<1>17. CASE AnchorResolve
  BY <1>17 DEF AnchorResolve
<1>18. CASE ProfileExpander
  BY <1>18 DEF ProfileExpander
<1>19. CASE HitlNode
  BY <1>19 DEF HitlNode
<1>20. CASE Author
  BY <1>20, NewTextIsText DEF Author, KeepVouched, Drafts
<1>21. CASE DraftApproved
  BY <1>21 DEF DraftApproved, Vouch
<1>22. CASE ReaderApproves
  BY <1>22 DEF ReaderApproves, KeepBest, KeepVouched
<1>23. CASE ReaderRejects
  BY <1>23 DEF ReaderRejects, KeepBest, KeepVouched
<1>24. CASE ExtractionPasses
  BY <1>24 DEF ExtractionPasses, AfterExtraction
<1>25. CASE ExtractionFails
  <2>1. extraction_gate_failure_streak' \in 0..ExtractionHitlLimit
    BY <1>25 DEF ExtractionFails
  <2> QED BY <1>25, <2>1 DEF ExtractionFails, Drafts
<1>26. CASE Copyeditor
  BY <1>26 DEF Copyeditor, KeepVouched
<1>27. CASE LanguageWaived
  BY <1>27 DEF LanguageWaived, Vouch
<1>28. CASE LanguageChecked
  BY <1>28 DEF LanguageChecked, Vouch
<1>29. CASE StateUpdater
  <2>1. pending_db_commit' \in Envelopes
    BY <1>29 DEF StateUpdater, Envelopes
  <2> QED BY <1>29, <2>1 DEF StateUpdater
<1>30. CASE CommitToDatabases
  BY <1>30 DEF CommitToDatabases
<1>31. CASE NodeFails
  BY <1>31 DEF NodeFails
<1>32. ASSUME NEW resume \in AllowedResumeNodes, Redirected(resume)
      PROVE  TypeOK'
  BY <1>32 DEF Redirected, Waiting
<1> QED
  BY DecisionsRedirect, <1>40, <1>2, <1>3, <1>4, <1>5, <1>6, <1>7, <1>8, <1>9, <1>10, <1>11,
     <1>12, <1>13, <1>14, <1>15, <1>16, <1>17, <1>18, <1>19, <1>20, <1>21, <1>22, <1>23, <1>24,
     <1>25, <1>26, <1>27, <1>28, <1>29, <1>30, <1>31, <1>32
     DEF Next, Executor

\* Flags, resume points and the end of a run.
LEMMA ControlHolds ==
    ASSUME TypeOK, RestIsAnswerable, Controlled, Archived, Next
    PROVE  RestIsAnswerable' /\ Controlled' /\ Archived'
<1> USE
    DEF RestIsAnswerable, Controlled, Archived, control, outcome, HitlReasons, StartNodes,
        AllowedResumeNodes, Nothing, Pause, Clear, HandOver
<1>1. CASE StartRun
  BY <1>1 DEF StartRun, FreshState
<1>2. CASE AbortAndRestart
  BY <1>2 DEF AbortAndRestart, FreshState, Waiting
<1>3. CASE AbandonChapter
  BY <1>3 DEF AbandonChapter, Waiting
<1>4. CASE DraftEdit
  BY <1>4 DEF DraftEdit, Waiting, ResumeFrom
<1>5. CASE ExecuteStoredRun
  BY <1>5 DEF ExecuteStoredRun
<1>6. CASE Director
  BY <1>6 DEF Director
<1>7. CASE GraphRag
  BY <1>7 DEF GraphRag
<1>8. CASE Planner
  BY <1>8 DEF Planner
<1>9. CASE PlanApproved
  BY <1>9 DEF PlanApproved
<1>10. CASE PlanRejected
  BY <1>10 DEF PlanRejected
<1>11. CASE LogicAlignment
  BY <1>11 DEF LogicAlignment
<1>12. CASE DraftRejected
  BY <1>12 DEF DraftRejected
<1>13. CASE ChapterReviewGate
  BY <1>13 DEF ChapterReviewGate
<1>14. CASE Chunker
  BY <1>14 DEF Chunker
<1>15. CASE VectorizeChunks
  BY <1>15 DEF VectorizeChunks
<1>16. CASE ChapterSummarizer
  BY <1>16 DEF ChapterSummarizer
<1>17. CASE AnchorResolve
  BY <1>17 DEF AnchorResolve
<1>18. CASE ProfileExpander
  BY <1>18 DEF ProfileExpander
<1>19. CASE HitlNode
  BY <1>19 DEF HitlNode
<1>20. CASE Author
  BY <1>20 DEF Author, KeepVouched
<1>21. CASE DraftApproved
  BY <1>21 DEF DraftApproved, Vouch
<1>22. CASE ReaderApproves
  BY <1>22 DEF ReaderApproves, KeepBest, KeepVouched
<1>23. CASE ReaderRejects
  BY <1>23 DEF ReaderRejects, KeepBest, KeepVouched
<1>24. CASE ExtractionPasses
  BY <1>24 DEF ExtractionPasses, AfterExtraction
<1>25. CASE ExtractionFails
  BY <1>25 DEF ExtractionFails
<1>26. CASE Copyeditor
  BY <1>26 DEF Copyeditor, KeepVouched
<1>27. CASE LanguageWaived
  BY <1>27 DEF LanguageWaived, Vouch
<1>28. CASE LanguageChecked
  BY <1>28 DEF LanguageChecked, Vouch
<1>29. CASE StateUpdater
  BY <1>29 DEF StateUpdater
<1>30. CASE CommitToDatabases
  BY <1>30 DEF CommitToDatabases
<1>31. CASE NodeFails
  BY <1>31 DEF NodeFails
<1>32. ASSUME NEW resume \in AllowedResumeNodes, Redirected(resume)
      PROVE  RestIsAnswerable' /\ Controlled' /\ Archived'
  BY <1>32 DEF Redirected, Waiting
<1> QED
  BY DecisionsRedirect, <1>1, <1>2, <1>3, <1>4, <1>5, <1>6, <1>7, <1>8, <1>9, <1>10, <1>11,
     <1>12, <1>13, <1>14, <1>15, <1>16, <1>17, <1>18, <1>19, <1>20, <1>21, <1>22, <1>23, <1>24,
     <1>25, <1>26, <1>27, <1>28, <1>29, <1>30, <1>31, <1>32
     DEF Next, Executor

\* The supervisor's check.
LEMMA SupervisedHolds ==
    ASSUME TypeOK, RestIsAnswerable, Controlled, Supervised, Next
    PROVE  Supervised'
<1> USE
    DEF control, planning, drafting, drafts, gates, outcome, ghosts, Here, Content,
        BeyondSupervisor, BeyondReview, BeyondExtraction, BeyondLanguage, Gate, Checks, Skipped,
        Nothing, Pause, Clear, Supervised
<1>0. vouched \in [Checks -> SUBSET Drafts]
  BY DEF TypeOK
<1> USE <1>0
<1>1. CASE StartRun
  BY <1>1 DEF StartRun, FreshState
<1>2. CASE AbortAndRestart
  BY <1>2 DEF AbortAndRestart, FreshState, Waiting
<1>3. CASE AbandonChapter
  BY <1>3 DEF AbandonChapter, Waiting
<1>4. CASE DraftEdit
  BY <1>4 DEF DraftEdit, Waiting, ResumeFrom
<1>5. CASE Movers
  BY <1>5, MoversPass DEF Passes
<1>6. CASE Author
  BY <1>6 DEF Author, KeepVouched
<1>7. CASE DraftApproved
  BY <1>7 DEF DraftApproved, Vouch
<1>8. CASE ReaderApproves
  BY <1>8 DEF ReaderApproves, KeepBest, KeepVouched
<1>9. CASE ReaderRejects
  BY <1>9 DEF ReaderRejects, KeepBest, KeepVouched
<1>10. CASE ExtractionPasses
  BY <1>10 DEF ExtractionPasses, AfterExtraction
<1>11. CASE ExtractionFails
  BY <1>11 DEF ExtractionFails
<1>12. CASE Copyeditor
  BY <1>12 DEF Copyeditor, KeepVouched
<1>13. CASE LanguageWaived
  BY <1>13 DEF LanguageWaived, Vouch
<1>14. CASE LanguageChecked
  BY <1>14 DEF LanguageChecked, Vouch
<1>15. CASE StateUpdater
  BY <1>15 DEF StateUpdater
<1>16. CASE CommitToDatabases
  BY <1>16 DEF CommitToDatabases
<1>17. CASE NodeFails
  BY <1>17 DEF NodeFails
<1>18. ASSUME NEW resume \in AllowedResumeNodes, Redirected(resume)
      PROVE  Supervised'
  BY <1>18 DEF Redirected, Waiting
<1> QED
  BY DecisionsRedirect, <1>1, <1>2, <1>3, <1>4, <1>5, <1>6, <1>7, <1>8, <1>9, <1>10, <1>11,
     <1>12, <1>13, <1>14, <1>15, <1>16, <1>17, <1>18
     DEF Next, Executor, Movers

\* The review.
LEMMA ReviewedHolds ==
    ASSUME TypeOK, RestIsAnswerable, Controlled, Supervised, Reviewed, Next
    PROVE  Reviewed'
<1> USE
    DEF control, planning, drafting, drafts, gates, outcome, ghosts, Here, Content,
        BeyondSupervisor, BeyondReview, BeyondExtraction, BeyondLanguage, Gate, Checks, Skipped,
        Nothing, Pause, Clear, Reviewed
<1>0. vouched \in [Checks -> SUBSET Drafts]
  BY DEF TypeOK
<1> USE <1>0
<1>1. CASE StartRun
  BY <1>1 DEF StartRun, FreshState
<1>2. CASE AbortAndRestart
  BY <1>2 DEF AbortAndRestart, FreshState, Waiting
<1>3. CASE AbandonChapter
  BY <1>3 DEF AbandonChapter, Waiting
<1>4. CASE DraftEdit
  BY <1>4 DEF DraftEdit, Waiting, ResumeFrom
<1>5. CASE Movers
  BY <1>5, MoversPass DEF Passes
<1>6. CASE Author
  BY <1>6 DEF Author, KeepVouched
<1>7. CASE DraftApproved
  BY <1>7 DEF DraftApproved, Vouch
<1>8. CASE ReaderApproves
  BY <1>8 DEF ReaderApproves, KeepBest, KeepVouched
<1>9. CASE ReaderRejects
  BY <1>9 DEF ReaderRejects, KeepBest, KeepVouched
<1>10. CASE ExtractionPasses
  BY <1>10 DEF ExtractionPasses, AfterExtraction
<1>11. CASE ExtractionFails
  BY <1>11 DEF ExtractionFails
<1>12. CASE Copyeditor
  BY <1>12 DEF Copyeditor, KeepVouched
<1>13. CASE LanguageWaived
  BY <1>13 DEF LanguageWaived, Vouch
<1>14. CASE LanguageChecked
  BY <1>14 DEF LanguageChecked, Vouch
<1>15. CASE StateUpdater
  BY <1>15 DEF StateUpdater
<1>16. CASE CommitToDatabases
  BY <1>16 DEF CommitToDatabases
<1>17. CASE NodeFails
  BY <1>17 DEF NodeFails
<1>18. ASSUME NEW resume \in AllowedResumeNodes, Redirected(resume)
      PROVE  Reviewed'
  BY <1>18 DEF Redirected, Waiting
<1> QED
  BY DecisionsRedirect, <1>1, <1>2, <1>3, <1>4, <1>5, <1>6, <1>7, <1>8, <1>9, <1>10, <1>11,
     <1>12, <1>13, <1>14, <1>15, <1>16, <1>17, <1>18
     DEF Next, Executor, Movers

\* The extraction.
LEMMA ExtractedHolds ==
    ASSUME TypeOK, RestIsAnswerable, Controlled, Supervised, Extracted, Next
    PROVE  Extracted'
<1> USE
    DEF control, planning, drafting, drafts, gates, outcome, ghosts, Here, Content,
        BeyondSupervisor, BeyondReview, BeyondExtraction, BeyondLanguage, Gate, Checks, Skipped,
        Nothing, Pause, Clear, Extracted
<1>0. vouched \in [Checks -> SUBSET Drafts]
  BY DEF TypeOK
<1> USE <1>0
<1>1. CASE StartRun
  BY <1>1 DEF StartRun, FreshState
<1>2. CASE AbortAndRestart
  BY <1>2 DEF AbortAndRestart, FreshState, Waiting
<1>3. CASE AbandonChapter
  BY <1>3 DEF AbandonChapter, Waiting
<1>4. CASE DraftEdit
  BY <1>4 DEF DraftEdit, Waiting, ResumeFrom
<1>5. CASE Movers
  BY <1>5, MoversPass DEF Passes
<1>6. CASE Author
  BY <1>6 DEF Author, KeepVouched
<1>7. CASE DraftApproved
  BY <1>7 DEF DraftApproved, Vouch
<1>8. CASE ReaderApproves
  BY <1>8 DEF ReaderApproves, KeepBest, KeepVouched
<1>9. CASE ReaderRejects
  BY <1>9 DEF ReaderRejects, KeepBest, KeepVouched
<1>10. CASE ExtractionPasses
  BY <1>10 DEF ExtractionPasses, AfterExtraction
<1>11. CASE ExtractionFails
  BY <1>11 DEF ExtractionFails
<1>12. CASE Copyeditor
  BY <1>12 DEF Copyeditor, KeepVouched
<1>13. CASE LanguageWaived
  BY <1>13 DEF LanguageWaived, Vouch
<1>14. CASE LanguageChecked
  BY <1>14 DEF LanguageChecked, Vouch
<1>15. CASE StateUpdater
  BY <1>15 DEF StateUpdater
<1>16. CASE CommitToDatabases
  BY <1>16 DEF CommitToDatabases
<1>17. CASE NodeFails
  BY <1>17 DEF NodeFails
<1>18. ASSUME NEW resume \in AllowedResumeNodes, Redirected(resume)
      PROVE  Extracted'
  BY <1>18 DEF Redirected, Waiting
<1> QED
  BY DecisionsRedirect, <1>1, <1>2, <1>3, <1>4, <1>5, <1>6, <1>7, <1>8, <1>9, <1>10, <1>11,
     <1>12, <1>13, <1>14, <1>15, <1>16, <1>17, <1>18
     DEF Next, Executor, Movers

\* The language gate.
LEMMA LanguageHolds ==
    ASSUME TypeOK, RestIsAnswerable, Controlled, Supervised, LanguagePassed, CopyeditorEnabled,
           Next
    PROVE  LanguagePassed'
<1> USE
    DEF control, planning, drafting, drafts, gates, outcome, ghosts, Here, Content,
        BeyondSupervisor, BeyondReview, BeyondExtraction, BeyondLanguage, Gate, Checks, Skipped,
        Nothing, Pause, Clear, LanguagePassed
<1>0. vouched \in [Checks -> SUBSET Drafts]
  BY DEF TypeOK
<1> USE <1>0
<1>1. CASE StartRun
  BY <1>1 DEF StartRun, FreshState
<1>2. CASE AbortAndRestart
  BY <1>2 DEF AbortAndRestart, FreshState, Waiting
<1>3. CASE AbandonChapter
  BY <1>3 DEF AbandonChapter, Waiting
<1>4. CASE DraftEdit
  BY <1>4 DEF DraftEdit, Waiting, ResumeFrom
<1>5. CASE Movers
  BY <1>5, MoversPass DEF Passes
<1>6. CASE Author
  BY <1>6 DEF Author, KeepVouched
<1>7. CASE DraftApproved
  BY <1>7 DEF DraftApproved, Vouch
<1>8. CASE ReaderApproves
  BY <1>8 DEF ReaderApproves, KeepBest, KeepVouched
<1>9. CASE ReaderRejects
  BY <1>9 DEF ReaderRejects, KeepBest, KeepVouched
<1>10. CASE ExtractionPasses
  BY <1>10 DEF ExtractionPasses, AfterExtraction
<1>11. CASE ExtractionFails
  BY <1>11 DEF ExtractionFails
<1>12. CASE Copyeditor
  BY <1>12 DEF Copyeditor, KeepVouched
<1>13. CASE LanguageWaived
  BY <1>13 DEF LanguageWaived, Vouch
<1>14. CASE LanguageChecked
  BY <1>14 DEF LanguageChecked, Vouch
<1>15. CASE StateUpdater
  BY <1>15 DEF StateUpdater
<1>16. CASE CommitToDatabases
  BY <1>16 DEF CommitToDatabases
<1>17. CASE NodeFails
  BY <1>17 DEF NodeFails
<1>18. ASSUME NEW resume \in AllowedResumeNodes, Redirected(resume)
      PROVE  LanguagePassed'
  BY <1>18 DEF Redirected, Waiting
<1> QED
  BY DecisionsRedirect, <1>1, <1>2, <1>3, <1>4, <1>5, <1>6, <1>7, <1>8, <1>9, <1>10, <1>11,
     <1>12, <1>13, <1>14, <1>15, <1>16, <1>17, <1>18
     DEF Next, Executor, Movers

\* The budget of the author.
LEMMA BudgetHolds ==
    ASSUME TypeOK, RestIsAnswerable, Controlled, Budgeted, Next
    PROVE  Budgeted'
<1> USE LimitsAssumption
    DEF Budgeted, Used, Least, AuthorBudget, Bump, AllowedResumeNodes, StartNodes, TypeOK,
        control, planning, drafting, drafts, gates, outcome, ghosts, Pause, Clear, HandOver
<1>1. CASE StartRun
  BY <1>1 DEF StartRun, FreshState
<1>2. CASE AbortAndRestart
  BY <1>2 DEF AbortAndRestart, FreshState, Waiting
<1>3. CASE AbandonChapter
  BY <1>3 DEF AbandonChapter, Waiting
<1>4. CASE DraftEdit
  BY <1>4 DEF DraftEdit, Waiting, ResumeFrom
<1>5. CASE ExecuteStoredRun
  BY <1>5 DEF ExecuteStoredRun
<1>6. CASE Director
  BY <1>6 DEF Director
<1>7. CASE GraphRag
  BY <1>7 DEF GraphRag
<1>8. CASE Planner
  BY <1>8 DEF Planner
<1>9. CASE PlanApproved
  BY <1>9 DEF PlanApproved
<1>10. CASE PlanRejected
  BY <1>10 DEF PlanRejected
<1>11. CASE LogicAlignment
  BY <1>11 DEF LogicAlignment
<1>12. CASE DraftRejected
  BY <1>12 DEF DraftRejected
<1>13. CASE ChapterReviewGate
  BY <1>13 DEF ChapterReviewGate
<1>14. CASE Chunker
  BY <1>14 DEF Chunker
<1>15. CASE VectorizeChunks
  BY <1>15 DEF VectorizeChunks
<1>16. CASE ChapterSummarizer
  BY <1>16 DEF ChapterSummarizer
<1>17. CASE AnchorResolve
  BY <1>17 DEF AnchorResolve
<1>18. CASE ProfileExpander
  BY <1>18 DEF ProfileExpander
<1>19. CASE HitlNode
  BY <1>19 DEF HitlNode
<1>20. CASE Author
  BY <1>20 DEF Author, KeepVouched
<1>21. CASE DraftApproved
  BY <1>21 DEF DraftApproved, Vouch
<1>22. CASE ReaderApproves
  BY <1>22 DEF ReaderApproves, KeepBest, KeepVouched
<1>23. CASE ReaderRejects
  BY <1>23 DEF ReaderRejects, KeepBest, KeepVouched
<1>24. CASE ExtractionPasses
  BY <1>24 DEF ExtractionPasses, AfterExtraction
<1>25. CASE ExtractionFails
  BY <1>25 DEF ExtractionFails
<1>26. CASE Copyeditor
  BY <1>26 DEF Copyeditor, KeepVouched
<1>27. CASE LanguageWaived
  BY <1>27 DEF LanguageWaived, Vouch
<1>28. CASE LanguageChecked
  BY <1>28 DEF LanguageChecked, Vouch
<1>29. CASE StateUpdater
  BY <1>29 DEF StateUpdater
<1>30. CASE CommitToDatabases
  BY <1>30 DEF CommitToDatabases
<1>31. CASE NodeFails
  BY <1>31 DEF NodeFails
<1>32. ASSUME NEW resume \in AllowedResumeNodes, Redirected(resume)
      PROVE  Budgeted'
  BY <1>32 DEF Redirected, Waiting
<1> QED
  BY DecisionsRedirect, <1>1, <1>2, <1>3, <1>4, <1>5, <1>6, <1>7, <1>8, <1>9, <1>10, <1>11,
     <1>12, <1>13, <1>14, <1>15, <1>16, <1>17, <1>18, <1>19, <1>20, <1>21, <1>22, <1>23, <1>24,
     <1>25, <1>26, <1>27, <1>28, <1>29, <1>30, <1>31, <1>32
     DEF Next, Executor
-----------------------------------------------------------------------------
\* Only the commit stores a chapter, the one in the envelope, and nothing follows it.
LEMMA ArchivesEnvelope ==
    ASSUME TypeOK, RestIsAnswerable, Archived, Next
    PROVE  /\ ~chapter.done
           /\ \/ chapter' = chapter
              \/ /\ node = "commit_to_databases"
                 /\ chapter' = pending_db_commit
                 /\ UNCHANGED <<vouched, require_chapter_review>>
<1> USE DEF outcome
<1>1. ~chapter.done
  <2>1. ~StartRun \/ ~chapter.done
    BY DEF StartRun
  <2>2. HumanDecides => ~chapter.done
    BY DecisionsRedirect
       DEF Archived, Redirected, AbortAndRestart, AbandonChapter, DraftEdit, ResumeFrom, Waiting
  <2>3. Executor => node # "idle"
    BY
       DEF Executor, ExecuteStoredRun, Director, GraphRag, Planner, PlanApproved, PlanRejected,
           LogicAlignment, Author, DraftApproved, DraftRejected, ReaderApproves, ReaderRejects,
           ChapterReviewGate, Chunker, VectorizeChunks, ExtractionPasses, ExtractionFails,
           Copyeditor, LanguageWaived, LanguageChecked, ChapterSummarizer, AnchorResolve,
           ProfileExpander, StateUpdater, CommitToDatabases, HitlNode, NodeFails, HandOver
  <2> QED BY <2>1, <2>2, <2>3 DEF Next, Archived
<1>2. HumanDecides => UNCHANGED chapter
  BY DecisionsRedirect DEF Redirected, AbortAndRestart, AbandonChapter, DraftEdit, ResumeFrom
<1>3. Executor => \/ chapter' = chapter
                  \/ /\ node = "commit_to_databases"
                     /\ chapter' = pending_db_commit
                     /\ UNCHANGED <<vouched, require_chapter_review>>
  BY
     DEF Executor, ExecuteStoredRun, Director, GraphRag, Planner, PlanApproved, PlanRejected,
         LogicAlignment, Author, DraftApproved, DraftRejected, ReaderApproves, ReaderRejects,
         ChapterReviewGate, Chunker, VectorizeChunks, ExtractionPasses, ExtractionFails,
         Copyeditor, LanguageWaived, LanguageChecked, ChapterSummarizer, AnchorResolve,
         ProfileExpander, StateUpdater, CommitToDatabases, HitlNode, NodeFails, HandOver
<1>4. StartRun => UNCHANGED chapter
  BY DEF StartRun
<1> QED BY <1>1, <1>2, <1>3, <1>4 DEF Next

\* The inductive invariant.
Inv ==
    /\ TypeOK
    /\ RestIsAnswerable
    /\ Controlled
    /\ Archived
    /\ Supervised
    /\ Reviewed
    /\ Extracted
    /\ Budgeted
    /\ CopyeditorEnabled => LanguagePassed

\* It holds at the start.
LEMMA InvInit == Init => Inv
<1> SUFFICES ASSUME Init PROVE Inv
  OBVIOUS
<1> USE LimitsAssumption DEF Init
<1>1. TypeOK
  <2>1. /\ plan_retry_count \in 0..(PlanRetryLimit + 1)
        /\ alignment_hitl_retry_count \in 0..(MaxHitlRetry + 1)
        /\ draft_loop_retry_count \in 0..(DraftLoopRetryLimit + 1)
        /\ extraction_gate_failure_streak \in 0..ExtractionHitlLimit
        /\ authored \in 0..(AuthorBudget + 1)
    BY DEF AuthorBudget, MaxHitlRetry
  <2>2. Nothing \in Envelopes
    BY DEF Nothing, Envelopes, Drafts
  <2> QED BY <2>1, <2>2 DEF TypeOK, Drafts, Statuses
<1>2. RestIsAnswerable /\ Controlled /\ Archived
  BY DEF RestIsAnswerable, Controlled, Archived, Nothing
<1>3. Supervised /\ Reviewed /\ Extracted /\ LanguagePassed
  BY
     DEF Supervised, Reviewed, Extracted, LanguagePassed, Here, Gate, BeyondSupervisor,
         BeyondReview, BeyondExtraction, BeyondLanguage
<1>4. Budgeted
  BY DEF Budgeted, AuthorBudget
<1> QED BY <1>1, <1>2, <1>3, <1>4 DEF Inv

\* Every step keeps it.
LEMMA InvNext == Inv /\ [Next]_vars => Inv'
<1> SUFFICES ASSUME Inv, [Next]_vars PROVE Inv'
  OBVIOUS
<1>1. CASE Next
  <2> USE <1>1 DEF Inv
  <2>1. TypeOK'
    BY TypesHold
  <2>2. RestIsAnswerable' /\ Controlled' /\ Archived'
    BY ControlHolds
  <2>3. Supervised' /\ Reviewed' /\ Extracted' /\ Budgeted'
    BY SupervisedHolds, ReviewedHolds, ExtractedHolds, BudgetHolds
  <2>4. CopyeditorEnabled => LanguagePassed'
    BY LanguageHolds
  <2> QED BY <2>1, <2>2, <2>3, <2>4
<1>2. CASE UNCHANGED vars
  <2> USE <1>2 DEF vars, control, planning, drafting, drafts, gates, outcome, ghosts
  <2>1. TypeOK'
    BY DEF Inv, TypeOK
  <2>2. RestIsAnswerable' /\ Controlled' /\ Archived'
    BY DEF Inv, RestIsAnswerable, Controlled, Archived
  <2>3. Supervised' /\ Reviewed' /\ Extracted' /\ (CopyeditorEnabled => LanguagePassed')
    BY DEF Inv, Supervised, Reviewed, Extracted, LanguagePassed, Here, Content
  <2>4. Budgeted'
    BY DEF Inv, Budgeted, Used
  <2> QED BY <2>1, <2>2, <2>3, <2>4 DEF Inv
<1> QED BY <1>1, <1>2

\* So it holds always.
LEMMA InvHolds == Spec => []Inv
BY InvInit, InvNext, PTL DEF Spec

-----------------------------------------------------------------------------
(* The theorems. *)

\* Every variable of the run keeps its type, whatever the human decides and wherever a node
\* fails.
THEOREM TypeCorrect == Spec => []TypeOK
<1>1. Inv => TypeOK
  BY DEF Inv
<1> QED BY InvHolds, <1>1, PTL

\* A run that no executor works on is at an end, or waits with a reason and at a node START
\* knows: nobody can strand it.
THEOREM RestAnswerable == Spec => []RestIsAnswerable
<1>1. Inv => RestIsAnswerable
  BY DEF Inv
<1> QED BY InvHolds, <1>1, PTL

\* One execution runs the author node at most draft_loop_retry_limit + extraction_hitl_limit
\* times, for any values of the limits and whatever counters were left in the state.
THEOREM AuthorWithinBudget == Spec => []AuthorRunsWithinBudget
<1>1. Inv => AuthorRunsWithinBudget
  BY DEF Inv, Budgeted, AuthorRunsWithinBudget
<1> QED BY InvHolds, <1>1, PTL

\* The chapter that is stored is a text the draft supervisor approved or a human let past it.
THEOREM SupervisedIsCommitted == Spec => []CommittedTextWasSupervised
<1>1. Init => CommittedTextWasSupervised
  BY DEF Init, Nothing, CommittedTextWasSupervised
<1>2. Inv /\ CommittedTextWasSupervised /\ [Next]_vars => CommittedTextWasSupervised'
  <2>1. Inv /\ Next => CommittedTextWasSupervised'
    BY ArchivesEnvelope DEF Inv, Supervised, CommittedTextWasSupervised
  <2>2. CommittedTextWasSupervised /\ UNCHANGED vars => CommittedTextWasSupervised'
    BY DEF CommittedTextWasSupervised, vars, outcome, ghosts
  <2> QED BY <2>1, <2>2
<1> QED BY InvHolds, <1>1, <1>2, PTL DEF Spec

\* With require_chapter_review the chapter that is stored is a text that was reviewed.
THEOREM ReviewedIsCommitted == Spec => []CommittedTextWasReviewed
<1>1. Init => CommittedTextWasReviewed
  BY DEF Init, Nothing, CommittedTextWasReviewed
<1>2. Inv /\ CommittedTextWasReviewed /\ [Next]_vars => CommittedTextWasReviewed'
  <2>1. Inv /\ Next => CommittedTextWasReviewed'
    BY ArchivesEnvelope DEF Inv, Reviewed, CommittedTextWasReviewed
  <2>2. CommittedTextWasReviewed /\ UNCHANGED vars => CommittedTextWasReviewed'
    BY DEF CommittedTextWasReviewed, vars, outcome, ghosts
  <2> QED BY <2>1, <2>2
<1> QED BY InvHolds, <1>1, <1>2, PTL DEF Spec

\* The extraction that is committed was made from the chapter that is stored.
THEOREM GraphIsOfChapter == Spec => []GraphMatchesChapter
<1>1. Init => GraphMatchesChapter
  BY DEF Init, Nothing, GraphMatchesChapter
<1>2. Inv /\ GraphMatchesChapter /\ [Next]_vars => GraphMatchesChapter'
  <2>1. Inv /\ Next => GraphMatchesChapter'
    BY ArchivesEnvelope DEF Inv, Extracted, GraphMatchesChapter
  <2>2. GraphMatchesChapter /\ UNCHANGED vars => GraphMatchesChapter'
    BY DEF GraphMatchesChapter, vars, outcome, ghosts
  <2> QED BY <2>1, <2>2
<1> QED BY InvHolds, <1>1, <1>2, PTL DEF Spec

\* With the copyeditor on, the chapter that is stored is the text the language gate looked at.
\* Without it the gate looks at current_draft, the commit takes best_draft_content, and
\* nothing makes them one.
THEOREM CheckedIsCommitted ==
    ASSUME CopyeditorEnabled
    PROVE  Spec => []CommittedTextPassedLanguageGate
<1>1. Init => CommittedTextPassedLanguageGate
  BY DEF Init, Nothing, CommittedTextPassedLanguageGate
<1>2. Inv /\ CommittedTextPassedLanguageGate /\ [Next]_vars => CommittedTextPassedLanguageGate'
  <2>1. Inv /\ Next => CommittedTextPassedLanguageGate'
    BY ArchivesEnvelope DEF Inv, LanguagePassed, CommittedTextPassedLanguageGate
  <2>2. CommittedTextPassedLanguageGate /\ UNCHANGED vars => CommittedTextPassedLanguageGate'
    BY DEF CommittedTextPassedLanguageGate, vars, outcome, ghosts
  <2> QED BY <2>1, <2>2
<1> QED BY InvHolds, <1>1, <1>2, PTL DEF Spec
=============================================================================

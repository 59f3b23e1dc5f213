--------------------------- MODULE ChapterWorkflow ---------------------------
(***************************************************************************)
(* One run of the chapter pipeline: the LangGraph state machine built by   *)
(* build_chapter_graph (workflow/graph.py), the executor that runs it from *)
(* the stored state (execute_stored_run) and the human decisions that      *)
(* resume it (apply_hitl_* in workflow/service.py).                        *)
(*                                                                         *)
(* One executor works on the run and a human answers only when it has come *)
(* to rest, so the stored row and the executor's state are one.  When that *)
(* is so, and what happens when it is not, is the subject of RunExecution; *)
(* what the commits of two executions do to each other is the subject of   *)
(* ChapterCommit, which takes the last three nodes apart.                  *)
(* Every verdict of a language model is a nondeterministic choice.         *)
(***************************************************************************)
EXTENDS Integers

CONSTANTS
    Texts,               \* identities of the chapter texts in play
    NoText,              \* the empty draft, ""
    Scores,              \* the literary scores a reader may give
    PassScore,           \* READER_PASS_SCORE
    PlanRetryLimit,      \* plan_retry_limit
    DraftLoopRetryLimit, \* draft_loop_retry_limit
    ExtractionHitlLimit, \* extraction_hitl_limit
    CopyeditorEnabled    \* settings.copyeditor_enabled

ASSUME LimitsAssumption ==
    /\ PlanRetryLimit \in Nat
    /\ DraftLoopRetryLimit \in Nat
    /\ ExtractionHitlLimit \in Nat \ {0}
ASSUME ScoresAssumption == Scores \subseteq Nat /\ PassScore \in Nat
ASSUME TextsAssumption ==
    /\ NoText \notin Texts
    /\ \A a, b \in Texts \cup {NoText} : Texts \ {a, b} # {}
ASSUME SettingsAssumption == CopyeditorEnabled \in BOOLEAN

VARIABLES
    workflow_status, requires_hitl, hitl_reason, resume_from,
    plan_retry_count, alignment_hitl_retry_count,
    draft_loop_retry_count, extraction_gate_failure_streak,
    current_draft, best_draft_content, best_draft_score,
    pending_chapter_extraction,  \* the text the pending extraction was made from
    output_language_hitl_waived, require_chapter_review,
    pending_db_commit,           \* the text and the extraction about to be committed
    chapter,                     \* the stored chapter: the same record
    node,                        \* the node the executor runs next, or "idle"
    vouched,                     \* ghost: check -> texts that passed it or were let past it
    authored                     \* ghost: author nodes run since the executor was started

control  == <<workflow_status, requires_hitl, hitl_reason>>
planning == <<plan_retry_count, alignment_hitl_retry_count>>
drafting == <<draft_loop_retry_count, extraction_gate_failure_streak>>
drafts   == <<current_draft, best_draft_content, best_draft_score>>
gates    == <<pending_chapter_extraction, output_language_hitl_waived>>
outcome  == <<pending_db_commit, chapter>>
ghosts   == <<vouched, authored>>
vars == <<control, resume_from, planning, drafting, drafts, gates, require_chapter_review,
          outcome, node, ghosts>>

MaxHitlRetry == 1  \* max_hitl_retry of logic_alignment_node

\* The targets of the START edge of the graph.
StartNodes ==
    {"director", "graph_rag", "planner", "logic_alignment", "author", "draft_supervisor",
     "reader", "chapter_review_gate", "chunker", "vectorize_chunks", "extraction_gate",
     "copyeditor", "output_language_gate", "chapter_summarizer", "anchor_resolve",
     "profile_expander", "state_updater", "commit_to_databases"}
GraphNodes == StartNodes \cup {"plan_supervisor", "hitl"}

\* _ALLOWED_HITL_RESUME_NODES: where a human may ask the run to resume.
AllowedResumeNodes == StartNodes \ {"chapter_summarizer", "commit_to_databases"}

Statuses == {"IDLE", "RUNNING", "WAITING_HITL", "COMPLETED", "FAILED", "CANCELLED"}
HitlReasons ==
    {"PLAN_LOOP_EXCEEDED", "DRAFT_LOOP_EXCEEDED", "EXTRACTION_GATE_FAILED",
     "B_STORY_COOLDOWN_VIOLATION", "ANCHOR_RESOLUTION_FAILED",
     "RESOLUTION_TACTIC_COOLDOWN_VIOLATION", "ENDING_VIBE_COOLDOWN_VIOLATION",
     "CONTEXT_LENGTH_EXCEEDED", "ALIGNMENT_RULES_REQUIRED", "OUTPUT_LANGUAGE_MISMATCH",
     "CHAPTER_DRAFT_REVIEW"}

\* hitl_reason and resume_from when nothing waits and nothing is to be resumed.
NoReason == ""
NoNode   == ""

Drafts == Texts \cup {NoText}
Nothing == [text |-> NoText, extraction |-> NoText, done |-> FALSE]
Envelopes == [text : Drafts, extraction : Drafts, done : BOOLEAN]

\* `best_draft_content or current_draft`: the body every node after the review gate works on.
Content == IF best_draft_content # NoText THEN best_draft_content ELSE current_draft

\* A retry counter is only ever compared with its limit (is it above?), so it is kept up
\* to limit + 1.
Bump(count, limit) == IF count <= limit THEN count + 1 ELSE count

(***************************************************************************)
(* The checks a committed text should have behind it.  `vouched' records   *)
(* which texts passed each of them, or were let past it by a human who     *)
(* resumed the run beyond it.                                              *)
(***************************************************************************)
Checks == {"supervisor", "review", "extraction", "language"}

BeyondLanguage   == {"output_language_gate", "chapter_summarizer", "anchor_resolve",
                     "profile_expander", "state_updater"}
BeyondExtraction == BeyondLanguage \cup {"copyeditor"}
BeyondReview     == BeyondExtraction \cup {"chunker", "vectorize_chunks", "extraction_gate"}
BeyondSupervisor == BeyondReview \cup {"reader", "chapter_review_gate"}

Skipped(resume) ==
    {c \in Checks : \/ c = "supervisor" /\ resume \in BeyondSupervisor
                    \/ c = "review"     /\ resume \in BeyondReview
                    \/ c = "extraction" /\ resume \in BeyondExtraction
                    \/ c = "language"   /\ resume \in BeyondLanguage}

Vouch(check, text) == [vouched EXCEPT ![check] = @ \cup {text}]

\* The identity of a text nobody has seen: one that no text in use has.  Two are in use at
\* most when a text is written, so three identities are enough.
NewText(used1, used2) == CHOOSE text \in Texts : text \notin {used1, used2}

\* What is known of the drafts that remain in the state, when others are dropped from it.
KeepVouched(texts) == [c \in Checks |-> vouched[c] \cap texts]
-----------------------------------------------------------------------------
(* What the nodes have in common. *)

\* The flags a node sets to pause the run; the edge to "hitl" goes with them.
Pause(reason, resume) ==
    /\ workflow_status' = "WAITING_HITL"
    /\ requires_hitl' = TRUE
    /\ hitl_reason' = reason
    /\ resume_from' = resume

\* Mutant of Clear: the flag that asks for a human is forgotten.
ClearStatusOnly ==
    /\ workflow_status' = "RUNNING"
    /\ hitl_reason' = NoReason
    /\ UNCHANGED requires_hitl

\* The flags the supervisors and logic_alignment write when they do not pause.
Clear ==
    /\ workflow_status' = "RUNNING"
    /\ requires_hitl' = FALSE
    /\ hitl_reason' = NoReason

\* build_initial_state, as far as the control of the run depends on it.
FreshState ==
    /\ plan_retry_count' = 0
    /\ alignment_hitl_retry_count' = 0
    /\ draft_loop_retry_count' = 0
    /\ extraction_gate_failure_streak' = 0
    /\ current_draft' = NoText
    /\ best_draft_content' = NoText
    /\ best_draft_score' = 0
    /\ pending_chapter_extraction' = NoText
    /\ output_language_hitl_waived' = FALSE
    /\ pending_db_commit' = Nothing

\* start_run_chapter: a new run row and a background task that executes it.  A chapter
\* that is already completed is refused, a run that is not at an end is not replaced here.
StartRun ==
    /\ node = "idle"
    /\ workflow_status \in {"IDLE", "FAILED", "CANCELLED"}
    /\ ~chapter.done
    /\ FreshState
    /\ Clear
    /\ resume_from' = "director"
    /\ require_chapter_review' \in BOOLEAN
    /\ node' = "start"
    /\ vouched' = [c \in Checks |-> {}]
    /\ authored' = 0
    /\ UNCHANGED chapter

\* execute_stored_run up to graph.invoke, and route_start.  Anchors chosen when the run
\* was started let it skip the director.
ExecuteStoredRun ==
    /\ node = "start"
    /\ \/ workflow_status = "CANCELLED" /\ node' = "idle"
       \/ workflow_status # "CANCELLED" /\ resume_from \in StartNodes /\ node' = resume_from
       \/ workflow_status # "CANCELLED" /\ resume_from = "director" /\ node' = "graph_rag"
    /\ authored' = 0
    /\ UNCHANGED <<control, resume_from, planning, drafting, drafts, gates,
                   require_chapter_review, outcome, vouched>>

\* An exception or a timeout in a node (or in the graph's own step limit): the state is
\* read back and marked FAILED.  A failing commit may already have stored the chapter.
NodeFails ==
    /\ node \notin {"idle", "start"}
    /\ workflow_status' = "FAILED"
    /\ requires_hitl' = FALSE
    /\ hitl_reason' = "error"
    /\ pending_db_commit' = Nothing
    /\ chapter' \in IF node = "commit_to_databases" THEN {chapter, pending_db_commit}
                                                    ELSE {chapter}
    /\ node' = "idle"
    /\ authored' = 0
    /\ UNCHANGED <<resume_from, planning, drafting, drafts, gates, require_chapter_review,
                   vouched>>
-----------------------------------------------------------------------------
(* The nodes that plan the chapter. *)

Director ==
    /\ node = "director"
    /\ \/ Pause("B_STORY_COOLDOWN_VIOLATION", "graph_rag") /\ node' = "hitl"
       \/ /\ resume_from' = "director"
          /\ node' = "graph_rag"
          /\ UNCHANGED control
    /\ UNCHANGED <<planning, drafting, drafts, gates, require_chapter_review, outcome, ghosts>>

GraphRag ==
    /\ node = "graph_rag"
    /\ \/ Pause("CONTEXT_LENGTH_EXCEEDED", "graph_rag") /\ node' = "hitl"
       \/ node' = "planner" /\ UNCHANGED <<control, resume_from>>
    /\ UNCHANGED <<planning, drafting, drafts, gates, require_chapter_review, outcome, ghosts>>

\* Mutant of Planner: the node names its successor, which START does not know.
PlannerNamesSuccessor ==
    /\ node = "planner"
    /\ resume_from' = "plan_supervisor"
    /\ node' = "plan_supervisor"
    /\ UNCHANGED <<control, planning, drafting, drafts, gates, require_chapter_review, outcome,
                   ghosts>>

\* The planner asks for a pause when it falls into a cooldown, but its only edge leads to
\* plan_supervisor.
Planner ==
    /\ node = "planner"
    /\ \/ \E reason \in {"RESOLUTION_TACTIC_COOLDOWN_VIOLATION",
                         "ENDING_VIBE_COOLDOWN_VIOLATION"} : Pause(reason, "planner")
       \/ resume_from' = "planner" /\ UNCHANGED control
    /\ node' = "plan_supervisor"
    /\ UNCHANGED <<planning, drafting, drafts, gates, require_chapter_review, outcome, ghosts>>

PlanApproved ==
    /\ node = "plan_supervisor"
    /\ Clear
    /\ resume_from' = "logic_alignment"
    /\ node' = "logic_alignment"
    /\ UNCHANGED <<planning, drafting, drafts, gates, require_chapter_review, outcome, ghosts>>

PlanRejected ==
    /\ node = "plan_supervisor"
    /\ plan_retry_count' = Bump(plan_retry_count, PlanRetryLimit)
    /\ \/ /\ plan_retry_count + 1 > PlanRetryLimit
          /\ Pause("PLAN_LOOP_EXCEEDED", "planner")
          /\ node' = "hitl"
       \/ /\ plan_retry_count + 1 <= PlanRetryLimit
          /\ \E reason \in {"RESOLUTION_TACTIC_COOLDOWN_VIOLATION",
                            "ENDING_VIBE_COOLDOWN_VIOLATION"} : Pause(reason, "planner")
          /\ node' = "hitl"
       \/ /\ plan_retry_count + 1 <= PlanRetryLimit
          /\ Clear
          /\ node' = "planner"
          /\ UNCHANGED resume_from
    /\ UNCHANGED <<alignment_hitl_retry_count, drafting, drafts, gates, require_chapter_review,
                   outcome, ghosts>>

LogicAlignment ==
    /\ node = "logic_alignment"
    /\ resume_from' = "logic_alignment"
    /\ \/ /\ alignment_hitl_retry_count' = 0
          /\ Clear
          /\ node' = "author"
       \/ /\ alignment_hitl_retry_count' = Bump(alignment_hitl_retry_count, MaxHitlRetry)
          /\ alignment_hitl_retry_count + 1 > MaxHitlRetry
          /\ Clear
          /\ node' = "author"
       \/ /\ alignment_hitl_retry_count' = Bump(alignment_hitl_retry_count, MaxHitlRetry)
          /\ alignment_hitl_retry_count + 1 <= MaxHitlRetry
          /\ Pause("ALIGNMENT_RULES_REQUIRED", "logic_alignment")
          /\ node' = "hitl"
    /\ UNCHANGED <<plan_retry_count, drafting, drafts, gates, require_chapter_review, outcome,
                   ghosts>>
-----------------------------------------------------------------------------
(* The nodes that write the chapter. *)

\* The author always writes a new text.
AuthorBudget == DraftLoopRetryLimit + ExtractionHitlLimit

Author ==
    /\ node = "author"
    /\ current_draft' = NewText(best_draft_content, pending_chapter_extraction)
    /\ vouched' = KeepVouched({best_draft_content})
    /\ authored' = Bump(authored, AuthorBudget)
    /\ resume_from' = "author"
    /\ node' = "draft_supervisor"
    /\ UNCHANGED <<control, planning, drafting, best_draft_content, best_draft_score, gates,
                   require_chapter_review, outcome>>

DraftApproved ==
    /\ node = "draft_supervisor"
    /\ Clear
    /\ vouched' = Vouch("supervisor", current_draft)
    /\ node' = "reader"
    /\ UNCHANGED <<resume_from, planning, drafting, drafts, gates, require_chapter_review,
                   outcome, authored>>

\* Mutants of DraftRejected: the limit lets the draft through, as it does at the reader; the
\* rejection is not counted.
DraftRejectedGoesOn ==
    /\ node = "draft_supervisor"
    /\ draft_loop_retry_count' = Bump(draft_loop_retry_count, DraftLoopRetryLimit)
    /\ Clear
    /\ \/ draft_loop_retry_count + 1 > DraftLoopRetryLimit /\ node' = "reader"
       \/ draft_loop_retry_count + 1 <= DraftLoopRetryLimit /\ node' = "author"
    /\ UNCHANGED <<resume_from, planning, extraction_gate_failure_streak, drafts, gates,
                   require_chapter_review, outcome, ghosts>>

DraftRejectedUncounted ==
    /\ node = "draft_supervisor"
    /\ draft_loop_retry_count + 1 <= DraftLoopRetryLimit
    /\ Clear
    /\ resume_from' = "author"
    /\ node' = "author"
    /\ UNCHANGED <<planning, drafting, drafts, gates, require_chapter_review, outcome, ghosts>>

DraftRejected ==
    /\ node = "draft_supervisor"
    /\ draft_loop_retry_count' = Bump(draft_loop_retry_count, DraftLoopRetryLimit)
    /\ \/ /\ draft_loop_retry_count + 1 > DraftLoopRetryLimit
          /\ Pause("DRAFT_LOOP_EXCEEDED", "author")
          /\ node' = "hitl"
       \/ /\ draft_loop_retry_count + 1 <= DraftLoopRetryLimit
          /\ Clear
          /\ resume_from' = "author"
          /\ node' = "author"
    /\ UNCHANGED <<planning, extraction_gate_failure_streak, drafts, gates,
                   require_chapter_review, outcome, ghosts>>

\* The best text so far: a tie goes to the newer one.
KeepBest(score) ==
    IF score >= best_draft_score
    THEN best_draft_score' = score /\ best_draft_content' = current_draft
    ELSE UNCHANGED <<best_draft_score, best_draft_content>>

ReaderApproves ==
    /\ node = "reader"
    /\ \E score \in Scores : score >= PassScore /\ KeepBest(score)
    /\ vouched' = KeepVouched({current_draft, best_draft_content'})
    /\ resume_from' = "chapter_review_gate"
    /\ node' = "chapter_review_gate"
    /\ UNCHANGED <<control, planning, drafting, current_draft, gates, require_chapter_review,
                   outcome, authored>>

\* Mutant of ReaderRejects: at the limit the draft is archived without the review gate.
ReaderRejectsIntoChunker ==
    /\ node = "reader"
    /\ draft_loop_retry_count' = Bump(draft_loop_retry_count, DraftLoopRetryLimit)
    /\ \E score \in Scores : score < PassScore /\ KeepBest(score)
    /\ node' = IF draft_loop_retry_count + 1 > DraftLoopRetryLimit THEN "chunker" ELSE "author"
    /\ resume_from' = node'
    /\ vouched' = KeepVouched({current_draft, best_draft_content'})
    /\ UNCHANGED <<control, planning, extraction_gate_failure_streak, current_draft, gates,
                   require_chapter_review, outcome, authored>>

ReaderRejects ==
    /\ node = "reader"
    /\ draft_loop_retry_count' = Bump(draft_loop_retry_count, DraftLoopRetryLimit)
    /\ \E score \in Scores : score < PassScore /\ KeepBest(score)
    /\ \/ /\ draft_loop_retry_count + 1 > DraftLoopRetryLimit
          /\ current_draft' = IF best_draft_content' # NoText THEN best_draft_content'
                                                              ELSE current_draft
          /\ resume_from' = "chapter_review_gate"
          /\ node' = "chapter_review_gate"
       \/ /\ draft_loop_retry_count + 1 <= DraftLoopRetryLimit
          /\ resume_from' = "author"
          /\ node' = "author"
          /\ UNCHANGED current_draft
    /\ vouched' = KeepVouched({current_draft', best_draft_content'})
    /\ UNCHANGED <<control, planning, extraction_gate_failure_streak, gates,
                   require_chapter_review, outcome, authored>>

\* The passing branch leaves the pause flags alone and its edge tests them.
ChapterReviewGate ==
    /\ node = "chapter_review_gate"
    /\ \/ /\ require_chapter_review
          /\ Pause("CHAPTER_DRAFT_REVIEW", "chunker")
          /\ node' = "hitl"
       \/ /\ ~require_chapter_review
          /\ resume_from' = "chunker"
          /\ node' = IF requires_hitl THEN "hitl" ELSE "chunker"
          /\ UNCHANGED control
    /\ UNCHANGED <<planning, drafting, drafts, gates, require_chapter_review, outcome, ghosts>>
-----------------------------------------------------------------------------
(* The nodes that archive the chapter. *)

\* A node that only hands over to the next one; what it stores is not modelled here.
HandOver(from, to) ==
    /\ node = from
    /\ resume_from' = to
    /\ node' = to
    /\ UNCHANGED <<control, planning, drafting, drafts, gates, require_chapter_review, outcome,
                   ghosts>>

Chunker           == HandOver("chunker", "vectorize_chunks")
VectorizeChunks   == HandOver("vectorize_chunks", "extraction_gate")
ChapterSummarizer == HandOver("chapter_summarizer", "anchor_resolve")
ProfileExpander   == HandOver("profile_expander", "state_updater")

AfterExtraction == IF CopyeditorEnabled THEN "copyeditor" ELSE "output_language_gate"

\* Mutant of ExtractionPasses: the newest draft is extracted, not the one that is kept.
ExtractsNewestDraft ==
    /\ node = "extraction_gate"
    /\ pending_chapter_extraction' = current_draft
    /\ extraction_gate_failure_streak' = 0
    /\ resume_from' = AfterExtraction
    /\ node' = AfterExtraction
    /\ UNCHANGED <<control, planning, draft_loop_retry_count, drafts,
                   output_language_hitl_waived, require_chapter_review, outcome, ghosts>>

ExtractionPasses ==
    /\ node = "extraction_gate"
    /\ pending_chapter_extraction' = Content
    /\ extraction_gate_failure_streak' = 0
    /\ resume_from' = AfterExtraction
    /\ node' = AfterExtraction
    /\ UNCHANGED <<control, planning, draft_loop_retry_count, drafts,
                   output_language_hitl_waived, require_chapter_review, outcome, ghosts>>

\* Mutant of ExtractionFails: the rewrite gets a fresh draft loop.
ExtractionFailureResetsLoop ==
    /\ node = "extraction_gate"
    /\ pending_chapter_extraction' = NoText
    /\ draft_loop_retry_count' = 0
    /\ extraction_gate_failure_streak' =
          Bump(extraction_gate_failure_streak, ExtractionHitlLimit - 1)
    /\ \/ /\ extraction_gate_failure_streak + 1 >= ExtractionHitlLimit
          /\ Pause("EXTRACTION_GATE_FAILED", "extraction_gate")
          /\ node' = "hitl"
       \/ /\ extraction_gate_failure_streak + 1 < ExtractionHitlLimit
          /\ resume_from' = "author"
          /\ node' = "author"
          /\ UNCHANGED control
    /\ UNCHANGED <<planning, drafts, output_language_hitl_waived, require_chapter_review,
                   outcome, ghosts>>

ExtractionFails ==
    /\ node = "extraction_gate"
    /\ pending_chapter_extraction' = NoText
    /\ extraction_gate_failure_streak' =
          Bump(extraction_gate_failure_streak, ExtractionHitlLimit - 1)
    /\ \/ /\ extraction_gate_failure_streak + 1 >= ExtractionHitlLimit
          /\ Pause("EXTRACTION_GATE_FAILED", "extraction_gate")
          /\ node' = "hitl"
       \/ /\ extraction_gate_failure_streak + 1 < ExtractionHitlLimit
          /\ resume_from' = "author"
          /\ node' = "author"
          /\ UNCHANGED control
    /\ UNCHANGED <<planning, draft_loop_retry_count, drafts, output_language_hitl_waived,
                   require_chapter_review, outcome, ghosts>>

\* Mutant of Copyeditor: only the newest draft is polished.
PolishesNewestDraft ==
    /\ node = "copyeditor"
    /\ vouched' = [vouched EXCEPT !["language"] = {}]
    /\ resume_from' = "output_language_gate"
    /\ node' = "output_language_gate"
    /\ UNCHANGED <<control, planning, drafting, drafts, gates, require_chapter_review, outcome,
                   authored>>

\* The polished text keeps its identity (no fact may change) but not its language check.
Copyeditor ==
    /\ node = "copyeditor"
    /\ current_draft' = Content
    /\ best_draft_content' = Content
    /\ vouched' = [KeepVouched({Content}) EXCEPT !["language"] = {}]
    /\ resume_from' = "output_language_gate"
    /\ node' = "output_language_gate"
    /\ UNCHANGED <<control, planning, drafting, best_draft_score, gates,
                   require_chapter_review, outcome, authored>>

LanguageWaived ==
    /\ node = "output_language_gate"
    /\ output_language_hitl_waived
    /\ output_language_hitl_waived' = FALSE
    /\ workflow_status' = "RUNNING"
    /\ requires_hitl' = FALSE
    /\ vouched' = Vouch("language", current_draft)
    /\ resume_from' = "chapter_summarizer"
    /\ node' = "chapter_summarizer"
    /\ UNCHANGED <<hitl_reason, planning, drafting, drafts, pending_chapter_extraction,
                   require_chapter_review, outcome, authored>>

LanguageChecked ==
    /\ node = "output_language_gate"
    /\ ~output_language_hitl_waived
    /\ \/ /\ vouched' = Vouch("language", current_draft)
          /\ resume_from' = "chapter_summarizer"
          /\ node' = "chapter_summarizer"
          /\ UNCHANGED control
       \/ /\ Pause("OUTPUT_LANGUAGE_MISMATCH", "output_language_gate")
          /\ node' = "hitl"
          /\ UNCHANGED vouched
    /\ UNCHANGED <<planning, drafting, drafts, gates, require_chapter_review, outcome,
                   authored>>

AnchorResolve ==
    /\ node = "anchor_resolve"
    /\ \/ Pause("ANCHOR_RESOLUTION_FAILED", "anchor_resolve") /\ node' = "hitl"
       \/ resume_from' = "profile_expander" /\ node' = "profile_expander" /\ UNCHANGED control
    /\ UNCHANGED <<planning, drafting, drafts, gates, require_chapter_review, outcome, ghosts>>

\* Without a pending extraction the updater extracts the text it is about to store.
StateUpdater ==
    /\ node = "state_updater"
    /\ pending_db_commit' =
          [text |-> Content,
           extraction |-> IF pending_chapter_extraction # NoText
                          THEN pending_chapter_extraction ELSE Content,
           done |-> TRUE]
    /\ workflow_status' = "RUNNING"
    /\ resume_from' = "commit_to_databases"
    /\ node' = "commit_to_databases"
    /\ UNCHANGED <<requires_hitl, hitl_reason, planning, drafting, drafts, gates,
                   require_chapter_review, chapter, ghosts>>

CommitToDatabases ==
    /\ node = "commit_to_databases"
    /\ chapter' = pending_db_commit
    /\ pending_db_commit' = Nothing
    /\ workflow_status' = "COMPLETED"
    /\ node' = "idle"
    /\ authored' = 0
    /\ UNCHANGED <<requires_hitl, hitl_reason, resume_from, planning, drafting, drafts, gates,
                   require_chapter_review, vouched>>

HitlNode ==
    /\ node = "hitl"
    /\ workflow_status' = "WAITING_HITL"
    /\ requires_hitl' = TRUE
    /\ node' = "idle"
    /\ authored' = 0
    /\ UNCHANGED <<hitl_reason, resume_from, planning, drafting, drafts, gates,
                   require_chapter_review, outcome, vouched>>
-----------------------------------------------------------------------------
(* The human decisions.  Each endpoint reads the stored state, insists that it *)
(* waits for a human, edits it, and schedules execute_stored_run.              *)

Waiting ==
    /\ node = "idle"
    /\ workflow_status = "WAITING_HITL" \/ requires_hitl

\* The run goes on at `resume'.  Going on beyond a check lets the texts the human leaves
\* in the state past it.  With the copyeditor skipped nothing makes the two drafts agree,
\* so resuming at the language gate counts as going beyond it.
ResumeFrom(resume, base) ==
    /\ Waiting
    /\ Clear
    /\ resume_from' = resume
    /\ node' = "start"
    /\ vouched' = [c \in Checks |-> IF c \in Skipped(resume)
                                    THEN base[c] \cup {current_draft', best_draft_content'}
                                    ELSE base[c]]
    /\ UNCHANGED <<require_chapter_review, outcome, authored>>

Resume(resume) == ResumeFrom(resume, vouched)

\* ABORT_AND_RESTART, and RERUN_KEEP_DIRECTOR at the chapter review.
AbortAndRestart ==
    /\ Waiting
    /\ FreshState
    /\ Clear
    /\ resume_from' = "planner"
    /\ node' = "start"
    /\ vouched' = [c \in Checks |-> {}]
    /\ UNCHANGED <<require_chapter_review, chapter, authored>>

AbandonChapter ==
    /\ Waiting
    /\ hitl_reason = "CHAPTER_DRAFT_REVIEW"
    /\ workflow_status' = "CANCELLED"
    /\ requires_hitl' = FALSE
    /\ hitl_reason' = NoReason
    /\ resume_from' = NoNode
    /\ node' = "start"
    /\ UNCHANGED <<planning, drafting, drafts, gates, require_chapter_review, outcome, ghosts>>

ApproveDraft ==
    /\ hitl_reason = "CHAPTER_DRAFT_REVIEW"
    /\ UNCHANGED <<planning, drafting, drafts, gates>>
    /\ Resume("chunker")

\* Where an option of the dashboard sends the run; any other option id, and one that
\* does not belong to the pause at hand, leaves resume_from as it is.
OptionIds ==
    {"force_rewrite_plan", "force_approve_plan", "relax_word_count", "keep_current_logic",
     "extraction_return_author", "language_force_continue", "language_return_author", "other"}

ResumeOfOption(option) ==
    IF \/ option = "relax_word_count" /\ hitl_reason = "DRAFT_LOOP_EXCEEDED"
       \/ option = "force_approve_plan" /\ hitl_reason = "PLAN_LOOP_EXCEEDED"
       \/ option = "extraction_return_author" /\ hitl_reason = "EXTRACTION_GATE_FAILED"
       \/ option = "language_return_author" /\ hitl_reason = "OUTPUT_LANGUAGE_MISMATCH"
    THEN "author"
    ELSE IF option = "language_force_continue" /\ hitl_reason = "OUTPUT_LANGUAGE_MISMATCH"
    THEN "output_language_gate"
    ELSE resume_from

ChooseOption(option) ==
    /\ plan_retry_count' =
          IF \/ option = "force_rewrite_plan"
             \/ option = "force_approve_plan" /\ hitl_reason = "PLAN_LOOP_EXCEEDED"
          THEN 0 ELSE plan_retry_count
    /\ draft_loop_retry_count' =
          IF option = "keep_current_logic" \/ hitl_reason = "DRAFT_LOOP_EXCEEDED"
          THEN 0 ELSE draft_loop_retry_count
    /\ extraction_gate_failure_streak' =
          IF option = "extraction_return_author" /\ hitl_reason = "EXTRACTION_GATE_FAILED"
          THEN 0 ELSE extraction_gate_failure_streak
    /\ output_language_hitl_waived' =
          IF hitl_reason = "OUTPUT_LANGUAGE_MISMATCH"
          THEN CASE option = "language_force_continue" -> TRUE
                 [] option = "language_return_author"  -> FALSE
                 [] OTHER -> output_language_hitl_waived
          ELSE output_language_hitl_waived
    /\ UNCHANGED <<alignment_hitl_retry_count, drafts, pending_chapter_extraction>>
    /\ Resume(ResumeOfOption(option))

\* outline_edit, director_patch, context_prune and anchor_resolution without a rewrite only
\* choose where the run goes on.
Redirect(resume) ==
    /\ UNCHANGED <<planning, drafting, drafts, gates>>
    /\ Resume(resume)

OutlineEdit ==
    Redirect(IF hitl_reason = "PLAN_LOOP_EXCEEDED" THEN "planner" ELSE "author")

DirectorPatch ==
    Redirect(IF hitl_reason = "DRAFT_LOOP_EXCEEDED" THEN "author" ELSE "planner")

ContextPrune == Redirect("graph_rag")

\* state_injection: an unknown node is replaced by the one the pause had chosen.
StateInjection ==
    \E requested \in AllowedResumeNodes \cup {resume_from} :
        Redirect(IF hitl_reason = "ALIGNMENT_RULES_REQUIRED" THEN "logic_alignment"
                                                             ELSE requested)

\* force_resolve and continue_unresolved; delay_anchor; rewrite, which b_story_judgement
\* sends as well.
AnchorResolution ==
    \E resume \in {"profile_expander", "planner"} \cup AllowedResumeNodes : Redirect(resume)

AnchorDelay ==
    /\ plan_retry_count' = 0
    /\ UNCHANGED <<alignment_hitl_retry_count, drafting, drafts, gates>>
    /\ Resume("planner")

ExtractionRemap ==
    /\ extraction_gate_failure_streak' = 0
    /\ UNCHANGED <<planning, draft_loop_retry_count, drafts, gates>>
    /\ Resume("extraction_gate")

\* draft_edit: the human's text replaces both drafts, or a second one the best draft; the
\* score of the draft it replaces stays.  What a human wrote needs no draft supervisor.
DraftEdit ==
    /\ current_draft' = NewText(pending_chapter_extraction, NoText)
    /\ best_draft_content' \in {current_draft', NewText(pending_chapter_extraction, current_draft')}
    /\ \E resume \in AllowedResumeNodes :
          ResumeFrom(resume, [c \in Checks |->
                                 IF c = "supervisor" THEN {current_draft', best_draft_content'}
                                                     ELSE {}])
    /\ UNCHANGED <<planning, drafting, best_draft_score, gates>>

HumanDecides ==
    \/ AbortAndRestart
    \/ AbandonChapter
    \/ ApproveDraft
    \/ \E option \in OptionIds : ChooseOption(option)
    \/ OutlineEdit
    \/ StateInjection
    \/ DraftEdit
    \/ DirectorPatch
    \/ ExtractionRemap
    \/ AnchorResolution
    \/ AnchorDelay
    \/ ContextPrune

Executor ==
    \/ ExecuteStoredRun
    \/ Director
    \/ GraphRag
    \/ Planner
    \/ PlanApproved
    \/ PlanRejected
    \/ LogicAlignment
    \/ Author
    \/ DraftApproved
    \/ DraftRejected
    \/ ReaderApproves
    \/ ReaderRejects
    \/ ChapterReviewGate
    \/ Chunker
    \/ VectorizeChunks
    \/ ExtractionPasses
    \/ ExtractionFails
    \/ Copyeditor
    \/ LanguageWaived
    \/ LanguageChecked
    \/ ChapterSummarizer
    \/ AnchorResolve
    \/ ProfileExpander
    \/ StateUpdater
    \/ CommitToDatabases
    \/ HitlNode
    \/ NodeFails

Init ==
    /\ workflow_status = "IDLE"
    /\ requires_hitl = FALSE
    /\ hitl_reason = NoReason
    /\ resume_from = NoNode
    /\ plan_retry_count = 0
    /\ alignment_hitl_retry_count = 0
    /\ draft_loop_retry_count = 0
    /\ extraction_gate_failure_streak = 0
    /\ current_draft = NoText
    /\ best_draft_content = NoText
    /\ best_draft_score = 0
    /\ pending_chapter_extraction = NoText
    /\ output_language_hitl_waived = FALSE
    /\ require_chapter_review = FALSE
    /\ pending_db_commit = Nothing
    /\ chapter = Nothing
    /\ node = "idle"
    /\ vouched = [c \in Checks |-> {}]
    /\ authored = 0

Next == StartRun \/ HumanDecides \/ Executor

\* The background task runs on by itself; nothing obliges a human to start a run or to
\* answer, and no node is obliged to give the answer that would end a loop.
Spec == Init /\ [][Next]_vars /\ WF_vars(Executor)
-----------------------------------------------------------------------------
(* Properties. *)

TypeOK ==
    /\ workflow_status \in Statuses
    /\ requires_hitl \in BOOLEAN
    /\ hitl_reason \in HitlReasons \cup {NoReason, "error"}
    /\ resume_from \in StartNodes \cup {NoNode}
    /\ plan_retry_count \in 0..(PlanRetryLimit + 1)
    /\ alignment_hitl_retry_count \in 0..(MaxHitlRetry + 1)
    /\ draft_loop_retry_count \in 0..(DraftLoopRetryLimit + 1)
    /\ extraction_gate_failure_streak \in 0..ExtractionHitlLimit
    /\ current_draft \in Drafts
    /\ best_draft_content \in Drafts
    /\ best_draft_score \in Scores \cup {0}
    /\ pending_chapter_extraction \in Drafts
    /\ output_language_hitl_waived \in BOOLEAN
    /\ require_chapter_review \in BOOLEAN
    /\ pending_db_commit \in Envelopes
    /\ chapter \in Envelopes
    /\ node \in GraphNodes \cup {"idle", "start"}
    /\ vouched \in [Checks -> SUBSET Drafts]
    /\ authored \in 0..(AuthorBudget + 1)

\* No text reaches the chapters table that the draft supervisor rejected or never saw,
\* whatever path the retries take, unless a human resumed the run beyond the supervisor.
CommittedTextWasSupervised == chapter.done => chapter.text \in vouched["supervisor"]

\* With require_chapter_review a text written after the last review (by the author node an
\* extraction failure goes back to, say) is never archived without another one.
CommittedTextWasReviewed ==
    chapter.done /\ require_chapter_review => chapter.text \in vouched["review"]

\* The text that is archived is the text the language gate looked at, though the gate reads
\* current_draft and the commit prefers best_draft_content.
CommittedTextPassedLanguageGate == chapter.done => chapter.text \in vouched["language"]

\* Graph mutations and chapter text come from the same draft: a failed extraction, a
\* rewrite or a restart never leaves the extraction of another draft behind.
GraphMatchesChapter ==
    chapter.done => \/ chapter.extraction = chapter.text
                    \/ chapter.text \in vouched["extraction"]

\* The three retry loops through the author share a budget: whatever counters a human left
\* in the state, one execution writes at most DraftLoopRetryLimit + ExtractionHitlLimit
\* drafts before it pauses, fails or commits.
AuthorRunsWithinBudget == authored <= AuthorBudget

\* When no executor is at work the run is at an end or can be answered: the status and the
\* flag agree, a reason is there and START knows the node to resume from.
RestIsAnswerable ==
    node = "idle" =>
        \/ workflow_status \in {"IDLE", "COMPLETED", "FAILED", "CANCELLED"} /\ ~requires_hitl
        \/ /\ workflow_status = "WAITING_HITL"
           /\ requires_hitl
           /\ hitl_reason \in HitlReasons
           /\ resume_from \in AllowedResumeNodes

\* Every execution comes to rest: the retry limits end every loop of the graph.
ExecutionComesToRest == node # "idle" ~> node = "idle"
=============================================================================

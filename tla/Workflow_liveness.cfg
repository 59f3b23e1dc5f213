SPECIFICATION Executions
CONSTANTS
    t1 = t1
    t2 = t2
    t3 = t3
    Texts <- MCTexts
    NoText = NoText
    Scores = {50, 70}
    PassScore = 60
    PlanRetryLimit = 3
    DraftLoopRetryLimit = 3
    ExtractionHitlLimit = 4
    CopyeditorEnabled = TRUE
PROPERTIES
    ExecutionComesToRest
INVARIANTS
    AuthorRunsWithinBudget
CHECK_DEADLOCK FALSE

SPECIFICATION Spec
CONSTANTS
    t1 = t1
    t2 = t2
    t3 = t3
    Texts <- MCTexts
    NoText = NoText
    Scores <- MCScores
    PassScore = 60
    PlanRetryLimit = 0
    DraftLoopRetryLimit = 1
    ExtractionHitlLimit = 2
    CopyeditorEnabled = TRUE
SYMMETRY Symmetry
INVARIANTS
    TypeOK
    CommittedTextWasSupervised
    CommittedTextWasReviewed
    CommittedTextPassedLanguageGate
    GraphMatchesChapter
    RestIsAnswerable
CHECK_DEADLOCK FALSE

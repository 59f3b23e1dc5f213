SPECIFICATION Spec
CONSTANTS
    c1 = c1
    c2 = c2
    r1 = r1
    r2 = r2
    a1 = a1
    a2 = a2
    Commits = {c1, c2}
    Replays = {r1, r2}
    Chapters = {1}
    ChapterOf <- MCChapterOf
    Anchors = {a1, a2}
    ResolvedAnchors <- MCResolvedAnchors
    Overlap = FALSE
    None = None
INVARIANTS
    CastUpdatesAreApplied
CHECK_DEADLOCK FALSE

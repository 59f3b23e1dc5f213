SPECIFICATION Spec
CONSTANTS
    q1 = q1
    q2 = q2
    run = run
    Requests = {q1, q2}
    FirstTask = run
    Slow = {run}
    None = None
SYMMETRY Symmetry
INVARIANTS
    TypeOK
    RunningIsAttended
    CompletedMeansCommitted
    AloneNothingIsLost
    AloneCommitsOnce
CHECK_DEADLOCK FALSE

SPECIFICATION Spec
CONSTANTS
    p1 = p1
    p2 = p2
    w1 = w1
    w2 = w2
    NoProc = NoProc
    Jobs <- MCJobs1
    Procs = {p1, p2}
    Workers = {w1}
    MaxPending = 1
    BatchSize = 2
    LeaseLoss = TRUE
    ClockSteps = TRUE
    MaxOutages = 1
    MaxRestarts = 0
SYMMETRY MCSymmetry
INVARIANTS
    EventLogCoherent
CHECK_DEADLOCK FALSE

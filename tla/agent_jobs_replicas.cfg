SPECIFICATION Spec
CONSTANTS
    p1 = p1
    p2 = p2
    w1 = w1
    w2 = w2
    NoProc = NoProc
    Jobs <- MCJobs1
    Procs = {p1, p2}
    Workers = {w1, w2}
    MaxPending = 2
    BatchSize = 1
    LeaseLoss = FALSE
    ClockSteps = TRUE
    MaxOutages = 3
    MaxRestarts = 1
SYMMETRY MCSymmetry
INVARIANTS
    SingleExecution
    OneCallbackPerJob
    PermitsAccounted
PROPERTIES
    LiveWorkKept
    OrphansExplained

SPECIFICATION FairSpec
CONSTANTS
    p1 = p1
    p2 = p2
    w1 = w1
    w2 = w2
    NoProc = NoProc
    Jobs <- MCJobs2
    Procs = {p1}
    Workers = {w1}
    MaxPending = 1
    BatchSize = 1
    LeaseLoss = FALSE
    ClockSteps = FALSE
    MaxOutages = 1
    MaxRestarts = 1
INVARIANTS
    TypeOK
    NoOrphan
PROPERTIES
    StoredJobsEnd

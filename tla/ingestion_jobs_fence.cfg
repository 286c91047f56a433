SPECIFICATION Spec
CONSTANTS
    w1 = w1
    w2 = w2
    o1 = o1
    c1 = c1
    c2 = c2
    NoWorker = NoWorker
    Jobs <- MCJobs1
    Workers = {w1, w2}
    Operators = {o1}
    Planners = {c1}
    MaxAttempts = 2
    LeaseDuration = 1
    Extension = 1
    BaseDelay = 1
    MaxDelay = 2
    MaxTime = 3
    MaxBeats = 1
SYMMETRY MCWorkerSymmetry
INVARIANTS
    TypeOK
    OwnedWritesFenced
    PendingClaimable
    LogTellsRow
PROPERTIES
    EndsOnce
    LeaseRespected

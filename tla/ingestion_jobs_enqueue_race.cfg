SPECIFICATION Spec
CONSTANTS
    w1 = w1
    w2 = w2
    o1 = o1
    c1 = c1
    c2 = c2
    NoWorker = NoWorker
    Jobs <- MCJobs1
    Workers = {w1, w2}
    Operators = {o1}
    Planners = {c1, c2}
    MaxAttempts = 2
    LeaseDuration = 2
    Extension = 1
    BaseDelay = 1
    MaxDelay = 2
    MaxTime = 4
    MaxBeats = 0
INVARIANTS
    EnqueuedOnce

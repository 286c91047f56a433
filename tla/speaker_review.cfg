SPECIFICATION Spec
CONSTANTS
    w1 = w1
    w2 = w2
    Workers = {w1, w2}
    h1 = h1
    h2 = h2
    Resolutions = {h1, h2}
    Parts <- MCParts
    PartCount <- MCPartCount
    MaxBatches = 2
    MaxCrashes = 1
    MaxReprices = 1
INVARIANTS
    TypeOK
    PaidOnce
    StateTellsRecords
PROPERTIES
    ImplementsLedger
    EndsOrStops
CHECK_DEADLOCK FALSE

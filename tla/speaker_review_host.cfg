SPECIFICATION Spec
CONSTANTS
    Parts = {1, 3, 6, 8, 10, 12, 15, 17}
    MaxBatches = 2
    MaxFaults = 2
    FaultSpan = 1
INVARIANTS
    ReceiptTellsRun
    StopsOnlyInWindows
PROPERTIES
    ImplementsLedger
    EndsOrStops
CHECK_DEADLOCK FALSE

SPECIFICATION Spec
CONSTANTS
    Job = job
    MaxEvents = 3
    Batch = 2
    MaxRecoveries = 2
    MaxFaults = 4
INVARIANTS
    EventsOnceInOrder
    ShowsWhatIsStored
PROPERTIES
    EndReachesUser
CHECK_DEADLOCK FALSE

SPECIFICATION Spec
CONSTANTS
    r1 = r1
    r2 = r2
    Requests <- MCRequests
    Browser <- MCBrowser
    Cap = 2
    MaxPasswords = 2
    MaxSessions = 4
INVARIANTS
    TypeOK
    ActiveCap
    SessionsMatchPassword
PROPERTIES
    EndsAll
CHECK_DEADLOCK FALSE

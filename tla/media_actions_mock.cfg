SPECIFICATION Spec
CONSTANTS
    playlist = playlist
    watched = watched
    like = like
    unlike = unlike
    Commands = {like, unlike}
    Repeatable = {}
    k1 = k1
    k2 = k2
    Keys = {k1, k2}
    KeyOf <- TwoKeys
    Undoes <- Opposite
    RevisionOf <- FirstRevision
    Callers = {c1, c2, c3}
    c1 = c1
    c2 = c2
    c3 = c3
    NoCommand = NoCommand
    NoCaller = NoCaller
    Adapter = "mock"
    TTL = 1
    MaxAttempts = 2
    LostAnswers = FALSE
    OtherHands = FALSE
    MaxTime = 0
    MaxRevision = 0
    MaxFaults = 1
SYMMETRY SymmetricPair
INVARIANT ExecutedIsVerified
INVARIANT AuditTellsStatus

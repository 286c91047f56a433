SPECIFICATION Spec
CONSTANTS
    playlist = playlist
    watched = watched
    like = like
    unlike = unlike
    Commands = {playlist, watched}
    Repeatable = {watched}
    k1 = k1
    k2 = k2
    Keys = {k1}
    KeyOf <- OneKey
    Undoes <- Independent
    RevisionOf <- FirstRevision
    Callers = {c1, c2}
    c1 = c1
    c2 = c2
    NoCommand = NoCommand
    NoCaller = NoCaller
    Adapter = "jellyfin"
    TTL = 1
    MaxAttempts = 2
    LostAnswers = TRUE
    OtherHands = TRUE
    MaxTime = 2
    MaxRevision = 1
    MaxFaults = 3
SYMMETRY Symmetric
INVARIANT TypeOK
INVARIANT ApprovedWritesOnly
INVARIANT WrittenOnce
PROPERTY DecidedOnce

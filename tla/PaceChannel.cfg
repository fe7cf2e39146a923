SPECIFICATION FairSpec
CONSTANTS
    c1 = c1
    c2 = c2
    NoCard = NoCard
    NoReader = 0
    Readers = {1}
    Cards = {c1, c2}
    BasicReaders = {1}
    TransportCards = {c1}
    Deactivated = {c2}
    CanAllowed = FALSE
    IsAuth = TRUE
    UsedAsSDK = FALSE
    TypesFixed = TRUE
    RepositionLimit = 2
    InitialTries = {1, 2}
    MaxMoves = 2
    MaxFailures = 1
    MaxCancels = 1
INVARIANT PasswordsClearedOnAbort
INVARIANT DestroyFindsCard
INVARIANT PasswordIsThere
INVARIANT TriesAreKnown
INVARIANT LastTryNeedsCan
PROPERTY ErrorEndsPace
PROPERTY Settles
CHECK_DEADLOCK FALSE

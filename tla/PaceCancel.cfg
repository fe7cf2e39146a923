SPECIFICATION Spec
CONSTANTS
    c1 = c1
    NoCard = NoCard
    NoReader = 0
    Readers = {1}
    Cards = {c1}
    BasicReaders = {1}
    TransportCards = {}
    Deactivated = {}
    CanAllowed = FALSE
    IsAuth = FALSE
    UsedAsSDK = TRUE
    TypesFixed = TRUE
    RepositionLimit = 2
    InitialTries = {2}
    MaxMoves = 0
    MaxFailures = 0
    MaxCancels = 1
PROPERTY CancelAborts
CHECK_DEADLOCK FALSE

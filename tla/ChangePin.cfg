SPECIFICATION FairChangeSpec
CONSTANTS
    c1 = c1
    NoCard = NoCard
    NoReader = 0
    Readers = {1, 2}
    Cards = {c1}
    BasicReaders = {1}
    TransportCards = {}
    Deactivated = {}
    CanAllowed = FALSE
    IsAuth = FALSE
    UsedAsSDK = FALSE
    TypesFixed = FALSE
    RepositionLimit = 2
    InitialTries = {1}
    MaxMoves = 2
    MaxFailures = 1
    MaxCancels = 1
INVARIANT SuccessMeansChanged
INVARIANT ChangeFindsCard
INVARIANT EndIsClean
PROPERTY EstablishedByCard
PROPERTY KilledWorkflowEnds
CHECK_DEADLOCK FALSE

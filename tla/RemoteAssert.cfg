SPECIFICATION RemoteSpec
CONSTANTS
    Types = {"PIN"}
    MaxClients = 2
    MaxRequests = 2
    MaxOpen = 2
    MaxMoves = 0
    MaxCancels = 0
INVARIANT AssertModifyPinMessage
CHECK_DEADLOCK FALSE

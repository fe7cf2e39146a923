CONSTANTS
    Connections = {1, 2}
    RefusalLimit = 1
    MaxOverlaps = 1
    MaxChanges = 1
    MaxScans = 1
    MaxCalls = 1
    MaxTimeouts = 1
    None = None
    NoName = 0
SPECIFICATION RemoteConnectionFairSpec
CHECK_DEADLOCK FALSE
INVARIANT AnswersExpected
INVARIANT NoGhostReader
INVARIANT LinkIsReal
PROPERTY Reconnects

CONSTANTS
    Connections = {1, 2}
    RefusalLimit = 7
    MaxOverlaps = 0
    MaxChanges = 1
    MaxScans = 1
    MaxCalls = 0
    MaxTimeouts = 0
    None = None
    NoName = 0
SPECIFICATION RemoteConnectionSpec
INVARIANT ListedIsConnected
CHECK_DEADLOCK FALSE

CONSTANTS
    Readers = {ra}
    MaxCommands = 2
    MaxChanges = 2
    MaxScans = 1
    None = None
SPECIFICATION FairReaderManagerSpec
CHECK_DEADLOCK FALSE
INVARIANT CacheSettles
INVARIANT CardNotLeaked
PROPERTY CommandAnswered

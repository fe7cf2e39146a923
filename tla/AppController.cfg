CONSTANTS
    Requests = {r1, r2}
    TickLimit = 2
    MaxQuits = 2
SPECIFICATION FairSpec
CHECK_DEADLOCK FALSE
INVARIANT SlotConsistent
INVARIANT RequestsAccounted
INVARIANT CompletionMatchesController
INVARIANT ShutdownInOrder
PROPERTY SlotSpec
PROPERTY ShutdownTerminates
PROPERTY AuthenticationAnswered

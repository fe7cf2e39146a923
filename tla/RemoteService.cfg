SPECIFICATION RemoteFairSpec
CONSTANTS
    Types = {"PIN", "PUK"}
    MaxClients = 2
    MaxRequests = 3
    MaxOpen = 2
    MaxMoves = 1
    MaxCancels = 1
INVARIANT PasswordsOfClient
INVARIANT PromptHasRequest
INVARIANT AnswerFitsRequest
PROPERTY CleanStart
PROPERTY RequestAnswered
CHECK_DEADLOCK FALSE

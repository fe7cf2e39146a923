SPECIFICATION AuthSpec
CONSTANTS
    Workflows = {"auth"}
    Urls = {"A"}
    SameOrigin = {"A"}
    ObeysErrors = TRUE
    MaxExtra = 0
    MaxRemovals = 0
    MaxCancels = 0
INVARIANT HistoryFindsRights
CHECK_DEADLOCK FALSE

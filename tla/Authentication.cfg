SPECIFICATION AuthFairSpec
CONSTANTS
    Workflows = {"auth", "selfauth"}
    Urls = {"A", "B"}
    SameOrigin = {"A"}
    ObeysErrors = TRUE
    MaxExtra = 2
    MaxRemovals = 1
    MaxCancels = 1
INVARIANT CallerAnswered
INVARIANT CardThere
INVARIANT CheckedBeforeRead
INVARIANT RefreshVerified
PROPERTY SuccessIsTrue
PROPERTY AuthenticationEnds
CHECK_DEADLOCK FALSE

SPECIFICATION FairUpdatesSpec
CONSTANTS
    Icons = {"icon"}
    Owner <- IconOfProviders
    MaxVersion <- ProvidersChange
    MaxReleases = 2
    MaxRestarts = 1
    MaxWriteFailures = 1
INVARIANT CleanIsCurrent
PROPERTY UpdatesArrive
CHECK_DEADLOCK FALSE

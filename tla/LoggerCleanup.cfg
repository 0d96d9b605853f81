SPECIFICATION FairSpec
CONSTANTS
    InitLevels <- MCMainLevels
    InitRotate = {TRUE}
    None = None
    MaxLogFiles = 3
    MaxLogSize = 1
    MaxLines = 1
    MaxRuns = 1
    HandlerLogs = 1
    MaxNest = 2
PROPERTY
    CleanupCompletes
CHECK_DEADLOCK FALSE

SPECIFICATION FairSpec
CONSTANTS
    InitLevels <- MCInitLevels
    InitRotate = {TRUE}
    None = None
    MaxLogFiles = 3
    MaxLogSize = 0
    MaxLines = 6
    MaxRuns = 3
    HandlerLogs = 2
    MaxNest = 2
INVARIANTS
    TypeOK
    WedgedOnlyBy
    CrashOnlyBy
    LogContiguous
PROPERTIES
    HandlerLeaves
    CleanupLeaves
CHECK_DEADLOCK FALSE

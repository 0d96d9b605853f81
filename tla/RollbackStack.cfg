SPECIFICATION FairSpec
CONSTANTS
    s1 = s1
    s2 = s2
    s3 = s3
    SIGINT = SIGINT
    SIGABRT = SIGABRT
    NULL = NULL
    Steps <- MCSteps
    Signals <- MCSignals
    Faults <- MCFaults
    MaxNest <- MCMaxNest
    MaxSteps = 2
INVARIANTS
    TypeOK
    IInv
    CorruptOnlyAfterInterruptedWalk
    AtMostOnce
    NothingForgotten
PROPERTIES
    HandlerEnds
    ImplementsUndoLog
CHECK_DEADLOCK FALSE

SPECIFICATION Spec
CONSTANTS
    s1 = s1
    s2 = s2
    s3 = s3
    SIGINT = SIGINT
    SIGABRT = SIGABRT
    NULL = NULL
    Steps <- MCSteps
    Signals <- MCSignals
    Faults <- MCFaults
    MaxNest <- MCMaxNest
    MaxSteps = 2
INVARIANT
    NoUseAfterFree
CHECK_DEADLOCK FALSE

SPECIFICATION FairSpec
CONSTANTS
    old = old
    new = new
    Kernels <- MCKernels
    New = new
    MaxRuns = 2
    MaxCalls = 2
    DirOnly = DirOnly
    None = None
INVARIANTS
    TypeOK
    SuccessMeansComplete
    MenuRecoverable
    ImageHasModules
    RemovedImageGone
PROPERTY
    CallEnds
CHECK_DEADLOCK FALSE

SPECIFICATION Spec
CONSTANTS
    old = old
    new = new
    Kernels <- MCKernels
    New = new
    MaxRuns = 2
    MaxCalls = 2
    DirOnly = DirOnly
    None = None
INVARIANT
    FailedInstallUndone
CHECK_DEADLOCK FALSE

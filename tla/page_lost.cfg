CONSTANTS
    NPages = 4
    Kind <- Repeats
    Degenerate = {}
    PageConcurrency = 1
    Prefetch = 1
    MayCancel = FALSE
    MaxFaults = 1
SPECIFICATION Spec
CHECK_DEADLOCK FALSE
INVARIANT EveryPageReported

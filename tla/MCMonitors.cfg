\* Five sets of properties and three kernels, with any number of reloads and restarts.
CONSTANTS
    AllProps <- MCProps
    Kernels <- MCKernels
    MAX_DATA_CONN = 3
SPECIFICATION FairSpec
INVARIANTS EventsCounted ReinitLikeRestart DirectReclaimWatched ChangesTakeEffect
PROPERTY MonitoredAfterBoot

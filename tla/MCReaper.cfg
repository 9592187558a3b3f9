\* Two threads (THREAD_POOL_SIZE) and three requests, so that the third finds
\* the pool busy; a pipe that blocks on the second unread failure; three
\* descriptors, so that the table can be exhausted.
CONSTANTS
    Threads = {t1, t2}
    Procs = {p1}
    FDs = {3, 4, 5}
    PipeCap = 1
    MaxRequests = 3
    NoProc = NoProc
    Dir = Dir
    NoThread = NoThread
SPECIFICATION FairSpec
CHECK_DEADLOCK FALSE
INVARIANTS
    RequestNamesItsProcess
    NoLeakedDescriptor
    CapacityKept
    NoLostWakeup
PROPERTIES
    ImplementsService
    RequestsSettle

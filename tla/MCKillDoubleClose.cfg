\* A victim that ends just before the signal.
CONSTANTS
    p1 = p1  p2 = p2  p3 = p3
    Threads = {t1}
    Procs = {p1, p2, p3}
    Pids = {1, 2}
    PidOf <- Reused
    FDs = {3, 4, 5}
    PipeCap = 2
    MaxRequests = 2
    Worlds <- LateExit
    NoProc = NoProc
    Dir = Dir
    NoThread = NoThread
SPECIFICATION Spec
INVARIANT PidfdNamesItsProcess

\* Two of three processes, on two pids or on one that is reused; one thread, so
\* that a second kill finds the pool busy and is synchronous.
CONSTANTS
    p1 = p1  p2 = p2  p3 = p3
    Threads = {t1}
    Procs = {p1, p2, p3}
    Pids = {1, 2}
    PidOf <- Reused
    FDs = {3, 4, 5}
    PipeCap = 2
    MaxRequests = 2
    Worlds <- Mixed
    NoProc = NoProc
    Dir = Dir
    NoThread = NoThread
SPECIFICATION Spec
SYMMETRY Symmetry
INVARIANTS PidfdNamesItsProcess OnlyTheWaitIsWatched KilledWasAsked
PROPERTIES NoWaitInProgress ImplementsCaller

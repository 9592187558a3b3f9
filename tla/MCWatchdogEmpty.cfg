SPECIFICATION Spec
CONSTANTS
    Pids = {p1, p2}
    Clients = {c1}
    NoClient = NoClient
    Adjs <- MCAdjs
    PerAppMemcg = FALSE
    NoRecord = NoRecord
    Buckets = {0}
    pid_hashfn <- MCHash
    Null = Null
    FDs = {1, 2}
    Free = Free
    Dead = Dead
INVARIANT FindVictimCopes

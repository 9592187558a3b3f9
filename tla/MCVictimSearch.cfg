CONSTANTS
    a1 = a1
    a2 = a2
    a3 = a3
    c1 = c1
    c2 = c2
    Pids = {a1, a2, a3}
    Clients = {c1}
    NoClient = NoClient
    Adjs = {200, 650}
    PerAppMemcg = TRUE
    NoRecord = NoRecord
    NoPid = NoPid
    Rss <- Weights
    MinScores = {0, 201}
    KillHeaviest = FALSE
    KillMayFail = TRUE

SPECIFICATION FairSpec

INVARIANTS
    SlotsMatchRecords
    BestIsListed

PROPERTIES
    KillsLeastEssential
    KillsHeaviest
    MainThreadReturns

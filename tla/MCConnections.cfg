\* Two connections of one client and one of another for two slots.  With kills
\* and answers for what is promised to clients that close before they
\* reconnect; with failures and reconnections for the rest.
CONSTANTS
    k1 = k1
    k2 = k2
    k3 = k3
    c1 = c1
    c2 = c2
    Conns = {k1, k2, k3}
    Peer <- Peers
    NoConn = NoConn
    MAX_DATA_CONN = 2
    BaseEvents = 2
    MaxMsgs = 1
    MaxUnread = 1
    HazardSets = {{"writes"}, {"fail", "overlap"}}
    Pids = {1}
    Clients = {c1, c2}
    NoClient = NoClient
    Adjs = {200}
    PerAppMemcg = FALSE
    NoRecord = NoRecord

SPECIFICATION FairSpec

CHECK_DEADLOCK FALSE

INVARIANTS
    ClaimantIsConnected
    OnlySubscribersNotified
    EventsFit
    EventsReachTheirConnection
PROPERTY
    ConnectionsServed

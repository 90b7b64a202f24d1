SPECIFICATION FairSpec
CONSTANTS
    s1 = s1
    None = None
    Nodes = {n1}
    Reports <- PlayOrRest
    StaleAfter = 2
    OfflineAfter = 3
    Period = 1
    AwareTimes = TRUE
    MaxSessions = 2
    MaxOps = 5
INVARIANTS
    TypeOK
    OnlineIsRecent
    OfflineIsIdle
PROPERTIES
    QuietGoesOffline
    AliveGoesOnline

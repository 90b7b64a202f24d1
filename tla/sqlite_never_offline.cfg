SPECIFICATION FairSpec
CONSTANTS
    s1 = s1
    None = None
    Nodes = {n1}
    Reports <- Play
    StaleAfter = 2
    OfflineAfter = 3
    Period = 1
    AwareTimes = FALSE
    MaxSessions = 2
    MaxOps = 2
PROPERTY QuietGoesOffline

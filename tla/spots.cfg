SPECIFICATION FairSpec
CONSTANTS
    None = None
    Spots = {p1, p2}
    Workers = {w1, w2}
    Keep = 2
    Ttl = 2
    MaxOps = 6
INVARIANTS
    TypeOK
    ActiveHasFile
    OfferHonoured
    DeletedLeavesNoFile
    Inv
PROPERTIES
    InactiveIsCleaned

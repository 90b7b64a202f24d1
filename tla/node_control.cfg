SPECIFICATION Spec
CONSTANTS
    s1 = s1
    s2 = s2
    enabled = enabled
    None = None
    Sockets = {s1, s2}
    Flags = {enabled}
    EmptyVersions = {1}
    MaxChanges = 3
    MaxWire = 1
INVARIANTS
    TypeOK
    KnowsFlags
    SyncHonoured
PROPERTY
    SyncsInOrder
SYMMETRY
    SocketSymmetry

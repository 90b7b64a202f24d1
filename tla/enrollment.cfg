SPECIFICATION Spec
CONSTANTS
    w1 = w1
    w2 = w2
    Loop = Loop
    None = None
    Workers = {w1, w2}
    Admins = {w1, w2}
    MaxRows = 2
    MaxSecrets = 4
INVARIANTS
    TypeOK
    KeyMatchesStatus
    KeyNotLost
    Inv
PROPERTY
    DecidedOnce
SYMMETRY
    WorkerSymmetry
CHECK_DEADLOCK FALSE

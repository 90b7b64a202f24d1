SPECIFICATION Spec
CONSTANTS
    w1 = w1
    w2 = w2
    ip1 = ip1
    ip2 = ip2
    user1 = user1
    user2 = user2
    None = None
    Workers = {w1, w2}
    Ips = {ip1}
    Users = {user1, user2}
    MaxAttempts = 2
    Window = 2
    Lockout = 3
INVARIANTS
    TypeOK
    FailuresLimited
    Inv
PROPERTY
    LockedForCause
SYMMETRY
    LoginSymmetry

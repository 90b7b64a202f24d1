SPECIFICATION Spec
CONSTANTS
    w1 = w1
    w2 = w2
    Loop = Loop
    None = None
    Workers = {w1, w2}
    Admins = {w1, w2}
    MaxRows = 1
    MaxSecrets = 3
INVARIANT
    ApprovalDelivers
CHECK_DEADLOCK FALSE

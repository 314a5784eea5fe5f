CONSTANTS
    Accounts = {a1, a2, a3}
    Privileged = {a3}
    Incarnations = {i1, i2}
    Limits = {1, 2}
    Expiry = 1
    Tolerance = 0
    MaxPending = 1
    MaxTime = 0
SPECIFICATION Spec
SYMMETRY Symmetry
INVARIANTS QueueConsistent OwnedOnce
PROPERTIES LimitRespected NoIdleSlot QueueFair

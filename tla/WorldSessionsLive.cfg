CONSTANTS
    Accounts = {a1, a2}
    Privileged = {}
    Incarnations = {i1, i2}
    Limits = {1}
    Expiry = 2
    Tolerance = 0
    MaxPending = 1
    MaxTime = 0
SPECIFICATION Spec
PROPERTIES SessionsMoveOn

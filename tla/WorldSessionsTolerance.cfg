CONSTANTS
    Accounts = {a1, a2}
    Privileged = {}
    Incarnations = {i1}
    Limits = {1}
    Expiry = 1
    Tolerance = 1
    MaxPending = 1
    MaxTime = 2
SPECIFICATION Spec
PROPERTIES ToleranceExpires

CONSTANTS
    Sockets = {x1, x2}
    MaxKey = 1
SPECIFICATION Spec
INVARIANTS NoSelfDeadlock
CHECK_DEADLOCK FALSE

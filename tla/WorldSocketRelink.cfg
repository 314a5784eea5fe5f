CONSTANTS
    Sockets = {x1, x2, x3}
    MaxKey = 1
SPECIFICATION Spec
INVARIANTS NoSocketOutlivesSession
CHECK_DEADLOCK FALSE

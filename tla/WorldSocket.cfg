CONSTANTS
    Sockets = {x1, x2, x3}
    MaxKey = 2
SPECIFICATION Spec
INVARIANTS PendingSessionOwned KnownSocketsSafe
PROPERTIES ConsumedOnce
SYMMETRY Symmetry
CHECK_DEADLOCK FALSE

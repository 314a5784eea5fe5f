CONSTANTS
    Sockets = {x1, x2, x3}
    MaxKey = 2
SPECIFICATION Spec
INVARIANTS LockGuardsSession
SYMMETRY Symmetry
CHECK_DEADLOCK FALSE

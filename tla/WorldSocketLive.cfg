CONSTANTS
    Sockets = {x1, x2}
    MaxKey = 1
SPECIFICATION Spec
PROPERTIES HandshakeEnds
CHECK_DEADLOCK FALSE

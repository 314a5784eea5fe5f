CONSTANTS
    Limit = 1
    MaxPackets = 4
SPECIFICATION Spec
INVARIANTS PacketsAccounted LoggedInInOrder
PROPERTIES LeftoverProcessed LoginReached
CHECK_DEADLOCK FALSE

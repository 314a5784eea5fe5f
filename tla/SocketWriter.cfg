SPECIFICATION Spec
CONSTANTS
    Consumer = network
    Producers = {world, worker}
    Elements = {e1, e2}
    Dummy = dummy
    Nil = nil
    Large = {e2}
    SendBufferSize = 2
    Closers = {network, world}
    MaxSends = 3
INVARIANTS WireInOrder PacketsAccounted
PROPERTIES BufferQueueIsFifo EverythingSent DelayedCloseEnds
CHECK_DEADLOCK FALSE

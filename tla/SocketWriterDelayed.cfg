SPECIFICATION Spec
CONSTANTS
    Consumer = network
    Producers = {}
    Elements = {e1, e2}
    Dummy = dummy
    Nil = nil
    Large = {e2}
    SendBufferSize = 2
    Closers = {network}
    MaxSends = 2
PROPERTIES DelayedCloseFlushes
CHECK_DEADLOCK FALSE

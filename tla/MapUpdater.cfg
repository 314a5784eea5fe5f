SPECIFICATION Spec
CONSTANTS
    None = None
    Maps = {m1, m2, m3}
    Workers = {w1, w2}
INVARIANTS Barrier OneThreadPerMap NoRequestLost
PROPERTIES ImplementsMapTick TickEnds ShutdownEnds

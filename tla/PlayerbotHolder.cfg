SPECIFICATION Spec
CONSTANTS
    Guids = {g1, g2}
    RandomBots = {g1}
    Owners = {m1}
    Random = random
    Ids = {i1, i2, i3}
INVARIANTS Ownership LoginsExclusive RandomEntriesAlive RandomBotsHear
PROPERTIES StaleReclaimed

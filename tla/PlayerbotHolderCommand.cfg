SPECIFICATION Spec
CONSTANTS
    Guids = {g1}
    RandomBots = {}
    Owners = {m1, m2}
    Random = random
    Ids = {i1, i2}
INVARIANTS NoCommandFromTheGone

SPECIFICATION Spec
CONSTANTS
    Players = {p1, p2}
    Dungeons = {d1, d2}
    MaxStored = 2
    MaxId = 3
SYMMETRY Symmetry
INVARIANTS NextIsLowestFree IdsInBitset

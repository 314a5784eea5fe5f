SPECIFICATION Spec
CONSTANTS
    p1 = p1
    p2 = p2
    p3 = p3
    i1 = i1
    i2 = i2
    Players = {p1, p2, p3}
    Items = {i1, i2}
    Slots = 1
    InitGold <- MCInitGold
    InitItems <- MCInitItems
    MaxMoney = 1
    Room = 1
    Allowed <- MCAllowed
    Loose = {i1}
    Spenders = {p1}
    None = None
PROPERTIES EveryItemPasses

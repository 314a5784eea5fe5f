SPECIFICATION LSpec
CONSTANTS
    Players = {p1, p2}
    Dungeons = {raid}
    Encounters = {b1}
    Leaders = {p2}
    Extenders = {p1}
    Unbound = {p2}
    MaxStored = 0
    MaxId = 2
    MaxCopies = 2
    MaxWeek = 1
    MaxPosted = 1
INVARIANTS OneStatePerInstance SavedBossesAreDead
PROPERTIES SavedStaysSaved InUseUntilReset

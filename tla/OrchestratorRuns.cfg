SPECIFICATION FairSpec
CONSTANTS
    Kinds = {k1}
    i1 = i1
    i2 = i2
    i3 = i3
    Items = {i1, i2, i3}
    Enumerations <- OneKindLists
    Cooldown = 2
    MaxFaults = 4
INVARIANTS TypeOK OkMeansSettled
PROPERTIES StatusHolds EveryItemSettles

SPECIFICATION Spec
CONSTANTS
    Kinds = {k1, k2}
    i1 = i1
    i2 = i2
    i3 = i3
    Items = {i1}
    Enumerations <- OneItemLists
    Cooldown = 0
    MaxFaults = 1
SYMMETRY KindSymmetry
INVARIANTS DoneMeansSettled
PROPERTIES VerdictsStand

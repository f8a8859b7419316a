SPECIFICATION Spec
CONSTANTS
    e1 = e1
    e2 = e2
    e3 = e3
    a1 = a1
    a2 = a2
    Endpoints = {e1, e2, e3}
    Addresses = {a1, a2}
    AddressOf <- MCAddressOf
    FamilyOf <- MCFamilyOf
    Present <- MCPresent
    SliceIds = {i1, own}
    OtherIds = {i2}
    OwnId = own
    DefaultId = zero
    Unusable = {}
    CatalogIds <- MCCatalogIds
    Slices = 1
    MaxOutstanding = 2
    FailuresToGiveUp = 2
    QuietRoundsToFinish = 1
    MaxRounds = 2
    SeedLookups = 1
    MaxListed = 1
    MaxCounts = 2
INVARIANTS CensusInv NobodyForgotten
PROPERTIES SettledForGood CensusEnds
CHECK_DEADLOCK FALSE

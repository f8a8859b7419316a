SPECIFICATION Spec
CONSTANTS
    e1 = e1
    e2 = e2
    e3 = e3
    Endpoints = {e1, e2, e3}
    HashOf <- MCHash
    InitialTableSize = 2
    ScanAll = 1
    Unroutable = {e3}
    Caps = {1, 2}
    FailuresToGiveUp = 2
    Checks = {1}
    FeatureTries = 2
    MinBatch = 2
    MaxBatch = 2
    TrimPerTick = 1
    MaxListed = 1
    MaxNodes = 2
INVARIANTS InOneRound FeaturesOneAtATime AnswersAreItsOwn UpToDateIsDone CatalogExact

SPECIFICATION ItemSpec
CONSTANTS
    Addresses = {a1, a2}
    CostMs = 2
    BurstMs = 3
    MaxTime = 4
    ImmutableTargets = {i1, i2}
    MutableTargets = {m1}
    Sequences = {0, 1}
    MaxItems = 2
    ItemTtlMs = 2
INVARIANTS WindowBound
PROPERTIES ImplementsAllowance NoLostUpdate OnlyOldestDropped
CHECK_DEADLOCK FALSE

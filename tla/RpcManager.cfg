SPECIFICATION FairSpec
CONSTANTS
    h1 = h1
    h2 = h2
    e1 = e1
    e2 = e2
    e3 = e3
    q1 = q1
    q2 = q2
    q3 = q3
    Queries <- QueriesMC
    To <- ToMC
    Hosts <- HostsMC
    Endpoints <- EndpointsMC
    HostOf <- HostOfMC
    NumTids = 3
    MaxPending = 2
    MaxQueued = 2
    MaxQueuedTotal = 2
    Timeout = 2
    HostCost = 1
    HostBurst = 1
    ContactCost = 2
    ContactCap = 2
    Window = 1
    MaxElapsed = 1
    MaxDebt = 0
INVARIANTS CallbackOnce WaitersAreServed WithinLimits NoEarlyTimeout
PROPERTIES AllowanceKept EveryQueryEnds

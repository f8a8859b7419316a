SPECIFICATION NodeSpec
CONSTANTS
    Bits = 3
    Ids <- IdsMC
    RemoteIds <- RemoteMC
    FirstId <- FirstMC
    IdFor <- IdForMC
    Exempt = {}
    Endpoints <- EndpointsMC
    SeedEndpoints <- SeedsMC
    Nameless <- NamelessMC
    LocalIps = {"local"}
    K = 1
    BadFailCount = 2
    RemoveFailCount = 3
    MaxNow = 1
    MaxAsked = 2
    MaxPendingVerifications = 1
    MinVotes = 2
    MaxVoters = 2
INVARIANTS NodeInv TableInv
PROPERTIES OnlyBadDisplaced LearnsFromAnswers ConsensusIsMajority

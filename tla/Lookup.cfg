SPECIFICATION FairSpec
CONSTANTS
    N = 5
    K = 2
    Alpha = 2
    MaxOutstanding = 3
    MaxCandidates = 4
    MaxQueries = 3
    HoldsOld = {1, 4}
    HoldsNew = {2}
    MaxFound = 2
INVARIANTS LookupInv ReportsBestAnswers
PROPERTIES EndsEventually
CHECK_DEADLOCK FALSE

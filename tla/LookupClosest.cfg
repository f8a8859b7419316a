SPECIFICATION Spec
CONSTANTS
    N = 5
    K = 2
    Alpha = 2
    MaxOutstanding = 3
    MaxCandidates = 5
    MaxQueries = 5
    HoldsOld = {1, 4}
    HoldsNew = {2}
    MaxFound = 1
INVARIANTS ClosestHaveAnswered
CHECK_DEADLOCK FALSE

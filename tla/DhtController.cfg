SPECIFICATION Spec
CONSTANTS
    Settings = {"contactLimit", "catalogCap", "readOnly", "portForwarding"}
    NodeIds = {1, 2}
    SecureId = 2
    Hashes = {1}
    MaxPages = 2
    MaxWrites = 1
    MaxQueued = 1
    MaxOps = 2
    MaxGeneration = 3
    Filters = {0, 1}
    HistoryLimit = 2
INVARIANTS ControllerInv BusyIsAwaited NothingStale RightAnswers ShownIsUsed
PROPERTIES WaitsEnd
CHECK_DEADLOCK FALSE

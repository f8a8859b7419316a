SPECIFICATION Spec
CONSTANTS
    Ports = {p1, p2}
    InternalPort = p1
    NoPort = NoPort
    Retries = 2
    Searches = 2
    Devices = {gw, tv}
    GatewayDevices = {gw}
    MaxServices = 2
    MaxConflictRetries = 1
    MaxLate = 2
    MaxStarts = 2
CHECK_DEADLOCK FALSE
PROPERTY VersionReplyKeepsNatPmp

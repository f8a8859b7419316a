SPECIFICATION Spec
CONSTANTS
    Addresses = {a1, a2}
    RotationMs = 3
    MaxTime = 8
    MaxIssued = 2
INVARIANTS TenMinuteWindow

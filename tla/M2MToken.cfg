SPECIFICATION ManagementFairSpec
CONSTANTS
    Callers = {a, b}
    Lifetimes = {0, 4}
    ExpiryBuffer = 2
    Timeout = 1
    MaxTime = 8
    None = None
INVARIANTS ReturnedIsLive NoRedundantRequest RefusedOnlyIfRevoked
PROPERTY CallsReturn
CHECK_DEADLOCK FALSE

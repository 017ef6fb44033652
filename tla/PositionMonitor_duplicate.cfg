SPECIFICATION Spec
CONSTANTS
    MaxObjs = 3
    SlAttempts = 2
    VanishLimit = 2
    MaxRetries = 3
    MaxCancels = 0
    MaxPanics = 0
    Faults = {}
    MaxFaults = 0
    Expiry = FALSE
INVARIANTS
    OneEntry
CHECK_DEADLOCK FALSE

SPECIFICATION Spec
CONSTANTS
    MaxObjs = 2
    SlAttempts = 2
    VanishLimit = 2
    MaxRetries = 3
    MaxCancels = 0
    MaxPanics = 0
    Faults = {}
    MaxFaults = 0
    Expiry = TRUE
PROPERTIES
    LifecycleSpec
CHECK_DEADLOCK FALSE

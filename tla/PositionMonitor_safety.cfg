SPECIFICATION Spec
CONSTANTS
    MaxObjs = 1
    SlAttempts = 2
    VanishLimit = 2
    MaxRetries = 3
    MaxCancels = 0
    MaxPanics = 0
    Faults = {"api", "attach", "partial"}
    MaxFaults = 2
    Expiry = TRUE
INVARIANTS
    Protected
PROPERTIES
    LifecycleSpec
CHECK_DEADLOCK FALSE

SPECIFICATION FairSpec
CONSTANTS
    MaxObjs = 1
    SlAttempts = 2
    VanishLimit = 2
    MaxRetries = 3
    MaxCancels = 0
    MaxPanics = 0
    Faults = {"api", "silent", "attach", "user"}
    MaxFaults = 2
    Expiry = TRUE
PROPERTIES
    NakedRepaired
    EveryPositionEnds
CHECK_DEADLOCK FALSE

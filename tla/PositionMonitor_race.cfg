SPECIFICATION Spec
CONSTANTS
    MaxObjs = 1
    SlAttempts = 2
    VanishLimit = 2
    MaxRetries = 3
    MaxCancels = 1
    MaxPanics = 1
    Faults = {"api", "user"}
    MaxFaults = 1
    Expiry = FALSE
INVARIANTS
    CountExact
    StopWhereRecorded
CHECK_DEADLOCK FALSE

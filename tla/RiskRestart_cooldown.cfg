SPECIFICATION Spec
CONSTANTS
    btc = btc
    eth = eth
    Pairs <- OnePair
    Dirs <- Long
    PnlSteps <- Results
    TicksPerDay = 2
    DaysPerWeek = 2
    RedisTTL = 4
    Cooldown = 3
    RedisAtInit = FALSE
    SavePrefixes <- Whole
    Faults <- NoFaults
    MaxClock = 4
    MaxCloses = 2
    MaxRestarts = 1
INVARIANTS
    CooldownHonoured
CHECK_DEADLOCK FALSE

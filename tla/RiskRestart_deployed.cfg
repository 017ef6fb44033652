SPECIFICATION Spec
CONSTANTS
    btc = btc
    eth = eth
    Pairs <- TwoPairs
    Dirs <- Long
    PnlSteps <- Results
    TicksPerDay = 2
    DaysPerWeek = 2
    RedisTTL = 4
    Cooldown = 3
    RedisAtInit = FALSE
    SavePrefixes <- Nothing
    Faults <- DeployedFaults
    MaxClock = 4
    MaxCloses = 2
    MaxRestarts = 1
SYMMETRY Symmetric
INVARIANTS
    TypeOK
    DrawdownNotInvented
    TrackedHasRow
    OpenCountExact
    TradeCapCovered
    DrawdownCovered
CHECK_DEADLOCK FALSE

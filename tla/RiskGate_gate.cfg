SPECIFICATION Spec
CONSTANTS
    btc = btc
    eth = eth
    smc = smc
    quick = quick
    TicksPerDay = 4
    DaysPerWeek = 2
    RedisTTL = 8
    Pairs <- TwoPairs
    Keys <- OneKey
    Quick <- NoKey
    Heats <- TwoHeats
    PnlSteps <- Results
    MaxOpen = 2
    MaxTrades = 2
    MaxHeat = 3
    MaxDailyLoss = 2
    MaxWeeklyLoss = 4
    Cooldown = 1
    DedupTTL = 2
    MaxClock = 5
    MaxCandles = 1
INVARIANTS
    DayBound
    PlacingAlone
PROPERTIES
    NoRepeat
SYMMETRY Symmetric
CHECK_DEADLOCK FALSE

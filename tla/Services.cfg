SPECIFICATION FairSpec
CONSTANTS
    pair = pair
    Pairs <- OnePair
    Windows = {1, 3}
    CleanCloses = TRUE
    Shadows = {1, 2}
    PlanOf <- McPlans
    EntryUnits = 1
    TradeUnits = 1
    TwinUnits = 0
    SweepUnits = 0
    Similar <- Near
    Candles <- McCandles
    MaxFaults = 2
    Lots = 1
    MaxAdds = 1
    MaxFails = 2
    StopTries = 2
    MaxLevel = 1
    MaxCamFaults = 1
    Orders = {1, 2}
    MaxTrades = 2
    MaxWrites = 2
    MaxWatchFaults = 1
INVARIANTS
    ValidIsTrue
    ShadowsTrue
    CampaignCovered
    NotesBounded
PROPERTIES
    TapeRecovers
    CampaignEnds
    NothingUndone
    JournalCatchesUp
CHECK_DEADLOCK FALSE

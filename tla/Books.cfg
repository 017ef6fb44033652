SPECIFICATION Spec
CONSTANTS
    Categories = {"data_state"}
    RateLimit <- McRateLimit
    RateWindow <- McRateWindow
    SilenceAfter = 2
    SilenceWindow = 2
    SilenceFor = 2
    Attempts = 2
    MaxBuffer = 2
    EthWallets = {"e1", "e2"}
    BtcWallets = {"b1"}
    MarketMakers = {"e2"}
    Exchanges = {"bx"}
    EthKinds <- McEth
    BtcKinds <- McBtc
    MinAmount = 2
    HighAmount = 5
    PageSize = 2
    MaxTxs = 3
    MaxDays = 1
    MaxPollFaults = 1
    FundingEvery = 3
    FundingRetry = 1
    FundingTtl = 5
    FundingStale = 6
    OiTtl = 2
    OiStale = 2
    FearTtl = 3
    NewsStale = 2
    Window = 1
    MaxAgeFactor = 2
    MaxSnapshots = 3
    EventTtl = 3
    DropNum = 2
    DropDen = 100
    OpenInterests = {100, 90}
    Prices = {100}
    MaxIndicatorFaults = 2
    Requests = {1, 2}
    Moves <- McMoves
    Shares = {50, 60}
    Start = 100
    MaxRequests = 5
    MaxAborts = 1
    SizingSetups <- McSetups
    Confidences = {60, 100}
    FixedRisks = {0, 4}
    Balances = {10, 100}
    InitialCapital = 100
    ShadowCapital = 50
    SizeScale = 1000
    MinSize = 1
    RiskPer = 200
    LeverageCap = 2
    MarginCap = 2500
    HeatCap = 600
    MinDistance = 50
    MaxDistance = 400
    MinRr = 200
    MinRrQuick = 150
    Kelly = 50
    BetMin = 25
    BetMax = 200
    FixedMargin = 20
    LossCooldown = 1
    MaxDayTrades = 2
    MaxPositions = 2
    DailyLimit = 300
    WeeklyLimit = 500
    LossPct = 200
    CacheTime = 2
    MaxNow = 2
    AiMin = 60
    BookPairs = {p, q}
    BookMarkets <- McMarkets
    Answers <- McAnswers
    HtfEnabled = {"a", "f"}
    MaxCampaigns = 1
    SplitSize = 1
    UnitSize = 1
    MaxBookCandles = 2
    MaxDowns = 1
    Pairs <- McPairs
    Horizon = 3
    Spans <- McSpans
    HigherSpans = {4}
    DayLength = 2
    WeekLength = 3
    Plans <- McPlans
    Candles <- McCandles
    Capital = 1000
    RiskPct = 10
    MaxLeverage = 1
    HeatPct = 25
    FeeRate = 1
    FeeScale = 100
    MaxOpen = 2
    MaxPerDay = 2
    CooldownTime = 1
    DailyPct = 15
    WeeklyPct = 25
    MinRiskPct = 5
    MaxSlPct = 15
    MinRR <- McRR
    Conservative = TRUE
    FillBuffer = 1
    SureFill = FALSE
    AiEnabled = FALSE
    EntryTime <- McEntryTime
    TradeTime <- McTradeTime
    Trailing = TRUE
    TrailStep = 5
    TrailActivation = 10
    TrailCeiling = 30
    Warmup = 0
    DedupTime = 2
    ScannerPairs = {"btc"}
    EdgeSignals <- McEdges
    EntryPrices = {998, 1009}
    DedupHours = 1
    MatchHours = 3
    MaxClock = 7
    MaxAlerts = 3
    MaxManual = 2
    BriefPairs = {"btc", "eth"}
    Biases = {"up", "down", "flat"}
    NoBias = "none"
    HtfHorizon = 7
    HtfSpan = 2
    HtfPlans <- McHtfPlans
    HtfCandles <- McHtfCandles
    HtfMargin = 30
    HtfAddMargins <- McHtfMargins
    HtfLeverage = 20
    HtfMinSize = 2
    HtfMaxAdds = 2
    HtfMinRR = 10
    HtfInitialTime = 2
    HtfAddTime = 1
    HtfTime = 4
INVARIANTS
    AlertsHeard
    EventsOnce
    BooksApart
    MoneyAccounted
PROPERTIES
    OneWay
CHECK_DEADLOCK FALSE

SPECIFICATION Spec
CONSTANTS
    SwingLookback = 1
    BosMargin = 1
    BosScale = 1000
    MarketBars <- McBars
    LastBarNo = 7
    WindowSize = 5
    ObLookback = 3
    ObMaxAge = 8
    FvgMaxAge = 8
    SweepMaxAge = 8
    VolumePeriods = 3
    VolumeNum = 3
    VolumeDen = 2
    MinGap = 1
    LevelTolerance = 0
    MaxMissed = 1
    DtMarket <- McDtMarket
    LastBar = 7
    DtWindow = 5
    UpLength = 1
    DnLength = 1
    Warmup = 1
    UpCoeff = 1
    DnCoeff = 1
    CoeffScale = 2
    BarsPerDay = 2
    StopDistance = 3
    MaxDtFaults = 1
    RRScale = 4
    PctScale = 100
    DepthScale = 4
    Tp1RR = 5
    Tp2RR <- McTp2RR
    MinRR = 8
    EarlyExitRR = 12
    MinRiskPct = 5
    MaxSlPct = 18
    MinSeparation = 3
    Depths <- McDepths
    MinBodyPct = 2
    MaxFvgGap = 6
    Markets <- McMarkets
    Follow <- McFollow
    Allowed = {"a", "b", "f", "g", "d"}
    MinTouches = 3
    MaxSweepGap = 4
    MaxBreakAge <- McAge
    MaxObGap = 3
    MinObScore = 2
    ObDistance = 20
    QuickObDistance = 12
    EntryDistance <- McReach
    QuickDepth = 3
    PdAsConfluence = TRUE
    PdOverride = 5
    FloorFactor = 4
    MinAtrPct = 2
    MinSpaceR = 5
    Cooldown = 2
    MaxCandles = 3
    Moves <- McMoves
    StartPrice = 100
    PriceSteps <- McSteps
    MaxEngineBars = 6
    EngineWindow = 6
    AtrPeriod = 2
    ImpulseMin = 2
    ImpulseMax = 3
    ImpulseAtr = 150
    BodyRatio = 55
    Directional = 60
    PullbackMin = 1
    PullbackMax = 2
    RetraceMin = 30
    RetraceMax = 85
    OpposingMax = 70
    EntryFib = 50
    EntryAtr = 150
    SlBuffer = 25
    SlAtr = 100
    Tp1R = 100
    Tp2R = 200
    MinNetR = 160
    FeeR = 20
    SpaceR = 140
    SwingLevels = {60, 100, 120, 132, 180}
    ScalpBars <- McScalpBars
    ScalpMarkets <- McScalpMarkets
    BarTime = 3
    LongBars = 2
    DedupWindow = 2
    FlushMaxAge = 6
    ReclaimBars = 1
    Envelope = 1
    VolBars = 2
    FlatBars = 2
    WickNum = 3
    FlatNum = 3
    BodyPct = 60
    ZScore = 2
    ImbalancePct = 20
    MaxSpread = 5
    FundingMin = 20
    BookLongMax = 3
    BookShortMin = 3
    MaxScalpBars = 3
    MaxFlushes = 1
    VpBars <- McVpBars
    BinCount = 6
    Share = 60
    MinVpCandles = 2
    AreaNum = 7
    AreaDen = 10
    MaxNodes = 2
    MaxVpCandles = 3
    LiveTtl = 3
    ShadowTtl = 1
    HistoryLimit = 3
    KillDrawdown = 2
    KillRun = 2
    KillWindow = 2
    KillFactor = 120
    MaxRouterCandles = 4
    MaxTrades = 3
    MaxSetups = 2
    MaxFacts = 3
    TdViews <- McTdViews
    TdCandles <- McTdCandles
    DedupBars = 2
    FillBars = 2
    LastTdBar = 3
    MaxTdBars = 5
INVARIANTS
    FromThePast
    ZonesHold
    NoFavourite
    PlansSound
PROPERTIES
    SignalsKeepApart
    HistoryKept
CHECK_DEADLOCK FALSE

SPECIFICATION ComponentsSpec
CONSTANTS
    BarInputs <- MCBarInputs
    Routers <- MCRouters
    Posteriors <- MCPosteriors
    PrimaryTF = "M5"
    MinBars = 2
    SpikeAfter = 2
    AtrWindow = 3
    Hysteresis = 3
    Lookback = 2
    TuneEvery = 2
    MaxBars = 5
    TrailSymbols = {"EURUSD"}
    Grain = 4
    Entries <- MCEntries
    TrailBars <- MCTrailBars
    InitialEquity = 50000
    FillCost = 125
    CommissionPerLot = 700
    DailyRiskFree = 1
    TestBars <- MCTestBars
    TestSignals <- MCTestSignals
    TestLength = 4
    Keys = {"caller"}
    Requests = 2
    Burst = 1
    Window = 8
    Second = 2
    MaxAge = 12
    LastTick = 20
    MaxBuffer = 2
    MaxEntries = 4
    VixReadings <- MCVix
    FredReadings <- MCFred
    CotFiles <- MCCot
    Job = {"vix", "yield_curve", "cot"}
    MaxErrors = 2
    MaxLoops = 4
    Calls = {"c1", "c2"}
    LimitCalls = {"c2"}
    Leftovers = {"o1"}
    MaxReconnects = 2
    FeatureBars <- MCFeatureBars
    WindowLen = 6
    WarmUp = 6
    WilderPeriod = 2
    BandPeriod = 4
    DemaPeriod = 2
    FastPeriod = 2
    SlowPeriod = 3
    SignalPeriod = 2
    SmoothPeriod = 2
    UltimatePeriod = 1
    RocPeriod = 3
    ForcePeriod = 2
    LongPeriod = 6
    AtrHistoryLen = 2
    Tickets = {"p1", "p2"}
    Levels <- MCLevels
    InitialStop <- MCInitialStop
    Activation = 1
    Distance = 2
    NoTarget = NoTarget
    PositionsGetMayFail = FALSE
    LinkMayDrop = TRUE
    InsertMayFail = TRUE
    MayRestart = TRUE
PROPERTY StopNeverWidens
CHECK_DEADLOCK FALSE

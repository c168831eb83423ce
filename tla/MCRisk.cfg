SPECIFICATION RiskSpec
CONSTANTS
    Instruments <- Symbols
    Suggestions <- Ideas
    SpreadHistory <- Recorded
    Events <- Calendar
    Starts <- Beginnings
    MaxLots = 20
    Equity = 400
    RiskPct = 2
    MaxRiskPct = 2
    Leverage = 100
    MinConfidence = 65
    MaxOpen = 2
    MaxDailyLoss = 3
    MaxDrawdown = 5
    MaxExposure = 2
    Blackout = 15
    MaxPerHour = 2
    Threshold = 1
    MaxLosses = 2
    Cooldown = 2
    Hour = 1
    PollEvery = 2
    Stream = TRUE
    Horizon = 2
    MaxPositions = 3
    MaxRestarts = 1
CHECK_DEADLOCK FALSE
INVARIANTS OpenLimit HourlyLimit
PROPERTY LossesThrottle

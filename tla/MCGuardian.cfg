SPECIFICATION GuardianLiveSpec
CONSTANTS
    p1 = p1
    Tickets <- OneTicket
    Levels <- MCLevels
    InitialStop <- MCInitialStop
    Activation = 1
    Distance = 2
    NoTarget = NoTarget
    PositionsGetMayFail = FALSE
    LinkMayDrop = TRUE
    InsertMayFail = FALSE
    MayRestart = TRUE
    HeartbeatTimeout = 1
    CheckInterval = 1
    ServerOffset = 0
    AgeCap = 3
    Equities = {97, 100}
    Balances = {100}
    MaxDrawdown = 10
    MaxDailyLoss = 2
    CloseMayFail = TRUE
    HeartbeatMayFail = TRUE
    EaMayRestart = TRUE
INVARIANTS TakesOverInTime NeverWorseThanInitial
PROPERTY FridayFlat

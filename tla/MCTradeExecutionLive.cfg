\* A bridge that fails, refuses or restarts: the breaker, and the ends of calls.
SPECIFICATION SysLiveSpec
CONSTANTS
    Signals = {s1, s2}
    WellFormed = {s1}
    LimitSignals = {}
    Stamped = {}
    Threads = {t1, t2}
    NoThread = NoThread
    NoSignal = NoSignal
    MaxPositions = 1
    DedupWindow = 6
    SignalMaxAge = 3
    MaxSend = 1
    PositionsGetMayFail = FALSE
    MaxRestarts = 1
    MaxTime = 7
    MaxRetries = 2
    RpcTimeout = 1
    CbThreshold = 2
    CbRecovery = 3
    LastSend = 3
INVARIANT BreakerLimitsAttempts
PROPERTIES SendReturns EveryCallAnswered

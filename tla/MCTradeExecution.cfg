\* Two signals, two threads, production ratios, one life of the bridge.
SPECIFICATION SysSpec
CONSTANTS
    Signals = {s1, s2}
    WellFormed = {s1, s2}
    LimitSignals = {}
    Stamped = {}
    Threads = {t1, t2}
    NoThread = NoThread
    NoSignal = NoSignal
    MaxPositions = 2
    DedupWindow = 6
    SignalMaxAge = 3
    MaxSend = 3
    PositionsGetMayFail = FALSE
    MaxRestarts = 0
    MaxTime = 7
    MaxRetries = 3
    RpcTimeout = 1
    CbThreshold = 5
    CbRecovery = 3
    LastSend = 1
INVARIANTS
    AtMostOnce
PROPERTY ImplementsSignalExecution
SYMMETRY Symmetric

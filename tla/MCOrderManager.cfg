\* Market and limit orders, with and without a timestamp, and one restart.
SPECIFICATION Spec
CONSTANTS
    Signals = {s1, s2}
    WellFormed = {s1, s2}
    LimitSignals = {s2}
    Stamped = {s1}
    Threads = {t1, t2}
    NoThread = NoThread
    NoSignal = NoSignal
    MaxPositions = 1
    DedupWindow = 1
    SignalMaxAge = 1
    MaxSend = 2
    PositionsGetMayFail = FALSE
    MaxRestarts = 1
    MaxTime = 2
INVARIANTS
    TypeOK
    DedupSpacing
    PositionLimit
SYMMETRY ThreadSymmetry

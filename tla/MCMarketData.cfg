\* Three ticks in two minutes, between which both timeframes end; one worker.
SPECIFICATION MdLiveSpec
CONSTANTS
    RawMessages <- MCRawMessages
    SymbolMap <- MCSymbolMap
    Derived <- MCDerived
    Timeframes = {1, 2}
    BatchSize = 2
    WorkerCount = 1
    MaxTicks = 3
    FirstMinute = 1
    MaxMinute = 2
INVARIANTS
    BarsAreExact
    NoDuplicateBar
    NothingLostBeforeClose
PROPERTIES
    ShutdownEnds
    BuffersDrain

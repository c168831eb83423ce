\* Three connections, one attempt before giving up, a channel of one message.
SPECIFICATION FeedLiveSpec
CONSTANTS
    Exchanges = {"polygon", "binance"}
    MaxConns = 3
    MaxMsgs = 2
    ChanCap = 1
    MaxReconnects = 1
INVARIANTS
    OnlyOneConnection
    ResubscribedWhenQuiet
    LossesAreCounted
PROPERTY FeedRecovers

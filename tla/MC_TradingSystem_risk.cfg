\* Exposure of every buy the client has sent against max_position.
CONSTANTS
    t1 = t1
    t0 = t0
    me = me
    other = other
    Ticker <- t1
    UnknownTicker <- t0
    Me <- me
    Other <- other
    Prices <- MCPrices
    OtherQuotes <- MCRiskQuotes
    Qtys <- MCQtys
    InvalidPrice <- MCInvalidPrice
    MMConfig <- MCMMConfig
    LTConfig <- MCLTConfig
    Clock <- MCClock
    StrategyArgs <- MCMarketMakerOnly
    Limits <- MCLimits
    PoolSize = 3
    QtyModulus = 65536
    MaxOrderId = 7
    SnapshotInterval = 1000
    ReliableFeed = TRUE
    MaxFeedDups = 0
SPECIFICATION Spec
INVARIANT ExposureWithinLimit
CHECK_DEADLOCK FALSE
VIEW StateView

\* The client stops once the market ids of the model are used up.
CONSTANTS
    t1 = t1
    t0 = t0
    me = me
    other = other
    Ticker <- t1
    UnknownTicker <- t0
    Me <- me
    Other <- other
    Prices <- MCPrices
    OtherQuotes <- MCOtherQuotes
    Qtys <- MCQtys
    InvalidPrice <- MCInvalidPrice
    MMConfig <- MCMMConfig
    LTConfig <- MCLTConfig
    Clock <- MCClock
    StrategyArgs <- MCStrategyArgs
    Limits <- MCLimits
    PoolSize = 3
    QtyModulus = 65536
    MaxOrderId = 4
    SnapshotInterval = 1000
    ReliableFeed = TRUE
    MaxFeedDups = 1
SPECIFICATION Spec
INVARIANTS TypeOK OpenQtyMatchesBook ClientBboSound
CHECK_DEADLOCK FALSE
VIEW StateView

\* The client stops submitting once its local ids are used up; the model
\* may then stop, as the real client may sit idle.
CONSTANTS
    t1 = t1
    t0 = t0
    me = me
    other = other
    Tickers <- MCTickers
    UnknownTicker <- t0
    Me <- me
    Other <- other
    Prices <- MCPrices
    OtherPrices <- MCOtherPrices
    CallerActions <- MCCallerActions
    LtConfig <- MCLtConfig
    Qtys <- MCQtys
    Limits <- MCLimits
    PoolSize = 2
    QtyModulus = 65536
    MaxOrderId = 4
    MaxEventsPerCycle = 1
    InvalidPrice = 1000
    MaxTime = 2
    EnableRiskChecks = TRUE
    MaxLocalOrderId = 3
    MaxInFlight = 2
SPECIFICATION Spec
INVARIANT TypeOK
INVARIANT OpenCountMatchesTracked
INVARIANT OpenQtyMatchesTracked
INVARIANT TrackedMatchesGateway
PROPERTY CancelResolves
PROPERTY UpdatesConsumed
CHECK_DEADLOCK FALSE
VIEW StateView

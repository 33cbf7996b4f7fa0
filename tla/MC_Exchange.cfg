CONSTANTS
    t1 = t1
    t0 = t0
    c1 = c1
    Tickers <- MCTickers
    UnknownTicker = t0
    Clients <- MCClients
    ClientOrderIds <- MCClientOrderIds
    Prices <- MCPrices
    Qtys <- MCQtys
    PoolSize <- MCPoolSize
    QtyModulus <- MCQtyModulus
    MaxOrderId <- MCMaxOrderId
    SnapshotInterval <- MCSnapshotInterval

SPECIFICATION Spec

INVARIANT TypeOK
INVARIANT TopOfBookSound
INVARIANT SnapshotSequenceCountsDeltas
INVARIANT FeedReplaysBooks
INVARIANT CancelEchoesAcceptedOrder
VIEW StateView

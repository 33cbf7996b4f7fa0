CONSTANTS
    t1 = t1
    c1 = c1
    Tickers <- MCTickers
    Clients <- MCClients
    OrderIds <- MCOrderIds
    Prices <- MCPrices
    Qtys <- MCRefineQtys
    PoolSize <- MCPoolSize
    QtyModulus <- MCQtyModulus
    MaxAdds <- MCMaxAdds

SPECIFICATION Spec

INVARIANT TypeOK
INVARIANT PoolAccounting
INVARIANT LevelAccounting
PROPERTY AbstractSpec

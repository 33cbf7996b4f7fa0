\* Fills of 1 or 2 at three prices on two tickers, three fills each: opens,
\* adds that re-average, partial closes, full closes and flips.
CONSTANTS
    t1 = t1
    t2 = t2
    Tickers <- MCTickers
    Prices <- MCPrices
    Qtys <- MCQtys
    MaxFills <- MCMaxFills
SPECIFICATION Spec
INVARIANT TypeOK
INVARIANT PnlConservesCash
CHECK_DEADLOCK FALSE

-------------------------- MODULE MC_PositionKeeper --------------------------
EXTENDS PositionKeeper

CONSTANTS t1, t2

MCTickers == {t1, t2}
MCPrices == {9, 10, 11}
MCQtys == {1, 2}
MCMaxFills == 3

====

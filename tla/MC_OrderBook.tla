---------------------------- MODULE MC_OrderBook ----------------------------
(* Model-checking instance of OrderBook: one book, a three-slot pool, one  *)
(* price and three order ids on either side, so that a level can hold     *)
(* three orders, ids can clash and freed slots are reused.                 *)
EXTENDS OrderBook

CONSTANTS t1, c1

MCTickers == {t1}
MCClients == {c1}
MCOrderIds == 1..3
MCPrices == {10}
MCQtys == {1, 2}
MCPoolSize == 3
MCQtyModulus == 65536  \* u32 wrap scaled down: no sum of Qtys reaches it
MCMaxAdds == 5

\* The refinement run: one quantity, since the mapping does not depend on it.
MCRefineQtys == {1}
=============================================================================

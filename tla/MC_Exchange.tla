---------------------------- MODULE MC_Exchange ----------------------------
(* Model-checking instance of Exchange: one ticker with two price levels   *)
(* per side and two quantities, so the top of book moves between levels   *)
(* and an equal-price add overwrites the tracked qty; a two-slot pool;     *)
(* snapshots every two sent updates.                                       *)
EXTENDS Exchange

CONSTANTS t1, t0, c1

MCTickers == {t1}
MCClients == {c1}
MCClientOrderIds == {1}
MCPrices == {10, 11}
MCQtys == {1, 2}
MCPoolSize == 2
MCQtyModulus == 65536
MCMaxOrderId == 3
MCSnapshotInterval == 2
=============================================================================

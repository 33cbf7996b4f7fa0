--------------------------- MODULE MC_TradingSystem ---------------------------
(* One ticker and one size, 500.  main runs with --max-order-qty 500 and   *)
(* --max-position 500: the market maker's base_qty, and the liquidity      *)
(* taker's base_qty equal to its default max_qty, so a taker's scaled      *)
(* quantity passes check_order (with a smaller --max-order-qty every       *)
(* scaled quantity above it is rejected).  Both strategies run main's      *)
(* defaults (half spread 50, min spread 20, threshold 10, skew 0.5;        *)
(* signal threshold 0.3).  In the pass run the other client bids 100 or    *)
(* 200 and offers 300: a bid at 200 moves the mid past the taker's         *)
(* threshold.  In the risk run it quotes 100 or 300 on either side, which  *)
(* moves the fair value by the market maker's requote threshold.           *)
EXTENDS TradingSystem

CONSTANTS t1, t0, me, other

MCPrices == 0..400
MCOtherQuotes == {[side |-> 1, price |-> 100], [side |-> 1, price |-> 200], [side |-> -1, price |-> 300]}
MCRiskQuotes == {[side |-> s, price |-> p] : s \in {1, -1}, p \in {100, 300}}
MCQtys == {500}
MCInvalidPrice == 1000
Args == INSTANCE TradingArgs
\* main run as `trading --max-order-qty 500 --max-position 500` on ticker t1.
MCArgs == [Args!DefaultArgs EXCEPT !.ticker = t1, !.max_order_qty = 500, !.max_position = 500]
MCMMConfig == Args!MainMarketMakerConfig(MCArgs)
MCLimits == Args!MainLimits(MCArgs)
MCLTConfig == Args!MainLiquidityTakerConfig(MCArgs)
\* main started with either strategy, or with the market maker only.
MCStrategyArgs == {"MarketMaker", "LiquidityTaker"}
MCMarketMakerOnly == {"MarketMaker"}
\* now_nanos() readings: a first one, and one after the taker's cooldown.
MCClock == {1, 300000001}
====

----------------------------- MODULE TradingArgs -----------------------------
(***************************************************************************)
(* What the trading client's main (trading/src/main.rs) builds from its    *)
(* command line before the loop starts: the Args with their defaults, the  *)
(* RiskManager's limits and the strategy's config.  A module of its own,   *)
(* with no constants, so that a model can build TradingMain's constants    *)
(* from it.                                                                *)
(***************************************************************************)
EXTENDS Integers

LOCAL MM == INSTANCE MarketMaker
LOCAL LT == INSTANCE LiquidityTaker
LOCAL R == INSTANCE Risk

\* main's Args with their clap defaults (the addresses and ports aside);
\* signal_threshold 0.3 is the fraction 3/10.
DefaultArgs == [strategy |-> "MarketMaker", ticker |-> 1, max_order_qty |-> 100,
                max_position |-> 1000, max_loss |-> 100000, half_spread |-> 50,
                signal_threshold |-> [num |-> 3, den |-> 10]]

\* The RiskManager main sets up: RiskLimits::new from the arguments and
\* 100 open orders, set for args.ticker.
MainLimits(args) ==
    R!SetLimits(R!NewRiskManager, args.ticker,
                R!NewLimits(args.max_order_qty, args.max_position, args.max_loss, 100))

\* The MarketMakerConfig main builds from its arguments (Strategy::MarketMaker).
MainMarketMakerConfig(args) ==
    MM!WithMaxPosition(MM!WithBaseQty(MM!WithHalfSpread(MM!NewConfig(args.ticker),
                                                         args.half_spread),
                                      args.max_order_qty), args.max_position)

\* The LiquidityTakerConfig main builds from its arguments
\* (Strategy::LiquidityTaker).
MainLiquidityTakerConfig(args) ==
    LT!WithMaxPosition(LT!WithBaseQty(LT!WithThreshold(LT!NewConfig(args.ticker),
                                                       args.signal_threshold),
                                      args.max_order_qty), args.max_position)

====

---------------------------- MODULE LiquidityTaker ----------------------------
(***************************************************************************)
(* The liquidity-taking strategy of trading/src/strategies/liquidity_taker.rs*)
(* as operators over its config record, its state record                   *)
(* (last_order_time_ns, effective_interval_ns, current_position, active)   *)
(* and the TickerFeatures.  The f64 thresholds, the signal and the        *)
(* cooldown factor are exact fractions [num, den] with den > 0; each cast  *)
(* to an integer type truncates toward zero, as Rust's casts do.  The     *)
(* orders_sent metric is never read by a decision and is left out.         *)
(***************************************************************************)
EXTENDS Integers

LOCAL M == INSTANCE MarketMaker
LOCAL F == INSTANCE FeatureEngine WITH InvalidPrice <- 0

\* a > b on fractions.
Above(a, b) == a.num * b.den > b.num * a.den

\* LiquidityTakerConfig::new: the Default values with the given ticker
\* (thresholds +-0.3, cooldown_factor 2.0 as fractions).
NewConfig(ticker) ==
    [ticker |-> ticker, buy_threshold |-> [num |-> 3, den |-> 10],
     sell_threshold |-> [num |-> -3, den |-> 10], base_qty |-> 100, max_qty |-> 500,
     scale_with_signal |-> TRUE, aggression_bps |-> 10, min_order_interval_ns |-> 100000000,
     max_position |-> 5000, cooldown_factor |-> [num |-> 2, den |-> 1]]

\* The builder methods.  The threshold setters clamp to [0, 1], [-1, 0]
\* and |t| in [0, 1]; with_cooldown_factor keeps a factor of at least 1.
WithBuyThreshold(cfg, t) ==
    [cfg EXCEPT !.buy_threshold = [num |-> M!Clamp(t.num, 0, t.den), den |-> t.den]]
WithSellThreshold(cfg, t) ==
    [cfg EXCEPT !.sell_threshold = [num |-> M!Clamp(t.num, -t.den, 0), den |-> t.den]]
WithThreshold(cfg, t) ==
    LET a == M!Smaller(M!AbsVal(t.num), t.den)
    IN [cfg EXCEPT !.buy_threshold = [num |-> a, den |-> t.den],
                   !.sell_threshold = [num |-> -a, den |-> t.den]]
WithBaseQty(cfg, x) == [cfg EXCEPT !.base_qty = x]
WithMaxQty(cfg, x) == [cfg EXCEPT !.max_qty = x]
WithSignalScaling(cfg, b) == [cfg EXCEPT !.scale_with_signal = b]
WithAggressionBps(cfg, x) == [cfg EXCEPT !.aggression_bps = x]
WithMinIntervalNs(cfg, x) == [cfg EXCEPT !.min_order_interval_ns = x]
WithMaxPosition(cfg, x) == [cfg EXCEPT !.max_position = x]
WithCooldownFactor(cfg, f) ==
    [cfg EXCEPT !.cooldown_factor = IF f.num < f.den THEN [num |-> 1, den |-> 1] ELSE f]

\* LiquidityTaker::new
NewLiquidityTaker(cfg) ==
    [last_order_time_ns |-> 0, effective_interval_ns |-> cfg.min_order_interval_ns,
     current_position |-> 0, active |-> TRUE]

\* set_position
SetPosition(lt, pos) == [lt EXCEPT !.current_position = pos]

\* can_send_order: no order yet (a last time of 0), or the effective
\* interval has passed since the last one.
CanSendOrder(lt, now) ==
    \/ lt.last_order_time_ns = 0
    \/ now >= lt.last_order_time_ns + lt.effective_interval_ns

\* record_order: the time is kept and the interval multiplied by
\* cooldown_factor, capped at ten times min_order_interval_ns.
RecordOrder(lt, cfg, now) ==
    [lt EXCEPT !.last_order_time_ns = now,
               !.effective_interval_ns =
                   M!Smaller(M!Trunc(@ * cfg.cooldown_factor.num, cfg.cooldown_factor.den),
                             cfg.min_order_interval_ns * 10)]

\* on_fill: the interval halved, but not below min_order_interval_ns.
OnFill(lt, cfg) ==
    [lt EXCEPT !.effective_interval_ns = M!Larger(@ \div 2, cfg.min_order_interval_ns)]

\* activate, deactivate, reset_cooldown and reset (orders_sent aside).
Activate(lt) == [lt EXCEPT !.active = TRUE]
Deactivate(lt) == [lt EXCEPT !.active = FALSE]
ResetCooldown(lt, cfg) == [lt EXCEPT !.effective_interval_ns = cfg.min_order_interval_ns]
Reset(lt, cfg) == [ResetCooldown(lt, cfg) EXCEPT !.last_order_time_ns = 0]

\* calculate_quantity: base_qty, or with scale_with_signal the linear
\* interpolation from base_qty at the threshold to max_qty at |signal| = 1,
\* truncated and clamped to [1, max_qty].  Thresholds lie in [0, 1), so
\* 1 - threshold is positive.  base + floor(x) truncates base + x the same
\* way wherever the clamp keeps it (a sum of at most 0 clamps to 1), and
\* keeps base_qty out of the fraction's numerator.
CalculateQuantity(cfg, s) ==
    IF ~cfg.scale_with_signal THEN cfg.base_qty
    ELSE LET thr == IF s.num > 0 THEN cfg.buy_threshold
                    ELSE [num |-> M!AbsVal(cfg.sell_threshold.num), den |-> cfg.sell_threshold.den]
             excess == [num |-> M!AbsVal(s.num) * thr.den - thr.num * s.den,
                        den |-> s.den * (thr.den - thr.num)]
             factor == IF excess.num < 0 THEN [num |-> 0, den |-> 1]
                       ELSE F!ClampUnit(excess)
             qty == cfg.base_qty + ((cfg.max_qty - cfg.base_qty) * factor.num) \div factor.den
         IN M!Clamp(qty, 1, cfg.max_qty)

\* An OrderRequest; side 1 is Buy, -1 Sell.
Order(side, price, qty) == [side |-> side, price |-> price, qty |-> qty]

\* create_buy_order / create_sell_order: none for a zero quantity; the
\* price crosses the best ask (bid) by aggression_bps of it.
CreateBuyOrder(cfg, s, best_ask) ==
    LET qty == CalculateQuantity(cfg, s)
    IN IF qty = 0 THEN {}
       ELSE {Order(1, best_ask + M!Trunc(best_ask * cfg.aggression_bps, 10000), qty)}

CreateSellOrder(cfg, s, best_bid) ==
    LET qty == CalculateQuantity(cfg, s)
    IN IF qty = 0 THEN {}
       ELSE {Order(-1, best_bid - M!Trunc(best_bid * cfg.aggression_bps, 10000), qty)}

NoAction == [kind |-> "None"]
Take(o) == [kind |-> "Take", order |-> o]

\* on_features: the strategy's new state and its StrategyAction.  A buy
\* signal at the position limit returns None without looking at the sell
\* side; a buy signal without an order falls through to the sell check.
OnFeatures(lt, cfg, f, now, best_bid, best_ask) ==
    LET s == f.trade_signal
        none == [lt |-> lt, action |-> NoAction]
        buy == CreateBuyOrder(cfg, s, best_ask)
        sell == CreateSellOrder(cfg, s, best_bid)
        buyLimit == cfg.max_position > 0 /\ lt.current_position >= cfg.max_position
        sellLimit == cfg.max_position > 0 /\ lt.current_position <= -cfg.max_position
        sellStep ==
            IF Above(cfg.sell_threshold, s) /\ ~sellLimit /\ sell # {}
            THEN [lt |-> RecordOrder(lt, cfg, now), action |-> Take(CHOOSE o \in sell : TRUE)]
            ELSE none
    IN CASE ~lt.active \/ ~F!FeaturesValid(f) \/ ~CanSendOrder(lt, now) -> none
         [] Above(s, cfg.buy_threshold) /\ buyLimit -> none
         [] Above(s, cfg.buy_threshold) /\ buy # {} ->
              [lt |-> RecordOrder(lt, cfg, now), action |-> Take(CHOOSE o \in buy : TRUE)]
         [] OTHER -> sellStep

====

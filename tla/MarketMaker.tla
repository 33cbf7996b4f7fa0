----------------------------- MODULE MarketMaker -----------------------------
(***************************************************************************)
(* The market-making strategy of trading/src/strategies/market_maker.rs as *)
(* operators over its config record, its state record (last_bid_price,    *)
(* last_ask_price, current_position, active) and the TickerFeatures.  The *)
(* f64 arithmetic is exact rational arithmetic here, and each `as Price`   *)
(* or `as Qty` cast truncates toward zero, as Rust's casts do.             *)
(***************************************************************************)
EXTENDS Integers

\* Integer n / d truncated toward zero (d > 0).
Trunc(n, d) == IF n >= 0 THEN n \div d ELSE -((-n) \div d)
Larger(a, b) == IF a >= b THEN a ELSE b
Smaller(a, b) == IF a <= b THEN a ELSE b
Clamp(x, lo, hi) == Larger(lo, Smaller(x, hi))
AbsVal(x) == IF x < 0 THEN -x ELSE x

\* MarketMakerConfig::new: the Default values with the given ticker; the
\* position_skew_factor 0.5 is the fraction `skew`.
NewConfig(ticker_id) ==
    [ticker_id |-> ticker_id, half_spread |-> 50, min_spread |-> 20, base_qty |-> 100,
     max_qty |-> 500, price_update_threshold |-> 10, skew |-> [num |-> 1, den |-> 2],
     max_position |-> 1000]

\* The builder methods main and the tests call.  with_position_skew clamps
\* the factor to [0, 1].
WithHalfSpread(cfg, x) == [cfg EXCEPT !.half_spread = x]
WithMinSpread(cfg, x) == [cfg EXCEPT !.min_spread = x]
WithBaseQty(cfg, x) == [cfg EXCEPT !.base_qty = x]
WithMaxQty(cfg, x) == [cfg EXCEPT !.max_qty = x]
WithPriceThreshold(cfg, x) == [cfg EXCEPT !.price_update_threshold = x]
WithPositionSkew(cfg, f) ==
    [cfg EXCEPT !.skew = [num |-> Clamp(f.num, 0, f.den), den |-> f.den]]
WithMaxPosition(cfg, x) == [cfg EXCEPT !.max_position = x]

\* MarketMaker::new
NewMarketMaker == [last_bid_price |-> 0, last_ask_price |-> 0,
                   current_position |-> 0, active |-> TRUE]

\* set_position
SetPosition(mm, pos) == [mm EXCEPT !.current_position = pos]

\* calculate_quotes: the half spread widened by |imbalance| * half_spread
\* * 0.5 and floored at min_spread, both quotes skewed down by imbalance *
\* adjusted * 0.2, and bid kept below ask.
CalculateQuotes(cfg, f) ==
    LET n == f.imbalance.num
        d == f.imbalance.den
        adj == Trunc(AbsVal(n) * cfg.half_spread, 2 * d)
        ahs == Larger(cfg.half_spread + adj, cfg.min_spread)
        skew == Trunc(n * ahs, 5 * d)
        bid == f.fair_value - ahs - skew
        ask == f.fair_value + ahs - skew
    IN [bid |-> Smaller(bid, ask - 1), ask |-> ask]

\* calculate_quantities: base_qty scaled down on the side that grows the
\* inventory by skew * position / max_position (the ratio clamped to
\* [-1, 1]), clamped to [1, max_qty], and 0 on the side at its limit.
\* cfg.skew is position_skew_factor as [num, den].
CalculateQuantities(cfg, pos) ==
    LET maxp == cfg.max_position
        den == IF maxp > 0 THEN cfg.skew.den * maxp ELSE 1
        r == IF maxp > 0 THEN cfg.skew.num * Clamp(pos, -maxp, maxp) ELSE 0
        bidq == Clamp(Trunc(cfg.base_qty * (den - Larger(r, 0)), den), 1, cfg.max_qty)
        askq == Clamp(Trunc(cfg.base_qty * (den + Smaller(r, 0)), den), 1, cfg.max_qty)
    IN [bid |-> IF pos >= maxp THEN 0 ELSE bidq,
        ask |-> IF pos <= -maxp THEN 0 ELSE askq]

\* Seeded fault: the threshold compared with > instead of >=.
ShouldUpdateQuotesStrict(mm, cfg, bid, ask) ==
    \/ mm.last_bid_price = 0 \/ mm.last_ask_price = 0
    \/ AbsVal(bid - mm.last_bid_price) > cfg.price_update_threshold
    \/ AbsVal(ask - mm.last_ask_price) > cfg.price_update_threshold

\* should_update_quotes: no quote yet, or either side moved by the threshold.
ShouldUpdateQuotes(mm, cfg, bid, ask) ==
    \/ mm.last_bid_price = 0 \/ mm.last_ask_price = 0
    \/ AbsVal(bid - mm.last_bid_price) >= cfg.price_update_threshold
    \/ AbsVal(ask - mm.last_ask_price) >= cfg.price_update_threshold

NoOrder == [side |-> 0, price |-> 0, qty |-> 0]

\* build_quote_pair: a side with qty 0 is left out (NoOrder).
BuildQuotePair(bidp, bidq, askp, askq) ==
    [bid |-> IF bidq > 0 THEN [side |-> 1, price |-> bidp, qty |-> bidq] ELSE NoOrder,
     ask |-> IF askq > 0 THEN [side |-> -1, price |-> askp, qty |-> askq] ELSE NoOrder]

NoAction == [kind |-> "None", bid |-> NoOrder, ask |-> NoOrder]

\* on_features: the strategy's new state and its StrategyAction.  The last
\* quoted prices are updated whenever a quote is produced.
OnFeatures(mm, cfg, f, valid) ==
    LET q == CalculateQuotes(cfg, f)
        qty == CalculateQuantities(cfg, mm.current_position)
        pair == BuildQuotePair(q.bid, qty.bid, q.ask, qty.ask)
    IN IF ~mm.active \/ ~valid \/ ~ShouldUpdateQuotes(mm, cfg, q.bid, q.ask)
       THEN [mm |-> mm, action |-> NoAction]
       ELSE [mm |-> [mm EXCEPT !.last_bid_price = q.bid, !.last_ask_price = q.ask],
             action |-> [kind |-> "Quote", bid |-> pair.bid, ask |-> pair.ask]]

====

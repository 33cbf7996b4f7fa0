---------------------------- MODULE FeatureEngine ----------------------------
(***************************************************************************)
(* TickerFeatures and FeatureEngine::on_bbo_update (trading/src/features.rs)*)
(* as operators.  The f64 quantities are exact rationals here: imbalance  *)
(* is the fraction [num, den], and the fair-value EMA with alpha = 0.1 is  *)
(* (mid + 9 * fair_value) / 10 rounded half away from zero, as f64::round  *)
(* does.  trade_signal is the fraction [num, den] as well.                *)
(***************************************************************************)
EXTENDS Integers

CONSTANT InvalidPrice    \* INVALID_PRICE, as in MarketDataReceiver

LOCAL R == INSTANCE MarketDataReceiver

\* The EMA weight FeatureEngine::DEFAULT_FAIR_VALUE_ALPHA = 0.1, as AlphaNum / AlphaDen.
AlphaNum == 1
AlphaDen == 10

\* n / d rounded half away from zero (d > 0): f64::round.
RoundHalfAway(n, d) ==
    IF n >= 0 THEN (2 * n + d) \div (2 * d) ELSE -((2 * (-n) + d) \div (2 * d))

\* TickerFeatures::new, as reserve_tickers creates it.
NewFeatures == [fair_value |-> 0, spread |-> 0, mid_price |-> 0,
                imbalance |-> [num |-> 0, den |-> 1], trade_signal |-> [num |-> 0, den |-> 1]]

\* FeatureEngine::new: no tickers yet (fair_value_alpha is the default).
NewFeatureEngine == [t \in {} |-> NewFeatures]

\* reserve_tickers: a new TickerFeatures for each ticker not yet present.
ReserveTickers(fs, ts) ==
    [t \in DOMAIN fs \cup ts |-> IF t \in DOMAIN fs THEN fs[t] ELSE NewFeatures]

\* TickerFeatures::is_valid
FeaturesValid(f) == f.mid_price > 0 /\ f.fair_value > 0

\* calculate_imbalance: (bid_qty - ask_qty) / (bid_qty + ask_qty), 0 when both are 0.
Imbalance(b) ==
    IF b.bid_qty + b.ask_qty = 0 THEN [num |-> 0, den |-> 1]
    ELSE [num |-> b.bid_qty - b.ask_qty, den |-> b.bid_qty + b.ask_qty]

\* A fraction clamped to [-1, 1] (f64::clamp(-1.0, 1.0)).
ClampUnit(r) ==
    IF r.num > r.den THEN [num |-> 1, den |-> 1]
    ELSE IF r.num < -r.den THEN [num |-> -1, den |-> 1]
    ELSE r

\* calculate_trade_signal_from_features: 0 for invalid features or a
\* spread that is not positive; otherwise 0.7 * fv_signal + 0.3 *
\* imbalance, clamped, with fv_signal = (fair_value - mid) / spread clamped.
TradeSignal(f) ==
    IF ~FeaturesValid(f) \/ f.spread <= 0 THEN [num |-> 0, den |-> 1]
    ELSE LET fv == ClampUnit([num |-> f.fair_value - f.mid_price, den |-> f.spread])
             im == f.imbalance
         IN ClampUnit([num |-> 7 * fv.num * im.den + 3 * im.num * fv.den,
                       den |-> 10 * fv.den * im.den])

\* Seeded fault: the EMA seeds from the old fair value, never from the mid.
OnBboUpdateNoSeed(f, b) ==
    IF ~R!IsValid(b) THEN f
    ELSE LET mid == (b.bid_price + b.ask_price) \div 2
             g == [f EXCEPT !.mid_price = mid,
                            !.fair_value = RoundHalfAway(AlphaNum * mid + (AlphaDen - AlphaNum) * @, AlphaDen),
                            !.spread = b.ask_price - b.bid_price,
                            !.imbalance = Imbalance(b)]
         IN [g EXCEPT !.trade_signal = TradeSignal(g)]

\* on_bbo_update: nothing for an invalid BBO; otherwise the mid, the fair
\* value (seeded with the first mid, then the EMA), the spread and the
\* imbalance.  Prices are positive, so \div truncates as Rust's / does.
OnBboUpdate(f, b) ==
    IF ~R!IsValid(b) THEN f
    ELSE LET mid == (b.bid_price + b.ask_price) \div 2
             g == [f EXCEPT !.mid_price = mid,
                            !.fair_value = IF @ = 0 THEN mid
                                           ELSE RoundHalfAway(AlphaNum * mid + (AlphaDen - AlphaNum) * @,
                                                              AlphaDen),
                            !.spread = b.ask_price - b.bid_price,
                            !.imbalance = Imbalance(b)]
         IN [g EXCEPT !.trade_signal = TradeSignal(g)]

====

---------------------------- MODULE PositionKeeper ----------------------------
(***************************************************************************)
(* PositionKeeper (trading/src/position.rs): a Position per ticker,        *)
(* created on first use, and a cached total_pnl refreshed by on_fill and   *)
(* update_market_price.  Fills and market prices arrive in any order.      *)
(*                                                                         *)
(* History variables record what the fills add up to: cash (what the     *)
(* sells brought in minus what the buys paid) and dropped (the cost the    *)
(* truncating re-average of avg_open_price has discarded, signed by the   *)
(* position's direction).                                                  *)
(***************************************************************************)
EXTENDS Integers, FiniteSetsExt, Functions

CONSTANTS
    Tickers, Prices, Qtys,
    MaxFills          \* bound on fills per ticker (model bound)

VARIABLES positions, total_pnl, cash, dropped, fills

P == INSTANCE Position

keeperVars == <<positions, total_pnl>>
vars == <<positions, total_pnl, cash, dropped, fills>>

\* recalculate_total_pnl: the sum of every position's total_pnl.
SumPnl(ps) == MapThenSumSet(LAMBDA t : P!TotalPnl(ps[t]), DOMAIN ps)

\* get_position_mut: the ticker's position, a new one if absent.
PositionOf(t) == IF t \in DOMAIN positions THEN positions[t] ELSE P!NewPosition(t)

\* The remainder that a same-direction fill's re-average (total_cost /
\* new_position.abs()) discards, with the sign of the position.
Remainder(p, side, qty, price) ==
    LET signed == IF side = P!Buy THEN qty ELSE -qty
        old == p.position
    IN IF old # 0 /\ (old > 0) = (signed > 0)
       THEN (IF old > 0 THEN 1 ELSE -1)
            * ((p.avg_open_price * P!Abs(old) + price * qty) % P!Abs(old + signed))
       ELSE 0

Put(f, k, v) == [x \in DOMAIN f \cup {k} |-> IF x = k THEN v ELSE f[x]]

Init ==
    /\ positions = [t \in {} |-> P!NewPosition(t)]
    /\ total_pnl = 0
    /\ dropped = [t \in Tickers |-> 0]
    /\ cash = [t \in Tickers |-> 0]
    /\ fills = [t \in Tickers |-> 0]

\* PositionKeeper::on_fill(ticker, side, qty, price)
OnFill(t, side, qty, price) ==
    /\ fills[t] < MaxFills
    /\ LET ps == Put(positions, t, P!OnFill(PositionOf(t), side, qty, price))
       IN /\ positions' = ps
          /\ total_pnl' = SumPnl(ps)
    /\ dropped' = [dropped EXCEPT ![t] = @ + Remainder(PositionOf(t), side, qty, price)]
    /\ cash' = [cash EXCEPT ![t] = @ - side * qty * price]
    /\ fills' = [fills EXCEPT ![t] = @ + 1]

\* PositionKeeper::update_market_price: only for a ticker already held.
UpdateMarketPrice(t, price) ==
    /\ t \in DOMAIN positions
    /\ LET ps == [positions EXCEPT ![t] = P!UpdateMarketPrice(@, price)]
       IN /\ positions' = ps
          /\ total_pnl' = SumPnl(ps)
    /\ UNCHANGED <<cash, dropped, fills>>

Next ==
    \E t \in Tickers, price \in Prices :
       \/ \E side \in {P!Buy, P!Sell}, qty \in Qtys : OnFill(t, side, qty, price)
       \/ UpdateMarketPrice(t, price)

Spec == Init /\ [][Next]_vars

(***************************************************************************)
(* Properties.                                                             *)
(***************************************************************************)
TypeOK ==
    /\ DOMAIN positions \subseteq Tickers
    /\ \A t \in DOMAIN positions : positions[t].ticker_id = t
    /\ total_pnl \in Int

(* What the fills of a ticker are worth marked at its last price: the cash *)
(* they moved plus the open position at last_price.                        *)
MarkToMarket(t) == cash[t] + positions[t].position * positions[t].last_price

(* P&L conservation: the P&L a ticker's position reports (realized plus   *)
(* unrealized, what total_pnl sums) equals the cash its fills moved plus  *)
(* the open position marked at last_price, except for the cost that       *)
(* avg_open_price's truncating re-average dropped.  It holds through opens,*)
(* adds, partial closes, full closes and flips, with market prices in     *)
(* between: realized P&L taken on the wrong quantity or sign, or an       *)
(* average not restarted on a flip, breaks it.  The dropped cost grows    *)
(* with the size of the position at each add (spec 4.9 prescribes the     *)
(* integer average) and stays in realized_pnl after the close.            *)
PnlConservesCash ==
    \A t \in DOMAIN positions :
        P!TotalPnl(positions[t]) = MarkToMarket(t) + dropped[t]

====

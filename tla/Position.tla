------------------------------- MODULE Position -------------------------------
(***************************************************************************)
(* Position (trading/src/position.rs) as operators on a record: a fill,    *)
(* the pending-order totals, a market price, and the derived exposures.   *)
(* Price is i64 and TLA+ integers are unbounded, so i64 arithmetic is      *)
(* exact here (the prices and quantities of the models are tiny); `/` on   *)
(* i64 truncates toward zero, which is \div for the non-negative operands  *)
(* it gets in on_fill.                                                     *)
(***************************************************************************)
EXTENDS Integers

Buy == 1
Sell == -1

Abs(x) == IF x < 0 THEN -x ELSE x

\* Seeded fault: Position::default() (ticker_id 0) where new(ticker_id) is due.
NewPositionDefault(t) ==
    [ticker_id |-> 0, position |-> 0, open_buy_qty |-> 0, open_sell_qty |-> 0,
     volume_traded |-> 0, realized_pnl |-> 0, unrealized_pnl |-> 0,
     avg_open_price |-> 0, last_price |-> 0]

\* Position::new(ticker_id)
NewPosition(t) ==
    [ticker_id |-> t, position |-> 0, open_buy_qty |-> 0, open_sell_qty |-> 0,
     volume_traded |-> 0, realized_pnl |-> 0, unrealized_pnl |-> 0,
     avg_open_price |-> 0, last_price |-> 0]

\* update_unrealized_pnl: zero when flat, else the move from the average
\* open price in the position's favour.
UnrealizedPnl(p) ==
    IF p.position = 0 THEN 0
    ELSE IF p.position > 0 THEN (p.last_price - p.avg_open_price) * p.position
    ELSE (p.avg_open_price - p.last_price) * (-p.position)

WithUnrealized(p) == [p EXCEPT !.unrealized_pnl = UnrealizedPnl(p)]

\* Seeded fault: P&L realised on the whole fill, without the min that caps
\* it at the position closed.
OnFillWholeQty(p, side, qty, price) ==
    LET signed == IF side = Buy THEN qty ELSE -qty
        old == p.position
        new == old + signed
        reducing == old # 0 /\ (old > 0) # (signed > 0)
        per_unit == IF old > 0 THEN price - p.avg_open_price ELSE p.avg_open_price - price
        flipped == new # 0 /\ (new > 0) # (old > 0)
        avg == CASE old = 0 -> price
                 [] reducing -> IF flipped THEN price ELSE p.avg_open_price
                 [] OTHER -> (p.avg_open_price * Abs(old) + price * Abs(signed)) \div Abs(new)
    IN WithUnrealized([p EXCEPT !.volume_traded = @ + qty, !.last_price = price,
                               !.position = new,
                               !.realized_pnl = IF reducing THEN @ + per_unit * qty ELSE @,
                               !.avg_open_price = avg])

\* Position::on_fill(side, qty, price): opening from flat takes the price;
\* an opposite fill realises P&L on the closed part and, on a flip, restarts
\* the average at the fill price; a same-direction fill re-averages with
\* truncating division.
OnFill(p, side, qty, price) ==
    LET signed == IF side = Buy THEN qty ELSE -qty
        old == p.position
        new == old + signed
        reducing == old # 0 /\ (old > 0) # (signed > 0)
        closing == IF Abs(old) < Abs(signed) THEN Abs(old) ELSE Abs(signed)
        per_unit == IF old > 0 THEN price - p.avg_open_price ELSE p.avg_open_price - price
        flipped == new # 0 /\ (new > 0) # (old > 0)
        avg == CASE old = 0 -> price
                 [] reducing -> IF flipped THEN price ELSE p.avg_open_price
                 [] OTHER -> (p.avg_open_price * Abs(old) + price * Abs(signed)) \div Abs(new)
    IN WithUnrealized([p EXCEPT !.volume_traded = @ + qty, !.last_price = price,
                               !.position = new,
                               !.realized_pnl = IF reducing THEN @ + per_unit * closing ELSE @,
                               !.avg_open_price = avg])

\* add_open_order / remove_open_order (u32 saturating_sub on removal).
AddOpenOrder(p, side, qty) ==
    IF side = Buy THEN [p EXCEPT !.open_buy_qty = @ + qty]
    ELSE [p EXCEPT !.open_sell_qty = @ + qty]

SatSub(a, b) == IF a > b THEN a - b ELSE 0

RemoveOpenOrder(p, side, qty) ==
    IF side = Buy THEN [p EXCEPT !.open_buy_qty = SatSub(@, qty)]
    ELSE [p EXCEPT !.open_sell_qty = SatSub(@, qty)]

\* update_market_price(price)
UpdateMarketPrice(p, price) == WithUnrealized([p EXCEPT !.last_price = price])

TotalPnl(p) == p.realized_pnl + p.unrealized_pnl
MaxLongExposure(p) == p.position + p.open_buy_qty
MaxShortExposure(p) == p.position - p.open_sell_qty

====

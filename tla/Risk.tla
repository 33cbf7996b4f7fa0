--------------------------------- MODULE Risk ---------------------------------
(***************************************************************************)
(* RiskManager (trading/src/risk.rs): pre-trade checks on a Position and   *)
(* per-ticker RiskLimits, as operators returning the RiskCheckResult.      *)
(* limits is a function from tickers to RiskLimits records; a ticker       *)
(* without its own limits gets DefaultLimits.                              *)
(***************************************************************************)
EXTENDS Integers

LOCAL P == INSTANCE Position

Allowed == "Allowed"
OrderTooLarge == "OrderTooLarge"
PositionTooLarge == "PositionTooLarge"
LossTooLarge == "LossTooLarge"
OpenOrdersTooMany == "OpenOrdersTooMany"

\* RiskLimits::default()
DefaultLimits == [max_order_qty |-> 1000, max_position |-> 10000,
                  max_loss |-> 100000, max_open_orders |-> 100]

\* RiskLimits::new
NewLimits(max_order_qty, max_position, max_loss, max_open_orders) ==
    [max_order_qty |-> max_order_qty, max_position |-> max_position,
     max_loss |-> max_loss, max_open_orders |-> max_open_orders]

\* RiskManager::new: no per-ticker limits (the default applies to all).
NewRiskManager == [t \in {} |-> DefaultLimits]

\* set_limits: HashMap::insert, replacing the ticker's previous limits.
SetLimits(limits, t, l) == [x \in DOMAIN limits \cup {t} |-> IF x = t THEN l ELSE limits[x]]

\* get_limits: the ticker's own limits, else the default.
GetLimits(limits, t) == IF t \in DOMAIN limits THEN limits[t] ELSE DefaultLimits

\* check_order: size, then projected exposure including pending orders, then
\* loss; the first failing check decides.
CheckOrder(limits, p, side, qty) ==
    LET l == GetLimits(limits, p.ticker_id)
        projected == IF side = P!Buy THEN P!MaxLongExposure(p) + qty
                     ELSE P!MaxShortExposure(p) - qty
    IN CASE qty > l.max_order_qty -> OrderTooLarge
         [] P!Abs(projected) > l.max_position -> PositionTooLarge
         [] P!TotalPnl(p) < -l.max_loss -> LossTooLarge
         [] OTHER -> Allowed

\* check_open_orders
CheckOpenOrders(limits, t, current_open_orders) ==
    IF current_open_orders >= GetLimits(limits, t).max_open_orders
    THEN OpenOrdersTooMany ELSE Allowed

\* check_position: the held position and the loss only.
CheckPosition(limits, p) ==
    LET l == GetLimits(limits, p.ticker_id)
    IN CASE P!Abs(p.position) > l.max_position -> PositionTooLarge
         [] P!TotalPnl(p) < -l.max_loss -> LossTooLarge
         [] OTHER -> Allowed

\* check_order_with_open_orders: the open-order count first.
CheckOrderWithOpenOrders(limits, p, side, qty, current_open_orders) ==
    IF CheckOpenOrders(limits, p.ticker_id, current_open_orders) # Allowed
    THEN OpenOrdersTooMany
    ELSE CheckOrder(limits, p, side, qty)

====

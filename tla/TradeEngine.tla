------------------------------ MODULE TradeEngine ------------------------------
(***************************************************************************)
(* TradeEngine (trading/src/trade_engine.rs): the running flag, the BBO   *)
(* and feature state fed by market updates, the order lifecycle, the risk  *)
(* gate and position tracking, with its submit and cancel callbacks wired  *)
(* to the OrderGateway (spec 4.11: the callbacks abstract the gateway).    *)
(*                                                                         *)
(* run_cycle takes its responses from the gateway's poll (an iterator     *)
(* that polls on demand) and its market updates from md, the deltas in    *)
(* the order they reach this client; md_next is the first one not yet     *)
(* handed over.  Each call of the engine is one step; the calls that      *)
(* handle several events or orders fold the handler of one over them, on  *)
(* a record of the client's variables.  The stats counters are only       *)
(* counted, never read, and are left out.                                  *)
(***************************************************************************)
EXTENDS Integers, SequencesExt, FiniteSets

CONSTANTS
    Me,                \* ClientId of this client
    Tickers,           \* config.tickers
    Limits,            \* RiskManager limits per ticker (a function)
    EnableRiskChecks,  \* config.enable_risk_checks
    MaxEventsPerCycle, \* config.max_events_per_cycle
    InvalidPrice,      \* INVALID_PRICE
    MaxLocalOrderId,   \* bound on the gateway's ids (model bound)
    MaxInFlight        \* bound on requests and responses on the connection (model bound)

VARIABLES
    pending_orders,    \* OrderId -> TrackedOrder
    open_order_count,  \* TickerId -> u32
    positions,         \* the PositionKeeper's TickerId -> Position
    total_pnl,         \* the PositionKeeper's cached total
    bbo_state,         \* TickerId -> BBO
    features,          \* the FeatureEngine's TickerId -> TickerFeatures
    running,
    md_next,           \* index of the first update of md not yet processed
    md,                \* the market updates as they reach this client
    gw_next_order_id, gw_pending, to_exch, to_client

Gw == INSTANCE OrderGateway
P == INSTANCE Position
R == INSTANCE Risk
Rcv == INSTANCE MarketDataReceiver
Fe == INSTANCE FeatureEngine

engineVars == <<pending_orders, open_order_count, positions, total_pnl, bbo_state, features,
                running, md_next>>
clientVars == <<engineVars, gw_next_order_id, gw_pending, to_exch, to_client>>

InFlight == Len(to_exch) + Len(to_client)

\* The client's state as a record, and the step that sets it (callers bind
\* the record with \E s \in {...}, so that it is computed once).
Current == [pending_orders |-> pending_orders, open_order_count |-> open_order_count,
            positions |-> positions, total_pnl |-> total_pnl, bbo_state |-> bbo_state,
            features |-> features, gw_next_order_id |-> gw_next_order_id,
            gw_pending |-> gw_pending, to_exch |-> to_exch]
Assign(s) ==
    /\ pending_orders' = s.pending_orders /\ open_order_count' = s.open_order_count
    /\ positions' = s.positions /\ total_pnl' = s.total_pnl
    /\ bbo_state' = s.bbo_state /\ features' = s.features
    /\ gw_next_order_id' = s.gw_next_order_id /\ gw_pending' = s.gw_pending
    /\ to_exch' = s.to_exch

\* position_keeper.get_position(t) (a new one if absent), and the count.
PositionIn(s, t) == IF t \in DOMAIN s.positions THEN s.positions[t] ELSE P!NewPosition(t)
CountIn(s, t) == IF t \in DOMAIN s.open_order_count THEN s.open_order_count[t] ELSE 0
PositionOf(t) == PositionIn(Current, t)
CountOf(t) == CountIn(Current, t)
SumPnl(ps) == MapThenSumSet(LAMBDA t : P!TotalPnl(ps[t]), DOMAIN ps)

\* TradeEngine::new: stopped; a BBO, features and a zero count for every
\* configured ticker.
EngineInit ==
    /\ pending_orders = [x \in {} |-> 0]
    /\ open_order_count = [t \in Tickers |-> 0]
    /\ positions = [x \in {} |-> 0]
    /\ total_pnl = 0
    /\ bbo_state = [t \in Tickers |-> Rcv!NewBBO]
    /\ features = Fe!ReserveTickers(Fe!NewFeatureEngine, Tickers)
    /\ running = FALSE
    /\ md_next = 1
    /\ Gw!GatewayInit

\* start and stop (a call that leaves the flag as it is is no step).
Start == ~running /\ running' = TRUE /\ UNCHANGED <<md, md_next>> /\ Assign(Current)
            /\ UNCHANGED to_client
Stop == running /\ running' = FALSE /\ UNCHANGED <<md, md_next>> /\ Assign(Current)
           /\ UNCHANGED to_client

\* check_order_risk
CheckOrderRisk(s, t, side, qty) ==
    IF ~EnableRiskChecks THEN R!Allowed
    ELSE R!CheckOrderWithOpenOrders(Limits, PositionIn(s, t), side, qty, CountIn(s, t))

\* A TrackedOrder (sent_time, never read by a decision, left out).
TrackedOrder(t, side, price, qty) ==
    [ticker |-> t, side |-> side, price |-> price, original_qty |-> qty, leaves_qty |-> qty]

\* Seeded fault: the order tracked under the gateway's next id, read after
\* send_new_order advanced it, instead of the id the callback returned.
TrackNextId(s, t, side, price, qty) ==
    LET g == Gw!NewOrderSent(s, t, side, price, qty)
        oid == g.gw_next_order_id
    IN [g EXCEPT !.pending_orders = Gw!Put(@, oid, TrackedOrder(t, side, price, qty)),
                 !.open_order_count = Gw!Put(@, t, CountIn(s, t) + 1),
                 !.positions = Gw!Put(@, t, P!AddOpenOrder(PositionIn(s, t), side, qty))]

\* submit_order past the risk check: the submit callback
\* (OrderGateway::send_new_order, which returns its local id), then the
\* order tracked, counted and added to the position's open quantity.
Track(s, t, side, price, qty) ==
    LET oid == s.gw_next_order_id
        g == Gw!NewOrderSent(s, t, side, price, qty)
    IN [g EXCEPT !.pending_orders = Gw!Put(@, oid, TrackedOrder(t, side, price, qty)),
                 !.open_order_count = Gw!Put(@, t, CountIn(s, t) + 1),
                 !.positions = Gw!Put(@, t, P!AddOpenOrder(PositionIn(s, t), side, qty))]

\* submit_order: a rejected order changes only a stats counter.
SubmitOrder(s, t, side, price, qty) ==
    IF CheckOrderRisk(s, t, side, qty) # R!Allowed THEN s ELSE Track(s, t, side, price, qty)

\* cancel_order: for a tracked order, the cancel callback
\* (OrderGateway::send_cancel); nothing else changes until the response.
CancelOrder(oid) ==
    /\ oid \in DOMAIN pending_orders /\ InFlight < MaxInFlight
    /\ Gw!SendCancel(oid, pending_orders[oid].ticker)
    /\ UNCHANGED <<engineVars, md, to_client>>

\* cancel_all_orders(ticker): cancel_order for each tracked order of the
\* ticker, in HashMap iteration order.
CancelAllOrders(t) ==
    LET ids == {oid \in DOMAIN pending_orders : pending_orders[oid].ticker = t}
    IN /\ ids # {} /\ InFlight + Cardinality(ids) <= MaxInFlight
       /\ \E order \in SetToSeqs(ids) :
            to_exch' = to_exch \o [i \in 1..Len(order) |-> Gw!CancelRequest(order[i], t)]
       /\ UNCHANGED <<engineVars, md, gw_next_order_id, gw_pending, to_client>>

(***************************************************************************)
(* on_response, on the state record s.                                     *)
(***************************************************************************)
\* Seeded faults: the count not decremented; the leaves_qty left in the
\* open totals; terminal responses ignored.
DropTrackedNoCount(s, r) ==
    LET oid == r.client_order_id
        t == r.ticker
    IN IF oid \notin DOMAIN s.pending_orders THEN s
       ELSE [s EXCEPT !.pending_orders = Gw!Del(@, oid),
                      !.positions = Gw!Put(@, t, P!RemoveOpenOrder(PositionIn(s, t),
                                          s.pending_orders[oid].side, s.pending_orders[oid].leaves_qty))]
DropTrackedKeepOpen(s, r) ==
    LET oid == r.client_order_id
        t == r.ticker
    IN IF oid \notin DOMAIN s.pending_orders THEN s
       ELSE [s EXCEPT !.pending_orders = Gw!Del(@, oid),
                      !.open_order_count = Gw!Put(@, t, P!SatSub(CountIn(s, t), 1))]
DropTrackedIgnored(s, r) == s

\* Canceled, CancelRejected, InvalidRequest: a tracked order is dropped,
\* its leaves_qty leaves the open totals of the response's ticker, and the
\* count goes down (saturating).
DropTracked(s, r) ==
    LET oid == r.client_order_id
        t == r.ticker
    IN IF oid \notin DOMAIN s.pending_orders THEN s
       ELSE [s EXCEPT !.pending_orders = Gw!Del(@, oid),
                      !.positions = Gw!Put(@, t, P!RemoveOpenOrder(PositionIn(s, t),
                                          s.pending_orders[oid].side, s.pending_orders[oid].leaves_qty)),
                      !.open_order_count = Gw!Put(@, t, P!SatSub(CountIn(s, t), 1))]

\* Filled: a tracked order's fill goes to the position keeper (which
\* refreshes its total) and off the open totals; leaves_qty = 0 erases the
\* order and decrements the count whether or not the order was tracked.
ApplyFill(s, r) ==
    LET oid == r.client_order_id
        t == r.ticker
        tracked == oid \in DOMAIN s.pending_orders
        side == s.pending_orders[oid].side
        ps == IF tracked
              THEN Gw!Put(s.positions, t,
                          P!RemoveOpenOrder(P!OnFill(PositionIn(s, t), side, r.exec_qty, r.price),
                                            side, r.exec_qty))
              ELSE s.positions
    IN [s EXCEPT !.positions = ps,
                 !.total_pnl = IF tracked THEN SumPnl(ps) ELSE @,
                 !.pending_orders = IF r.leaves_qty = 0 THEN Gw!Del(@, oid)
                                    ELSE IF tracked THEN [@ EXCEPT ![oid].leaves_qty = r.leaves_qty]
                                    ELSE @,
                 !.open_order_count = IF r.leaves_qty = 0
                                      THEN Gw!Put(@, t, P!SatSub(CountIn(s, t), 1)) ELSE @]

\* One response of run_cycle's iterator: the gateway's poll, then on_response.
OnResponse(s, r) ==
    LET p == Gw!PolledOn(s, r)
    IN CASE r.type = "Filled" -> ApplyFill(p, r)
         [] r.type \in {"Canceled", "CancelRejected", "InvalidRequest"} -> DropTracked(p, r)
         [] OTHER -> p

\* on_market_update: the ticker's BBO (created if absent) takes the update
\* by the rules of MarketDataReceiver::process_update, which this handler
\* repeats line for line; a Trade also sets the keeper's market price for a
\* position it holds.  Then the FeatureEngine takes the BBO, which only a
\* valid BBO changes (and only then creates the ticker's features).
OnMarketUpdate(s, u) ==
    LET t == u.ticker
        b == Rcv!ProcessUpdate(IF t \in DOMAIN s.bbo_state THEN s.bbo_state[t] ELSE Rcv!NewBBO, u)
        f == IF t \in DOMAIN s.features THEN s.features[t] ELSE Fe!NewFeatures
        priced == u.type = "Trade" /\ t \in DOMAIN s.positions
        ps == IF priced THEN Gw!Put(s.positions, t, P!UpdateMarketPrice(s.positions[t], u.price))
              ELSE s.positions
    IN [s EXCEPT !.bbo_state = Gw!Put(@, t, b),
                 !.features = IF Rcv!IsValid(b) THEN Gw!Put(@, t, Fe!OnBboUpdate(f, b)) ELSE @,
                 !.positions = ps,
                 !.total_pnl = IF priced THEN SumPnl(ps) ELSE @]

\* run_cycle's budget: the responses it takes (up to max_events_per_cycle)
\* and, for what is left of it, the market updates available.
CycleResponses ==
    IF Len(to_client) < MaxEventsPerCycle THEN Len(to_client) ELSE MaxEventsPerCycle

\* Seeded fault: one event fewer is left for market data.
CycleUpdatesShortBudget ==
    LET room == MaxEventsPerCycle - CycleResponses - 1
        unread == Len(md) - md_next + 1
    IN IF room <= 0 THEN 0 ELSE IF unread < room THEN unread ELSE room

CycleUpdates ==
    LET room == MaxEventsPerCycle - CycleResponses
        unread == Len(md) - md_next + 1
    IN IF unread < room THEN unread ELSE room

\* run_cycle: nothing while stopped; otherwise the responses first, then
\* the market updates.  A cycle with no event changes only the stats and
\* is no step here.
RunCycle ==
    /\ running
    /\ CycleResponses + CycleUpdates > 0
    /\ LET k == CycleResponses
           m == CycleUpdates
           s1 == FoldLeft(OnResponse, Current, SubSeq(to_client, 1, k))
       IN /\ \E s2 \in {FoldLeft(OnMarketUpdate, s1, SubSeq(md, md_next, md_next + m - 1))} :
                Assign(s2)
          /\ to_client' = SubSeq(to_client, k + 1, Len(to_client))
          /\ md_next' = md_next + m
    /\ UNCHANGED <<running, md>>

(***************************************************************************)
(* process_strategy_action(t, a) for a StrategyAction a of ticker t: Quote *)
(* submits the bid, then the ask (each leg present when its qty > 0), Take *)
(* its order, CancelAll cancels the ticker's orders, None does nothing.   *)
(***************************************************************************)
Legs(a) ==
    CASE a.kind = "Quote" -> SelectSeq(<<a.bid, a.ask>>, LAMBDA o : o.qty > 0)
      [] a.kind = "Take" -> <<a.order>>
      [] OTHER -> <<>>

\* The legs of a Quote or Take submitted in order.
ProcessLegs(t, a) ==
    FoldLeft(LAMBDA s, o : SubmitOrder(s, t, o.side, o.price, o.qty), Current, Legs(a))

ProcessStrategyAction(t, a) ==
    IF a.kind = "CancelAll"
    THEN CancelAllOrders(t)
    ELSE /\ gw_next_order_id + Len(Legs(a)) - 1 <= MaxLocalOrderId
         /\ InFlight + Len(Legs(a)) <= MaxInFlight
         /\ \E s \in {ProcessLegs(t, a)} : Assign(s)
         /\ UNCHANGED <<running, md, md_next, to_client>>

====

----------------------------- MODULE ClientExchange -----------------------------
(***************************************************************************)
(* A trading client (TradeEngine with its OrderGateway) against the        *)
(* exchange's MatchingEngine over one TCP connection, and another client   *)
(* whose orders share the exchange's market id counter and books.  The     *)
(* exchange main loop takes one request at a time: process_request, then  *)
(* the response written back to the requesting client (exchange main.rs). *)
(* The engine is driven by its caller: start and stop, run_cycle over the  *)
(* responses on the connection and the exchange's market data (md, read    *)
(* from md_next), cancels, StrategyActions handed to                       *)
(* process_strategy_action, and a LiquidityTaker (lt) fed the engine's     *)
(* features and BBO at a clock reading now.                                *)
(***************************************************************************)
EXTENDS Integers, SequencesExt, FiniteSets

CONSTANTS
    Tickers, Prices, Qtys, PoolSize, QtyModulus, UnknownTicker, MaxOrderId,
    Me, Other,                      \* this client and one other client
    OtherPrices,                    \* prices the other client quotes at
    Limits, EnableRiskChecks, MaxEventsPerCycle, InvalidPrice,
    MaxLocalOrderId, MaxInFlight,
    CallerActions,                  \* StrategyActions the caller hands over
    LtConfig,                       \* the LiquidityTakerConfig
    MaxTime                         \* bound on now_nanos() (model bound)

VARIABLES
    slots, free_list, levels, order_map, next_priority, next_order_id, resp, md,
    pending_orders, open_order_count, positions, total_pnl, bbo_state, features,
    running, md_next,
    gw_next_order_id, gw_pending, to_exch, to_client,
    lt, now

Engine == INSTANCE MatchingEngine WITH Clients <- {Me, Other}, ClientOrderIds <- {1}
Client == INSTANCE TradeEngine
LT == INSTANCE LiquidityTaker

exchVars == <<slots, free_list, levels, order_map, next_priority, next_order_id, resp, md>>
engineVars == <<pending_orders, open_order_count, positions, total_pnl, bbo_state, features,
                running, md_next>>
callerVars == <<lt, now>>
vars == <<exchVars, engineVars, gw_next_order_id, gw_pending, to_exch, to_client, callerVars>>

Init == Engine!Init /\ Client!EngineInit /\ lt = LT!NewLiquidityTaker(LtConfig) /\ now = 1

\* Market ids not yet drawn nor claimed by a New request on the wire; new
\* orders are only placed while one is left for each (model bound, so that
\* the bound never stops the exchange from serving a request already sent).
NewOnWire == Cardinality({i \in 1..Len(to_exch) : to_exch[i].type = "New"})
IdsLeft == MaxOrderId + 1 - next_order_id - NewOnWire

\* The exchange loop serves the next request on this client's connection
\* and writes the response back to it.
ServeClient ==
    /\ to_exch # <<>>
    /\ LET r == Head(to_exch)
       IN IF r.type = "New"
          THEN Engine!HandleNewOrder(r.client, r.ticker, r.order_id, r.side, r.price, r.qty)
          ELSE Engine!HandleCancel(r.client, r.ticker, r.order_id, r.side, r.price)
    /\ to_exch' = Tail(to_exch)
    /\ to_client' = Append(to_client, resp')
    /\ UNCHANGED <<engineVars, gw_next_order_id, gw_pending, callerVars>>

\* A new order from the other client (its response goes to its own
\* connection, not modelled).
ServeOther ==
    /\ IdsLeft > 0
    /\ \E t \in Tickers, side \in {1, -1}, p \in OtherPrices, q \in Qtys :
          Engine!HandleNewOrder(Other, t, 1, side, p, q)
    /\ UNCHANGED <<engineVars, gw_next_order_id, gw_pending, to_exch, to_client, callerVars>>

\* The liquidity taker, driven as main.rs drives it: its position set from
\* the engine's, then on_features with the ticker's features, the time and
\* the engine's BBO, and its action handed to process_strategy_action.
LtStep ==
    \E n \in now..MaxTime :
       LET t == LtConfig.ticker
           res == LT!OnFeatures(LT!SetPosition(lt, Client!PositionOf(t).position), LtConfig,
                                features[t], n, bbo_state[t].bid_price, bbo_state[t].ask_price)
       IN /\ IdsLeft >= Len(Client!Legs(res.action))
          /\ Client!ProcessStrategyAction(t, res.action)
          /\ lt' = res.lt
          /\ now' = n

\* The caller's other calls on the strategy: on_fill (main.rs calls it on
\* each fill), activate, deactivate, reset_cooldown and reset.
LtControl ==
    /\ lt' \in {LT!OnFill(lt, LtConfig), LT!Activate(lt), LT!Deactivate(lt),
                LT!ResetCooldown(lt, LtConfig), LT!Reset(lt, LtConfig)}
    /\ lt' # lt
    /\ UNCHANGED <<exchVars, engineVars, gw_next_order_id, gw_pending, to_exch, to_client, now>>

ClientStep ==
    /\ \/ Client!Start \/ Client!Stop \/ Client!RunCycle
       \/ \E oid \in DOMAIN pending_orders : Client!CancelOrder(oid)
       \/ \E t \in Tickers, a \in CallerActions :
             IdsLeft >= Len(Client!Legs(a)) /\ Client!ProcessStrategyAction(t, a)
    /\ UNCHANGED <<exchVars, callerVars>>

Next == ServeClient \/ ServeOther \/ ClientStep \/ (LtStep /\ UNCHANGED exchVars) \/ LtControl

\* The caller calls run_cycle on every iteration of its loop, and the
\* exchange loop serves every connection in turn.  Fairness for run_cycle
\* is weak fairness spelled out: RunCycleEnabled is exactly when RunCycle
\* can take a step that changes the state (a cycle that takes an event
\* consumes it), and is cheaper for TLC than ENABLED.
RunCycleStep == Client!RunCycle /\ UNCHANGED <<exchVars, callerVars>>
RunCycleEnabled == running /\ Client!CycleResponses + Client!CycleUpdates > 0
Fairness ==
    /\ WF_vars(ServeClient)
    /\ ([]<>~RunCycleEnabled \/ []<><<RunCycleStep>>_vars)

Spec == Init /\ [][Next]_vars /\ Fairness

\* resp is only read primed, in the step that writes it: states that
\* differ only in it behave alike.
StateView == <<slots, free_list, levels, order_map, next_priority, next_order_id, md,
               engineVars, gw_next_order_id, gw_pending, to_exch, to_client, callerVars>>

(***************************************************************************)
(* Properties.                                                             *)
(***************************************************************************)
\* Types; run_cycle's position in the feed is never past its end, and every
\* local id on the connection or pending is one send_new_order handed out.
TypeOK ==
    /\ Engine!TypeOK
    /\ DOMAIN pending_orders \subseteq 1..MaxLocalOrderId
    /\ open_order_count \in [Tickers -> Nat]
    /\ gw_next_order_id \in 1..(MaxLocalOrderId + 1)
    /\ Len(to_exch) + Len(to_client) <= MaxInFlight
    /\ running \in BOOLEAN
    /\ md_next \in 1..(Len(md) + 1)
    /\ now \in 1..MaxTime
    /\ DOMAIN gw_pending \subseteq 1..(gw_next_order_id - 1)
    /\ \A i \in 1..Len(to_exch) : to_exch[i].order_id < gw_next_order_id

TrackedOn(t) == {oid \in DOMAIN pending_orders : pending_orders[oid].ticker = t}
TrackedLeaves(t, side) ==
    MapThenSumSet(LAMBDA oid : pending_orders[oid].leaves_qty,
                  {oid \in TrackedOn(t) : pending_orders[oid].side = side})

(* The engine's per-ticker open_order_count, which the open-orders risk   *)
(* check reads, equals the number of orders it tracks on that ticker,     *)
(* after any interleaving of submits, cancels and exchange responses.     *)
OpenCountMatchesTracked ==
    \A t \in Tickers : Client!CountOf(t) = Cardinality(TrackedOn(t))

(* The position's open_buy_qty and open_sell_qty, which the position risk *)
(* check adds to the position, equal the leaves_qty of the tracked orders  *)
(* on each side.                                                           *)
OpenQtyMatchesTracked ==
    \A t \in Tickers :
       /\ Client!PositionOf(t).open_buy_qty = TrackedLeaves(t, 1)
       /\ Client!PositionOf(t).open_sell_qty = TrackedLeaves(t, -1)

(* A cancel is answered: once the engine has a cancel for a tracked order  *)
(* on the wire, the order eventually leaves its books (Canceled or         *)
(* CancelRejected both end the tracking), unless the caller stops the      *)
(* engine, whose run_cycle then hands it nothing.                          *)
CancelResolves ==
    \A oid \in 1..MaxLocalOrderId :
       (oid \in DOMAIN pending_orders /\ \E i \in 1..Len(to_exch) :
            to_exch[i].type = "Cancel" /\ to_exch[i].order_id = oid)
         ~> (oid \notin DOMAIN pending_orders \/ ~running)

(* Market data is not starved: responses take run_cycle's budget first,   *)
(* but every market update that reaches the client is eventually handed   *)
(* to on_market_update while the engine runs.                              *)
UpdatesConsumed ==
    \A i \in 1..(2 * MaxOrderId) : Len(md) >= i ~> (md_next > i \/ ~running)

(* The engine's pending_orders and the gateway's pending_orders track the  *)
(* same orders under the same local ids: submit_order keys its entry by    *)
(* the id the submit callback returned, and each side drops an entry on    *)
(* the responses it treats as terminal, which must be the same ones.       *)
TrackedMatchesGateway ==
    /\ DOMAIN pending_orders = DOMAIN gw_pending
    /\ \A oid \in DOMAIN pending_orders :
          /\ pending_orders[oid].side = gw_pending[oid].side
          /\ pending_orders[oid].ticker = gw_pending[oid].ticker

\* This client's buy (or sell) quantity resting in the exchange's book.
RestingQty(t, side) ==
    MapThenSumSet(LAMBDA o : slots[t][order_map[t][o]].qty,
                  {o \in DOMAIN order_map[t] : /\ slots[t][order_map[t][o]].client_id = Me
                                               /\ slots[t][order_map[t][o]].side = side})

(* The risk gate holds at the exchange: this client's position plus the   *)
(* quantity it has resting on either side never exceeds max_position, the *)
(* bound check_order enforces on max_long/short_exposure.                  *)
RiskLimitBoundsExposure ==
    \A t \in Tickers :
       LET pos == Client!PositionOf(t).position
       IN /\ pos + RestingQty(t, 1) <= Limits[t].max_position
          /\ pos - RestingQty(t, -1) >= -Limits[t].max_position

====

--------------------------- MODULE MatchingEngine ---------------------------
(***************************************************************************)
(* The exchange's matching engine (exchange/src/matching_engine.rs): one   *)
(* OrderBook per registered ticker, a global market-order-id counter, and  *)
(* process_request turning each sequenced client request into one response *)
(* and zero or one market-data delta.  The exchange main loop              *)
(* (exchange/src/main.rs) handles one request at a time, in sequence       *)
(* order, so each request is one atomic step here.                         *)
(*                                                                         *)
(* resp is the response to the latest request; md is every delta handed   *)
(* to the market-data publisher, in order (the feed as it leaves the       *)
(* engine).                                                                *)
(***************************************************************************)
EXTENDS Integers, SequencesExt, FiniteSets

CONSTANTS
    Tickers, Clients, Prices, Qtys, PoolSize, QtyModulus,
    UnknownTicker,    \* a ticker id with no book
    ClientOrderIds,   \* client-chosen order ids carried on requests
    MaxOrderId        \* bound on the market order ids handed out (model bound)

ASSUME UnknownTicker \notin Tickers

VARIABLES
    slots, free_list, levels, order_map, next_priority,   \* the books
    next_order_id,    \* MatchingEngine.next_order_id
    resp,             \* the ClientResponse of the latest request
    md                \* the MarketUpdates emitted so far

\* The books, driven only through the engine: ids are market order ids.
Book == INSTANCE OrderBook WITH OrderIds <- 1..MaxOrderId, MaxAdds <- MaxOrderId

bookVars == <<slots, free_list, levels, order_map, next_priority>>
vars == <<bookVars, next_order_id, resp, md>>
Sides == Book!Sides

RequestTickers == Tickers \cup {UnknownTicker}
SideBytes == Sides \cup {0}                  \* the i8 side a request carries

\* ClientResponseType and MarketUpdateType values used here.
Accepted == "Accepted"
Canceled == "Canceled"
CancelRejected == "CancelRejected"
InvalidRequest == "InvalidRequest"
MdAdd == "Add"
MdCancel == "Cancel"

NoResponse == [type |-> "none", client |-> 0, ticker |-> 0, client_order_id |-> 0,
               market_order_id |-> 0, side |-> 0, price |-> 0,
               exec_qty |-> 0, leaves_qty |-> 0]

Response(type, c, t, coid, moid, side, price, exec, leaves) ==
    [type |-> type, client |-> c, ticker |-> t, client_order_id |-> coid,
     market_order_id |-> moid, side |-> side, price |-> price,
     exec_qty |-> exec, leaves_qty |-> leaves]

Update(type, t, oid, side, price, qty, prio) ==
    [type |-> type, ticker |-> t, order_id |-> oid, side |-> side,
     price |-> price, qty |-> qty, priority |-> prio]

Init ==
    /\ Book!Init
    /\ next_order_id = 1
    /\ resp = NoResponse
    /\ md = <<>>

\* create_reject_response: InvalidRequest, no market id, no deltas.
RejectNew(c, t, coid, side, price, qty) ==
    /\ resp' = Response(InvalidRequest, c, t, coid, 0, side, price, 0, qty)
    /\ UNCHANGED <<bookVars, next_order_id, md>>

\* create_cancel_reject_response: CancelRejected, no deltas.
RejectCancel(c, t, oid, side, price) ==
    /\ resp' = Response(CancelRejected, c, t, oid, 0, side, price, 0, 0)
    /\ UNCHANGED <<bookVars, next_order_id, md>>

(***************************************************************************)
(* handle_new_order.  Unknown ticker and a side byte other than +1/-1 are  *)
(* rejected before an id is drawn; otherwise the id is drawn (and stays    *)
(* drawn) whether or not add_order then succeeds.                          *)
(***************************************************************************)
\* Seeded fault: a delta emitted on failure.
HandleNewOrderDeltaOnReject(c, t, coid, side, price, qty) ==
    IF t \notin Tickers \/ side \notin Sides
    THEN RejectNew(c, t, coid, side, price, qty)
    ELSE LET moid == next_order_id
         IN /\ next_order_id' = moid + 1
            /\ Book!AddOrder(t, c, moid, side, price, qty)
            /\ md' = Append(md, Update(MdAdd, t, moid, side, price, qty, moid))
            /\ resp' = Response(IF Book!AddSucceeds(t, moid) THEN Accepted ELSE InvalidRequest,
                                 c, t, coid, moid, side, price, 0, qty)

HandleNewOrder(c, t, coid, side, price, qty) ==
    IF t \notin Tickers \/ side \notin Sides
    THEN RejectNew(c, t, coid, side, price, qty)
    ELSE LET moid == next_order_id
         IN /\ next_order_id' = moid + 1
            /\ Book!AddOrder(t, c, moid, side, price, qty)
            /\ IF Book!AddSucceeds(t, moid)
               THEN /\ resp' = Response(Accepted, c, t, coid, moid, side, price, 0, qty)
                    /\ md' = Append(md, Update(MdAdd, t, moid, side, price, qty, moid))
               ELSE /\ resp' = Response(InvalidRequest, c, t, coid, 0, side, price, 0, qty)
                    /\ UNCHANGED md

(***************************************************************************)
(* handle_cancel.  The response and the delta echo the removed order's     *)
(* side, price, remaining qty and book priority, not the request's.        *)
(***************************************************************************)
\* Seeded faults: the response, or the delta, built from the request's
\* side and price instead of the removed order's.
HandleCancelEchoRequest(c, t, oid, side, price) ==
    IF t \notin Tickers \/ ~Book!CancelSucceeds(t, oid)
    THEN RejectCancel(c, t, oid, side, price)
    ELSE LET o == Book!CanceledOrder(t, oid)
         IN /\ Book!CancelOrder(t, oid)
            /\ resp' = Response(Canceled, c, t, oid, oid, side, price, 0, o.qty)
            /\ md' = Append(md, Update(MdCancel, t, oid, o.side, o.price, o.qty, o.priority))
            /\ UNCHANGED next_order_id

HandleCancelDeltaFromRequest(c, t, oid, side, price) ==
    IF t \notin Tickers \/ ~Book!CancelSucceeds(t, oid)
    THEN RejectCancel(c, t, oid, side, price)
    ELSE LET o == Book!CanceledOrder(t, oid)
         IN /\ Book!CancelOrder(t, oid)
            /\ resp' = Response(Canceled, c, t, oid, oid, o.side, o.price, 0, o.qty)
            /\ md' = Append(md, Update(MdCancel, t, oid, side, price, o.qty, o.priority))
            /\ UNCHANGED next_order_id

HandleCancel(c, t, oid, side, price) ==
    IF t \notin Tickers \/ ~Book!CancelSucceeds(t, oid)
    THEN RejectCancel(c, t, oid, side, price)
    ELSE LET o == Book!CanceledOrder(t, oid)
         IN /\ Book!CancelOrder(t, oid)
            /\ resp' = Response(Canceled, c, t, oid, oid, o.side, o.price, 0, o.qty)
            /\ md' = Append(md, Update(MdCancel, t, oid, o.side, o.price, o.qty, o.priority))
            /\ UNCHANGED next_order_id

\* handle_invalid_request: unknown msg_type.
HandleInvalidRequest(c, t, oid, side, price, qty) ==
    /\ resp' = Response(InvalidRequest, c, t, oid, 0, side, price, 0, qty)
    /\ UNCHANGED <<bookVars, next_order_id, md>>

(***************************************************************************)
(* process_request, one disjunct per msg_type, over every request a client *)
(* can put on the wire (any ticker id, any side byte, any market id).      *)
(***************************************************************************)
NewRequest ==
    /\ next_order_id <= MaxOrderId
    /\ \E c \in Clients, t \in RequestTickers, coid \in ClientOrderIds,
          side \in SideBytes, p \in Prices, q \in Qtys :
         HandleNewOrder(c, t, coid, side, p, q)

CancelRequest ==
    \E c \in Clients, t \in RequestTickers, oid \in 1..MaxOrderId :
       HandleCancel(c, t, oid, 0, 0)

InvalidTypeRequest ==
    \E c \in Clients, coid \in ClientOrderIds :
       HandleInvalidRequest(c, UnknownTicker, coid, 0, 0, 0)

Next == NewRequest \/ CancelRequest \/ InvalidTypeRequest

Spec == Init /\ [][Next]_vars


(***************************************************************************)
(* Invariants.                                                             *)
(***************************************************************************)
MdRecord == [type : {MdAdd, MdCancel}, ticker : Tickers, order_id : 1..MaxOrderId,
             side : Sides, price : Prices, qty : Qtys, priority : Nat]

TypeOK ==
    /\ Book!TypeOK
    /\ next_order_id \in 1..(MaxOrderId + 1)
    /\ resp.type \in {"none", Accepted, Canceled, CancelRejected, InvalidRequest}
    /\ md \in Seq(MdRecord)

\* What a subscriber learns about one resting order from a delta.
FeedOrder(u) == [ticker |-> u.ticker, order_id |-> u.order_id, side |-> u.side,
                 price |-> u.price, qty |-> u.qty]

\* A subscriber's book: apply every Add and Cancel delta in feed order.
ApplyDelta(S, u) == IF u.type = MdAdd THEN S \cup {FeedOrder(u)}
                    ELSE S \ {FeedOrder(u)}
ReplayFeed == FoldLeft(ApplyDelta, {}, md)

\* The orders resting in the books, as the feed describes them.
RestingOrders ==
    UNION { { [ticker |-> t, order_id |-> o, side |-> slots[t][order_map[t][o]].side,
               price |-> slots[t][order_map[t][o]].price,
               qty |-> slots[t][order_map[t][o]].qty] : o \in DOMAIN order_map[t] } :
            t \in Tickers }

(* The feed replays the books: after any sequence of requests from any     *)
(* clients, replaying the Add and Cancel deltas handed to the publisher    *)
(* gives exactly the orders resting in the books, with their side, price   *)
(* and remaining qty.  A delta emitted for a failed add, a missing delta,  *)
(* or a Cancel delta carrying the request's fields instead of the removed  *)
(* order's breaks it.                                                      *)
FeedReplaysBooks == ReplayFeed = RestingOrders

(* A Canceled response tells the client the side, price and quantity its  *)
(* order was accepted with: the same order id was earlier published in an  *)
(* Add delta with exactly that side, price and qty.                        *)
CancelEchoesAcceptedOrder ==
    resp.type = Canceled =>
       \E k \in 1..Len(md) :
          /\ md[k].type = MdAdd
          /\ md[k].order_id = resp.market_order_id
          /\ md[k].ticker = resp.ticker
          /\ <<md[k].side, md[k].price, md[k].qty>>
                = <<resp.side, resp.price, resp.leaves_qty>>

=============================================================================

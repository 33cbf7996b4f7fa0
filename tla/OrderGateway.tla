----------------------------- MODULE OrderGateway -----------------------------
(***************************************************************************)
(* OrderGateway (trading/src/order_gateway.rs): the client end of the TCP  *)
(* order connection.  to_exch and to_client are the two directions of the  *)
(* connection, FIFO sequences of whole requests and responses (the byte    *)
(* framing is not modelled).  The gateway's next_order_id and              *)
(* pending_orders are gw_next_order_id and gw_pending here.                *)
(***************************************************************************)
EXTENDS Naturals, Sequences

CONSTANTS
    Me                 \* this client's ClientId

VARIABLES gw_next_order_id, gw_pending, to_exch, to_client

gatewayVars == <<gw_next_order_id, gw_pending, to_exch, to_client>>

New == "New"
Cancel == "Cancel"

Request(type, t, oid, side, price, qty) ==
    [type |-> type, client |-> Me, ticker |-> t, order_id |-> oid,
     side |-> side, price |-> price, qty |-> qty]

Put(f, k, v) == [x \in DOMAIN f \cup {k} |-> IF x = k THEN v ELSE f[x]]
Del(f, k) == [x \in DOMAIN f \ {k} |-> f[x]]

GatewayInit ==
    /\ gw_next_order_id = 1
    /\ gw_pending = [x \in {} |-> 0]
    /\ to_exch = <<>>
    /\ to_client = <<>>

\* Seeded fault: the id handed out but next_order_id not advanced.
NewOrderSentNoAdvance(s, t, side, price, qty) ==
    LET oid == s.gw_next_order_id
    IN [s EXCEPT !.to_exch = Append(@, Request(New, t, oid, side, price, qty)),
                 !.gw_pending = Put(@, oid, [ticker |-> t, side |-> side, price |-> price,
                                             qty |-> qty])]

\* A PendingOrder (sent_time, never read by a decision, left out).
PendingOrder(t, side, price, qty) == [ticker |-> t, side |-> side, price |-> price, qty |-> qty]

\* send_new_order on a caller's state record s holding the gateway's
\* fields: the state after the request is written.
NewOrderSent(s, t, side, price, qty) ==
    LET oid == s.gw_next_order_id
    IN [s EXCEPT !.gw_next_order_id = oid + 1,
                 !.to_exch = Append(@, Request(New, t, oid, side, price, qty)),
                 !.gw_pending = Put(@, oid, PendingOrder(t, side, price, qty))]

\* Seeded fault: next_order_id is not advanced past the ids handed out.
SendNewOrdersNoAdvance(t, os) ==
    LET first == gw_next_order_id
        n == Len(os)
    IN /\ gw_next_order_id' = first
       /\ to_exch' = to_exch \o [i \in 1..n |-> Request(New, t, first + i - 1,
                                                         os[i].side, os[i].price, os[i].qty)]
       /\ gw_pending' = [x \in DOMAIN gw_pending \cup (first..(first + n - 1)) |->
                           IF x \in DOMAIN gw_pending THEN gw_pending[x]
                           ELSE [ticker |-> t, side |-> os[x - first + 1].side,
                                 price |-> os[x - first + 1].price, qty |-> os[x - first + 1].qty]]

\* send_new_order for each order of the sequence os, in order.
SendNewOrders(t, os) ==
    LET first == gw_next_order_id
        n == Len(os)
    IN /\ gw_next_order_id' = first + n
       /\ to_exch' = to_exch \o [i \in 1..n |-> Request(New, t, first + i - 1,
                                                         os[i].side, os[i].price, os[i].qty)]
       /\ gw_pending' = [x \in DOMAIN gw_pending \cup (first..(first + n - 1)) |->
                           IF x \in DOMAIN gw_pending THEN gw_pending[x]
                           ELSE PendingOrder(t, os[x - first + 1].side, os[x - first + 1].price,
                                             os[x - first + 1].qty)]

\* send_cancel(order_id, ticker): the same local id, with the pending
\* entry's side, price and qty when there is one, zeros otherwise.
CancelRequest(oid, t) ==
    IF oid \in DOMAIN gw_pending
    THEN Request(Cancel, t, oid, gw_pending[oid].side, gw_pending[oid].price, gw_pending[oid].qty)
    ELSE Request(Cancel, t, oid, 0, 0, 0)

SendCancel(oid, t) ==
    /\ to_exch' = Append(to_exch, CancelRequest(oid, t))
    /\ UNCHANGED <<gw_next_order_id, gw_pending>>

\* Is this response terminal for its order, in poll's view?
Terminal(r) ==
    \/ r.type \in {"Canceled", "CancelRejected", "InvalidRequest"}
    \/ r.type = "Filled" /\ r.leaves_qty = 0

\* poll's bookkeeping for response r, on a caller's state record s.
PolledOn(s, r) ==
    [s EXCEPT !.gw_pending = IF Terminal(r) THEN Del(@, r.client_order_id) ELSE @]

====

---------------------------- MODULE TradingSystem ----------------------------
(***************************************************************************)
(* The trading client binary (TradingMain) against the exchange: the      *)
(* MatchingEngine and the MarketDataPublisher driven by the exchange main  *)
(* loop (exchange/src/main.rs), which serves one request at a time:        *)
(* process_request, the response to the requesting client, then publish   *)
(* of the delta.  Another client's orders and cancels move the market.     *)
(* With ReliableFeed every datagram the publisher sends reaches the        *)
(* client in order; otherwise a send_to may fail, as the publisher allows.*)
(* On the way to the client's socket the multicast network may deliver   *)
(* up to MaxFeedDups datagrams twice; the receiver never reads last_seq,  *)
(* so it processes every copy.                                            *)
(***************************************************************************)
EXTENDS Integers, SequencesExt, FiniteSets, FiniteSetsExt

CONSTANTS
    Ticker, UnknownTicker, Prices, Qtys, PoolSize, QtyModulus, MaxOrderId,
    SnapshotInterval,
    Me, Other,
    OtherQuotes,     \* the (side, price) pairs the other client sends orders at
    InvalidPrice, MMConfig, LTConfig, Limits, StrategyArgs, Clock,
    ReliableFeed,
    MaxFeedDups      \* bound on datagrams the network delivers twice (model bound)

VARIABLES
    slots, free_list, levels, order_map, next_priority, next_order_id, resp, md,
    ticker_state, sequence, updates_since_snapshot, wire,
    bbo, features, mm, positions, total_pnl, phase, md_next, lt, now,
    gw_next_order_id, gw_pending, to_exch, to_client,
    feed_dups        \* datagrams delivered twice so far

Tickers == {Ticker}

Engine == INSTANCE MatchingEngine WITH Clients <- {Me, Other}, ClientOrderIds <- {1}
Pub == INSTANCE MarketDataPublisher
Client == INSTANCE TradingMain

engineVars == <<slots, free_list, levels, order_map, next_priority, next_order_id, resp, md>>
pubVars == <<ticker_state, sequence, updates_since_snapshot, wire>>
mainVars == <<bbo, features, mm, positions, total_pnl, phase, md_next, lt, now>>
gwVars == <<gw_next_order_id, gw_pending, to_exch, to_client>>
netVars == <<feed_dups>>
vars == <<engineVars, pubVars, mainVars, gwVars, netVars>>

Init == Engine!Init /\ Pub!Init /\ Client!MainInit /\ feed_dups = 0

\* "for update in &market_updates { publish }": a handler emits at most one.
PublishDelta ==
    IF Len(md') > Len(md)
    THEN IF ReliableFeed THEN Pub!PublishSent(md'[Len(md')]) ELSE Pub!Publish(md'[Len(md')])
    ELSE UNCHANGED pubVars

\* Market ids not yet drawn nor claimed by a New request on the wire (model
\* bound: new orders are only placed while one is left for each).
NewOnWire == Cardinality({i \in 1..Len(to_exch) : to_exch[i].type = "New"})
IdsLeft == MaxOrderId + 1 - next_order_id - NewOnWire

\* One iteration of the exchange loop for this client's request.
ServeClient ==
    /\ to_exch # <<>>
    /\ LET r == Head(to_exch)
       IN IF r.type = "New"
          THEN Engine!HandleNewOrder(r.client, r.ticker, r.order_id, r.side, r.price, r.qty)
          ELSE Engine!HandleCancel(r.client, r.ticker, r.order_id, r.side, r.price)
    /\ PublishDelta
    /\ to_exch' = Tail(to_exch)
    /\ to_client' = Append(to_client, resp')
    /\ UNCHANGED <<mainVars, gw_next_order_id, gw_pending, netVars>>

\* The other client's orders resting in the book.
OtherOrders == {o \in DOMAIN order_map[Ticker] :
                  slots[Ticker][order_map[Ticker][o]].client_id = Other}

\* One iteration of the exchange loop for the other client: a new order,
\* or a cancel of one of its resting orders (its responses go to its own
\* connection).
ServeOther ==
    /\ \/ /\ IdsLeft > 0
          /\ \E o \in OtherQuotes, q \in Qtys :
                Engine!HandleNewOrder(Other, Ticker, 1, o.side, o.price, q)
       \/ \E o \in OtherOrders : Engine!HandleCancel(Other, Ticker, o, 0, 0)
    /\ PublishDelta
    /\ UNCHANGED <<mainVars, gwVars, netVars>>

\* What the multicast network hands the client's socket of the datagrams
\* sent since its last drain, with at most k of them delivered twice (a
\* copy arriving after a later datagram would be a reordering, which is
\* not modelled): the sequences delivered and the duplicates spent.
RECURSIVE Deliveries(_, _)
Deliveries(seg, k) ==
    IF seg = <<>> THEN {[out |-> <<>>, dups |-> 0]}
    ELSE LET m == Head(seg)
             copies == {c \in {[out |-> <<m>>, dups |-> 0], [out |-> <<m, m>>, dups |-> 1]} :
                           c.dups <= k}
         IN UNION {{[out |-> c.out \o r.out, dups |-> c.dups + r.dups] :
                        r \in Deliveries(Tail(seg), k - c.dups)} : c \in copies}

\* One step of the client's main loop.  The strategy step may send a quote
\* pair (one Take for the liquidity taker), so it waits for that many
\* market ids to be left (model bound).
MaxLegs == IF mm # Client!NoStrategy THEN 2 ELSE 1
ClientStep ==
    /\ \/ \E d \in Deliveries(SubSeq(wire, md_next, Len(wire)), MaxFeedDups - feed_dups) :
             /\ Client!MdStage(d.out)
             /\ feed_dups' = feed_dups + d.dups
       \/ Client!RespStage /\ UNCHANGED netVars
       \/ IdsLeft >= MaxLegs /\ Client!Strategy /\ UNCHANGED netVars
    /\ UNCHANGED <<engineVars, pubVars>>

Next == ServeClient \/ ServeOther \/ ClientStep

\* The exchange loop polls every connection on every iteration, and the
\* client's loop runs until shutdown.
Fairness == WF_vars(ServeClient) /\ WF_vars(ClientStep)

Spec == Init /\ [][Next]_vars /\ Fairness

\* resp is read only primed, in the step that writes it, and md (the
\* engine's delta history) only through wire.
StateView == <<slots, free_list, levels, order_map, next_priority, next_order_id,
               pubVars, mainVars, gwVars, netVars>>

(***************************************************************************)
(* Properties.                                                             *)
(***************************************************************************)
\* Types, and the gateway's ids: every pending entry and every request on
\* the connection carries a local id send_new_order already handed out.
TypeOK ==
    /\ Engine!TypeOK
    /\ phase \in {"md", "resp", "strategy"}
    /\ now \in Clock
    /\ (mm = Client!NoStrategy) # (lt = Client!NoStrategy)
    /\ md_next \in 1..(Len(wire) + 1)
    /\ feed_dups \in 0..MaxFeedDups
    /\ bbo \in [bid_price : Prices \cup {InvalidPrice}, bid_qty : Qtys \cup {0},
               ask_price : Prices \cup {InvalidPrice}, ask_qty : Qtys \cup {0}]
    /\ DOMAIN positions \subseteq {Ticker}
    /\ DOMAIN gw_pending \subseteq 1..(gw_next_order_id - 1)
    /\ \A i \in 1..Len(to_exch) : to_exch[i].order_id < gw_next_order_id

\* Quantity of this client's orders resting on side s, and of its New
\* requests for side s still on the connection.
MyResting(s) == MapThenSumSet(LAMBDA o : slots[Ticker][order_map[Ticker][o]].qty,
                    {o \in DOMAIN order_map[Ticker] :
                       slots[Ticker][order_map[Ticker][o]].client_id = Me
                       /\ slots[Ticker][order_map[Ticker][o]].side = s})
MyOnWire(s) == MapThenSumSet(LAMBDA i : to_exch[i].qty,
                    {i \in 1..Len(to_exch) : to_exch[i].type = "New" /\ to_exch[i].side = s})
\* leaves_qty of the Accepted (resp. Canceled) responses for side s that
\* main has not polled yet.
Unpolled(type, s) == MapThenSumSet(LAMBDA i : to_client[i].leaves_qty,
                    {i \in 1..Len(to_client) : to_client[i].type = type /\ to_client[i].side = s})

\* main.rs keeps the position's open_buy_qty / open_sell_qty from the
\* responses: add_open_order(leaves_qty) on Accepted, remove_open_order on
\* Canceled.  Once every response the exchange sent is polled, they must
\* equal what this client has resting in the book; in between, they lag by
\* exactly the responses still on the connection.
OpenQtyMatchesBook ==
    Ticker \in DOMAIN positions =>
      /\ positions[Ticker].open_buy_qty
           = MyResting(1) - Unpolled("Accepted", 1) + Unpolled("Canceled", 1)
      /\ positions[Ticker].open_sell_qty
           = MyResting(-1) - Unpolled("Accepted", -1) + Unpolled("Canceled", -1)

\* The book a subscriber rebuilds from the deltas the exchange published
\* up to the last drain (each once): total Add quantity minus Cancel
\* quantity at each (side, price).
ReadQty(s, px) ==
    LET read == SubSeq(wire, 1, md_next - 1)
    IN MapThenSumSet(LAMBDA i : read[i].qty,
           {i \in 1..Len(read) : read[i].type = "Add" /\ read[i].side = s /\ read[i].price = px})
       - MapThenSumSet(LAMBDA i : read[i].qty,
           {i \in 1..Len(read) : read[i].type = "Cancel" /\ read[i].side = s /\ read[i].price = px})

\* MarketDataReceiver::process_update keeps a BBO from the deltas and never
\* reads last_seq, so it applies a duplicated datagram twice.  It still
\* never over-reports: a bid or ask it shows with a positive quantity is a
\* price at which the published feed it has drained still has that much
\* resting, and no better price on that side has any quantity left (an
\* Add at an equal price overwrites the quantity, a Cancel subtracts down
\* to zero, so a second copy can only lower what is shown).
ClientBboSound ==
    LET ReadPrices(s) == {wire[i].price : i \in {j \in 1..(md_next - 1) : wire[j].side = s}}
    IN /\ bbo.bid_qty > 0 =>
            /\ ReadQty(1, bbo.bid_price) >= bbo.bid_qty
            /\ \A px \in ReadPrices(1) : px > bbo.bid_price => ReadQty(1, px) = 0
       /\ bbo.ask_qty > 0 =>
            /\ ReadQty(-1, bbo.ask_price) >= bbo.ask_qty
            /\ \A px \in ReadPrices(-1) : px < bbo.ask_price => ReadQty(-1, px) = 0

\* The RiskManager's max_position: check_order projects the position plus
\* the open quantity main knows of.  Every buy this client has sent and not
\* seen canceled (resting, or still on the connection) could fill, so the
\* position plus those must stay within max_position, on each side.
ExposureWithinLimit ==
    LET pos == IF Ticker \in DOMAIN positions THEN positions[Ticker].position ELSE 0
        lim == Limits[Ticker].max_position
    IN /\ pos + MyResting(1) + MyOnWire(1) <= lim
       /\ pos - MyResting(-1) - MyOnWire(-1) >= -lim

====

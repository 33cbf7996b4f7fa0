------------------------------ MODULE Exchange ------------------------------
(***************************************************************************)
(* The exchange main loop (exchange/src/main.rs): for each sequenced       *)
(* request, process_request on the matching engine, send the response,     *)
(* then publish every market update it produced.  All three happen in one *)
(* iteration of the single-threaded loop, so they are one step here.  The  *)
(* publisher is registered for exactly the engine's tickers, with          *)
(* snapshots enabled.                                                      *)
(***************************************************************************)
EXTENDS Integers, SequencesExt

CONSTANTS
    Tickers, Clients, Prices, Qtys, PoolSize, QtyModulus,
    UnknownTicker, ClientOrderIds, MaxOrderId, SnapshotInterval

VARIABLES
    slots, free_list, levels, order_map, next_priority, next_order_id, resp, md,
    ticker_state, sequence, updates_since_snapshot, wire

Engine == INSTANCE MatchingEngine
Pub == INSTANCE MarketDataPublisher

engineVars == <<slots, free_list, levels, order_map, next_priority, next_order_id, resp, md>>
pubVars == <<ticker_state, sequence, updates_since_snapshot, wire>>
vars == <<engineVars, pubVars>>

Init == Engine!Init /\ Pub!Init

\* One request through the loop.  A handler emits at most one update, so
\* "for update in &market_updates" is at most one publish.
ProcessRequest ==
    /\ Engine!Next
    /\ IF Len(md') > Len(md)
       THEN Pub!Publish(md'[Len(md')])
       ELSE UNCHANGED pubVars

Next == ProcessRequest

Spec == Init /\ [][Next]_vars


\* resp is written by every step and read by none; of it, only a Canceled
\* response is read, by CancelEchoesAcceptedOrder.  States that differ
\* only in the rest of resp behave alike.
StateView == <<slots, free_list, levels, order_map, next_priority, next_order_id, md, pubVars,
               IF resp.type = Engine!Canceled THEN resp ELSE Engine!NoResponse>>

(***************************************************************************)
(* Properties.                                                             *)
(***************************************************************************)
(* The matching engine's properties, checked through the loop that drives *)
(* it (MatchingEngine.tla states each in full).  The delta stream the      *)
(* engine hands to the publisher replays the books exactly, including for  *)
(* failed adds and cancels of orders whose slot was reused.                *)
FeedReplaysBooks == Engine!FeedReplaysBooks

(* A Canceled response echoes the side, price and qty the order was        *)
(* published with in its Add delta.                                        *)
CancelEchoesAcceptedOrder == Engine!CancelEchoesAcceptedOrder

TypeOK ==
    /\ Engine!TypeOK
    /\ ticker_state \in [Tickers -> [{1, -1} -> [price : Prices \cup {0}, qty : Nat]]]
    /\ sequence \in Nat
    /\ updates_since_snapshot \in Nat
    /\ wire \in Seq([type : {Pub!MdAdd, Pub!MdCancel, Pub!MdSnapshot},
                     ticker : Tickers, order_id : Nat, side : {1, -1},
                     price : Prices, qty : Qtys \cup {0}, priority : Nat])

(* The publisher's top of book never claims more than the book holds:      *)
(* whenever a side's tracked price and qty are both positive (so a         *)
(* snapshot would report it), the book has a level at that price whose     *)
(* total_qty is at least the tracked qty.  It relies on the overwrite at   *)
(* an equal price, the saturating cancel and the reset at zero in          *)
(* update_ticker_state working together over any add/cancel history, sent  *)
(* or not.                                                                 *)
TopOfBookSound ==
    \A t \in Tickers, s \in {1, -1} :
      LET top == ticker_state[t][s]
      IN top.price > 0 /\ top.qty > 0 =>
           /\ top.price \in DOMAIN levels[t][s]
           /\ levels[t][s][top.price].total_qty >= top.qty

\* The number of non-snapshot datagrams among the first n on the wire.
DeltasBefore(n) == Len(SelectSeq(SubSeq(wire, 1, n), LAMBDA m : m.type # Pub!MdSnapshot))

(* A snapshot tells subscribers how many deltas were sent before it: every *)
(* Snapshot datagram's priority field (self.sequence) equals the number of *)
(* Add/Cancel datagrams that precede it on the wire, whatever sends failed *)
(* and however snapshot rounds were cut short.                             *)
SnapshotSequenceCountsDeltas ==
    \A k \in 1..Len(wire) :
      wire[k].type = Pub!MdSnapshot => wire[k].priority = DeltasBefore(k)


=============================================================================

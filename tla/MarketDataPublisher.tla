------------------------- MODULE MarketDataPublisher -------------------------
(***************************************************************************)
(* The exchange's market-data publisher (exchange/src/market_data.rs).     *)
(* publish(update) first folds the delta into the per-ticker top-of-book   *)
(* state, then sends the datagram; only a successful send advances the     *)
(* counters, and when updates_since_snapshot reaches the cadence a         *)
(* snapshot round follows (bid then ask of every tracked ticker, where     *)
(* present).  Every send_to may fail; an error returns at once through     *)
(* `?`.  wire is the sequence of datagrams handed to the socket.          *)
(*                                                                         *)
(* ticker_state[t][side] holds TickerState's (bid_price, bid_qty) for      *)
(* side +1 and (ask_price, ask_qty) for side -1; 0 is "no price".          *)
(***************************************************************************)
EXTENDS Integers, SequencesExt

CONSTANTS
    Tickers,           \* tickers registered with register_ticker
    SnapshotInterval   \* config.snapshot_interval (1000 in exchange main)

ASSUME SnapshotInterval \in Nat \ {0}

VARIABLES
    ticker_state,            \* TickerState per registered ticker
    sequence,                \* MarketDataPublisher.sequence
    updates_since_snapshot,  \* MarketDataPublisher.updates_since_snapshot
    wire                     \* datagrams successfully passed to send_to

pubVars == <<ticker_state, sequence, updates_since_snapshot, wire>>

BidSide == 1
AskSide == -1
MdAdd == "Add"
MdModify == "Modify"
MdCancel == "Cancel"
MdSnapshot == "Snapshot"

\* TickerState::default(): no price, no qty on either side.
NoTop == [price |-> 0, qty |-> 0]
DefaultTickerState == [s \in {BidSide, AskSide} |-> NoTop]

\* Seeded fault: plain subtraction where the code saturates.
SaturatingSubPlain(a, b) == a - b

\* u32::saturating_sub
SaturatingSub(a, b) == IF a > b THEN a - b ELSE 0

\* Is price p better than q on this side (higher bid, lower ask)?
Better(side, p, q) == IF side = BidSide THEN p > q ELSE p < q

\* Add / Modify / Snapshot: take a better (or the first) price with its
\* qty; at the same price the qty is overwritten, not accumulated.
TopAfterAdd(top, u) ==
    IF Better(u.side, u.price, top.price) \/ top.price = 0
    THEN [price |-> u.price, qty |-> u.qty]
    ELSE IF u.price = top.price THEN [top EXCEPT !.qty = u.qty]
    ELSE top

\* Seeded fault: Cancel deltas not applied to the top of book.
TopAfterCancelIgnored(top, u) == top

\* Cancel at the tracked price: reduce the qty, forget the price at zero.
TopAfterCancel(top, u) ==
    IF u.price = top.price
    THEN LET q == SaturatingSub(top.qty, u.qty)
         IN [price |-> IF q = 0 THEN 0 ELSE top.price, qty |-> q]
    ELSE top

\* update_ticker_state for the delta types the matching engine emits.
UpdateTickerState(st, u) ==
    IF u.side \notin {BidSide, AskSide} THEN st
    ELSE CASE u.type \in {MdAdd, MdModify, MdSnapshot} ->
                [st EXCEPT ![u.side] = TopAfterAdd(@, u)]
           [] u.type = MdCancel -> [st EXCEPT ![u.side] = TopAfterCancel(@, u)]
           [] OTHER -> st

\* The Snapshot datagrams of one ticker: bid then ask, each only if both
\* its price and qty are positive; priority carries self.sequence.
SnapshotOf(st, t, side, seq) ==
    [type |-> MdSnapshot, ticker |-> t, order_id |-> 0, side |-> side,
     price |-> st[side].price, qty |-> st[side].qty, priority |-> seq]

TickerSnapshot(st, t, seq) ==
    SelectSeq(<<SnapshotOf(st, t, BidSide, seq), SnapshotOf(st, t, AskSide, seq)>>,
              LAMBDA m : m.price > 0 /\ m.qty > 0)

Init ==
    /\ ticker_state = [t \in Tickers |-> DefaultTickerState]
    /\ sequence = 0
    /\ updates_since_snapshot = 0
    /\ wire = <<>>

(***************************************************************************)
(* publish_snapshot, after the update's own send.  Tickers are visited in  *)
(* HashMap order (any order); the round stops at the first failed send,    *)
(* and only a complete round resets updates_since_snapshot.                *)
(***************************************************************************)
PublishSnapshot(st, w) ==
    \E order \in SetToSeqs(Tickers) :
      LET msgs == FoldLeft(LAMBDA acc, t : acc \o TickerSnapshot(st[t], t, sequence + 1),
                           <<>>, order)
      IN \E k \in 0..Len(msgs) :
           /\ wire' = w \o SubSeq(msgs, 1, k)
           /\ updates_since_snapshot' = IF k = Len(msgs) THEN 0
                                        ELSE updates_since_snapshot + 1

\* Seeded fault: counters advanced although the send failed.
PublishSendFailsCounted(u) ==
    /\ ticker_state' = [ticker_state EXCEPT ![u.ticker] = UpdateTickerState(@, u)]
    /\ sequence' = sequence + 1
    /\ UNCHANGED <<updates_since_snapshot, wire>>

\* publish(update) whose send_to fails: the state is already updated, the
\* counters are not, and nothing reaches the wire.
PublishSendFails(u) ==
    /\ ticker_state' = [ticker_state EXCEPT ![u.ticker] = UpdateTickerState(@, u)]
    /\ UNCHANGED <<sequence, updates_since_snapshot, wire>>

\* publish(update) whose send_to succeeds.
PublishSent(u) ==
    LET st == [ticker_state EXCEPT ![u.ticker] = UpdateTickerState(@, u)]
    IN /\ ticker_state' = st
       /\ sequence' = sequence + 1
       /\ IF updates_since_snapshot + 1 >= SnapshotInterval
          THEN PublishSnapshot(st, Append(wire, u))
          ELSE /\ wire' = Append(wire, u)
               /\ updates_since_snapshot' = updates_since_snapshot + 1

Publish(u) == PublishSent(u) \/ PublishSendFails(u)

=============================================================================

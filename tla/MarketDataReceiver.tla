-------------------------- MODULE MarketDataReceiver --------------------------
(***************************************************************************)
(* The client-side top of book of trading/src/market_data.rs: the BBO      *)
(* record and process_update, which folds one MarketUpdate into it.  The   *)
(* receiver's socket loop (poll_and_process) belongs to the composition    *)
(* that owns the wire; here are the operators it applies.                  *)
(*                                                                         *)
(* InvalidPrice stands for INVALID_PRICE = i64::MAX: any integer above     *)
(* every price of the model behaves alike in the comparisons below.        *)
(***************************************************************************)
EXTENDS Integers

LOCAL INSTANCE SequencesExt

CONSTANT InvalidPrice

LOCAL Buy == 1
LOCAL Sell == -1

\* BBO::new()
NewBBO == [bid_price |-> InvalidPrice, bid_qty |-> 0,
           ask_price |-> InvalidPrice, ask_qty |-> 0]

HasBid(b) == b.bid_price # InvalidPrice /\ b.bid_qty > 0
HasAsk(b) == b.ask_price # InvalidPrice /\ b.ask_qty > 0
IsValid(b) == HasBid(b) /\ HasAsk(b)

\* Saturating u32 subtraction.
SatSub(a, c) == IF a > c THEN a - c ELSE 0

\* Add, Modify and Snapshot: a better price replaces the side, an equal
\* price overwrites its qty, a worse one is ignored.
\* Seeded fault: an equal price leaves the qty alone.
AfterAddKeepQty(b, u) ==
    CASE u.side = Buy /\ (u.price > b.bid_price \/ b.bid_price = InvalidPrice) ->
              [b EXCEPT !.bid_price = u.price, !.bid_qty = u.qty]
      [] u.side = Sell /\ (u.price < b.ask_price \/ b.ask_price = InvalidPrice) ->
              [b EXCEPT !.ask_price = u.price, !.ask_qty = u.qty]
      [] OTHER -> b

\* Seeded fault: an equal price adds to the qty, as a book level would.
AfterAddAccumulate(b, u) ==
    CASE u.side = Buy /\ (u.price > b.bid_price \/ b.bid_price = InvalidPrice) ->
              [b EXCEPT !.bid_price = u.price, !.bid_qty = u.qty]
      [] u.side = Buy /\ u.price = b.bid_price -> [b EXCEPT !.bid_qty = @ + u.qty]
      [] u.side = Sell /\ (u.price < b.ask_price \/ b.ask_price = InvalidPrice) ->
              [b EXCEPT !.ask_price = u.price, !.ask_qty = u.qty]
      [] u.side = Sell /\ u.price = b.ask_price -> [b EXCEPT !.ask_qty = @ + u.qty]
      [] OTHER -> b

AfterAdd(b, u) ==
    CASE u.side = Buy /\ (u.price > b.bid_price \/ b.bid_price = InvalidPrice) ->
              [b EXCEPT !.bid_price = u.price, !.bid_qty = u.qty]
      [] u.side = Buy /\ u.price = b.bid_price -> [b EXCEPT !.bid_qty = u.qty]
      [] u.side = Sell /\ (u.price < b.ask_price \/ b.ask_price = InvalidPrice) ->
              [b EXCEPT !.ask_price = u.price, !.ask_qty = u.qty]
      [] u.side = Sell /\ u.price = b.ask_price -> [b EXCEPT !.ask_qty = u.qty]
      [] OTHER -> b

\* Cancel at the tracked price: a qty of 0 or at least the tracked qty
\* empties the side (its price stays), a smaller one is subtracted.
AfterCancel(b, u) ==
    LET Left(q) == IF u.qty = 0 \/ u.qty >= q THEN 0 ELSE SatSub(q, u.qty)
    IN CASE u.side = Buy /\ u.price = b.bid_price -> [b EXCEPT !.bid_qty = Left(@)]
         [] u.side = Sell /\ u.price = b.ask_price -> [b EXCEPT !.ask_qty = Left(@)]
         [] OTHER -> b

\* Trade: a buy trade at the ask, or a sell trade at the bid, reduces it.
AfterTrade(b, u) ==
    CASE u.side = Buy /\ u.price = b.ask_price -> [b EXCEPT !.ask_qty = SatSub(@, u.qty)]
      [] u.side = Sell /\ u.price = b.bid_price -> [b EXCEPT !.bid_qty = SatSub(@, u.qty)]
      [] OTHER -> b

\* process_update, for the ticker's BBO (created by reserve_tickers).
ProcessUpdate(b, u) ==
    CASE u.type \in {"Add", "Modify", "Snapshot"} -> AfterAdd(b, u)
      [] u.type = "Cancel" -> AfterCancel(b, u)
      [] u.type = "Trade" -> AfterTrade(b, u)
      [] u.type = "Clear" -> NewBBO
      [] OTHER -> b

\* poll_and_process: poll returns the datagrams that have arrived, one
\* MarketUpdate each, until the socket would block; each goes through
\* process_update.
PollAndProcess(b, updates) == FoldLeft(ProcessUpdate, b, updates)

====

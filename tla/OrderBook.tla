----------------------------- MODULE OrderBook -----------------------------
(***************************************************************************)
(* The exchange's per-instrument order book (exchange/src/order_book.rs)   *)
(* together with the slot pool its orders live in (common/src/mem_pool.rs).*)
(*                                                                         *)
(* One book per ticker in Tickers.  Orders are records in pool slots       *)
(* 0..PoolSize-1; a price level keeps head/tail slot indices and each      *)
(* order keeps prev/next slot indices (the intrusive FIFO chain).  Freed   *)
(* slots keep their stale contents, exactly as the pool does (it never     *)
(* drops or clears a slot), because cancel_order follows prev/next links   *)
(* without checking that they still name a live order.                     *)
(***************************************************************************)
EXTENDS Integers, SequencesExt, FiniteSetsExt, Functions, TLC

CONSTANTS
    Tickers,     \* tickers that have a book
    Clients,     \* client ids carried on orders
    OrderIds,    \* order ids add_order may be called with
    Prices,      \* limit prices
    Qtys,        \* order quantities
    PoolSize,    \* capacity N of the order pool (65536 in the code)
    QtyModulus,  \* 2^32: Qty is u32 and level.total_qty wraps (release build)
    MaxAdds      \* bound on successful add_order calls per book (model bound)

ASSUME PoolSize \in Nat \ {0}
ASSUME MaxAdds \in Nat
ASSUME Qtys \subseteq 0..(QtyModulus - 1)

VARIABLES
    slots,          \* slots[t][i]: the Order record stored in pool slot i
    free_list,      \* free_list[t]: the pool's free-index stack, top = last
    levels,         \* levels[t][side]: Price -> PriceLevel (a partial function)
    order_map,      \* order_map[t]: OrderId -> pool index (a partial function)
    next_priority   \* next_priority[t]: the book's priority counter

bookVars == <<slots, free_list, levels, order_map, next_priority>>

Slots == 0..(PoolSize - 1)
None == -1                       \* Option<usize>::None for links
Buy == 1
Sell == -1
Sides == {Buy, Sell}             \* Side as its i8 wire value

\* The zeroed slot contents new_boxed() leaves before a slot is first written.
BlankOrder == [order_id |-> 0, client_id |-> 0, side |-> 0, price |-> 0,
               qty |-> 0, priority |-> 0, prev |-> None, next |-> None]

\* Seeded fault: a new level that already counts the order being added.
NewLevelCountedTwice == [total_qty |-> 0, head |-> None, tail |-> None, order_count |-> 1]

\* PriceLevel::new(price)
NewLevel == [total_qty |-> 0, head |-> None, tail |-> None, order_count |-> 0]

\* HashMap insert / remove on a partial function.
MapPut(f, k, v) == [x \in DOMAIN f \cup {k} |-> IF x = k THEN v ELSE f[x]]
MapDel(f, k) == Restrict(f, DOMAIN f \ {k})

(***************************************************************************)
(* MemPool: allocate pops the free stack, deallocate pushes the index.     *)
(***************************************************************************)
\* Seeded faults: a slot that is never returned, or the wrong index returned.
DeallocateDropped(fl, i) == fl
DeallocateOffByOne(fl, i) == Append(fl, i + 1)

CanAllocate(t) == free_list[t] # <<>>
AllocatedIndex(t) == free_list[t][Len(free_list[t])]
Allocate(fl) == SubSeq(fl, 1, Len(fl) - 1)
Deallocate(fl, i) == Append(fl, i)

Init ==
    /\ slots = [t \in Tickers |-> [i \in Slots |-> BlankOrder]]
    /\ free_list = [t \in Tickers |-> [k \in 1..PoolSize |-> k - 1]]
    /\ levels = [t \in Tickers |-> [s \in Sides |-> <<>>]]
    /\ order_map = [t \in Tickers |-> <<>>]
    /\ next_priority = [t \in Tickers |-> 1]

(***************************************************************************)
(* add_order succeeds iff the id is new and the pool has a free slot; it   *)
(* fails before touching the priority counter otherwise.                   *)
(***************************************************************************)
\* Seeded fault: add_order without its duplicate-id check.
AddSucceedsNoDupCheck(t, oid) == CanAllocate(t)

AddSucceeds(t, oid) == oid \notin DOMAIN order_map[t] /\ CanAllocate(t)

(***************************************************************************)
(* add_order(client_id, order_id, side, price, qty).  The new order is     *)
(* appended at the level's tail: its prev is the old tail and the level's  *)
(* tail becomes the new slot.  The old tail's next is NOT updated: both    *)
(* loops that look for it (lines 170-181 and 203-211) break without        *)
(* writing anything.                                                       *)
(***************************************************************************)
AddOrder(t, client, oid, side, price, qty) ==
    IF ~AddSucceeds(t, oid)
    THEN UNCHANGED bookVars
    ELSE
      LET i     == AllocatedIndex(t)
          lvls  == levels[t][side]
          level == IF price \in DOMAIN lvls THEN lvls[price] ELSE NewLevel
          order == [order_id |-> oid, client_id |-> client, side |-> side,
                    price |-> price, qty |-> qty,
                    priority |-> next_priority[t],
                    prev |-> level.tail, next |-> None]
          level2 == [level EXCEPT
                       !.head = IF level.tail = None THEN i ELSE @,
                       !.tail = i,
                       !.total_qty = (@ + qty) % QtyModulus,
                       !.order_count = @ + 1]
      IN /\ free_list' = [free_list EXCEPT ![t] = Allocate(@)]
         /\ next_priority' = [next_priority EXCEPT ![t] = @ + 1]
         /\ slots' = [slots EXCEPT ![t][i] = order]
         /\ levels' = [levels EXCEPT ![t][side] = MapPut(@, price, level2)]
         /\ order_map' = [order_map EXCEPT ![t] = MapPut(@, oid, i)]

(***************************************************************************)
(* cancel_order(order_id).  Unlinks the order by following its prev/next   *)
(* links (writing into whatever slots they name), updates the level's      *)
(* count and quantity, erases an empty level and frees the slot.           *)
(***************************************************************************)
CancelSucceeds(t, oid) == oid \in DOMAIN order_map[t]

\* MemPool::get_by_index: the slot at an in-bounds index, whether or not it
\* is allocated (the book only passes indices from order_map and links).
GetByIndex(t, i) == slots[t][i]

CanceledOrder(t, oid) == GetByIndex(t, order_map[t][oid])

CancelOrder(t, oid) ==
    IF ~CancelSucceeds(t, oid)
    THEN UNCHANGED bookVars
    ELSE
      LET i     == order_map[t][oid]
          o     == GetByIndex(t, i)
          lvls  == levels[t][o.side]
          level == lvls[o.price]
          s1    == IF o.prev # None
                   THEN [slots[t] EXCEPT ![o.prev].next = o.next]
                   ELSE slots[t]
          s2    == IF o.next # None
                   THEN [s1 EXCEPT ![o.next].prev = o.prev]
                   ELSE s1
          level2 == [level EXCEPT
                       !.head = IF o.prev = None THEN o.next ELSE @,
                       !.tail = IF o.next = None THEN o.prev ELSE @,
                       !.order_count = @ - 1,
                       !.total_qty = (@ - o.qty) % QtyModulus]
      IN /\ order_map' = [order_map EXCEPT ![t] = MapDel(@, oid)]
         /\ slots' = [slots EXCEPT ![t] = s2]
         /\ levels' = [levels EXCEPT ![t][o.side] =
                          IF level2.order_count = 0
                          THEN MapDel(lvls, o.price)
                          ELSE MapPut(lvls, o.price, level2)]
         /\ free_list' = [free_list EXCEPT ![t] = Deallocate(@, i)]
         /\ UNCHANGED next_priority

\* best_bid / best_ask: max key of the bid map, min key of the ask map.
NoPrice == "none"
BestBid(t) == IF DOMAIN levels[t][Buy] = {} THEN NoPrice
              ELSE CHOOSE p \in DOMAIN levels[t][Buy] :
                     \A q \in DOMAIN levels[t][Buy] : q <= p
BestAsk(t) == IF DOMAIN levels[t][Sell] = {} THEN NoPrice
              ELSE CHOOSE p \in DOMAIN levels[t][Sell] :
                     \A q \in DOMAIN levels[t][Sell] : p <= q

(***************************************************************************)
(* The book driven directly through its API, as the unit tests do.         *)
(***************************************************************************)
Add(t) ==
    /\ next_priority[t] <= MaxAdds
    /\ \E c \in Clients, oid \in OrderIds, side \in Sides, p \in Prices,
          q \in Qtys : AddOrder(t, c, oid, side, p, q)

Cancel(t) == \E oid \in OrderIds : CancelOrder(t, oid)

Next == \E t \in Tickers : Add(t) \/ Cancel(t)

Spec == Init /\ [][Next]_bookVars

(***************************************************************************)
(* Invariants.                                                             *)
(***************************************************************************)
Order == [order_id : Nat, client_id : Clients \cup {0}, side : Sides \cup {0},
          price : Prices \cup {0}, qty : Qtys \cup {0}, priority : Nat,
          prev : Slots \cup {None}, next : Slots \cup {None}]
Level == [total_qty : 0..(QtyModulus - 1), head : Slots \cup {None},
          tail : Slots \cup {None}, order_count : Nat]

TypeOK ==
    /\ slots \in [Tickers -> [Slots -> Order]]
    /\ \A t \in Tickers :
         /\ free_list[t] \in Seq(Slots)
         /\ \A s \in Sides : /\ DOMAIN levels[t][s] \subseteq Prices
                             /\ \A p \in DOMAIN levels[t][s] : levels[t][s][p] \in Level
         /\ DOMAIN order_map[t] \subseteq OrderIds
         /\ \A o \in DOMAIN order_map[t] : order_map[t][o] \in Slots
    /\ next_priority \in [Tickers -> Nat \ {0}]

\* The live orders of book t resting at (side, price), as pool indices.
LevelSlots(t, side, price) ==
    { order_map[t][o] : o \in { o \in DOMAIN order_map[t] :
                                  /\ slots[t][order_map[t][o]].side = side
                                  /\ slots[t][order_map[t][o]].price = price } }

SumQty(t, S) == MapThenSumSet(LAMBDA i : slots[t][i].qty, S)

(* Pool accounting (spec invariant 1): across any sequence of adds and     *)
(* cancels, every pool slot is either on the free stack exactly once or    *)
(* referenced by exactly one order_map entry, never both.  A cancel that   *)
(* returns early after erasing the id (the `?` on the level lookup) or     *)
(* frees a slot twice breaks it.                                           *)
PoolAccounting ==
    \A t \in Tickers :
      LET free == {free_list[t][k] : k \in 1..Len(free_list[t])}
          used == Range(order_map[t])
      IN /\ Len(free_list[t]) = Cardinality(free)
         /\ IsInjective(order_map[t])
         /\ free \cap used = {}
         /\ free \cup used = Slots

(* Level accounting (spec invariants 3 and 4): a level exists exactly when *)
(* some live order rests at its side and price, its order_count is the     *)
(* number of those orders and its total_qty is the sum of their remaining  *)
(* quantities, whatever order the adds and cancels came in.                *)
LevelAccounting ==
    \A t \in Tickers, s \in Sides, p \in Prices :
      LET live == LevelSlots(t, s, p)
      IN /\ (p \in DOMAIN levels[t][s]) <=> (live # {})
         /\ p \in DOMAIN levels[t][s] =>
              /\ levels[t][s][p].order_count = Cardinality(live)
              /\ levels[t][s][p].total_qty = SumQty(t, live)

\* The chain from head along next, at most n links long.
RECURSIVE ChainFrom(_, _, _)
ChainFrom(t, i, n) ==
    IF n = 0 \/ i = None THEN <<>>
    ELSE <<i>> \o ChainFrom(t, slots[t][i].next, n - 1)

\* The live orders of a level, oldest (smallest priority) first.
RECURSIVE ByPriority(_, _)
ByPriority(t, S) ==
    IF S = {} THEN <<>>
    ELSE LET m == CHOOSE i \in S : \A j \in S : slots[t][i].priority <= slots[t][j].priority
         IN <<m>> \o ByPriority(t, S \ {m})

FifoOrder(t, s, p) == ByPriority(t, LevelSlots(t, s, p))

(* Chain well-formedness (spec invariants 2 and 5): walking a level from   *)
(* head along next visits exactly its live orders in priority order and    *)
(* ends at tail, and head has no prev.  This is what cancel_order's        *)
(* unlinking and any matching loop rely on.                                *)
ChainWellFormed ==
    \A t \in Tickers, s \in Sides :
      \A p \in DOMAIN levels[t][s] :
        LET lv == levels[t][s][p]
            n  == lv.order_count
        IN /\ ChainFrom(t, lv.head, n + 1) = FifoOrder(t, s, p)
           /\ lv.tail = FifoOrder(t, s, p)[n]
           /\ slots[t][lv.head].prev = None


(***************************************************************************)
(* Refinement: the book, read through order_map and each order's priority,*)
(* implements AbstractOrderBook.  A level's queue is its live orders       *)
(* sorted by priority; the links are deliberately not used.                *)
(***************************************************************************)
BookQueues ==
    [t \in Tickers |-> [s \in Sides |-> [p \in Prices |->
       LET f == FifoOrder(t, s, p)
       IN [k \in 1..Len(f) |-> [oid |-> slots[t][f[k]].order_id,
                                client |-> slots[t][f[k]].client_id,
                                qty |-> slots[t][f[k]].qty]]]]]

AbstractBook == INSTANCE AbstractOrderBook WITH queues <- BookQueues

(* The book refines the FIFO-queue book: every add_order and cancel_order  *)
(* is a step of AbstractOrderBook (or leaves it unchanged), so arrival     *)
(* order at a level, duplicate-id and capacity rejections and cancels from *)
(* the middle of a level are exactly those of a per-level FIFO queue.      *)
AbstractSpec == AbstractBook!Spec

=============================================================================

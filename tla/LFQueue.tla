------------------------------- MODULE LFQueue -------------------------------
(***************************************************************************)
(* The single-producer single-consumer ring (common/src/lf_queue.rs).      *)
(* push and pop are split at their shared-memory accesses: the producer    *)
(* loads head, writes the slot, then stores tail; the consumer loads tail, *)
(* reads the slot, then stores head.  Each access is one atomic step; the  *)
(* Acquire/Release orderings the code uses make these steps sequentially   *)
(* consistent for the one location pair involved (a store-release of tail  *)
(* after the slot write, a load-acquire of tail before the slot read).     *)
(* tail and head are usize counters that wrap at UsizeModulus; the slot    *)
(* index is counter & (Capacity - 1).                                      *)
(***************************************************************************)
EXTENDS Naturals, Sequences, Bitwise

CONSTANTS
    Values,        \* the items the producer pushes
    NoItem,        \* a value not in Values: no item (yet)
    Capacity,      \* N, a power of two
    UsizeModulus   \* 2^64 in the code, a smaller power of two here

ASSUME NoItem \notin Values
ASSUME \E k \in 0..16 : Capacity = 2^k
ASSUME UsizeModulus % Capacity = 0 /\ UsizeModulus >= 2 * Capacity

Uninit == NoItem                   \* MaybeUninit slot never written
MASK == Capacity - 1

VARIABLES
    buffer,          \* the slots
    tail, head,      \* writer.tail, reader.head
    ppc, p_tail, p_item,      \* producer: program point, local tail, item
    cpc, c_head, c_item,      \* consumer: program point, local head, item
    popped                    \* the last item pop() returned

vars == <<buffer, tail, head, ppc, p_tail, p_item, cpc, c_head, c_item, popped>>

\* Seeded faults: a counter that does not wrap; a full test off by one.
WrappingAddUnwrapped(a, b) == a + b
IsFullOffByOne(t, h) == (t - h) % UsizeModulus > Capacity

\* usize::wrapping_sub / wrapping_add
WrappingSub(a, b) == (a - b) % UsizeModulus
WrappingAdd(a, b) == (a + b) % UsizeModulus

\* The full test of push, on the tail it owns and the head it loaded.
IsFull(t, h) == WrappingSub(t, h) >= Capacity

Init ==
    /\ buffer = [i \in 0..MASK |-> Uninit]
    /\ tail = 0 /\ head = 0
    /\ ppc = "idle" /\ p_tail = 0 /\ p_item = Uninit
    /\ cpc = "idle" /\ c_head = 0 /\ c_item = Uninit
    /\ popped = NoItem

(***************************************************************************)
(* push(item).                                                             *)
(***************************************************************************)
\* Load tail (Relaxed, own) and head (Acquire); return Err(item) when full.
PushLoad(x) ==
    /\ ppc = "idle"
    /\ p_tail' = tail
    /\ p_item' = x
    /\ ppc' = IF IsFull(tail, head) THEN "idle" ELSE "write"
    /\ UNCHANGED <<buffer, tail, head, cpc, c_head, c_item, popped>>

\* buffer[tail & MASK].write(item)
PushWrite ==
    /\ ppc = "write"
    /\ buffer' = [buffer EXCEPT ![p_tail & MASK] = p_item]
    /\ ppc' = "publish"
    /\ UNCHANGED <<tail, head, p_tail, p_item, cpc, c_head, c_item, popped>>

\* tail.store(tail.wrapping_add(1), Release); Ok(())
PushPublish ==
    /\ ppc = "publish"
    /\ tail' = WrappingAdd(p_tail, 1)
    /\ ppc' = "idle"
    /\ UNCHANGED <<buffer, head, p_tail, p_item, cpc, c_head, c_item, popped>>

(***************************************************************************)
(* pop().                                                                  *)
(***************************************************************************)
\* Seeded fault: the empty test on slot indices instead of counters.
PopLoadMasked ==
    /\ cpc = "idle"
    /\ c_head' = head
    /\ cpc' = IF (head & MASK) = (tail & MASK) THEN "idle" ELSE "read"
    /\ UNCHANGED <<buffer, tail, head, ppc, p_tail, p_item, c_item, popped>>

\* Load head (Relaxed, own) and tail (Acquire); return None when equal.
PopLoad ==
    /\ cpc = "idle"
    /\ c_head' = head
    /\ cpc' = IF head = tail THEN "idle" ELSE "read"
    /\ UNCHANGED <<buffer, tail, head, ppc, p_tail, p_item, c_item, popped>>

\* buffer[head & MASK].assume_init_read()
PopRead ==
    /\ cpc = "read"
    /\ c_item' = buffer[c_head & MASK]
    /\ cpc' = "release"
    /\ UNCHANGED <<buffer, tail, head, ppc, p_tail, p_item, c_head, popped>>

\* head.store(head.wrapping_add(1), Release); Some(item)
PopRelease ==
    /\ cpc = "release"
    /\ head' = WrappingAdd(c_head, 1)
    /\ popped' = c_item
    /\ cpc' = "idle"
    /\ UNCHANGED <<buffer, tail, ppc, p_tail, p_item, c_head, c_item>>

Producer == (\E x \in Values : PushLoad(x)) \/ PushWrite \/ PushPublish
Consumer == PopLoad \/ PopRead \/ PopRelease

Next == Producer \/ Consumer

\* The consumer thread keeps polling (the logger's writer_loop spins on
\* pop until shutdown); the producer may stop pushing at any time.
Spec == Init /\ [][Next]_vars /\ WF_vars(Consumer)

(***************************************************************************)
(* Properties.                                                             *)
(***************************************************************************)
Counters == 0..(UsizeModulus - 1)

TypeOK ==
    /\ buffer \in [0..MASK -> Values \cup {Uninit}]
    /\ tail \in Counters /\ head \in Counters
    /\ p_tail \in Counters /\ c_head \in Counters
    /\ ppc \in {"idle", "write", "publish"} /\ cpc \in {"idle", "read", "release"}
    /\ p_item \in Values \cup {Uninit} /\ c_item \in Values \cup {Uninit}
    /\ popped \in Values \cup {NoItem}

\* The items held, front first: the slots from head up to tail.
Held == [i \in 1..WrappingSub(tail, head) |-> buffer[WrappingAdd(head, i - 1) & MASK]]

Fifo == INSTANCE BoundedFifo WITH q <- Held

(* The ring implements a bounded FIFO (spec 4.1, ring boundedness): under  *)
(* every interleaving of the producer's load/write/publish with the        *)
(* consumer's load/read/release, and across counter wrap-around, the slots *)
(* between head and tail hold exactly the pushed, not yet popped items in  *)
(* order, never more than Capacity, and pop returns the front item.  A     *)
(* push that overwrites an unread slot, a publish before the write, or a   *)
(* read of a slot not yet written breaks it.                               *)
FifoSpec == Fifo!Spec

(* Whatever the producer does, an item in the queue is eventually popped:  *)
(* with the consumer polling, head moves past every position that tail has *)
(* moved past (including when the ring is full and the producer has        *)
(* stopped).                                                               *)
QueueDrains ==
    \A h \in Counters : (head = h /\ tail # h) ~> (head # h)

=============================================================================

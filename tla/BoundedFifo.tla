----------------------------- MODULE BoundedFifo -----------------------------
(***************************************************************************)
(* What the SPSC queue promises (spec 4.1): a FIFO of at most Capacity     *)
(* items.  push(x) appends x when fewer than Capacity items are held;      *)
(* pop() removes the front item and hands it to the consumer (popped).     *)
(* A failed push or an empty pop changes nothing.                          *)
(***************************************************************************)
EXTENDS Naturals, Sequences

CONSTANTS Values, Capacity, NoItem   \* NoItem: popped before any pop

VARIABLES q, popped

Init == q = <<>> /\ popped = NoItem

Push(x) == Len(q) < Capacity /\ q' = Append(q, x) /\ UNCHANGED popped

Pop == q # <<>> /\ popped' = Head(q) /\ q' = Tail(q)

Next == (\E x \in Values : Push(x)) \/ Pop

Spec == Init /\ [][Next]_<<q, popped>>

=============================================================================

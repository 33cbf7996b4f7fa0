-------------------------- MODULE AbstractOrderBook --------------------------
(***************************************************************************)
(* What an order book promises its caller, with no pool, no links and no   *)
(* counters: per ticker, side and price a FIFO queue of resting orders.    *)
(* An add with a live id, or when PoolSize orders already rest, changes    *)
(* nothing; otherwise the order joins the back of its queue.  A cancel of  *)
(* a live id takes that order out of its queue wherever it stands.         *)
(***************************************************************************)
EXTENDS Integers, Sequences, FiniteSets

CONSTANTS Tickers, Clients, OrderIds, Prices, Qtys, PoolSize

VARIABLE queues   \* queues[t][side][price]: Seq of [oid, client, qty]

Sides == {1, -1}

Entries(t) == UNION { { <<s, p, k>> : k \in 1..Len(queues[t][s][p]) } :
                      <<s, p>> \in Sides \X Prices }
LiveIds(t) == { queues[t][e[1]][e[2]][e[3]].oid : e \in Entries(t) }

Init == queues = [t \in Tickers |-> [s \in Sides |-> [p \in Prices |-> <<>>]]]

Add(t, c, oid, s, p, q) ==
    IF oid \in LiveIds(t) \/ Cardinality(Entries(t)) = PoolSize
    THEN UNCHANGED queues
    ELSE queues' = [queues EXCEPT ![t][s][p] =
                      Append(@, [oid |-> oid, client |-> c, qty |-> q])]

Cancel(t, oid) ==
    queues' = [queues EXCEPT ![t] =
                 [s \in Sides |-> [p \in Prices |->
                    SelectSeq(@[s][p], LAMBDA e : e.oid # oid)]]]

Next ==
    \E t \in Tickers :
       \/ \E c \in Clients, oid \in OrderIds, s \in Sides, p \in Prices,
             q \in Qtys : Add(t, c, oid, s, p, q)
       \/ \E oid \in OrderIds : Cancel(t, oid)

Spec == Init /\ [][Next]_queues

=============================================================================

--------------------------- MODULE MC_ClientExchange ---------------------------
(* One ticker and size; a client limited to one unit of exposure per side  *)
(* and one open order, three local ids, market ids shared with another    *)
(* client whose orders at 10, 14 and 15 can move the mid by more than the  *)
(* spread, and pools of two so an add can fail.  The caller hands over a   *)
(* quote 10/15 or a cancel-all; the liquidity taker trades on any signal   *)
(* of 0.1 or more, crossing the spread by 10%, with a cooldown from 2 ns.  *)
(* max_events_per_cycle is 1, so a response takes a whole cycle.           *)
EXTENDS ClientExchange

CONSTANTS t1, t0, me, other

MCTickers == {t1}
MCPrices == 9..16
MCOtherPrices == {14, 15}
MCQtys == {1}
Rk == INSTANCE Risk
MCLimits == [t \in {t1} |-> Rk!NewLimits(1, 1, 0, 1)]
MCCallerActions ==
    {[kind |-> "Quote", bid |-> [side |-> 1, price |-> 10, qty |-> 1],
                        ask |-> [side |-> -1, price |-> 15, qty |-> 1]],
     [kind |-> "CancelAll"]}
Lt == INSTANCE LiquidityTaker
MCLtConfig ==
    LET c0 == Lt!WithThreshold(Lt!NewConfig(t1), [num |-> 1, den |-> 10])
        c1 == Lt!WithMaxQty(Lt!WithBaseQty(c0, 1), 2)
    IN Lt!WithMaxPosition(Lt!WithMinIntervalNs(Lt!WithAggressionBps(c1, 1000), 2), 1)
====

----------------------------- MODULE TradingMain -----------------------------
(***************************************************************************)
(* The trading client binary (trading/src/main.rs) with the strategy of   *)
(* args.strategy (market maker or liquidity taker; the other Option stays  *)
(* None): one ticker, the MarketDataReceiver's BBO, the FeatureEngine,     *)
(* the PositionKeeper, the RiskManager and the OrderGateway, driven by the *)
(* single-threaded main loop.  An iteration is                             *)
(*   1. poll_and_process and the feature and market-price update (MdStage);*)
(*   2. order_gateway.poll until it returns None (RespStage);              *)
(*   3. the strategy and the risk-gated sends (Strategy).                  *)
(* phase is the loop's program counter.  wire is the multicast feed the   *)
(* exchange writes; md_next is the index of the next datagram this socket *)
(* receives; now is the last now_nanos() reading, taken only by the       *)
(* liquidity-taker branch.                                                 *)
(***************************************************************************)
EXTENDS Integers, SequencesExt

CONSTANTS
    Me,              \* args.client_id
    Ticker,          \* args.ticker
    InvalidPrice,    \* INVALID_PRICE
    MMConfig,        \* the MarketMakerConfig main builds
    LTConfig,        \* the LiquidityTakerConfig main builds
    Limits,          \* the RiskManager's limits, set for args.ticker
    StrategyArgs,    \* the values of args.strategy main may be started with
    Clock            \* the readings now_nanos() may return (model bound)

VARIABLES
    bbo, features, mm, positions, total_pnl,
    phase, md_next, lt, now,
    gw_next_order_id, gw_pending, to_exch, to_client,
    wire

Gw == INSTANCE OrderGateway
Rcv == INSTANCE MarketDataReceiver
Fe == INSTANCE FeatureEngine
MM == INSTANCE MarketMaker
LT == INSTANCE LiquidityTaker
P == INSTANCE Position
R == INSTANCE Risk

mainVars == <<bbo, features, mm, positions, total_pnl, phase, md_next, lt, now>>
clientVars == <<mainVars, gw_next_order_id, gw_pending, to_exch, to_client>>

\* get_position_mut(args.ticker): the position, a new one if absent.
PositionOf == IF Ticker \in DOMAIN positions THEN positions[Ticker] ELSE P!NewPosition(Ticker)
WithPosition(p) == Gw!Put(positions, Ticker, p)
SumPnl(ps) == IF Ticker \in DOMAIN ps THEN P!TotalPnl(ps[Ticker]) ELSE 0

\* Option::None for the strategy main did not build.
NoStrategy == [none |-> TRUE]

\* Start-up: the BBO and the features reserved for args.ticker, a new
\* keeper, the strategy args.strategy names (the other left None), the
\* gateway connected.  The clock has not been read yet.
MainInit ==
    /\ bbo = Rcv!NewBBO
    /\ features = Fe!NewFeatures
    /\ \E s \in StrategyArgs :
          /\ mm = IF s = "MarketMaker" THEN MM!NewMarketMaker ELSE NoStrategy
          /\ lt = IF s = "LiquidityTaker" THEN LT!NewLiquidityTaker(LTConfig) ELSE NoStrategy
    /\ now = Min(Clock)
    /\ positions = [x \in {} |-> 0]
    /\ total_pnl = 0
    /\ phase = "md"
    /\ md_next = 1
    /\ Gw!GatewayInit

\* 1-2. poll_and_process: every datagram the socket delivers (arrived, the
\* part of the feed written since the last drain as the network handed it
\* over) goes through process_update in order; then, if any was
\* processed, the features take the BBO and, for a valid BBO, the keeper
\* takes the mid as market price (for a position it already holds).  The
\* socket is drained within one step: the exchange writes the feed and
\* never reads this client's state, so a datagram arriving during the
\* drain is one that arrived before it.
MdStage(arrived) ==
    /\ phase = "md"
    /\ LET newBbo == Rcv!PollAndProcess(bbo, arrived)
       IN /\ bbo' = newBbo
          /\ IF arrived # <<>>
             THEN /\ features' = Fe!OnBboUpdate(features, newBbo)
                  /\ IF Rcv!IsValid(newBbo) /\ Ticker \in DOMAIN positions
                     THEN LET ps == WithPosition(P!UpdateMarketPrice(positions[Ticker],
                                                  (newBbo.bid_price + newBbo.ask_price) \div 2))
                          IN positions' = ps /\ total_pnl' = SumPnl(ps)
                     ELSE UNCHANGED <<positions, total_pnl>>
             ELSE UNCHANGED <<features, positions, total_pnl>>
    /\ md_next' = Len(wire) + 1
    /\ phase' = "resp"
    /\ UNCHANGED <<mm, lt, now, gw_next_order_id, gw_pending, to_exch, to_client>>

\* Seeded fault: the side byte read with the signs swapped.
SideOfSwapped(r) == IF r.side = -1 THEN P!Buy ELSE P!Sell

\* The response's side byte as main reads it: 1 is Buy, anything else Sell.
SideOf(r) == IF r.side = 1 THEN P!Buy ELSE P!Sell

\* Main's handling of one response, on [ps |-> positions, mm, lt]: a fill
\* goes to the keeper and to the strategy main built (set_position, and
\* on_fill for the liquidity taker); Accepted adds leaves_qty to the open
\* quantity, Canceled and CancelRejected remove it.
OnResponse(st, r) ==
    LET p == IF Ticker \in DOMAIN st.ps THEN st.ps[Ticker] ELSE P!NewPosition(Ticker)
        Set(q) == Gw!Put(st.ps, Ticker, q)
    IN CASE r.type = "Filled" ->
              LET q == P!OnFill(p, SideOf(r), r.exec_qty, r.price)
              IN [ps |-> Set(q),
                  mm |-> IF st.mm = NoStrategy THEN st.mm ELSE MM!SetPosition(st.mm, q.position),
                  lt |-> IF st.lt = NoStrategy THEN st.lt
                         ELSE LT!OnFill(LT!SetPosition(st.lt, q.position), LTConfig)]
         [] r.type = "Accepted" ->
              [st EXCEPT !.ps = Set(P!AddOpenOrder(p, SideOf(r), r.leaves_qty))]
         [] r.type \in {"Canceled", "CancelRejected"} ->
              [st EXCEPT !.ps = Set(P!RemoveOpenOrder(p, SideOf(r), r.leaves_qty))]
         [] OTHER -> st

\* The gateway's poll on one response: the pending entry goes on a terminal one.
PollPending(pend, r) == IF Gw!Terminal(r) THEN Gw!Del(pend, r.client_order_id) ELSE pend

\* 3. "while let Some(response) = order_gateway.poll()": every response
\* that has arrived, in order (drained within one step, as the feed is).
RespStage ==
    /\ phase = "resp"
    /\ LET st == FoldLeft(OnResponse, [ps |-> positions, mm |-> mm, lt |-> lt], to_client)
           filled == \E i \in 1..Len(to_client) : to_client[i].type = "Filled"
       IN /\ positions' = st.ps
          /\ mm' = st.mm
          /\ lt' = st.lt
          /\ total_pnl' = IF filled THEN SumPnl(st.ps) ELSE total_pnl
    /\ gw_pending' = FoldLeft(PollPending, gw_pending, to_client)
    /\ to_client' = <<>>
    /\ phase' = "strategy"
    /\ UNCHANGED <<bbo, features, md_next, now, gw_next_order_id, to_exch>>

\* The orders of a StrategyAction, in the order main sends them: a quote's
\* bid then ask (a missing leg has qty 0), a Take's one order;
\* CancelAll is a no-op in main.
Legs(action) ==
    CASE action.kind = "Quote" -> SelectSeq(<<action.bid, action.ask>>, LAMBDA o : o.qty > 0)
      [] action.kind = "Take" -> <<action.order>>
      [] OTHER -> <<>>

\* The legs check_order allows against the position taken before the
\* strategy ran; each allowed one is sent.
AllowedLegs(p, action) ==
    SelectSeq(Legs(action), LAMBDA o : R!CheckOrder(Limits, p, o.side, o.qty) = R!Allowed)

\* The (market_maker, liquidity_taker) match: the strategy main built
\* runs on the features (the liquidity taker with the clock reading n and
\* the receiver's bid and ask prices) and returns its action.
StrategyRun(n) ==
    IF mm # NoStrategy
    THEN LET r == MM!OnFeatures(mm, MMConfig, features, TRUE)
         IN [mm |-> r.mm, lt |-> lt, now |-> now, action |-> r.action]
    ELSE LET r == LT!OnFeatures(lt, LTConfig, features, n, bbo.bid_price, bbo.ask_price)
         IN [mm |-> mm, lt |-> r.lt, now |-> n, action |-> r.action]

\* 4. The strategy: only with valid features; the position is created if
\* absent; check_position gates the strategy; each leg of its action is
\* checked and sent.  The liquidity-taker branch reads now_nanos(), which
\* returns any reading of Clock not before the last one.
Strategy ==
    /\ phase = "strategy"
    /\ phase' = "md"
    /\ IF ~Fe!FeaturesValid(features)
       THEN UNCHANGED <<mm, lt, now, positions, gw_next_order_id, gw_pending, to_exch>>
       ELSE LET p == PositionOf
            IN /\ positions' = WithPosition(p)
               /\ IF R!CheckPosition(Limits, p) # R!Allowed
                  THEN UNCHANGED <<mm, lt, now, gw_next_order_id, gw_pending, to_exch>>
                  ELSE \E n \in {c \in Clock : c >= now} :
                         LET res == StrategyRun(n)
                         IN /\ mm' = res.mm /\ lt' = res.lt /\ now' = res.now
                            /\ Gw!SendNewOrders(Ticker, AllowedLegs(p, res.action))
    /\ UNCHANGED <<bbo, features, total_pnl, md_next, to_client>>

====

# TLA+ models of the low-latency trading stack

This directory holds TLA+ specifications of the Rust code under `src/`. It
also holds the TLC configurations that check them. `PROJECT.json` lists:

- every component and its modelling status;
- every run, with the properties it checks;
- the seeded faults (mutants) that show each checked property can fail;
- the source lines each definition translates;
- the findings and the hazards.

## 1. The system

There are two processes.

**The exchange** (`src/exchange`) reads framed client requests over TCP. The
`OrderServer` stamps each request with a global sequence number from
`FifoSequencer` and sorts each poll's requests by that number. The exchange
main loop then does the following for each request, one at a time:

1. calls `MatchingEngine::process_request`;
2. sends the response back to the requesting client;
3. hands every resulting market-data delta to `MarketDataPublisher::publish`.

The publisher tracks a BBO per ticker and multicasts the deltas. Here is how
the exchange's parts fit together:

- `MatchingEngine` owns one `OrderBook` per registered ticker and a global
  `next_order_id` counter, which starts at 1.
- Each book keeps its orders in a fixed-capacity `MemPool` of slots. Allocation
  pops a free-index stack and deallocation pushes to it. A freed slot is never
  cleared.
- Each book keeps two `Price -> PriceLevel` maps (bids and asks) and an
  `order_map` from id to slot.
- Orders at a level form an intrusive doubly-linked chain: the level holds
  `head_idx`/`tail_idx` and each order holds `prev_idx`/`next_idx`.
- Each book has its own `next_priority` counter.

**The trading client** (`src/trading`) runs as follows:

- It receives the feed and keeps a client-side BBO.
- It derives features and runs a strategy, either the market maker or the
  liquidity taker.
- It checks each order with `RiskManager` against the `PositionKeeper`.
- It sends orders through `OrderGateway`. The gateway assigns local order ids
  and keeps a map of pending orders.
- Responses update the gateway, `TradeEngine` (tracked orders and
  `open_order_count`) and the positions.

**Shared infrastructure** (`src/common`):

- `LFQueue`, an SPSC ring with wrapping counters;
- `MemPool`;
- `Logger`, in which a producer pushes entries into an `LFQueue`. A writer
  thread drains the queue, and `flush()` uses the `flush_requested` /
  `flush_complete` handshake;
- the socket wrappers and the time utilities.

## 2. Inventory: state, operations and what is hard

| Component | State | Operations | Hard behaviour |
|---|---|---|---|
| MemPool | free stack, free_count, slots (never cleared) | allocate, deallocate, get_by_index | exhaustion; a stale slot reached through an unchecked index |
| OrderBook | levels per side, order_map, pool, next_priority | add_order, cancel_order, best_bid/ask | the link bookkeeping (the old tail's next is never written); an early return after erasing the id; u32 total_qty |
| MatchingEngine | books, next_order_id | process_request (new / cancel / invalid) | an id drawn before add_order and burned on failure; deltas that must describe the book; two priority counters |
| OrderServer | per-client buffers, sequencer | receive, poll, send_response, accept | resynchronising after a framing error; merging several clients in sequence order |
| MarketDataPublisher | per-ticker BBO, sequence counters | publish, update_ticker_state, snapshot | state updated before a send that can fail; a BBO that drifts from the book |
| LFQueue | ring, head, tail | push, pop | the wrap boundary; full/empty; producer and consumer running concurrently |
| Logger | queue, flush flags | log, flush, writer_loop, drop | flush races the writer; a stale flush flag; drops when the queue is full |
| OrderGateway | local id counter, pending map | send_new_order, send_cancel, poll | cancels sent with the local id, which the exchange does not know |
| TradeEngine / Position / Risk | tracked orders, open_order_count, positions | on_response, on_market_update, submit/cancel, run_cycle | counts drifting from the tracked orders; saturating subtraction; stale cached totals |
| Strategies (market maker, liquidity taker) | last quote; last order time, cooldown interval, position, active | on_features, set_position, on_fill, activate/deactivate, reset | f64 thresholds and casts; a rate limit across a clock; positions that lag the fills |
| FeatureEngine | per-ticker features | on_bbo_update | features kept from the last valid BBO; the signal range |

Correctness properties the code should have:

- **Pool and book accounting** (spec invariants 1, 3 and 4).
- **Chain well-formedness and FIFO priority** (invariants 2 and 5).
- **Ids**: market ids are never reused.
- **The feed**: replaying the deltas reproduces the books.
- **Responses** echo the removed order.
- **BBO**: the published BBO equals the book's.
- **Queue**: the queue is FIFO and never overwrites.
- **Logger**: `flush` returns only after every earlier entry is written.
- **Client**: open-order counts equal the tracked orders.
- **Risk**: the risk limits bound the position.

## 3. Modules

### OrderBook (`OrderBook.tla`), with the pool

The module covers `src/exchange/src/order_book.rs` and
`src/common/src/mem_pool.rs`.

Variables, each indexed by ticker:

- `slots[t][i]` holds the Order record in pool slot `i`. It includes the stale
  contents a freed slot keeps.
- `free_list[t]` is the free stack, with its top last.
- `levels[t][side]` is a partial function from price to `PriceLevel`.
- `order_map[t]` maps order ids to slots.
- `next_priority[t]` is the book's priority counter.

`AddOrder` models all of `add_order`:

- It fails on a duplicate id or an exhausted pool.
- It takes the priority.
- It writes the record with `prev` set to the old tail.
- It updates the level's head and tail, `total_qty` (modulo `QtyModulus`) and
  the count.
- It inserts into `order_map`.
- It does **not** write the old tail's `next`, because neither loop in the code
  does.

`CancelOrder` models all of `cancel_order`, including the writes through
`prev`/`next` into whatever slots they name. `Add(t)` and `Cancel(t)` drive the
book with arbitrary ids, as the unit tests do.

`AbstractOrderBook.tla` specifies what the book promises. For each ticker, side
and price there is a FIFO queue. An add with a live id, or made when
`PoolSize` orders already rest, changes nothing. A cancel removes the order
wherever it stands.

The refinement maps each level to its live orders sorted by priority (via
`order_map`). It does not use the links, which the chain run shows are broken.

### MatchingEngine (`MatchingEngine.tla`)

The module covers `src/exchange/src/matching_engine.rs`. It instantiates
`OrderBook` once for all tickers, with the market ids `1..MaxOrderId` as the
order ids. Its other variables are:

- `next_order_id`;
- `resp`, the latest response;
- `md`, every delta handed to the publisher, in order.

There is one action per `msg_type`. Each action models the whole handler,
including the id it draws and the book call it makes. Requests range over:

- every registered ticker and one unknown ticker;
- the side bytes +1, -1 and 0;
- every market id, for cancels.

The exchange main loop handles one request at a time, so each request is one
step. The module's properties (`FeedReplaysBooks`,
`CancelEchoesAcceptedOrder`) are checked through `Exchange`, which re-exports
them, in the `exch_feed` run.

### MarketDataPublisher (`MarketDataPublisher.tla`)

The module covers `publish`, `update_ticker_state` and `publish_snapshot` in
`src/exchange/src/market_data.rs`. Its variables are `ticker_state` (the
tracked bid and ask per ticker, 0 meaning no price), `sequence`,
`updates_since_snapshot` and `wire`, the datagrams `send_to` accepted.

- `update_ticker_state` runs before the send, so `PublishSendFails` changes
  the state and nothing else; `PublishSent` advances both counters.
- When the cadence is reached, `PublishSnapshot` builds the round (bid then
  ask of each ticker, in any HashMap order) and lets any prefix of it reach
  the wire: a failed `send_to` returns through `?`, and only a complete round
  resets `updates_since_snapshot`.

### Exchange (`Exchange.tla`)

The composition of the matching engine and the publisher as the exchange main
loop drives them (`src/exchange/src/main.rs`): one request, its response and
the publish of its delta form one step, since the loop is single-threaded.

### OrderServer (`OrderServer.tla`)

The exchange's order entry (`src/exchange/src/order_server.rs`) and the
exchange main loop around it (`src/exchange/src/main.rs`), with the client
sockets of `src/common/src/tcp.rs` writing to it concurrently.

- State: `clients` is `OrderServer.clients` (ClientId to the socket and its
  `recv_buffer`), `next_client_id`, the sequencer's `next_seq`, the
  listener's `backlog` and, per socket, the bytes on the wire. `written`,
  `owner`, `emitted` and `delivered` are history: what each socket wrote,
  which ClientId it was given, what was sequenced under it and what was
  answered on it.
- A request is the record `[sock, n]`. On the wire it is `RecordSize` tokens;
  `Decode` is `from_bytes` on a full slice, which never fails for a packed
  struct, so misframed bytes decode as a garbled request (`n = 0`).
- `ServeLoop` is one iteration of the main loop: `accept_connections` folded
  over the backlog (`AcceptOne`, with any subset failing `set_nonblocking`
  and burning its id), `receive` on every connection in any HashMap order
  (`Receive`, `ParseLoop`), with `try_recv` taking any prefix of what arrived,
  the requests sorted by sequence number, the end-of-stream connections
  removed, and `send_response` for each request (`SendResponse`, routed by
  `RouteId`).
- `Shutdown` is Ctrl-C: the loop exits and the connections are dropped.
  `Connect`, `Write` and `Close` are the client side. `Write` is the
  gateway's `send_new_order`/`send_cancel`: the request counts as written
  whatever `send` returned. With `ShortSends` FALSE the whole record goes
  out; with `ShortSends` TRUE any prefix of it does (`SentBytes`), since the
  gateway's socket is non-blocking and `send`'s count is ignored
  (`order_gateway.rs:104`).

### LFQueue (`LFQueue.tla`, `BoundedFifo.tla`)

The SPSC ring of `src/common/src/lf_queue.rs`. Producer and consumer are two
processes; each atomic load or store and each slot access is one step
(`PushLoad`, `PushWrite`, `PushPublish`; `PopLoad`, `PopRead`, `PopRelease`).
`tail` and `head` are wrapping counters modulo `UsizeModulus`, and the slot is
`counter & MASK`. Acquire/release ordering is modelled as sequential
consistency, which is what the release store after the slot access and the
acquire load before it give for this one-slot-per-index protocol.
`BoundedFifo` is the abstract queue; the refinement maps the ring to the
sequence of slots between `head` and `tail`. The ring's only user is the
logger, so it is checked there: `Logger` instantiates `LFQueue` as its queue
and the logger run checks `FifoSpec` and `QueueDrains` on it.

### Logger (`Logger.tla`)

`src/common/src/logging.rs`: the client thread (`Log`, the four steps of
`flush`, and `drop`'s store and join) and `writer_loop` (the running check,
pops, the end of a drain, the `flush_requested` check and the completion
store, then the final drain after the loop). The queue is the `LFQueue` ring
itself (`Ring == INSTANCE LFQueue`): `Log` is the push's load, `LogPush` its
slot write and tail publish; `WriterPop` is the pop's load (ending the drain
when it finds the ring empty), `WriterRead` and `WriterWrite` the slot read,
the head release and `write_entry`. So a flush or a drop can fall between
any two steps of a push or a pop. `pushed`, `written` and
`flush_mark` are history variables for the properties.

### Position and PositionKeeper (`Position.tla`, `PositionKeeper.tla`)

`Position.tla` has no variables: `Position` of
`src/trading/src/position.rs` is a record, and each of its methods is an
operator from the old record to the new one (`OnFill`, `AddOpenOrder`,
`RemoveOpenOrder` with saturating subtraction, `UpdateMarketPrice`, and the
derived `TotalPnl` and exposures). `OnFill` keeps the code's three cases
(opening from flat, reducing or flipping, adding with an integer weighted
average) and ends with the unrealized P&L refresh, as the method does.

`PositionKeeper.tla` holds the keeper's `positions` (created on first use by
`get_position_mut`) and its cached `total_pnl`. Its actions are `on_fill` and
`update_market_price`, each with the `recalculate_total_pnl` it ends with.
The history variables record what the fills add up to: `cash` (what the
sells brought in minus what the buys paid), `dropped` (the remainder that
each same-direction fill's truncating re-average of `avg_open_price`
discards, signed by the position's direction, `Remainder`) and `fills` (the
bound). `PnlConservesCash` is a ledger identity over them: a ticker's
realized plus unrealized P&L equals `cash` plus the position marked at
`last_price`, plus `dropped`. The truncation compounds, because each
re-average starts from the already truncated average: sells of 1 at 9, 10
and 11 leave the average at 9, not 10, and the position's P&L 3 below
the cash-flow figure. Spec 4.9 prescribes this integer average, so the
drift is listed as a hazard rather than a finding.

### Risk (`Risk.tla`)

The checks of `src/trading/src/risk.rs` as operators over a limits function
and a `Position`: `CheckOrder` (size, projected exposure including open
orders, loss, in that order), `CheckOpenOrders`, `CheckPosition` and
`CheckOrderWithOpenOrders`. A ticker without its own limits gets
`DefaultLimits`.

### OrderGateway (`OrderGateway.tla`)

The client end of the order connection (`src/trading/src/order_gateway.rs`).
`to_exch` and `to_client` are the two directions of the TCP stream, FIFO
sequences of whole records. `NewOrderSent` (on a caller's state record) and
`SendNewOrders` (for main's quote pair) draw the next local id, write the
request and record the pending entry. `SendCancel` writes a cancel with the
same local id, plus the pending entry's side, price and qty. `PolledOn` is
`poll`'s bookkeeping for one response: it drops the pending entry on a
terminal response. `connect` is the initial state.

### TradeEngine (`TradeEngine.tla`)

`src/trading/src/trade_engine.rs`: `pending_orders` (tracked orders),
`open_order_count`, the keeper's positions and `total_pnl`, `bbo_state`,
`features`, `running`, and `md_next` (the caller's position in the market
data feed). The handlers work on a record `Current` of the client's state
and return the new record, so that run_cycle and process_strategy_action can
fold them over several events, as the code calls them in a loop.

- `Start` and `Stop` set `running`.
- `SubmitOrder` runs `check_order_risk`. If it passes, `Track` calls the
  submit callback, then adds the tracking, the count and `add_open_order`.
- `CancelOrder` and `CancelAllOrders` only send.
- `OnResponse` is the gateway's `poll` followed by `on_response`.
  `ApplyFill` handles Filled. `DropTracked` handles Canceled, CancelRejected
  and InvalidRequest.
- `OnMarketUpdate` is `on_market_update`: the ticker's BBO takes the update,
  the features take a valid BBO, and a Trade sets the position's market price.
- `RunCycle` is `run_cycle`. `CycleResponses` is how many responses it takes
  (at most `max_events_per_cycle`), and `CycleUpdates` is how many market
  updates the rest of the budget admits.
- `ProcessStrategyAction` submits a Quote's legs or a Take's order in
  order (`ProcessLegs`), or cancels all orders of the ticker.

The callbacks are wired to the gateway, as spec 4.11 describes them
("abstracting the gateway").

### LiquidityTaker (`LiquidityTaker.tla`)

`strategies/liquidity_taker.rs`, as operators on its state record.

- `OnFeatures` returns the new record and the StrategyAction. The decision
  steps come in the code's order: active, valid features, the rate limit
  (`CanSendOrder`), then the buy signal with its position limit, then the
  sell signal.
- `CalculateQuantity` interpolates between `base_qty` and `max_qty`.
- `CreateBuyOrder` and `CreateSellOrder` cross the BBO by `aggression_bps`.
- `RecordOrder` applies the cooldown factor, capped at ten times the minimum
  interval.
- `OnFill`, `Activate`, `Deactivate`, `ResetCooldown` and `Reset` are the
  strategy's other calls.

The thresholds, the signal and the cooldown factor are exact fractions, and
every cast truncates.

### ClientExchange (`ClientExchange.tla`)

The trade engine and its gateway against the real `MatchingEngine`, with a
second client whose orders share the market id counter and the books. The
exchange's delta history `md` is the market data the engine reads.

- `ServeClient` is one iteration of the exchange main loop for this
  client's connection: `process_request` on the next request, and the
  response appended to `to_client`.
- `ServeOther` is a new order from the other client.
- `ClientStep` is one call the engine's caller makes: start, stop,
  `run_cycle`, `cancel_order`, or `process_strategy_action` with an action
  from `CallerActions` (a quote pair, or CancelAll).
- `LtStep` drives the liquidity taker as `main.rs` drives it. It sets the
  position from the engine's, calls `on_features` with the ticker's
  features, a clock reading `now` (which never decreases) and the BBO, and
  hands the action to `process_strategy_action`.
- `LtControl` is one of the strategy's other calls.

### MarketDataReceiver, FeatureEngine, MarketMaker (operator modules)

- `MarketDataReceiver.tla` is the client's `BBO` record and `process_update`
  (`src/trading/src/market_data.rs`): `AfterAdd`, `AfterCancel`, `AfterTrade`
  and `Clear`, one operator per update type. `InvalidPrice` stands for
  `i64::MAX`. Unlike the publisher, a Cancel that empties the best level
  keeps its price, as spec 4.11 says.
- `FeatureEngine.tla` is `on_bbo_update` (`features.rs`). The f64
  arithmetic is exact: `imbalance` is a fraction `[num, den]`, and the EMA
  with alpha 0.1 is `(mid + 9 * fair_value) / 10`, rounded half away from
  zero as `f64::round` does. (Binary floating point can round an exact .5
  the other way; those cases are not distinguished.) `TradeSignal` is
  `calculate_trade_signal_from_features`: 0.7 times the clamped fair-value
  deviation over the spread plus 0.3 times the imbalance, clamped.
- `MarketMaker.tla` is `on_features` with `calculate_quotes`,
  `calculate_quantities`, `should_update_quotes` and `build_quote_pair`
  (`strategies/market_maker.rs`). Every `as Price` and `as Qty` cast
  truncates toward zero (`Trunc`).

### TradingMain and TradingSystem (`TradingMain.tla`, `TradingArgs.tla`, `TradingSystem.tla`)

`TradingMain` is the loop of `src/trading/src/main.rs`. `MainInit` builds the
strategy that `args.strategy` names, one of `StrategyArgs`. The other
`Option` stays None, which is `NoStrategy` in the model.
`phase` is the loop's program counter, and each stage is one action:

- `MdStage(arrived)`: `poll_and_process` folds every datagram that has
  arrived (`arrived`, as the network delivered them) through
  `process_update`. If any arrived, `on_bbo_update` runs, and for a
  valid BBO `update_market_price(mid)` runs on a position the keeper holds.
- `RespStage`: every response on the connection goes through the gateway's
  `poll` (`PollPending`) and main's match (`OnResponse`). A fill goes to the
  keeper and to the strategy's position; the liquidity taker also gets
  `on_fill`. Accepted adds `leaves_qty` to the
  open quantity; Canceled and CancelRejected remove it.
- `Strategy`: with valid features it creates the position, gates on
  `check_position`, and runs the strategy (`StrategyRun`). The market
  maker takes the features. The liquidity taker takes the features, a
  `now_nanos()` reading `now` from `Clock` (never earlier than the last),
  and the receiver's BBO. The action's legs are a quote's bid and ask, or
  a take's order (`Legs`). Each leg that
  `check_order` allows against the position read before the sends
  (`AllowedLegs`, `SendNewOrders`). CancelAll is a no-op in main.

`TradingArgs` holds what main builds before the loop: `Args` with their
defaults (`DefaultArgs`), the RiskManager's limits (`MainLimits`), and the
`MarketMakerConfig` and `LiquidityTakerConfig` built through their builder
methods (`MainMarketMakerConfig`, `MainLiquidityTakerConfig`).
`MC_TradingSystem` builds `TradingMain`'s `MMConfig`, `LTConfig` and
`Limits` constants from it, for `--max-order-qty 500 --max-position 500`. It is a separate module with no constants, so a model can
build those constants without going through an instance that substitutes
them.

Each of the first two stages drains its socket in one step. The exchange
only appends to the feed and the connection and never reads the client's
state, so a datagram that arrives during a drain is equivalent to one that
arrived just before it.

`TradingSystem` composes `TradingMain` with the `MatchingEngine` and the
`MarketDataPublisher`, driven as in the exchange main loop:

- `ServeClient` serves the client's next request, appends the response, and
  publishes the delta.
- `ServeOther` serves another client's new order (a side and price from
  `OtherQuotes`) or its cancel.
- `wire` is the feed. With `ReliableFeed` every send succeeds.
- The network between `wire` and the client's socket is best-effort
  (spec 4.8: duplicates and gaps are possible). `ClientStep`'s md stage
  takes the part of the feed published since its last drain and
  delivers it in order with any of its datagrams twice (`Deliveries`),
  up to `MaxFeedDups` duplicates in a run (`feed_dups`). `poll` never
  reads a sequence number (`last_seq` is dead), so every copy goes
  through `process_update`. Loss is not modelled: a lost Cancel leaves
  the client showing liquidity that is gone, which the spec accepts and
  leaves to snapshots, and the missing-demotion hazard keeps those from
  repairing it.

## 4. Runs

| Run | Config | Expect | What it shows |
|---|---|---|---|
| ob_invariants | `MC_OrderBook.cfg` | pass | `PoolAccounting` and `LevelAccounting` hold for every sequence of adds and cancels, and the book implements `AbstractOrderBook` (`AbstractSpec`) (97k states) |
| ob_chain | `MC_OrderBook_chain.cfg` | violation | `ChainWellFormed` fails after two adds at one level |
| exch_feed | `MC_Exchange.cfg` | pass | the publisher's top of book never exceeds the book (`TopOfBookSound`), and every snapshot carries the number of deltas sent before it (`SnapshotSequenceCountsDeltas`); the engine's delta stream replays its book (`FeedReplaysBooks`), and Canceled echoes the accepted order (`CancelEchoesAcceptedOrder`) (2.1M states under the view) |
| logger | `MC_Logger.cfg` | pass | `flush` always returns and every accepted entry is written, also across `drop`; the ring under it implements a bounded FIFO across the wrap of its counters and drains |
| logger_flush | `MC_Logger_flush.cfg` | violation | `flush` can return before an entry logged before it is written |
| pk_invariants | `MC_PositionKeeper.cfg` | pass | each position's realized plus unrealized P&L equals the cash its fills moved plus the position marked at the last price, except for the cost the truncating average dropped, through opens, adds, partial closes, full closes and flips on two tickers (`PnlConservesCash`) (2.0M states) |
| client_exchange | `MC_ClientExchange.cfg` | pass | `open_order_count` and the open quantities equal the tracked orders. The engine's and the gateway's pending orders agree (`TrackedMatchesGateway`). Every cancel is answered (`CancelResolves`), and every market update is consumed while the engine runs (`UpdatesConsumed`). (107k states, about 1.5 min) |
| client_risk | `MC_ClientExchange_risk.cfg` | violation | the client's resting exposure exceeds `max_position` (`RiskLimitBoundsExposure`) |
| trading | `MC_TradingSystem.cfg` | pass | with main started as either strategy, main's open quantities equal the client's resting orders up to the responses not yet polled (`OpenQtyMatchesBook`); a BBO side the client shows with quantity is held by the published feed, with nothing better, even when the network delivers a datagram twice (`ClientBboSound`): an Add overwrites the qty at an equal price and a Cancel saturates at 0, so a duplicate can only lower what is shown (2.1M states) |
| trading_risk | `MC_TradingSystem_risk.cfg` | violation | a requote sent before the first quote is acknowledged takes the client's outstanding buys past `max_position` (`ExposureWithinLimit`) |
| order_server | `MC_OrderServer.cfg` | pass | the bytes each connection has read, parsed and buffered are exactly the records its socket wrote, across reads that split records (`StreamsFramed`); every response goes back on the socket whose request it answers (`ResponsesReachSender`); every request written is eventually sequenced unless its connection was refused or the exchange stopped (`AllRequestsSequenced`) |
| order_server_short | `MC_OrderServer_short.cfg` | violation | after one short send by a client, the server sequences a request that client never wrote (`RequestsWereWritten`) |

### What the violations mean

**The chain (spec §9 already notes this).** The second add at a level leaves
the first order's `next` as None. Cancelling the head of that level then sets
both `head` and `tail` to None while `order_count` is 1. `next` is never set to
anything but None, so the cancel never writes into a live order. Accounting,
the pool and the FIFO refinement all still hold. The damage is confined to the
links a future `match_order` would walk.

**The requote before the acknowledgement.** main adds an order to the
position's open quantity only when it polls the Accepted response
(`main.rs:242`). The spec's order lifecycle adds it at send time (4.11,
`submit_order` step 3). TLC's trace (one unit = 500, `max_position` one
unit):

1. The other client's bid and ask give a valid BBO.
2. The market maker quotes a bid and an ask. The exchange has not served
   them yet.
3. The other client's new order moves the fair value by the requote
   threshold (10).
4. The next iteration polls no Accepted, so `check_order` still sees open
   quantity 0 and passes a second bid.

The market maker never cancels, so both bids can rest, and the client's
exposure is 2 units (1000 against `max_position` 500 in the model's
units of 500).

**The cross-client cancel.** `send_cancel` puts the gateway's local id in
the cancel, but the exchange cancels by market id, with no owner check (spec
4.5; scenario S3 cancels with the market id). TLC's trace:

1. The other client's order gets market id 1.
2. This client's sell, local id 1, becomes market id 2.
3. The client cancels local id 1. The exchange cancels market id 1, the other
   client's order, and answers Canceled with client_order_id 1.
4. The engine drops local id 1 from its tracking and open quantity, though
   it still rests.
5. The risk check now lets a second sell through, and two sells rest against
   `max_position` 1.

**Observations without a run.** These behaviours surprise a reader, but the
spec prescribes them, leaves them open, or documents them as a
simplification. They are hazards in `PROJECT.json`, not runs:

- A Cancel delta carries the book's priority, the Add delta the market id
  (spec 4.5 prescribes both).
- A snapshot reports the last order's qty at the best price, not the level's
  total (spec 4.11 prescribes the overwrite).
- The average open price is truncated, so after sell 1@9 and sell 1@10 the
  unrealized P&L at 10 is -2 while the fills earned -1.
- The client's BBO keeps the price of an emptied best level (spec 4.11), while
  the publisher forgets it. After sell 1@100, its cancel and sell 1@300, the
  publisher tracks ask 300 and the client still shows 100 with quantity 0,
  ignoring 300 and any snapshot of it. Spec 4.7 calls the two rule sets
  identical and snapshots the recovery mechanism.

**The short send.** The gateway's socket is non-blocking (`connect`,
`order_gateway.rs:57-69`) and `send_new_order` ignores what `send` returned
("ignore partial sends", `order_gateway.rs:104`). Spec 4.6 expects the
server to resync on a bad record by skipping a byte, but `from_bytes` is
zerocopy's `ref_from` on a packed struct and never fails on a full-size
slice, so the resync never runs. TLC's trace (`RecordSize` 2):

1. Socket s1 connects and is accepted.
2. Request 1 is sent, but only its first byte reaches the wire.
3. Request 2 is sent whole.
4. `poll` cuts a record from request 1's first byte and request 2's first,
   and hands the engine a request no client wrote. Every later record on
   the connection is misframed the same way.

**The flush race.** `writer_loop` checks `flush_requested` after its drain.
An entry logged, and a flush requested, between the writer's last empty pop
and that check is still queued when `flush_complete` is stored.

## 5. Bounds and why they are enough

**OrderBook** (`MC_OrderBook.tla`):

- 1 ticker, 1 client, ids {1,2,3}, 1 price, quantity 1 (the refinement
  check is temporal and grows fast with more quantities).
- A pool of 3 slots and at most 5 successful adds (`MaxAdds`).
- This reaches the following:
  - a full pool and a rejected add;
  - a duplicate id;
  - slot reuse after a cancel;
  - cancels at the head, the middle and the tail of a 3-order level;
  - both sides.
- `QtyModulus` stands in for 2^32, which TLC cannot represent. The invariants
  run uses 2^16, which its quantities never reach. The u32 wrap of
  `total_qty` is listed as a hazard, without a run.

**Exchange** (`MC_Exchange.tla`): 1 ticker, prices {10,11}, quantities
{1,2}, pools of 2, market ids 1..3, `SnapshotInterval` 2. Two prices make
better and worse adds and a cancel of the best; two quantities make partial
cancels; interval 2 makes a snapshot round follow every second sent delta,
with failures inside the round. The engine's properties are checked here:
a pool of 2 with ids 1..3 burns an id on exhaustion and reuses a slot after a
cancel under a fresh id. With one ticker the id counter is not seen shared
between two books; two tickers with the publisher do not finish within the
run's time. `VIEW StateView` keeps `resp` only when it is a Canceled
response, the one `CancelEchoesAcceptedOrder` reads; every step writes
`resp` and no step reads it.

**Logger** (`MC_Logger.tla`): a ring of 2 slots with counters modulo 4 and
4 log calls, enough for the counters to wrap (four accepted entries), a full
ring and a dropped entry, distinct entries to tell FIFO order apart, a flush with entries pending and one with the
queue empty, and a drop with entries still queued.

**OrderServer** (`MC_OrderServer.tla`): 2 sockets, 3 requests each of 2
tokens (`RecordSize` 2 stands in for the 42 bytes of a `ClientRequest`).
Two tokens are the least that let a read end inside a record; three
requests let one read take a record and a half and the next complete it.
Two sockets make the sequencer interleave two connections, a refused
connection beside an accepted one, and routing where the ids differ from
the declared `client_id`. With 3 sockets safety alone takes over 2 minutes.
The short-send run uses the same bounds: two tokens are the least that let
a send stop inside a record, and a second request is what the torn one
misframes.

**PositionKeeper** (`MC_PositionKeeper.tla`): 2 tickers, prices {9,10,11},
fill sizes {1,2}, 3 fills per ticker. Three fills of 1 or 2 reach opening,
adding (a re-averaged price), partial and full closes, and flips in both
directions, with market prices in between on either ticker.

**ClientExchange** (`MC_ClientExchange.tla`):

- 1 ticker, prices 9..16, quantity 1, pools of 2.
- Market ids 1..4, local ids 1..3, and at most 2 records in flight on the
  connection.
- `max_events_per_cycle` is 1, so a response always takes the whole budget
  and the market data waits for the next cycle.
- Limits: `max_order_qty` 1, `max_position` 1, `max_open_orders` 1. The
  second leg of a quote is therefore rejected by the open-orders check
  whenever the first was accepted.
- The caller hands over a quote pair (bid 10, ask 15) or a CancelAll.
- The other client's orders (at 14 or 15) move the BBO. With those prices the
  fair value lags the mid and the liquidity taker's sell branch sends a
  take. Its buy branch, the code's mirror image, is not reached under these
  prices.
- The liquidity taker's clock runs to 2. Its minimum interval of 2 and
  cooldown factor of 2 make the rate limit both refuse and allow.
- A client order is only sent while a market id is left for it (`IdsLeft`),
  so the bound never stops the exchange from answering a request already
  sent.

**TradingSystem** (`MC_TradingSystem.tla`):

- 1 ticker, one quantity (500), pools of 3, `SnapshotInterval` 1000
  (exchange main's value; no snapshot round happens within the bound).
- main's own parameters: half spread 50, `max_order_qty` 500, and
  `max_position` 500. `max_order_qty` is the `base_qty` of both
  strategies. The other config values are their defaults, including the
  liquidity taker's `max_qty` of 500 and signal threshold of 0.3. With
  `base_qty` = `max_qty`, a scaled take is 500 and passes `check_order`.
  With `--max-order-qty 1`, every take above the threshold is scaled past
  1 and rejected, and the model's taker then sends nothing. This is listed
  as a hazard.
- Pass run: `StrategyArgs` is both strategies. The other client bids 100
  or 200 and offers 300, so a bid at 200 moves the mid 45 above the fair
  value and the taker sells. `Clock` is {1, 300000001}: a first reading,
  and one past the cooldown.
- Network duplicates: `MaxFeedDups` 1 in the pass run, so any one
  datagram of a run (an Add, a Cancel, either side, before or after the
  client's orders) may be delivered twice; a second duplicate adds no
  new kind of step, only length. The risk run keeps 0: its violation
  does not involve the feed.
- Risk run: the market maker only. The other client quotes 100 or 300 on
  either side, which moves the fair value by the requote threshold.
- Market ids: 1..4 for the pass run (2.1M states, about 2.5 min). That covers
  the other client's quotes and one quote pair or take of the client, or
  other interleavings of four orders. A second take needs a market move
  after the first, so 1..6, which is out of reach (more than 25M states).
  The risk run needs 1..7: two orders of the other client, two quote pairs
  and the order that moves the market.
- A quote pair is sent only while two market ids are left (`IdsLeft`), so
  the exchange can serve every request already sent.

`MaxAdds`, `MaxOrderId`, `MaxLocalOrderId`, `MaxInFlight` and `MaxFills` are
model bounds on counters that are unbounded (u64)
in the code.

## 6. Fairness

The book, the engine, the publisher and the exchange loop are sequential
handlers driven by their caller: nothing obliges a request to arrive, so they
have no fairness and no liveness property.

- **Logger** (and the ring under it): weak fairness for the writer thread,
  which runs `writer_loop` until shutdown and so keeps popping, and for the
  client's steps inside `log`'s push, `flush` and `drop` (a
  thread inside a spin loop or a join keeps running). The client is not
  obliged to log, flush or drop. After `drop` the system stops, so the logger
  runs disable the deadlock check.

- **OrderServer**: weak fairness for the main loop's iteration, which
  polls continuously while `running`. It is written out as
  `[]<>~ServeLoopEnabled \/ []<><<ServeLoop>>_vars`; `ServeLoopEnabled`
  holds when the backlog is not empty or a connection has bytes or is at end
  of stream, exactly when an iteration changes the state. The clients are
  not obliged to connect, write or close. After Ctrl-C the exchange stops,
  so the run disables the deadlock check.

- **ClientExchange**: weak fairness for the exchange serving this client's
  connection (the main loop polls every connection on every iteration) and
  for `run_cycle`, which the caller calls on every iteration of its loop.
  - The fairness for `run_cycle` is weak fairness written out:
    `[]<>~RunCycleEnabled \/ []<><<RunCycleStep>>_vars`.
    `RunCycleEnabled` is `running` and a budget that admits at least one
    event (`CycleResponses + CycleUpdates > 0`). That is exactly when a
    cycle changes the state, and TLC evaluates it faster than `ENABLED`.
  - The caller is not obliged to start, stop, submit or cancel. Once its
    local ids are used up it may sit idle, so the run disables the deadlock
    check.

- **TradingSystem**: weak fairness for the exchange serving the client's
  connection and for the client's loop, which runs until shutdown. The other
  client is not obliged to act. No liveness property is checked yet, and
  the runs disable the deadlock check: once the market ids of the model are
  used up, the client's loop idles.

## 7. Not modelled, and why

- **Properties that would restate one line of code.** The model does
  not check these separately, because each follows from a single
  assignment or guard:
  - market ids never repeat (`next_order_id += 1`, matching_engine.rs:108);
  - the position is the signed sum of its fills (position.rs:57-63);
  - the cached total P&L is refreshed (position.rs:195, 202);
  - the open-order count stays within `max_open_orders` (the guard at
    risk.rs:156 runs before the only increment);
  - the trade signal stays in [-1, 1] (the clamp at features.rs:229).
  `PnlConservesCash` covers the P&L arithmetic, and
  `OpenCountMatchesTracked` covers what the open-orders guard reads.

- **`TradeEngine::reset` and `update_bbo`.** `reset` is a recovery path
  that no caller in the repository takes on a running engine. `update_bbo`
  is a test hook that bypasses the feed.
- **`StrategyAction` and `OrderRequest`** come from `strategies/mod.rs`,
  which is not in the repository. They are modelled from the spec.

- **Byte-level encoding** (`protocol.rs`). Messages are records, because the
  properties concern their fields, not their layout.
- **The multicast wrapper and the time utilities.** They are I/O only;
  what the network does to datagrams (duplication) is modelled in
  `TradingSystem`, and datagram loss is left out as explained there.
  `LatencyStats` in the time utilities has no caller. Of the
  TCP wrapper only what `OrderServer` needs is modelled: a connect, a
  record written whole or (with `ShortSends`) cut short, a close, and a
  non-blocking read of any prefix.
- **Partial sends of responses, `broadcast` and `disconnect_client`** of the
  order server. `send_response` is modelled as delivering the whole record or
  nothing (a closed connection); `broadcast` and `disconnect_client` have no
  caller in the repository.
- **The benchmarks and integration tests.**
- **`match_order`.** It is an empty stub.
- **`get_order`.** It always returns None.
- **`OrderBook::cancel_order` calling `deallocate_by_index`.** No such method
  exists in `MemPool` (the code as given does not build). Its intended effect,
  pushing the index back onto the free stack as `deallocate` does, is what
  `Deallocate` models.

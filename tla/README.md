# A TLA+ model of the trading server

The repository holds several programs. The one this project models is the
**trading server** of `src/backtester-api`, with `src/data` and the Tradier
worker of `src/eventconsumers`: clients open *playgrounds* (simulated or live
trading accounts), place orders in them over gRPC and are told about new
trades; and the **Python trading engine** of `src/cmd/stats`, the client that
trades on it. Paths below are relative to the repository's root.

## 1. Inventory

| Component | State it keeps | Operations | What is hard about it |
|---|---|---|---|
| gRPC server, `src/backtester-api/router/grpc.go` | none but the request cache | PlaceOrder, NextTick, DeletePlayground, playground creation, reads | requests run concurrently; retries with the same id |
| Database service, `src/data/{database_service,service,in_memory}.go` | rows in Postgres; `playgrounds`, `ordersCache`, `tradesCache` in memory; one mutex `mu` | PlaceOrder, Cancel/RejectOrder, SaveOrderRecord, the Fetch functions, LoadPlaygrounds | two copies of every order; several transactions per operation; restart |
| Live playground, `models/playground.go`, `backtester_account.go` | `Orders`, `PendingOrders`, `NewOrders`, position and open-order caches, balance | placeLiveOrder, CommitPendingOrder, Cancel/RejectOrder, ResetStatusToPending | used by three goroutines under different locks |
| Orders and trades, `models/order_record.go`, `trade_record.go` | status, `Trades`, `ReconcileTrades`, `Reconciles`, `ClosedBy` | Fill, Reject, Rollback, IsFilled | an order is filled when the trade volumes add up |
| Reconcile playground, `models/reconcile_playground.go`, `live_account.go` | a playground of its own, shared by all live playgrounds of an account | PlaceOrder: split on the position, send to the broker | an order against the position becomes two orders, filled apart |
| Order queue services, `services/order_queue.go` | none | UpdateTradierOrderQueue, DrainTradierOrderQueue, UpdatePendingMarginOrders | every result is reported repeatedly and applied in two hops |
| FIFO queue, `src/eventmodels/fifo_queue.go` | a bounded channel | Enqueue (blocks), Dequeue (does not) | full queue |
| Tradier worker, `eventconsumers/tradier_api_worker.go`; live order loop, `router/handler.go` | - | the two goroutines that run the services, for ever | they never hold a lock for a whole round |
| Request cache, `models/request_cache.go` | per request id: a mutex and a result, for 5 minutes | GetData, StoreData | concurrent requests with one id, expiry |
| Simulator playground, `models/playground.go`, `utils.go` | the same account; open orders cache, positions cache, balance, clock | placeOrder, simulateTick, commitPendingOrders, fillOrder, liquidations | a placement is two lock sections with ticks between; three books of the same trades; closes asked for twice; liquidations have no id of their own |
| Candle repositories and clock, `models/candle_repository.go`, `clock.go` | candles, a position, next update time | Update, AppendBars | the worker appends while requests read |
| Trading engine, `src/cmd/stats/trading_engine.py`, with `simple_stack_{open_strategy_v1,close_strategy}.py`, `base_open_strategy.py` | candles, close signals of an iteration | one loop: close, open, tick | every call may fail; signals computed before others of the iteration are handled |
| Playground client, `src/cmd/stats/backtester_playground_client_grpc.py` | the account as last fetched, current candles, a buffer of tick deltas | place_order, tick, network_call_with_retry | a repeated call may run twice; the account may be old |
| Broker (Tradier), external | orders and their status | place, fetch | answers late, repeatedly, and not always finally |

An order's way through them:

```
client --PlaceOrder--> live playground --split--> reconcile playground --> broker
                        |  (behind another pending order: NewOrders)         |
                        |                                                    | status
 newTradesQueue <-- UpdatePendingMarginOrders <-- database <-- Drain <-- update queue
                        |                                       ^            ^
                        +-- places waiting orders               handle-      UpdateTradier-
                                                                LiveOrders   OrderQueue
```

What makes each part correct: an order settles (filled, rejected or canceled)
in both copies; a fill exists only because the broker executed it, enters its
order once and the position with it; the shared reconcile position is the sum
of the playgrounds' positions; at most one order of a playground is on its way;
nothing final is undone, not even by a crash between two saves; a client hears
of its own trades and of all of them; a repeated request runs once; no two
locks are taken in opposite orders. In the simulator: the three books agree, no
order is closed beyond its volume, a tick restores the margin. In the engine:
no order stays open beyond its stop or against the trend, the stack does not
grow past its limit, and the program ends.

`PROJECT.json` lists every component, also those not modelled, and under
`hazards` the lines where this can go wrong. The older programs of the
repository (the Slack trading bot and its event bus, the EventStoreDB consumers,
indicators, command line tools, generated protocol code) do not touch these
paths and are not modelled; see "Not modelled" below.

## 2. The modules

| Module | What it is |
|---|---|
| `LiveTrading` | the live-order path: state, one action per step, `Spec` and `FairSpec` |
| `LiveTradingProperties` | what it promises: types, invariants, action properties, liveness, refinement |
| `OrderBook` | the abstract specification: a client's view of a live playground |
| `SumTheorems` | lemmas on sums over finite sets, which the other proofs use |
| `LiveTradingProofs` | theorems of `LiveTrading`, checked by TLAPS: types, where fills come from, when orders are split |
| `OrderListProofs` | the theorem on the account's three lists |
| `StoredOrderProofs` | what the database holds as final, and the books |
| `OrderBookProofs` | `LiveTrading` implements `OrderBook` |
| `MCLiveTrading` | the instances TLC runs |
| `TickRequests` | the requests of `NextTick` and their `RequestCache`: state, actions, properties, inductive invariant |
| `TickRequestsProofs` | theorems of `TickRequests` |
| `MCTickRequests` | its instance for TLC |
| `Simulator` | a simulator playground: placements, ticks, the account's books; properties |
| `SimulatorProofs` | theorems of `Simulator` |
| `MCSimulator` | its instance |
| `TradingEngine` | the engine, its stack strategies and client, composed with `Simulator` |
| `TradingEngineProofs` | theorems of `TradingEngine`, on those of `SimulatorProofs` |
| `MCTradingEngine` | its instance |

### How LiveTrading corresponds to the code

State. `dStatus`, `dTrade`, `dApplied` are the rows of `order_records` and
`trade_records`; `mStatus`, `pendingQ`, `newQ`, `doneQ`, `mTrade`, `applied`,
`linked`, `pos` are the order objects, the account's three lists and the
position caches; `cached` is `DatabaseService.ordersCache`. `broker` is the
status `FetchOrder` reports, `events` the update queue. A leg is the reconcile
order of a live order: `<<o, 1>>` and, if the order was split, `<<o, 2>>`.

Processes. A `PlaceOrder` request holds `DatabaseService.mu` from start to end,
so one is under way at a time; the worker calls the same `placeLiveOrder` with
neither lock, so `ppc`, `pord`, `psend` exist per caller. `Worker` is
one round of `updateTradierOrderQueue`: poll every leg that was pending when the
round began, bring every pending live order up to date, place the waiting
orders. `Drain` is `handleLiveOrders`. A handler is cut where it lets go of one
copy before it has written the other, so other processes and crashes come in
between:

* `DrainFill`, `DrainClose` and `ApplyTrade` change memory, `DrainSave` and
  `SaveApplied` write it.
* A fill of a leg that is not pending, nor its order, goes through `ResetRow`
  for the leg, `ResetRow` for the order (each row is saved by itself; either save, and the
  commit of the transaction around them, may fail), `ResetRecords` and
  `FillAfterReset`.
* For a pending order the worker takes `ReadTrades` (the stored trades),
  `FindPlayground`, then, without a trade, one `LookAtLeg` per leg the orders cache has.
  Nothing is locked over these. A leg found rejected or canceled (`verdict`) leads to
  `DatabaseService.RejectOrder` or `CancelOrder`: `CloseRow` writes the status
  with `s.db`, which commits by itself, and `CloseRecord` stores the reason and
  changes memory, or fails to store it and leaves memory alone. Between them
  `mu` is held.

A `todo` set stands for the slice a loop runs over, in any order; the database
promises none.

Locks. `MuFree` guards the steps that look a playground up under `mu`;
`placeOrderMutex` is the condition on `wpc = "save"` in `PlaceOrder` and its
counterpart in `ApplyTrade`. Locks inside one step are not modelled.

Faults. `Crash` ends the process anywhere and restarts it from the database, as
`LoadPlaygrounds`, `NewBacktesterAccount` and `UpdatePositionCachePositions` do
(the `log.Fatalf` of the drain is such a crash); a transaction, a single save or
update, or a leg at the broker may fail; a leg may be filled after it was reported rejected
or canceled. `budget` counts them.

### Abstractions

* One symbol; the opening sides `buy` and `sell_short`. Closing orders
  (`getCloseByRequests`, open volume), adjustment orders, prices, balances and
  margin are left out. No money is modelled.
* The broker fills a leg whole, so a leg has at most one trade and the trade is
  named after it. A live order has one trade per leg.
* After a restart `Reconciles` holds copies loaded from the database; `linked`
  is then empty, which is what decides whether `RejectOrder` of a leg reaches
  the live order's own record. Where a copy's own status is asked for
  (`IsPending`), it is taken to be that of the record.
* After a restart, closing such a leg also saves the loaded copy's row of the live
  order. The model leaves that save out; for orders of one leg it writes what
  is stored already.
* Reads of the database and price look-ups that fail, and Go's slice aliasing
  are left out.
* The queues to the clients, `newTradesQueue` and `invalidOrdersQueue`, have no
  bound and are not emptied (`delivered`); see "Fairness".

### How TickRequests corresponds to the code

A client whose `NextTick` fails repeats it with the same request id
(`network_call_with_retry`), perhaps while the server still works on the first
call. `Calls` are the calls the server receives, `IdOf` their ids, `pc` the place
of a call's goroutine. `LookUp`, `Insert` and `Lock` are the steps of the
goroutine in `GetData`, `Tick` is `Server.nextTick`, which may fail, and `Store`
is `StoreData`, run on every way out of the handler. An entry is a
`RequestCacheItem`, named after the call that made it: `locked` is its mutex,
`data` its result. `Store` looks the id up again, as the code does, so it may
meet another entry than the call began with; unlocking one that is not locked is
`panicked`, the end of the server. What a tick computes is left out: a result is
named after the call whose tick it is.

Two assumptions are explicit:

* `Arrive`: a client waits for an error or its time-out of 180 seconds, and then
  at least two seconds, before it repeats an id, so that two look-ups of an id
  do not overlap. The server itself has nothing against that race (look-up and
  insertion are two steps).
* `SlowTicks = FALSE`: an entry does not expire, five minutes after its
  insertion, under a call that uses it. Expiry at any other moment is in the
  model.

### How Simulator corresponds to the code

An order is named by its place in the sequence of ids (`OrderNonce`), so the
slices the code appends to are sets, except `account.Orders`, whose order
matters for the cost basis. `order`, `status`, `traded`, `closed` are the fields
of an `OrderRecord` (its one trade is its price; `closed` the volume of
`ClosedBy`); `open` and `position` are `openOrdersCache` and `positionCache`;
`news` collects the delta a tick will return.

`CheckOrder` is `makeOrderRecord` up to the end of `placeOrder` and `QueueOrder`
the commit of its changes, under the same `DatabaseService.mu` but in another
section of the account's mutex. A tick is `BeginTick`, a `Commit` per pending
order, `CheckMargin`, `Liquidate` as long as needed and `Advance`; it keeps
the mutex, so no placement comes between its steps, but it may come between the
two halves of a placement. `Ledger` recounts the positions, as the code
does from all orders before it handles the next one. A liquidation is queued and
filled in one step, since the other pending orders are gone by then.

* One candle repository per symbol, one candle per tick; `tick(0)` fills orders
  without moving the clock. `Closes` says which prices may come next.
* Market orders of equities at the candle's close. Money is counted in
  `1/Unit`, with a unit that all averages of the instance divide.
* `validateCache` is not an action: it compares the two caches, which never
  differ (`BooksAgree`), so the roll-back behind it is never reached.

### How TradingEngine corresponds to the code

`TradingEngine` extends `Simulator`: the engine's steps are the only source of
its placements and ticks, and the two modules' actions are conjoined (`Place`
with `CheckOrder`, `Answered` with `QueueOrder`, `Tick` with `BeginTick`).
`pc` is the place in `run_strategy`: `close` (ask the close strategy),
`closing` (the loop over its signals), `open`, `size`
(`calculate_new_trade_quantity`), `place` and `queue` (the two halves of
`PlaceOrder`), `tick`, `ticking`, `reply`. `job` is the call being made: a
close, the close of the whole position, an opening order, or the iteration's
own tick. The strategies are operators: `CloseSignals` from the open orders and
the candle, `Trend` and `Stack` from the candles so far. Supertrend direction
and line are part of a candle. `plan` is an opening order's stop and tag;
`meant` and `late` only serve properties.

Faults. A call fails for good (`GiveUp`), or the reply of a `PlaceOrder` is lost
after it was done (`ReplyLost`), and the client asks again: the look-up of the
client request id reads the database, where simulator orders are not.
`NextTick` is repeated too, but answered from the request cache; that is
`TickRequests`, and an atomic call here.

* The initial tick brings no candle, hence `fresh`. The loaded history holds a
  change of direction, and the oldest candles falling out of the deque are
  ignored.
* Calls are quick: no signal is dropped for its age. A refused order that the
  client repeats uses several ids; the model uses one.
* The balance is ample, so that margin never decides; `size` may fail at any
  time instead, and otherwise picks any of `Quantities`.

### OrderBook and the refinement

`OrderBook` has no legs, broker, database or queues: an order is waiting or
worked, only one per playground is worked, it fills in parts of its own sign
never beyond its quantity, each part moves the position, and it is filled when
nothing is left. `KeepsTheBook` is `Spec` of that module under the mapping
`status <- BookStatus(mStatus)`, `filled <- FilledVolume`, `position <- pos`.
It needs the four copies of an order's progress to move in step, and it is
violated when a trade is taken beyond the quantity, when a fill and the position
part, or when anything brings a settled order back. It holds while nothing crashes
and the broker takes nothing back; a late fill does reopen a rejected order, which
the code does on purpose (`fillPendingOrder`'s reset).

## 3. What the runs check

All instances have quantities 1 to 3, an update queue of 2 (999 in the code, so
that the worker does block on it) and two orders; three where a race needs a
third. Two orders are enough for everything that depends on an order and a
rival of the same or another playground.

| Run | Instance | Asks |
|---|---|---|
| `LiveNormal` | one playground, orders of 1 and 2, any answer of the broker, one failing send | `TypeOK`, `OneInFlight`, `BooksAgree`, `FilledByItsLegs`, `KeepsTheBook`, `FilledIsFinal`, and with fairness `FillIsDelivered` |
| `LiveRecovery` | the same with two crashes | `FillsAreBacked`, `OneQueue`, `BooksAgree`, and with fairness `OrdersSettle` |
| `LiveLateFill` | the same orders, one crash, one database failure, one late fill | `FillProvenance`, `StoredEndIsRemembered`, `StoredFillIsFinal`, `BooksDifferByMissedFills` |
| `LiveTwoPlaygrounds` | two playgrounds on one side, one of them deleted, a database and a send failure | `BooksAgree`, `KeepsTheBook` |
| `LiveTwoLegs` | two playgrounds on opposite sides, 2 sold and 3 bought: the buy is split, its first leg is offered twice and refused once it exceeds | `OneQueue`, `KeepsTheBook` |
| `TickRetries` | one request made three times, another made once; two ticks fail, one entry expires; with fairness | `OneTickAtATime`, `SameResult`, `NeverPanics`, `TickInv`, `EveryCallReturns` |
| `SimulatorAccount` | two symbols, four user orders (longs, shorts, partial and whole closes, one by id), ticks that move the clock or not, a balance that one of two price moves exhausts; with fairness | `TypeOK`, `BooksAgree`, `OneSide`, `NoOverClose`, `ToldOnce`, `MarginRestored`, `HistoryStands`, `TickEnds` |
| `EngineRuns` | a backtest of four ticks over candles that let a stack of two be built in either trend, hit its stops or turn, order sizes 1 and 2, two lost replies or failing calls; with fairness | `EngineTypeOK`, `StackLimit`, `ClientKnows`, `StopsHonoured`, `DiesOnlyOfFaults`, `CloseHitsItsOrder`, `TrendFollowed`, `EngineEnds` |

`LiveLateFill` has the largest instance, 2.1 million states; `LiveTwoPlaygrounds`
has 0.25, `LiveRecovery` 0.2, `EngineRuns` 0.14 million, the others less. One late fill is
enough to reopen an order while the worker is about to close it, with a crash or a
failed write on either side of that; a second one repeats it.

In `SimulatorAccount`, four orders are what it takes to open, close partly, close
the same order again from behind a pending close, and liquidate both
symbols. In `EngineRuns`, two orders and a full stack are enough for signals to
get in each other's way, and two faults for a duplicate of a duplicate or a
failed close followed by another failure; 14 ids are never all used.

In `TickRetries`, three calls of one id are a first call, one that waits for it
and one that waits while the second runs the tick after the first failed; the
fourth call shares the cache and its expiry.

Each property has a mutant of the code (`Slip...`, a definition
with one programming mistake) that TLC refutes under the run's own
configuration: no check of an already filled leg, the wrong list in the pending
check, memory read instead of the database, a
missing position update, a filled test with `<=`, a dropped limit check, a
rejected leg taken for a canceled one, an order closed in
the database alone, the wrong trades delivered, an order left in two lists; in
`TickRequests`, no mutex, a result that is not kept, a mutex that stays locked.

### Where the code differs from what it says

Four runs state what a test or a comment of the repository says and end in a
violation.

* `LegFilledTwice`: the test of the split order (`order_queue_test.go:377`,
  `:386`) expects one trade per leg. `UpdatePendingMarginOrders` means to skip
  the trades an order already has, but `FetchPendingOrders` does not load them,
  so the first leg's trade is applied on every poll. With legs of equal size
  the order is filled by the first leg alone; with unequal ones a repetition may
  exceed the order and reject it in memory.
* `PlacementRace`: "no pending orders, place the order" (`playground.go:1818`)
  is decided before and committed after a stretch in which the other caller of
  `placeLiveOrder` can decide the same.
* `ForeignTrades`: the test (`order_queue_test.go:280-281`) expects a
  playground's queue to hold its own trade and no more; `newTrades` accumulates
  over all playgrounds of a poll.
* `TakeProfit`: "TP that would yield the desired reward"
  (`simple_stack_close_strategy.py:80`) adds the reward to the average entry
  also for short orders, and the caller then asks for a price *below* that. A
  full stack of shorts is closed as a profit at once, at any price below that wrong target.

### Known limits of the promises

These are behaviours of the code that bound where a property is checked.

* After a database failure in `SaveOrderRecord` of a fill, the row stays pending
  until a restart: `OrdersSettle` is checked without database failures.
* `DatabaseService.RejectOrder` opens a transaction but makes its two updates with
  `s.db` instead of `tx` (`database_service.go:1186`, `:1190`), and changes memory
  after them. If the first succeeds and the second fails, the row is rejected for
  good, and a record that was still pending stays pending: polls only take up
  pending rows. `StoredEndIsRemembered` allows for it, and for the crash
  between the two; after the crash the restart puts the copies right.
* A crash between `SaveApplied` and `FinishOrder` loses the notification:
  `FillIsDelivered` is checked without crashes.
* A failed transaction of the worker leaves an order pending in memory and new in
  the database. If another order of its playground is pending too, as after the
  race of `PlacementRace`, the next poll puts it into `NewOrders` while it still
  is in `PendingOrders`. With a late fill two orders are enough for that. `OneQueue`
  is checked and proved without failing transactions.
* For the same reason `KeepsTheBook` is proved for runs without failing
  transactions: that order was at work and is waiting again. After a crash an
  account may have two orders pending, so `OneInFlight` is about runs without one.
* If one leg of a split order is rejected and the other fills, the books do not
  agree (the TODO at `playground.go:764` says so): `BooksAgree` is checked
  on orders of one leg.
* A late fill can part the books for good. The worker reads no trade for an order,
  and its leg's status as rejected; the leg is reopened and filled by the drain;
  then the worker rejects the order on what it read. The reconcile position
  holds the fill and the live order will not take it. The same happens when the worker's row
  is written between the drain's reset of rows and of records, and after a crash that
  loses the end of the leg but not that of the order. `BooksAgree` and
  `OrdersSettle` are therefore checked, and `BooksAgree` proved, without late fills;
  with them `BooksDifferByMissedFills` says that such fills are the whole
  difference, and `StoredEndIsRemembered` how far the copies of an order part: memory
  pending where the row is rejected or canceled.
* A restart does not load a deleted playground, whose position is then missing
  from the sum: the theorems about the books exclude crashes together with
  deletions.
* A waiting order of a deleted playground ends every poll at
  `order_queue.go:127`; orders fetched after it are not placed in that poll.
* With `SlowTicks = TRUE` TLC refutes `OneTickAtATime`, `SameResult` and
  `NeverPanics`: the entry of a tick that runs longer than five minutes expires,
  a repeat inserts a new one and runs the tick beside it, the first call's
  `StoreData` unlocks the new entry, and the repeat's then unlocks an unlocked
  mutex. Nothing in the repository says how long a tick may take, so this
  is not stated as a finding.
* `SameResult` is about one entry. A request repeated after its entry expired
  runs its tick again.
* The tick that completes a backtest drops its trades and liquidations
  (`playground.go:1317`): `ToldOnce` ends with the clock.
* A liquidation has id 0, the id of the first user order. Once there is one,
  order 0 can no longer be closed by its id (`checkPendingCloses` finds the
  liquidation and refuses); `place_order` does not even send the id 0, and then the
  oldest order is closed. That is order 0 itself as long as no call failed, which
  is what `CloseHitsItsOrder` says.
* The take-profit volume of an iteration is the total of all open orders. If
  another order is closed first (by its stop), the total does not fit any more,
  is refused, and one order of the old trend may stay for an iteration more
  (`TrendFollowed`: for one only). While it is there, the engine may hold more
  than `max_open_count` orders: `StackLimit` counts those of the present trend.
* A lost reply places an order twice: `StackLimit` allows one more order per lost
  reply.
* `StopsHonoured`, `TrendFollowed` are about runs in which no call failed: a
  close that fails is not tried again before the next candle.

### Fairness

`FairSpec` assumes weak fairness of `Drain` and of `Worker` (two goroutines that
loop for ever: `handleLiveOrders`, `TradierApiWorker`), of `Placement(c)`
(a request, once begun, runs on) and of the broker's decision (the orders are market
orders). Clients owe no request, and no fault ever has to happen. Clients that trade live
are, however, taken to tick: `UpdatePendingMarginOrders` enqueues on a playground's
`newTradesQueue` and `invalidOrdersQueue` (999 entries each,
`database_service.go:866-867`), and once one of them is full the worker blocks
until the client's next tick empties it. `OrdersSettle` and `FillIsDelivered`
are about runs in which that does not happen.
In `TickRequests` every received call is a goroutine that runs on (`Handle(c)`).
Weak fairness is enough for the mutex: a call locks an entry once, so with
finitely many calls of an id the mutex is free for good in the end.
In `Simulator` only `TickStep` is fair: a tick that has begun is one call of one
goroutine. The engine is one thread that goes on until it ends, so `Engine` has
weak fairness of `Step` as a whole; no branch of it, and no fault, is forced.

## 4. What is proved

Every theorem holds for any value of the constants that the named assumptions
of the modules allow (any playgrounds, orders, prices, candles, fault bounds);
TLC evaluates the assumptions in every run. `LiveTrading`'s asks, besides
types, that playgrounds and orders be finitely many, since the model adds
their positions up. Hypotheses beyond that are in the theorems and explained
here. No theorem is about liveness, which TLAPS cannot prove under fairness.

### Live orders

`LiveTradingProofs`, with any crashes, failures and late fills:

* `AllTypesHold`: `Spec => []TypeOK`; `TypesHold` is its control part.
* `FillsAreBackedHolds`: a fill in memory is an execution of the broker, a
  stored trade is a fill in memory, a trade of a live order or in a client's
  queue is a stored one.
* `FillProvenanceHolds`: the invariant behind it.
* `OneSideIsNeverSplit`: if all orders have one side (`OneSided`) no order is
  ever split (`OneLeg`).

`FillsAreBacked` alone is not inductive. A crash *forgets* the broker's
answer for a leg that was never stored (`Forget`), and `SendLeg` starts a leg
afresh; either would cut the chain if the leg could be filled already. So the
strengthening says why it cannot: what happens to a leg happens to a stored one
(`OnlyStoredLegsMove`); an order with a stored leg was accepted
(`LegsComeAfterOrders`); an order on its way to the broker is not accepted
yet (`PlacedOnce`), hence has no stored leg; and the worker's sets are
what it fetched and are still so when it uses them (`WorkerHolds`), in spite of
everything the drain, requests and the broker do meanwhile. `Inv` is that and
`ControlTypeOK`; `InitInv` and `InvStep` are its two halves, the latter from
one lemma per action, and PTL does the rest. `LiveLateFill` checks
`FillProvenance` with TLC.

`OrderListProofs`: `OneQueueHolds`, that `Spec => []OneQueue` if
`MaxDbFailures = 0` (section 3 says what a failed transaction does), with
crashes, refused legs, late fills and deletions in any number. A crash
rebuilds the lists from the rows, and the poll and `PlaceOrder` decide from
rows what memory then does, so the strengthening `Lists` relates the two: an
order whose row is missing or blank is neither pending nor new, one whose row
is missing or new is neither pending nor ended, an order a client is placing is
not among the ended ones, and legs are never new.

`StoredOrderProofs`:

* `StoredEndIsRememberedHolds`, `StoredFillIsFinalHolds`, with any crashes,
  failures and late fills, if no order is split. The two legs of a split order
  may end differently, and then the order is rejected by one and filled by the
  other; `playground.go:764` leaves that open.
* `BooksDifferByMissedFillsHolds`, if no order is split, with any failures and late
  fills, and crashes unless playgrounds are deleted. `BooksAgreeHolds` follows
  from it without late fills: when all is settled no fill is missed.
* `FilledByItsLegsHolds`, if no order is split, and nothing else.
* `OneSidedEndsStand`, `OneSidedBooksDiffer`, `OneSidedBooksAgree`: the same for
  any orders of one side, where `OneLeg` need not be assumed.

The invariant is `StoredInv`. The rejection of an order is decided, written and remembered
in different steps, so the proof cannot relate the copies at the moment they are
made. What it relates instead is *which* refusal they hold: `OneRefusal`
says that wherever a leg or its order is noted as rejected or canceled (row, record,
an event under way, the worker's verdict, the broker), it is the one answer
the broker gave, since a late fill is never followed by another refusal. Two
copies that both hold an end then hold the same one. `LegRow` and
`OrderRow` say which pairs of row and record there are, `FollowsLeg` where a record
is listed, `DrainRows` what a reset has written so far, and `WorkerRows` what of
the worker's reading still holds when it acts on it: what it fetched as
pending is pending or closed alike in both copies until it closes it itself
(`TodoRow`), and an order it closes is not filled (`NoTradeSeen`), because only
the worker itself applies trades. For the books, `pos[Recon]` is the sum of
the filled legs, the playgrounds' positions that of the trades taken, and after a
crash both are counted again from rows that are complete (`Reloadable`).

`OrderBookProofs`, while nothing crashes, no transaction fails and nothing is
filled late:

* `KeepsTheBookHolds`: the path through legs, broker, event queue, drain and
  poll implements `OrderBook`, under two hypotheses on the behaviour.
  `SplitsFill`: the broker fills the legs of split orders. `Apart`: client and
  worker are not placing orders of one playground at once; without it
  `PlacementRace` is a counterexample.
* `FilledIsFinalHolds` under `SplitsFill`, `OneInFlightHolds` under `Apart`,
  and `OneSidedBook` for orders of one side, without `SplitsFill`.

The refinement is by steps: a placement that makes an order pending is
`Book!Work`, one that puts it behind another `Book!Queue`, the application of a
trade `Book!Fill`, a rejection or cancellation `Book!Close`, and all others
stutter. `LegInv` (legs end as the broker ended
them, the update queue holds nothing outdated, no leg is ever reset, and what the
worker has seen of a leg is still so when it closes the order) and `OrdersAgree` (an order,
its row, its trades and its legs) are what makes the parts of a fill arrive in
one step and within the quantity, `OnePending` what leaves one order at work.

### Requests

`TickRequestsProofs` holds for any calls, ids and numbers of
failures and expiries, under `TickAssumption` and, stated in each theorem,
`~SlowTicks`: `TickInvHolds`, `OneTickHolds`, `SameResultHolds`,
`NeverPanicsHolds`. With slow ticks they are false (section 3).

Mutual exclusion does not follow from the mutex alone, because a call that inserts
an entry locks a mutex nobody else could have had, and `StoreData` unlocks
whatever entry the id has by then. `TickInv` therefore says that the entry a call
uses *is* the one its id has (`UsedIsCached`), that a call about to insert
finds the id without one (`InsertIsNew`, which needs `OneLooker`), that holders
are alone (`OneHolder`), and that an entry keeps the answer of every call that is
over (`EntriesKeepResults`). `StoreHolds` then shows that `StoreData`
unlocks a locked mutex.

### Simulator

`SimulatorProofs` proves every safety property of `Simulator`, for any symbols,
requests, prices, feed and balance: `TypeOKHolds`, `NoOverCloseHolds`,
`ToldOnceHolds`, `HistoryStandsHolds`, `BooksAgreeHolds`, `OneSideHolds`,
`MarginRestoredHolds`.

`NoOverClose` is not inductive: a fill may close an order of the open orders
cache only because what is in it is filled, opened and has something left
(`InCache`), and the record of an order must not be overwritten once it means
something (`Unused`: an id not given out has no status). `Placed` and `Waiting`
say where an order that has not ended is, which is why none is filled twice;
`Filled` says that a filled opening order is one a client asked for, since
liquidations only close. `Untold` adds that an order that ended is told or in the present
tick's news and never both. `BooksInv` is the conjunction.

The sums build on it. The positions are recounted from all filled orders, so
they are `Counted`: what the filled orders of the symbol add up to. A fill moves
that by the order's signed volume and moves what is left of the open orders by
the same (`BooksAgree`), with all open orders on the side of the position
(`OneSide`). That the recount is defined at all, as an average, needs
`Grounded`: a position has an order that opened it since it was last flat.
`Sound` is all of that. For `MarginRestored`, `EquityRead` says that the equity
read once before the liquidations is the equity after each of them: a
liquidation moves the profit of its symbol into the balance, and changes no
other basis, because a recount of another symbol's orders gives what it gave
before (`Recount`).

The proofs are about `AnyStep`, a playground asked for any order at all, so
that they hold for every client, the engine included.

### Engine

`TradingEngineProofs` holds for any candles, strategy limits, quantities and faults,
under `EngineAssumption`: `EngineTypeOKHolds`, `ClientKnowsHolds`,
`StackLimitHolds`, `DiesOnlyOfFaultsHolds`, `CloseHitsItsOrderHolds`,
`StopsHonouredHolds`, `TrendFollowedHolds`: all the safety `EngineRuns` checks.

Every step of the engine is an `AnyStep` of its playground (`ServerStep`), so
`Sound` holds. `EngineInv` adds where the loop is: a tick is under way exactly
when the loop waits for it, and while no call failed nothing is pending when an
order is placed (`Turns`); what the client remembers of the position is the
position until the next tick (`Remembers`), which is `ClientKnows`; and an order
that closes everything has the size and side of what is remembered (`Placing`).
So the server takes it (`CloseAllIsTaken`: its closes are what is left of every
open order, which by `BooksAgree` and `OneSide` is its quantity), and only a
failed call ends the program. For `StackLimit`, `Stacking` counts
the orders made for candles of the present trend: there are as many, but for lost replies, as
the stack held before the current candle (`Base`), and as it holds now
(`Height`) once the iteration has opened its own; a signal is a stack that has
grown; and a candle either goes on with the trend, whose stack it grows by one or not
at all (`StackGrows`), or begins one that has no orders (`NextCandle`).

The three theorems about closing rest on `Aims`, which follows a close signal from
where it is made to the fill: every signal, request and pending order for an
open order asks for exactly what is left of it (`Wanted`, `Sent`), one for no
order in particular for at least all there is, and the signal of order 1, whose
id the client cannot send, is handled while order 1 is still the oldest. A step
of a tick(0) only takes orders away and leaves the others as they were
(`TickLoosens`), which keeps this true of the signals still waiting; it is where
`CloseHitsItsOrder` comes from, with `HitsNoOther`. For `StopsHonoured`,
`CloseIsTaken` shows that the server refuses no request for what is left of an
open order, neither when it is placed nor in the tick, and `Watched` that until
the main tick each open order at its stop has a signal or is being closed.

`TrendFollowed` compares two iterations. An order against the trend that has met
the target of its stack has no signal of its own, only the one that closes
everything, and that is taken only if it comes first (`Sweeping`,
`SweepCloses`). The argument is that such orders get fewer. While no call failed,
`Layers` says that the orders of the present trend are on its side, are younger
than all others, and hold different places of its stack. An iteration that
starts with one order of an earlier trend, and others of the trend that just
turned (`Fresh`), finds at most two of them with a full stack's count, the oldest and one more;
of two, either one has a signal of its own or the oldest of all has the signal that
closes everything, and that is first (`CloseFollows`). So when it ends at most
one order is not of the trend (`Settled`). An order still against the trend at
the next candle is then the only one, and whichever signal it has closes it.
`Followed` carries this through the iteration, as `Watched` does for stops.

### Sums, folds and induction

The models add up with `MapThenSumSet` and `FoldLeft`, which choose a
recursive function over the subsets of a set. `SumTheorems` and the first
lemmas of `TradingEngineProofs` show that for finite sets this
function exists and does not depend on the order. The provers cannot apply
the library's induction theorems, whose parameter is an operator; the proofs use
that a nonempty set of natural numbers has a least element (`LeastNat`, from
`WFMin`) and take a smallest counterexample.

### Only model-checked

* Liveness: `OrdersSettle`, `FillIsDelivered`, `EveryCallReturns`, `TickEnds`,
  `EngineEnds`.
* `OneInFlight` and `FilledIsFinal` on
  instances with split orders whose legs the broker refuses, and the
  counterexamples of section 3.

## 5. Plan

Done: the live-order path, the proofs of its invariants and of its abstract
specification; the request cache and its proofs; the simulator playground with
closing orders and liquidations, all of its safety proved; the trading engine on
top of it, all the safety that holds of it proved. Next, in this order:

1. `Locks`: `DatabaseService.mu`, `placeOrderMutex`, `account.mutex` and the
   queue mutexes as each handler takes them; property: nobody waits for ever.
2. `CandleRepository`: `Update` and `AppendBars` from two goroutines.
3. The engine on a live playground: `LiveTrading` with the client's sleep
   instead of a tick.

### Not modelled

* The mutexes inside one handler (see the two lock-order hazards), the aliasing
  of Go slices, and the live candle repositories.
* The other strategies of `src/cmd/stats`, which need trained models, the
  computation of indicators (arithmetic on time series without state of its
  own), and the experiments of `src/cmd/backtester`: scripts around numeric
  libraries, with no concurrency and no protocol beyond the client modelled
  here. `get-pip.py` is a vendored installer. Together they are nearly all Python of
  the repository.
* The Slack bot, its event bus and the EventStoreDB consumers: separate
  programs, whose core is the external event store.
* Broker and market data clients: I/O; their answers are the environment of
  `LiveTrading`.

## 6. Running it

`tlc -config LiveNormal.cfg MCLiveTrading` (and the other `.cfg` files);
`tlc -config TickRetries.cfg MCTickRequests`; `tlc -config SimulatorAccount.cfg
MCSimulator`; `tlc -config EngineRuns.cfg MCTradingEngine` and
`-config TakeProfit.cfg`. `tlapm` checks the proofs of `SumTheorems.tla`,
`LiveTradingProofs.tla`, `OrderListProofs.tla`, `StoredOrderProofs.tla`,
`OrderBookProofs.tla`, `TickRequestsProofs.tla`, `SimulatorProofs.tla` and
`TradingEngineProofs.tla`. The passing runs take between
a few seconds and a minute and a half each.

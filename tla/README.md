# TLA+ verification of crypto-hft

Specifications of the concurrent and stateful parts of the trading system,
model-checked with TLC, and proofs checked by TLAPS for the properties that
matter most. `PROJECT.json` lists every run, which source lines each definition
models, the mutants that show each property can fail, the hazards, the findings
and the theorems.

## The system

| Part | State | Operations | What makes it hard |
|---|---|---|---|
| `MPSCTradeQueue` | ring of numbered slots, two positions | `try_push`, `try_pop` | lock-free producers with stale loads |
| `SPSCTradeQueue`, `PriorityTradeQueue` | four rings | the same | full against empty, a scan that is not atomic |
| `OrderExecutor` | trade queue, pending callbacks | submit, send loop, `handle_message`, stop | three threads, refusals, lost connections |
| `RateLimiter` | two window counters | `try_acquire` | window boundaries |
| `RiskManager`, `RiskCheckedExecutionSink` | positions, submitted trades | check, fill | decisions on a stale position, turning positions |
| `LiveOrderExecutorSink` | - | submit, callback | order of storage appends, refused appends |
| `CryptoComWebSocketClient` | connection flags, send queue | connect chain, read, send, reconnect, close | handlers against sender threads, aborted writes |
| `CryptoComMarketDataClient` | thread, `running_` | start, stop, read loop | blocking reads, a thread that ends by itself |
| `StrategyManager`, strategies | active flags, failure counts | dispatch, replay, start, stop | called from one thread, stopped from another |
| `main` | `g_running` | start-up, shutdown | four threads to stop in the right order |
| `JsonlAsyncStorage` | queue, committed events, file | append, flush, close, replay | flusher thread, crashes, failing writes |
| `InMemoryStorage` | events | append, replay, close | paging while it grows |
| `SimulatedExecutionSink` | resting orders, quotes, books | submit, cancel, quote, trade | callbacks that re-enter |
| `BacktestReplayDriver`, `StorageReplayDriver` | the page at hand | run | order of sink and strategies, paging, routing |
| `MultiExchangeOrderBook` | one book per exchange | snapshot, delta, consolidated quote | one book locked at a time |
| `UnixDomainCommandServer` | listening socket, thread | start, stop, serve | stop against a blocked thread |
| Python client, signing, message building | | | see "Not modelled" |

In live mode the market data thread hands quotes and trades to the strategies,
which pass orders through the risk check and the live sink to the executor's
queue. The executor thread pops an order, asks the rate limiter and hands it to
the WebSocket client. The I/O thread reads the responses and calls back the same
way up. Events, orders and responses are appended to the storage. In a backtest
one thread replays stored events into the simulated sink and the strategies.

## Modules

- `BoundedTradeQueue`: what a trade queue promises. A push reserves a place and
  fills it later; a pop takes the oldest place once it is filled; `false` means
  that it was full, `nullopt` that the oldest was not filled.
- `MPSCTradeQueue`: each atomic access and each access to `slot.data` is a step.
  Positions are natural numbers, which agrees with the signed difference of the
  code for 2^63 tickets. It implements `BoundedTradeQueue`.
- `PriorityTradeQueue`: the rings of the four levels and the scan; each level
  implements `BoundedTradeQueue`. The slot is read in the step that releases it,
  which `NoDataRace` justifies.
- `RiskManager`: the decisions and the position's arithmetic as operators, used
  by the next two.
- `LiveOrderPath`: strategies, risk check, sink, executor, response parsing and
  the exchange, thread by thread. The queue is the bounded FIFO, with a push in
  one step. The rate limiter may refuse at any time.
- `RateLimiter`: the two counters under a discrete clock that starts anywhere.
- `OrderGates`: composes `RateLimiter` and `RiskManager` with a queue and an
  exchange. Each gate is one step; the clock, prices, average entry price and
  profit are in the model. An order is answered once, since the executor calls
  an order's callback only for its first response (see below). Prices are
  multiples of a number that the averages divide, so that integers stand for the
  code's doubles without rounding.
- `WebSocketClient`: one action per handler; `async_send` and `do_send` step by
  step for every thread.
- `MarketDataClient`: the owner's `start`, `stop` and destructor and the thread's
  `run`. A message is unparsable, a heartbeat or a list of items, each valid,
  skipped or ill-typed (the JSON library throws, which ends the thread).
- `LivePlatform`: `main`, `MarketDataClient`, `StrategyManager` with the example
  strategies, and a coarse executor, connection and storage. What
  `LiveOrderPath` and `WebSocketClient` show in detail may here refuse or fail
  at will; `execution_sink.update_quote` is therefore not visible in it.
- `Storage`: what `IStorage` promises while a process runs: a log with
  consecutive offsets of which `replay` sees a growing prefix, and all of it when
  `close` has returned.
- `JsonlAsyncStorage`: every opening chooses whether there is a flusher thread
  (`config_.start_flusher_thread`). The file is a sequence of lines, a line a
  sequence of fragments, so that a cut line can be continued. The loads that
  `flush` compares are separate steps. It includes the reader that pages by
  `next_offset`. With the flusher thread it implements `Storage`.
- `InMemoryStorage`: `append`, `close` and `replay` with its filters and limit. A
  page is described by what it has to be (`IsPage`: the first matching offsets in
  order, as many as the limit allows), which exactly one sequence is.
- `SimulatedExecution`: the sink, with a stack of responses that are still to be
  delivered, its books and what it appends to the storage, which may refuse any
  append (`storage_append_failures_`), or be absent (`HasStorage`), as in the
  program's own backtest. A walk over
  `resting_orders_` is the increasing sequence of the places it takes (`Walk`),
  and `Take` is what both cancels and the fills do with them.
- `Backtest`: composes the two with `BacktestReplayDriver` and
  `StorageReplayDriver`. Strategies submit and cancel whenever their code runs.
  A run is a driver, its request and the events that may be recorded for it.
- `MultiExchangeOrderBook`: the books of one ticker and one reader. An update is
  applied level by level; prices have a greatest one, as doubles have.
- `UnixDomainServer`: owner, accept thread and clients, which may stay silent or
  leave at any time. The construction of the thread may fail in `start`, which
  throws with the socket listening and `running_` set. Two things a client does
  end the program from the accept thread: a `cmd` that is not a string, since the
  exception leaves `accept_loop`, and closing before the answer is written, since
  `write` raises SIGPIPE and nothing ignores it.
- `...Proofs` modules hold the theorems about the module they are named for;
  `EdgeProofs` has those of the order book, the WebSocket client and the command
  server, which share no state. `MC...` modules give constants the values that a
  configuration cannot.

Interleavings are sequentially consistent; that the acquire and release orders
of the queues are enough for this is not shown.

## Runs that pass

| Run | Shows |
|---|---|
| `mpsc` | no data race, the bounded FIFO is implemented, pushes return, tickets are popped |
| `priority_queue` | no data race, highest priority first, each level a FIFO |
| `storage_safety` | with the flusher thread, offsets are ordered and pages complete in spite of faults; `flush` and `close` keep their word while the file is undamaged |
| `storage_liveness` | with the flusher thread the storage implements `Storage` and accepted events are committed; calls return in both modes |
| `order_path` | sent once, callbacks find their trade, accepted orders sent or given up for a stated reason |
| `order_gates` | aligned windows within the limits and no refusal before they are used up; realized profit balances with the cash of the fills and the position left; the position limit holds while orders do not overlap |
| `websocket` | one writer; connects or stops, the queue drains |
| `order_book` | each side of a consolidated quote was shown; exact when quiet |
| `backtest` | one outcome per order, nothing fillable rests, the books agree with the responses; of what the sink recorded a response follows its submission and every refused append is counted; no order is filled by the event its strategy reacted to; strategies see exactly the recording, across pages and while it grows |
| `unix_domain_server` | nothing half up but for a thread that could not be constructed; unless a client ended the program, `stop` returns if no client is silent for ever, and a client is answered or reset if none holds the thread for ever |
| `live_platform` | the shutdown completes; nothing is appended to a closed storage, nothing accepted from a stopped strategy; the market data thread is never destroyed or assigned to while joinable; every refused market event or response is counted by the strategies it concerns |

## Where code and documents disagree

One run expects a violation. `order_path_position`: the acknowledgement uses up
the callback (`order_executor.hpp:238` moves it out on every response), so the
fill is not counted.

Further statements do not hold. The first group are definitions of the modules:
TLC refutes each when it is added to the configuration named, with the constants
given.

| Definition | Configuration | What happens |
|---|---|---|
| `ReplayAlwaysInOffsetOrder` | `StorageSafety` | without the flusher thread two concurrent flushes commit their batches in the wrong order (`docs/STORAGE_INTERFACES_V1.md:83`); the program always has the thread |
| `OneObjectPerLine` | `StorageSafety` | the first event after a crash is written onto the cut line and lost to the next load (`docs/STORAGE_INTERFACES_V1.md:102`) |
| `RejectionsAreOwn` | `OrderPath` | an error answer keeps `client_order_id` 0 and is delivered to order 0 (`crypto_com_api.hpp:308`) |
| `NetPositionWithinLimit` | `OrderPath`, `QueueCapacity = 2` | orders in flight together exceed the limit (`docs/PROJECT_OVERVIEW.md:260`) |
| `SubmissionStoredFirst` | `OrderPath` | a response is stored before its submission (`tests/test_strategy_runtime.cpp:332` expects the opposite) |
| `Any100msRespected` | `OrderGates` | twice the limit within 100 ms across a boundary (`README.md:179`) |
| `OrdersAreAuthenticated` | `WebSocket`, `MaxOrders = 2` | an order left in the queue by a failed write precedes the next authentication (`websocket_client.hpp:378`) |
| `ExponentialBackoff` | `WebSocket`, `MaxReconnectAttempts = 3`, `MaxFailures = 4` | the delay grows linearly (`README.md:180`) |
| `NothingRestsAfterShutdown` | `LivePlatform` | an order still in the executor's queue is sent after `stop_all` has cancelled the strategy's orders, or the cancel message is still queued when the connection closes |
| `FeedRunsWithThePlatform` | `LivePlatform` | the market data thread ends with its connection and nobody notices; the platform goes on without quotes |

The others show when a hypothesis of a property is dropped:

- `CloseDrains` without `start_flusher_thread`: an append that tested `closed_`
  in time is accepted after the last flush of `close`
  (`docs/STORAGE_INTERFACES_V1.md:107`).
- `FlushIsDurable` without `Undamaged`: a batch that could not be written is
  committed to memory and replayed, and `flush` vouches for it
  (`docs/STORAGE_INTERFACES_V1.md:84`).
- `FlushIsDurable` counts only the promises of a `flush` with the flusher
  thread. Without it three concurrent flushes can make one return `true` too
  early: `committed_` counts a later batch while an earlier one is still held.
- `NothingFillableRests` with `RejectWithoutMarket = FALSE` (no use of the sink
  sets it so): a market order placed before the first quote rests for ever,
  since only limit orders are filled later.

From reading alone: the executor pops a FIFO, so market orders do not overtake
limit orders as `README.md:182` says; `PriorityTradeQueue` is not in use.
`LiveOrderExecutorSink` moves `storage_failure_callback` into the response
callback and then passes it on (line 66), so that a refused append of
`TradeSubmitted` is counted by the sink and never reported to the strategy.

## Bounds

Every bound is a constant named `Max...` or a capacity. Rings have two slots
(four, with three usable, per level for the priority queue), so that they fill,
empty and are reused within a few tickets. The storage has a queue and batches
of two and three events, enough for two batches, a queue that fills and events on
both sides of a restart. The order path has one strategy, two orders and a queue
of one, so that the queue is full while an order is in hand. The order gates
have four orders, so that a position is opened, added to, reduced and turned, and
a clock of more than one second of three intervals, so that either counter is
reset without the other. The WebSocket client has one sender beside the I/O
thread, one reconnection attempt and two failures, so that it gives up, and also
reconnects and fails again. The backtest has three recorded events and pages of
one and two, so that a page ends between events and the recording grows after
it, two orders, so that one is placed from the callback of the other, and one
refused append: the submission's or the response's, at either order. The backtest
driver runs over market events and a submission with pages of one, the replay
driver over all kinds of events. The server starts up to three times, so that a
start that fails, one that is served and one after a `stop` are in one behaviour.
The platform has two strategies on one ticker, one message of up to three items, two
orders, one refused append and one lost connection. Symmetry is used in the
storage's safety run only, where clients run the same code.

Deadlock is checked for the queues and the book. The other systems may stop:
their threads end, or a bound is used up.

## Fairness

Threads inside a call and the background threads keep running (weak fairness).
In addition:

- MPSC queue: strong fairness of the successful compare-and-swap, since a weak
  one may fail spuriously but not for ever, and other producers draw only
  finitely many tickets. The executor polls without end (`execution_loop`).
- Storage: a waiting `flush` wakes, at its deadline at the latest.
- WebSocket: asynchronous operations complete. Connecting and the handshakes
  have timeouts. Answers of the exchange are not assumed.
- Order path: nothing is assumed of the exchange or the connection.
- Platform: a read of the market data ends sooner or later, by a heartbeat of the
  exchange or an error, and so does `ws_.close` (`websocket_client.hpp:131`), by
  the exchange's answer or an error. The code sets no deadline for either, so
  without this `market_data_client.stop()` and the closing of the connection
  need not return. No signal, authentication or order answer is assumed.
- Server: `accept` is fair to waiting clients (strong fairness, since the thread
  comes back to it again and again). Nothing is assumed of clients. Nothing in
  the code ends the read of a silent client, so `StopReturns` is about behaviours
  in which the client being read is not silent for ever (`[]<>~Silent`), and
  `EveryClientAnswered` about those in which none holds the thread for ever
  (`[]<>~Held`); either allows that a client ended the program
  (`EndedByClient`).

## Proofs

Every theorem holds for all values of the constants that satisfy the module's
named assumptions; these only give the constants their types, say that a
capacity or page size is not zero and that strategies have different ids, except
where stated. The bounds `Max...` are arbitrary numbers.

| Theorem | Statement | Inductive invariant |
|---|---|---|
| `MPSCTradeQueueProofs!Invariance`, `DataRaceFreedom`, `SequenceMonotone` | `[]Inv`, `[]NoDataRace`, `SequenceGrows` | `Inv` |
| `MPSCTradeQueueProofs!RingIsAQueue` | `Spec => ImplementsBoundedTradeQueue` | `Inv` |
| `PriorityTradeQueueProofs!SlotRaceFreedom`, `HighestFirst` | `[]NoDataRace`, `[]PopsTheHighest` | `QueueInv` |
| `PriorityTradeQueueProofs!LevelsAreQueues` | `Spec => EachLevelIsAQueue` | `RingInv` |
| `LiveOrderPathProofs!NoDuplicateOrders` | `[]SentOnce` | `OnceInv` |
| `LiveOrderPathProofs!FillsFindTheirTrade` | `[]CallbackFindsTrade` | `CallInv` with `OnceInv` |
| `OrderGatesProofs!LimiterWindows`, `LimiterRefusals` | `LimiterSpec` implies `[]AlignedWindowsRespected` and `[]RefusalsAreDue` | `LimiterInv` |
| `OrderGatesProofs!GatesImplementLimiter`, `GatesRespectWindows`, `GatesRefuseWhenDue` | `Spec => LimiterSpec`, and so both properties in the composition | none |
| `OrderGatesProofs!PositionLimit` | `[]PositionWithinLimit` | `GatesInv` |
| `OrderGatesProofs!PositionBooks` | `Spec /\ []AveragesExactly => []AccountingBalances` | `BooksInv` |
| `LivePlatformProofs!CloseIsLast`, `QuietAfterStop`, `NoTermination` | `[]NothingAppendedAfterClose`, `[]StoppedStrategiesAreQuiet`, `[]NeverTerminates` | `PlatformInv` |
| `LivePlatformProofs!RefusalsCounted` | `[]RefusalsReachTheStrategies` | `CountInv` with `TodoInv`, `EventInv`, `OrderInv` |
| `JsonlAsyncStorageProofs!LogRefinement` | `Spec => ImplementsStorage` if `MaxRestarts = 0` | `StorageInv` |
| `JsonlAsyncStorageProofs!OffsetOrder`, `CompletePages`, `DurableFlush`, `DrainedClose` | `[]ReplayInOffsetOrder`, `[]PagesAreComplete`, `[]FlushIsDurable`, `[]CloseDrains` | `RestartInv` |
| `EdgeProofs!SidesAreReal`, `QuietCallsAreExact` | `[]SidesWereShown`, `[]ExactWhenQuiet` | `BookInv` |
| `EdgeProofs!OneWriter` | `[]SingleWriter` | `SendInv` |
| `EdgeProofs!WholeOrGone` | `[]AllOrNothing` | `ServerInv` |
| `BacktestProofs!OneOutcomeEach`, `RecordedInOrder` | `[]OneOutcome`, `[]ResponsesFollowSubmissions` | `SinkInv` |
| `BacktestProofs!BooksAddUp` | `[]BooksBalance` | `BooksInv` with `SinkInv` |
| `BacktestProofs!NoFillableOrderRests` | `[]NothingFillableRests` if `RejectWithoutMarket` | `FillInv` with `SinkInv` |
| `BacktestProofs!FillsComeLater` | `[]NoLookAhead` | `BacktestInv` |
| `BacktestProofs!RunsFollowTheRecording` | `[]StrategiesSeeTheRecording` | `CallsInv`, `OwnerInv` and `PageInv` |

None of the properties is inductive as it stands. The arguments:

- **MPSC queue.** The tickets drawn and not released fit in the ring
  (`TicketsFit`); the slot of each carries its ticket while exactly one producer
  holds it and the next number once published (`DrawnSlots`); the other slots
  carry the ticket they wait for (`FreeSlots`); and what each thread knows from
  its last load stays true (`ProducerKnows`, `ConsumerKnows`). A producer about
  to compare-and-swap saw its slot free, numbers never shrink, and so, if
  `enqueue_pos_` still is its ticket, the slot still waits for it. The arithmetic
  of slots is in lemmas of its own. The assumption is `Capacity >= 2`: the
  `static_assert` also admits one slot, for which the scheme does not work; no
  use of the queue has one. For the refinement the abstract queue is read off the
  ring: its places are the tickets drawn and not released, filled where the slot
  carries the next number, and `Inv` makes every step of a producer or the
  consumer one of the abstract queue or none.
- **Priority queue.** A level in which the producer found room keeps room until
  it is used, and a level in which the consumer found a trade keeps one: the
  index that moves cannot meet the one that does not. The abstract queue of a
  level is what lies between its two indices, around the ring.
- **WebSocket.** `sending_` is a lock that passes from the thread in `do_send` to
  its write and back to the I/O thread; an aborted write stays under way until
  its handler has run.
- **Order path.** An order is in one place only: in a strategy's hands, in the
  queue, in the executor's hands or sent. For the callback: a registered callback
  has its trade in `submitted_trades_`, which the response erases after it has
  taken the callback away.
- **Gates.** Each counter has the requests granted in the window it was last set
  for, and no later window has any, because quotients of a growing clock grow.
  `RefusalsAreDue` speaks of the test `try_acquire` would make now (`MayAcquire`):
  whenever it would refuse, one of the two windows has all its requests granted.
  For the position: at most one order is under way, and the position is within
  the limit with it and without it, whatever part of it is filled. The
  position is the one `RiskManager` counts; fills after an order's first response
  are not in it (`order_path_position`). For the books, `on_fill` has three cases
  (adding, reducing, turning); in each the change of the profit is the change of
  cash and of the position at its average price. An average is a quotient, in
  the code one of doubles, which rounds; `PositionBooks` is about integers and
  assumes that the averages come out exact (`AveragesExactly`), which holds
  throughout the instance TLC checks because its prices are chosen so.
- **Server.** Inside `stop`, `running_` is cleared before the socket is closed,
  the socket before the thread is joined, and until the join the thread exists.
  Only a `start` that threw leaves a socket without a thread; when the program
  has ended, owner and thread have.
- **Platform.** Which threads can be where at each step of `main`: a strategy runs
  only in a callback of the market data thread, and that thread and the I/O
  thread are joined before what they use goes. For the refusals: the strategies
  still to be called for an event are an end of the list, so each is handed it
  once (`TodoInv`); an order is in one place from queue to response, so its
  response is told once (`OrderInv`); each count then grows by one exactly when
  the set it is the size of does.
- **Order book.** While a call scans, all that a book shows is in the history of
  the call, so a side taken from it is; as long as nothing moves, the result so
  far is the best of the books read (`Covers`). That an update leaves a book
  with prices and sizes of the right kind is by induction over its levels.
- **Sink.** Resting orders, responses to be delivered and responses delivered
  hold each order's id once; submitting adds one, `Take` moves some from the
  first to the second, a delivery moves one from the second to the third. The
  log has submissions and responses of the delivered only, so that a submission,
  whose number is new, has no response before it, and a response no other; with
  the refused appends it is as long as submissions and deliveries together, and
  with none refused it has every submission (`LogInv`). The books
  are sums over both kinds of responses: a sum is a recursive function over a
  sequence, and that it splits over concatenation is by induction. That nothing
  fillable rests needs `RejectWithoutMarket`, the default of the sink: without
  it a market order may rest.
- **Drivers.** What lies before the next page has been dealt with, and what lies
  between the place on a page and its end is on it, also when the storage has
  grown since (`PageInv`); the map from orders to strategies has for each order
  the last submission dealt with (`OwnerInv`); and the calls made are, in order,
  those the recording prescribes for what was dealt with (`CallsInv`). The sink
  sees an event before the strategies, hence no order is filled by what it
  reacts to.
- **Storage.** The refinement maps the abstract log to committed events, the
  flusher's batch and the queue, put together; every step appends one event to
  it, moves the border of what is committed, closes, or changes nothing.
  `StorageInv` says that its length is the next offset, that only the flusher
  holds a batch, and that a flusher which has ended left nothing behind and meets
  nobody who could still append: `append` has `queue_mutex_` from its test of
  `closed_` to its push. Failing writes and timeouts are included. Restarts are
  not, since a crash loses what was not written.
- **Storage over restarts.** `RestartInv` has two parts. Of the file: no two
  lines that parse have the same offset, and all that is queued or in a batch
  comes after them (`FileInv`), so that sorting what a new process loads gives
  one order. Of a run with the flusher thread (`RunInv`): the log is in order
  and below `next_offset_`; a reader has seen exactly the committed events up to
  its last; `accepted_` is the length of the log and `committed_` is never ahead
  of what is committed; and while the file is undamaged, what is committed is in
  it. What `flush` and `close` vouch for follows, and a crash takes nothing out
  of the file. Cut and failed writes and the mode without the thread are steps
  of the specification proved about.

Induction over data is used where a definition is recursive (`SumOf`, `Applied`,
walks): a set of natural numbers has a least element, which the library's
well-foundedness theorems give, and so a least counterexample is refuted.

Only model-checked: liveness, since the prover has neither fairness nor
`ENABLED` (`EveryPushReturns`, `EveryTicketIsPopped`, `EveryEventCommitted`,
`EveryCallReturns`, `AcceptedAreSent`, `ConnectsOrStops`, `QueueDrains`,
`StopReturns`, `EveryClientAnswered`, `ShutdownCompletes`); and the statements
that do not hold. Every invariant, step property and refinement that a passing
run checks is also a theorem, with the hypotheses named above: one run of the
process for `ImplementsStorage`, exact averages for `AccountingBalances`,
`RejectWithoutMarket` for `NothingFillableRests`.

## Not modelled

- Statistics and metrics, replay filters of `JsonlAsyncStorage` (those of
  `InMemoryStorage` are), `flush` of `InMemoryStorage`, which only counts.
- `place_stop_order`, `set_limits`, `RateLimiter::reset`, `clear` of the rings:
  nothing calls them while the platform runs.
- The prices the example strategies choose: a strategy places any order, at the
  moments the examples do.
- `AuthHandler`, message building, configuration from the environment, the
  Python client: formatting, cryptography or one blocking request.
- That `do_connect` replaces `ws_` while a sender may use it: undefined
  behaviour without an outcome to model.
- Weak memory: all runs and proofs are about sequentially consistent
  interleavings.

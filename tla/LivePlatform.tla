---------------------------- MODULE LivePlatform ----------------------------
(***************************************************************************)
(* The live mode of src/main.cpp: main connects, starts the strategies and *)
(* the market data client, waits for a signal and shuts everything down.   *)
(* Four threads: main, the market data thread (which runs StrategyManager  *)
(* and the strategies), the executor thread and the I/O thread.            *)
(*                                                                         *)
(* StrategyManager and the example strategies are modelled here; an order  *)
(* is a number and the name of its strategy.  What LiveOrderPath and       *)
(* WebSocketClient show in detail is coarse: a push, a send and a write    *)
(* are steps, risk limits and a full queue refuse at will, and the storage *)
(* refuses an append at will (backpressure) and always once it is closed.  *)
(***************************************************************************)
EXTENDS MarketDataClient, FiniteSets

CONSTANTS
  Strategies,      \* strategies_ in order: a sequence of [name, kind, ticker]
  MaxWaits,        \* 100 in the code: polls for the authentication
  MaxOrders,       \* bound: orders accepted
  MaxRefusals,     \* bound: appends refused while the storage is open
  MaxDisconnects   \* bound: connections lost

Names == {Strategies[i].name : i \in DOMAIN Strategies}
Tickers == {Strategies[i].ticker : i \in DOMAIN Strategies}

\* A name stands for a strategy object, so no two strategies share one.
ASSUME PlatformAssumption ==
  /\ {MaxWaits, MaxOrders, MaxRefusals, MaxDisconnects} \subseteq Nat
  /\ Strategies \in Seq([name : Names, kind : {"market_maker", "momentum"}, ticker : Tickers])
  /\ \A i, j \in DOMAIN Strategies : Strategies[i].name = Strategies[j].name => i = j

VARIABLES
  (* main *)
  g_running, main_pc, wait_count,
  (* StrategyManager and the strategies *)
  active,           \* name -> active_
  append_failures,  \* name -> storage_append_failures_
  strategy_pc,      \* the market data thread inside a callback
  todo,             \* strategies the event has not been handed to yet
  persisted,        \* did the storage take the event?
  placing,          \* orders the current strategy still wants to place
  (* OrderExecutor and CryptoComWebSocketClient *)
  executor_running, executor_pc, trade_queue,
  connection,       \* "connecting", "up" (connected and authenticated) or "down"
  should_reconnect, outbox,
  io_pc, ioc_stopped, response,
  (* the exchange and the storage *)
  resting,          \* orders open at the exchange
  inbox,            \* its responses
  recorded, closed,
  (* bounds and history *)
  events, orders, refusals, disconnects,
  seen,             \* name -> market events it was handed
  told,             \* orders whose response reached their strategy
  late,             \* events that came when the storage was closed
  stopped,          \* strategies stop_all has stopped
  too_late          \* orders accepted from a strategy that was stopped

mainVars == <<g_running, main_pc, wait_count>>
strategyVars == <<active, append_failures, strategy_pc, todo, persisted, placing>>
connectionVars == <<connection, should_reconnect, outbox>>
ioVars == <<io_pc, ioc_stopped, response>>
executorVars == <<executor_running, executor_pc, trade_queue>>
exchangeVars == <<resting, inbox>>
storageVars == <<recorded, closed, refusals, late>>
historyVars == <<events, orders, disconnects, seen, told, stopped, too_late>>
vars == <<feedVars, mainVars, strategyVars, connectionVars, ioVars, executorVars,
          exchangeVars, storageVars, historyVars>>

\* executor->start() and the I/O thread come before everything of interest.
Init ==
  /\ FeedInit
  /\ g_running = TRUE /\ main_pc = "wait" /\ wait_count = 0
  /\ active = [s \in Names |-> FALSE] /\ append_failures = [s \in Names |-> 0]
  /\ strategy_pc = "idle" /\ todo = <<>> /\ persisted = TRUE /\ placing = 0
  /\ executor_running = TRUE /\ executor_pc = "head" /\ trade_queue = <<>>
  /\ connection = "connecting" /\ should_reconnect = TRUE /\ outbox = <<>>
  /\ io_pc = "run" /\ ioc_stopped = FALSE /\ response = NoEvent
  /\ resting = {} /\ inbox = <<>> /\ recorded = {} /\ closed = FALSE
  /\ events = 0 /\ orders = 0 /\ refusals = 0 /\ disconnects = 0
  /\ seen = [s \in Names |-> {}] /\ told = {} /\ late = {} /\ stopped = {} /\ too_late = {}

-----------------------------------------------------------------------------
(* The storage as its callers see it *)

\* append returns ok.
StorageAppend(e, ok) ==
  /\ ok => ~closed
  /\ ~ok /\ ~closed => refusals < MaxRefusals
  /\ recorded' = IF ok THEN recorded \cup {e} ELSE recorded
  /\ refusals' = IF ~ok /\ ~closed THEN refusals + 1 ELSE refusals
  /\ late' = IF closed THEN late \cup {e} ELSE late
  /\ UNCHANGED closed

-----------------------------------------------------------------------------
(* Market data: main's callbacks and StrategyManager *)

\* dispatch_quote or dispatch_trade: the event is appended first.
Dispatch ==
  /\ feed_pc = "callback" /\ strategy_pc = "idle"
  /\ events' = events + 1
  /\ \E ok \in BOOLEAN :
       /\ StorageAppend([type |-> event.type, id |-> events], ok)
       /\ persisted' = ok
  /\ strategy_pc' = "next"
  /\ todo' = Strategies
  /\ UNCHANGED <<feedVars, mainVars, active, append_failures, placing, connectionVars, ioVars,
                 executorVars, exchangeVars, orders, disconnects, seen, told, stopped, too_late>>

\* SimpleMarketMaker::on_quote places two orders, unless it did so within the
\* last 100 ms; it ignores trades.
MarketMakerOrders == IF event.type = "quote" THEN {0, 2} ELSE {0}

\* SimpleMomentum::on_trade places one when the price has moved; it ignores quotes.
MomentumOrders == IF event.type = "trade" THEN {0, 1} ELSE {0}

OrdersWanted(s) == IF s.kind = "market_maker" THEN MarketMakerOrders ELSE MomentumOrders

Receives(s) == active[s.name] /\ s.ticker = event.ticker

\* Mutant of FailuresAfter: a refused append is not reported.
FailuresAfterAsBefore(s) == append_failures[s.name]

FailuresAfter(s) == append_failures[s.name] + (IF persisted THEN 0 ELSE 1)

\* dispatch_to_matching_strategies: the next strategy is passed over, or told
\* of a failed append and called.
HandOver ==
  LET s == Head(todo)
  IN /\ strategy_pc = "next" /\ todo # <<>>
     /\ IF Receives(s)
          THEN /\ append_failures' = [append_failures EXCEPT ![s.name] = FailuresAfter(s)]
               /\ seen' = [seen EXCEPT ![s.name] = @ \cup {events - 1}]
               /\ placing' \in OrdersWanted(s)
               /\ strategy_pc' = "place"
               /\ UNCHANGED todo
          ELSE /\ todo' = Tail(todo)
               /\ UNCHANGED <<append_failures, seen, placing, strategy_pc>>
     /\ UNCHANGED <<feedVars, mainVars, active, persisted, connectionVars, ioVars, executorVars,
                    exchangeVars, storageVars, events, orders, disconnects, told, stopped, too_late>>

\* place_limit_order and place_market_order test active_ and then submit; a
\* strategy that wants no more orders returns.
PlaceOrder ==
  /\ strategy_pc = "place"
  /\ IF placing = 0
       THEN strategy_pc' = "next" /\ todo' = Tail(todo) /\ UNCHANGED placing
       ELSE /\ strategy_pc' = IF active[Head(todo).name] THEN "submit" ELSE "place"
            /\ placing' = placing - 1
            /\ UNCHANGED todo
  /\ UNCHANGED <<feedVars, mainVars, active, append_failures, persisted, connectionVars, ioVars,
                 executorVars, exchangeVars, storageVars, historyVars>>

\* submit_trade down to the executor's queue; any sink on the way may refuse.
SubmitTrade ==
  LET s == Head(todo).name
      order == [kind |-> "order", id |-> orders, strategy |-> s,
                 ticker |-> Head(todo).ticker]
  IN /\ strategy_pc = "submit"
     /\ \/ strategy_pc' = "place" /\ UNCHANGED <<trade_queue, orders, too_late>>
        \/ /\ executor_running /\ orders < MaxOrders
           /\ trade_queue' = Append(trade_queue, order)
           /\ orders' = orders + 1
           /\ too_late' = IF s \in stopped THEN too_late \cup {orders} ELSE too_late
           /\ strategy_pc' = "store"
     /\ UNCHANGED <<feedVars, mainVars, active, append_failures, todo, persisted, placing,
                    connectionVars, ioVars, executor_running, executor_pc, exchangeVars, storageVars,
                    events, disconnects, seen, told, stopped>>

\* LiveOrderExecutorSink appends TradeSubmitted.  The callback that would tell the
\* strategy of a refusal has been moved into the response callback and is empty.
StoreSubmitted ==
  /\ strategy_pc = "store"
  /\ \E ok \in BOOLEAN : StorageAppend([type |-> "TradeSubmitted", id |-> orders - 1], ok)
  /\ strategy_pc' = "place"
  /\ UNCHANGED <<feedVars, mainVars, active, append_failures, todo, persisted, placing,
                 connectionVars, ioVars, executorVars, exchangeVars, historyVars>>

\* Every strategy has been called.
DispatchReturns ==
  /\ strategy_pc = "next" /\ todo = <<>>
  /\ strategy_pc' = "idle"
  /\ FeedReturn
  /\ UNCHANGED <<mainVars, active, append_failures, todo, persisted, placing, connectionVars, ioVars,
                 executorVars, exchangeVars, storageVars, historyVars>>

FeedStep ==
  \/ /\ \/ FeedConnect \/ FeedLoop \/ FeedRead \/ FeedHandle \/ FeedCallback
        \/ FeedClose \/ FeedEnd
     /\ UNCHANGED <<mainVars, strategyVars, connectionVars, ioVars, executorVars, exchangeVars,
                    storageVars, historyVars>>
  \/ Dispatch \/ HandOver \/ PlaceOrder \/ SubmitTrade \/ StoreSubmitted \/ DispatchReturns

-----------------------------------------------------------------------------
(* The executor thread and the I/O thread *)

Authenticated == connection = "up"

\* running_ and the authentication are tested at the head of the loop only.
ExecutorHead ==
  /\ executor_pc = "head"
  /\ ~executor_running \/ Authenticated
  /\ executor_pc' = IF executor_running THEN "drain" ELSE "exited"
  /\ UNCHANGED <<feedVars, mainVars, strategyVars, connectionVars, ioVars, executor_running,
                 trade_queue, exchangeVars, storageVars, historyVars>>

\* The queue is drained order by order, a send without authentication being
\* lost; the rate limiter may send an order back.
ExecutorDrain ==
  /\ executor_pc = "drain"
  /\ \/ /\ trade_queue = <<>> /\ executor_pc' = "head"
        /\ UNCHANGED <<trade_queue, outbox>>
     \/ /\ trade_queue # <<>> /\ UNCHANGED executor_pc
        /\ trade_queue' = Tail(trade_queue)
        /\ outbox' = IF Authenticated THEN Append(outbox, Head(trade_queue)) ELSE outbox
     \/ /\ trade_queue # <<>> /\ executor_pc' = "head"
        /\ trade_queue' = Append(Tail(trade_queue), Head(trade_queue))
        /\ UNCHANGED outbox
  /\ UNCHANGED <<feedVars, mainVars, strategyVars, executor_running, connection,
                 should_reconnect, ioVars, exchangeVars, storageVars, historyVars>>

IoRuns == io_pc = "run" /\ ~ioc_stopped

\* A connection attempt succeeds, whether or not close was called meanwhile, or
\* is the last.
IoConnect ==
  /\ IoRuns /\ connection = "connecting"
  /\ connection' \in {"up", "down"}
  /\ UNCHANGED <<feedVars, mainVars, strategyVars, executorVars, should_reconnect, outbox,
                 ioVars, exchangeVars, storageVars, historyVars>>

\* The connection is lost with what is on it; the rest of the send queue stays.
IoDisconnect ==
  /\ IoRuns /\ connection = "up" /\ disconnects < MaxDisconnects
  /\ disconnects' = disconnects + 1
  /\ connection' = IF should_reconnect THEN "connecting" ELSE "down"
  /\ outbox' \in {outbox, SubSeq(outbox, 2, Len(outbox))}
  /\ inbox' = <<>>
  /\ UNCHANGED <<feedVars, mainVars, strategyVars, executorVars, should_reconnect, ioVars,
                 resting, storageVars, events, orders, seen, told, stopped, too_late>>

\* A message of the send queue is written: the exchange opens the order and
\* responds, or cancels what is open on the ticker.
IoWrite ==
  LET m == Head(outbox)
  IN /\ IoRuns /\ connection = "up" /\ outbox # <<>>
     /\ outbox' = Tail(outbox)
     /\ IF m.kind = "cancel_all"
          THEN /\ resting' = {o \in resting : o.ticker # m.ticker}
               /\ UNCHANGED inbox
          ELSE /\ resting' = resting \cup {m}
               /\ inbox' = Append(inbox, m)
     /\ UNCHANGED <<feedVars, mainVars, strategyVars, executorVars, connection,
                    should_reconnect, ioVars, storageVars, historyVars>>

\* on_read gets a response.
IoRead ==
  /\ IoRuns /\ connection = "up" /\ inbox # <<>>
  /\ response' = Head(inbox) /\ inbox' = Tail(inbox)
  /\ io_pc' = "respond"
  /\ UNCHANGED <<feedVars, mainVars, strategyVars, executorVars, connectionVars, ioc_stopped,
                 resting, storageVars, historyVars>>

\* Its callbacks: the response is appended, the strategy told of a refusal and
\* then of the response.  A handler that has begun is not stopped by ioc.stop().
IoRespond ==
  LET s == response.strategy
  IN /\ io_pc = "respond"
     /\ \E ok \in BOOLEAN :
          /\ StorageAppend([type |-> "OrderResponse", id |-> response.id], ok)
          /\ append_failures' = [append_failures EXCEPT ![s] = @ + (IF ok THEN 0 ELSE 1)]
     /\ told' = told \cup {response}
     /\ io_pc' = "run" /\ response' = NoEvent
     /\ UNCHANGED <<feedVars, mainVars, active, strategy_pc, todo, persisted, placing,
                    executorVars, connectionVars, ioc_stopped, exchangeVars,
                    events, orders, disconnects, seen, stopped, too_late>>

\* ioc.run() returns.
IoEnd ==
  /\ io_pc = "run" /\ ioc_stopped
  /\ io_pc' = "exited"
  /\ UNCHANGED <<feedVars, mainVars, strategyVars, executorVars, connectionVars, ioc_stopped,
                 response, exchangeVars, storageVars, historyVars>>

ExecutorStep == ExecutorHead \/ ExecutorDrain
IoStep == IoConnect \/ IoDisconnect \/ IoWrite \/ IoRead \/ IoRespond \/ IoEnd

-----------------------------------------------------------------------------
(* main *)

\* SIGINT or SIGTERM.
Signal ==
  /\ g_running /\ main_pc # "done"
  /\ g_running' = FALSE
  /\ UNCHANGED <<feedVars, main_pc, wait_count, strategyVars, connectionVars, ioVars,
                 executorVars, exchangeVars, storageVars, historyVars>>

\* The polling loop, and the test that follows it: give up, or start.
Wait ==
  LET polls == ~Authenticated /\ g_running /\ wait_count < MaxWaits
  IN /\ main_pc = "wait"
     /\ wait_count' = IF polls THEN wait_count + 1 ELSE wait_count
     /\ main_pc' = IF polls THEN "wait" ELSE "decide"
     /\ UNCHANGED <<feedVars, g_running, strategyVars, connectionVars, ioVars, executorVars,
                    exchangeVars, storageVars, historyVars>>

Decide ==
  /\ main_pc = "decide"
  /\ main_pc' = "loop"
  /\ IF Authenticated
       THEN /\ active' = [s \in Names |-> TRUE]
            /\ FeedStart
            /\ UNCHANGED g_running
       ELSE g_running' = FALSE /\ UNCHANGED <<active, feedVars>>
  /\ UNCHANGED <<wait_count, append_failures, strategy_pc, todo, persisted, placing,
                 connectionVars, ioVars, executorVars, exchangeVars, storageVars, historyVars>>

\* Mutants of Shutdown: the storage is closed while the I/O thread runs; the
\* strategies are stopped while the market data thread runs.
ShutdownClosesEarly ==
  <<"stop_feed", "join_feed", "stop_all", "stop_executor", "join_executor", "close_connection",
    "stop_io", "close_storage", "join_io", "unwind", "done">>
ShutdownStopsStrategiesFirst ==
  <<"stop_all", "stop_feed", "join_feed", "stop_executor", "join_executor", "close_connection",
    "stop_io", "join_io", "close_storage", "unwind", "done">>

\* What main does when g_running is false, in order; the executor's stop is
\* three of the steps, and the destructors are the last.
Shutdown ==
  <<"stop_feed", "join_feed", "stop_all", "stop_executor", "join_executor", "close_connection",
    "stop_io", "join_io", "close_storage", "unwind", "done">>

\* main leaves its loop, and goes from one step of the shutdown to the next.
MainLoop ==
  /\ main_pc = "loop" /\ ~g_running
  /\ main_pc' = Shutdown[1]
  /\ UNCHANGED <<feedVars, g_running, wait_count, strategyVars, connectionVars, ioVars,
                 executorVars, exchangeVars, storageVars, historyVars>>

At(step) ==
  /\ main_pc = step
  /\ \E i \in DOMAIN Shutdown : Shutdown[i] = step /\ main_pc' = Shutdown[i + 1]
  /\ UNCHANGED <<g_running, wait_count>>

StopFeed ==
  /\ At("stop_feed") /\ FeedStop
  /\ UNCHANGED <<strategyVars, connectionVars, ioVars, executorVars, exchangeVars, storageVars,
                 historyVars>>

JoinFeed ==
  /\ At("join_feed") /\ FeedJoin
  /\ UNCHANGED <<strategyVars, connectionVars, ioVars, executorVars, exchangeVars, storageVars,
                 historyVars>>

\* on_stop: a market maker cancels all orders on its ticker, if the connection is
\* authenticated.
OutboxAfterStop(s) ==
  IF s.kind = "market_maker" /\ Authenticated
    THEN Append(outbox, [kind |-> "cancel_all", ticker |-> s.ticker])
    ELSE outbox

\* stop_all: one strategy after the other becomes inactive.
StopAll ==
  LET left == {i \in DOMAIN Strategies : Strategies[i].name \notin stopped}
  IN /\ main_pc = "stop_all"
     /\ \/ left = {} /\ At("stop_all") /\ UNCHANGED <<active, stopped, outbox>>
        \/ \E i \in left :
             LET s == Strategies[i]
             IN /\ \A j \in left : i <= j
                /\ active' = [active EXCEPT ![s.name] = FALSE]
                /\ stopped' = stopped \cup {s.name}
                /\ outbox' = OutboxAfterStop(s)
                /\ UNCHANGED mainVars
     /\ UNCHANGED <<feedVars, append_failures, strategy_pc, todo, persisted, placing, connection,
                    should_reconnect, ioVars, executorVars, exchangeVars, storageVars,
                    events, orders, disconnects, seen, told, too_late>>

\* OrderExecutor::stop: running_, the join, and the connection's close.
StopExecutor ==
  /\ At("stop_executor")
  /\ executor_running' = FALSE
  /\ UNCHANGED <<feedVars, strategyVars, connectionVars, ioVars, executor_pc, trade_queue,
                 exchangeVars, storageVars, historyVars>>

JoinExecutor ==
  /\ At("join_executor") /\ executor_pc = "exited"
  /\ executor_pc' = "joined"
  /\ UNCHANGED <<feedVars, strategyVars, connectionVars, ioVars, executor_running, trade_queue,
                 exchangeVars, storageVars, historyVars>>

CloseConnection ==
  /\ At("close_connection")
  /\ should_reconnect' = FALSE
  /\ connection' = IF connection = "up" THEN "down" ELSE connection
  /\ UNCHANGED <<feedVars, strategyVars, outbox, ioVars, executorVars, exchangeVars,
                 storageVars, historyVars>>

StopIo ==
  /\ At("stop_io")
  /\ ioc_stopped' = TRUE
  /\ UNCHANGED <<feedVars, strategyVars, connectionVars, io_pc, response, executorVars,
                 exchangeVars, storageVars, historyVars>>

JoinIo ==
  /\ At("join_io") /\ io_pc = "exited"
  /\ io_pc' = "joined"
  /\ UNCHANGED <<feedVars, strategyVars, connectionVars, ioc_stopped, response, executorVars,
                 exchangeVars, storageVars, historyVars>>

\* flush, whose result is not looked at, and close.
CloseStorage ==
  /\ At("close_storage")
  /\ closed' = TRUE
  /\ UNCHANGED <<feedVars, strategyVars, connectionVars, ioVars, executorVars, exchangeVars,
                 recorded, refusals, late, historyVars>>

\* The destructors; those of the executor and of the market data client call
\* stop again, which finds nothing to do.
Unwind ==
  /\ At("unwind") /\ FeedDestroy
  /\ UNCHANGED <<strategyVars, connectionVars, ioVars, executorVars, exchangeVars, storageVars,
                 historyVars>>

MainStep ==
  \/ Wait \/ Decide \/ MainLoop \/ StopFeed \/ JoinFeed \/ StopAll \/ StopExecutor
  \/ JoinExecutor \/ CloseConnection \/ StopIo \/ JoinIo \/ CloseStorage \/ Unwind

Next == Signal \/ MainStep \/ FeedStep \/ ExecutorStep \/ IoStep

Spec == Init /\ [][Next]_vars

\* The threads run; a blocked read of the market data ends sooner or later
\* because the exchange sends heartbeats or closes, and so does ws_.close, which
\* waits for the exchange's answer without a deadline.  No signal is owed, and no
\* authentication.
Fairness ==
  /\ WF_vars(MainStep)
  /\ WF_vars(FeedStep)
  /\ WF_vars(ExecutorStep)
  /\ WF_vars(IoRespond \/ IoEnd)

FairSpec == Spec /\ Fairness

-----------------------------------------------------------------------------
(* Properties.  The last two do not hold; the README says why. *)

\* When main closes the storage nobody appends to it any more: the market data
\* thread and the I/O thread, which do, have been joined, so that nothing is
\* refused for that reason.
NothingAppendedAfterClose == late = {}

\* No order is accepted from a strategy that stop_all has stopped and whose
\* orders it has cancelled: the thread that runs its callbacks is gone by then.
StoppedStrategiesAreQuiet == too_late = {}

\* The market data client's std::thread is neither destroyed nor assigned to while
\* it is joinable, also when that thread has ended by itself before stop.
NeverTerminates == ~terminated

\* The market events a strategy was handed, and the responses it was told of,
\* that are not in the storage.
Recorded(n) == \E t \in {"quote", "trade"} : [type |-> t, id |-> n] \in recorded
Lost(s) == {n \in seen[s] : ~Recorded(n)}
Unstored(s) ==
  {r \in told : r.strategy = s /\ [type |-> "OrderResponse", id |-> r.id] \notin recorded}

\* A market event or a response that the storage refused is counted by exactly
\* the strategies that were called for it.
RefusalsReachTheStrategies ==
  \A s \in Names : append_failures[s] = Cardinality(Lost(s)) + Cardinality(Unstored(s))

\* After a signal, or when the authentication fails, main gets through every
\* step of the shutdown: each thread it joins ends.
ShutdownCompletes == ~g_running ~> main_pc = "done"

\* Nothing is open at the exchange when a shutdown with a working connection ends.
NothingRestsAfterShutdown == main_pc = "done" /\ disconnects = 0 => resting = {}

\* While the platform runs, market data does.
FeedRunsWithThePlatform == main_pc = "loop" /\ g_running => feed_thread # "finished"
=============================================================================

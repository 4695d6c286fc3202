------------------------------ MODULE Backtest ------------------------------
(***************************************************************************)
(* The two drivers that replay a storage.  BacktestReplayDriver hands every *)
(* quote and trade first to SimulatedExecutionSink and then to the         *)
(* strategies, and ignores recorded orders.  StorageReplayDriver hands     *)
(* quotes and trades to the strategies and routes recorded responses to    *)
(* the strategy that submitted the order.  Both read page by page, while   *)
(* the storage may grow.  run_backtest of src/main.cpp stops the           *)
(* strategies after the run.                                               *)
(*                                                                         *)
(* Events: quotes [.., bid, ask], trades [.., price], submissions          *)
(* [.., id, strategy] and responses [.., id].                              *)
(***************************************************************************)
EXTENDS SimulatedExecution, InMemoryStorage

CONSTANTS
  Runs,        \* calls of run: [driver, request, recordable], the last of them the events
               \* that the storage may get
  Strategies,  \* strategies_: [id, tickers, market_maker]
  MaxEvents    \* bound: events recorded

Requests == {r.request : r \in Runs}
Recordable == UNION {r.recordable : r \in Runs}

ASSUME DriverAssumption ==
  /\ \A r \in Runs : r.driver \in {"backtest", "replay"}
  /\ Requests \subseteq [start_offset : {None}, start_ts : Nat \cup {None},
                         end_ts : Nat \cup {None}, ticker : Tickers \cup {None},
                         max_events : (Nat \ {0}) \cup {Unlimited}]
  /\ None \notin Nat /\ Unlimited \notin Nat
  /\ \A e \in Recordable :
       /\ e.type = "QuoteUpdate" => e.ticker \in Tickers /\ e.bid \in Nat /\ e.ask \in Nat
       /\ e.type = "MarketTrade" => e.price \in Nat
  /\ Len(Strategies) \in Nat /\ DOMAIN Strategies = 1..Len(Strategies)
  /\ \A i, j \in DOMAIN Strategies : Strategies[i].id = Strategies[j].id => i = j
  /\ MaxEvents \in Nat

VARIABLES
  driver,             \* "backtest" or "replay"
  request,
  filter,             \* the request run was called with
  phase,              \* "fetch", "page", "stop" or "done"
  page,               \* offsets of the batch that are still to be handled
  batch,              \* its end_of_stream and next_offset
  steps,              \* who is still to see the event at hand
  offset,             \* of the event at hand
  todo,               \* places of the strategies that are still to be called
  order_to_strategy,
  (* history *)
  handled,            \* events up to here have been dealt with
  horizon,            \* size of the storage at the last replay call
  calls,              \* the callbacks of strategies: [strategy, offset]
  submitted_at,       \* order -> events handed to strategies or sink so far
  fills               \* resting orders filled: [id, offset]

driverVars == <<driver, request, filter, phase, page, batch, steps, offset, todo,
                order_to_strategy, handled, horizon, calls, submitted_at, fills>>
vars == <<sinkVars, storageVars, driverVars>>

Init ==
  /\ SinkInit /\ StorageInit
  /\ \E r \in Runs : driver = r.driver /\ request = r.request
  /\ filter = request
  /\ phase = "fetch" /\ page = <<>> /\ batch = [end_of_stream |-> TRUE, next_offset |-> None]
  /\ steps = <<>> /\ offset = 0 /\ todo = {} /\ order_to_strategy = <<>>
  /\ handled = 0 /\ horizon = 0 /\ calls = <<>> /\ submitted_at = <<>> /\ fills = {}

Event == events[offset + 1]
IsMarket(e) == e.type \in {"QuoteUpdate", "MarketTrade"}

-----------------------------------------------------------------------------
(* The storage's other user *)

Record(e) ==
  /\ Len(events) < MaxEvents /\ phase # "done"
  /\ \E r \in Runs : r.driver = driver /\ r.request = filter /\ e \in r.recordable
  /\ StorageAppend(e)
  /\ UNCHANGED <<sinkVars, driverVars>>

-----------------------------------------------------------------------------
(* run *)

\* storage_.replay(request).
Fetch ==
  /\ phase = "fetch"
  /\ phase' = "page"
  /\ \E r \in Replay(request) :
       /\ page' = r.events
       /\ batch' = [end_of_stream |-> r.end_of_stream, next_offset |-> r.next_offset]
  /\ horizon' = Len(events)
  /\ UNCHANGED <<sinkVars, storageVars, driver, request, filter, steps, offset, todo,
                 order_to_strategy, handled, calls, submitted_at, fills>>

\* tracks_ticker.
Tracks(s, ticker) == s.tickers = {} \/ ticker \in s.tickers

\* Mutant of MarketSteps: strategies first.
MarketStepsStrategiesFirst ==
  IF driver = "backtest" THEN <<"strategies", "sink">> ELSE <<"strategies">>

\* What a driver does with a quote or a trade.
MarketSteps == IF driver = "backtest" THEN <<"sink", "strategies">> ELSE <<"strategies">>

\* get_strategy finds the strategy.
Known(id) == \E i \in DOMAIN Strategies : Strategies[i].id = id

Idle == phase = "page" /\ steps = <<>> /\ deliveries = <<>>

\* A response finds its strategy.
Routes(e) == e.id \in DOMAIN order_to_strategy

\* The loop takes the next event of the batch; a quote or a trade is then handed
\* over, a recorded order is dealt with at once.
TakeEvent ==
  LET at == Head(page)
      e == events[at + 1]
  IN /\ Idle /\ page # <<>>
     /\ page' = Tail(page) /\ offset' = at /\ handled' = at + 1
     /\ IF IsMarket(e)
          THEN /\ steps' = MarketSteps
               /\ todo' = {i \in DOMAIN Strategies : Tracks(Strategies[i], e.ticker)}
               /\ UNCHANGED <<order_to_strategy, calls>>
          ELSE /\ UNCHANGED <<steps, todo>>
               /\ order_to_strategy' =
                    IF driver = "replay" /\ e.type = "TradeSubmitted"
                      THEN [id \in DOMAIN order_to_strategy \cup {e.id} |->
                             IF id = e.id THEN e.strategy ELSE order_to_strategy[id]]
                      ELSE order_to_strategy
               /\ calls' =
                    IF /\ driver = "replay" /\ e.type = "OrderResponse"
                       /\ Routes(e) /\ Known(order_to_strategy[e.id])
                      THEN Append(calls, [strategy |-> order_to_strategy[e.id], offset |-> at])
                      ELSE calls
     /\ UNCHANGED <<sinkVars, storageVars, driver, request, filter, phase, batch, horizon,
                    submitted_at, fills>>

\* execution_sink_.on_quote or on_trade.
SinkSees ==
  /\ steps # <<>> /\ Head(steps) = "sink" /\ deliveries = <<>>
  /\ IF Event.type = "QuoteUpdate"
       THEN OnQuote(Event.ticker, [bid |-> Event.bid, ask |-> Event.ask])
       ELSE OnTrade(Event.ticker, Event.price)
  /\ steps' = Tail(steps)
  /\ fills' = fills \cup {[id |-> r.id, offset |-> offset] : r \in RangeOf(deliveries')}
  /\ UNCHANGED <<storageVars, driver, request, filter, phase, page, batch, offset, todo,
                 order_to_strategy, handled, horizon, calls, submitted_at>>

\* A walk over strategies_ comes to its next one.
IsNext(i) == i \in todo /\ \A j \in todo : i <= j

\* replay_quote or replay_trade calls the next strategy, or returns.
StrategySees ==
  /\ steps # <<>> /\ Head(steps) = "strategies" /\ deliveries = <<>>
  /\ \/ /\ todo = {}
        /\ steps' = Tail(steps) /\ calling' = FALSE
        /\ UNCHANGED <<todo, calls>>
     \/ \E i \in DOMAIN Strategies :
          /\ IsNext(i)
          /\ todo' = todo \ {i} /\ calling' = TRUE
          /\ calls' = Append(calls, [strategy |-> Strategies[i].id, offset |-> offset])
          /\ UNCHANGED steps
  /\ UNCHANGED <<quotes, resting_orders, next_exchange_order_id, gross_notional, fees, deliveries,
                 submitted, published, recordVars, storageVars, driver, request, filter, phase, page,
                 batch, offset, order_to_strategy, handled, horizon, submitted_at, fills>>

\* The batch is done: go on with the next page, or return and stop_all.
EndPage ==
  /\ Idle /\ page = <<>>
  /\ IF batch.end_of_stream
       THEN /\ phase' = "stop" /\ todo' = IF driver = "backtest" THEN DOMAIN Strategies ELSE {}
            /\ UNCHANGED request
       ELSE /\ phase' = "fetch" /\ request' = [request EXCEPT !.start_offset = batch.next_offset]
            /\ UNCHANGED todo
  /\ UNCHANGED <<sinkVars, storageVars, driver, filter, page, batch, steps, offset,
                 order_to_strategy, handled, horizon, calls, submitted_at, fills>>

\* stop_all: a market maker's on_stop cancels its orders; then the storage is
\* closed.
StopNext ==
  /\ phase = "stop" /\ deliveries = <<>>
  /\ \/ /\ todo = {}
        /\ phase' = "done" /\ calling' = FALSE /\ StorageClose
        /\ UNCHANGED <<quotes, resting_orders, next_exchange_order_id, gross_notional, fees,
                       deliveries, submitted, published, recordVars, todo>>
     \/ \E i \in DOMAIN Strategies :
          /\ IsNext(i)
          /\ todo' = todo \ {i}
          /\ IF Strategies[i].market_maker
               THEN \E t \in Strategies[i].tickers : CancelAll(t)
               ELSE UNCHANGED sinkVars
          /\ UNCHANGED <<storageVars, phase>>
  /\ UNCHANGED <<driver, request, filter, page, batch, steps, offset, order_to_strategy, handled,
                 horizon, calls, submitted_at, fills>>

\* A strategy's code runs: it submits or cancels.  Once all are stopped
\* place_limit_order and place_market_order refuse.
StrategySubmits(t) ==
  /\ driver = "backtest" /\ (phase = "stop" => todo # {})
  /\ Submit(t)
  /\ submitted_at' = Append(submitted_at, handled)
  /\ UNCHANGED <<storageVars, driver, request, filter, phase, page, batch, steps, offset, todo,
                 order_to_strategy, handled, horizon, calls, fills>>

StrategyCancels ==
  /\ driver = "backtest" /\ calling
  /\ \E instrument \in Tickers \cup {""} :
       \/ \E o \in RangeOf(resting_orders) : \/ CancelOrder(instrument, o.id, 0)
                                             \/ CancelOrder(instrument, 0, o.exchange_order_id)
       \/ CancelAll(instrument)
  /\ UNCHANGED <<storageVars, driverVars>>

SinkDelivers == Deliver /\ UNCHANGED <<storageVars, driverVars>>

Next ==
  \/ \E e \in Recordable : Record(e)
  \/ Fetch \/ TakeEvent \/ SinkSees \/ StrategySees \/ EndPage \/ StopNext
  \/ \E t \in Orders : StrategySubmits(t)
  \/ StrategyCancels
  \/ SinkDelivers

Spec == Init /\ [][Next]_vars

-----------------------------------------------------------------------------
(* Properties *)

\* A resting order is never filled by the quote or trade that its strategy was
\* reacting to when it submitted the order, only by a later one.
NoLookAhead == \A f \in fills : submitted_at[f.id + 1] <= f.offset

\* The submissions of an order that a run has met before it comes to its response.
Submissions(at) ==
  {n \in Matching(filter) : /\ n < at /\ events[n + 1].type = "TradeSubmitted"
                            /\ events[n + 1].id = events[at + 1].id}
Owns(s, at) ==
  \E n \in Submissions(at) : /\ \A m \in Submissions(at) : m <= n
                             /\ events[n + 1].strategy = s.id

\* The recording says that this strategy is called for the event at an offset.
Called(s, at) ==
  LET e == events[at + 1]
  IN \/ IsMarket(e) /\ Tracks(s, e.ticker)
     \/ e.type = "OrderResponse" /\ driver = "replay" /\ Owns(s, at)

\* One call comes before another.
Precedes(c, d) ==
  \/ c.offset < d.offset
  \/ /\ c.offset = d.offset
     /\ \E i, j \in DOMAIN Strategies : /\ i < j /\ Strategies[i].id = c.strategy
                                        /\ Strategies[j].id = d.strategy

\* The strategies are called as the recording says: for every quote and trade
\* that matches the request, in order, each strategy that tracks its ticker, and
\* (StorageReplayDriver) for every response the strategy that last submitted its
\* order.  Nothing is skipped or repeated between two pages, and a finished run
\* has dealt with all that was recorded when it asked for its last page.
StrategiesSeeTheRecording ==
  LET upto == IF phase \in {"page", "fetch"} THEN handled ELSE horizon
      seen == {at \in Matching(filter) : at < upto}
  IN steps = <<>> =>
       /\ RangeOf(calls) = UNION {{[strategy |-> Strategies[i].id, offset |-> at] :
                                     i \in {j \in DOMAIN Strategies : Called(Strategies[j], at)}} :
                                   at \in seen}
       /\ \A k, l \in DOMAIN calls : k < l => Precedes(calls[k], calls[l])
=============================================================================

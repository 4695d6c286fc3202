------------------------- MODULE LivePlatformProofs -------------------------
(***************************************************************************)
(* Proofs about the shutdown of LivePlatform, for any strategies, messages *)
(* and any number of orders, refused appends and lost connections.         *)
(***************************************************************************)
EXTENDS LivePlatform, Integers, TLAPS

\* The market data thread has been joined.
FeedJoined ==
  main_pc \in {"stop_all", "stop_executor", "join_executor", "close_connection",
               "stop_io", "join_io", "close_storage", "unwind", "done"}

\* What the shutdown's properties depend on.
shutdownVars ==
  <<terminated, too_late, late, main_pc, feed_thread, feed_pc, strategy_pc, stopped, io_pc, closed>>

\* Inductive: which threads can be where when main is at a step.  A strategy runs
\* only inside a callback of the market data thread; that thread and the I/O
\* thread are gone before what they use is.
PlatformInv ==
  /\ ~terminated /\ too_late = {} /\ late = {}
  /\ feed_thread \in {"none", "started", "finished", "joined"}
  /\ feed_thread # "started" => feed_pc = "off"
  /\ feed_pc # "callback" => strategy_pc = "idle"
  /\ main_pc \in {"wait", "decide"} => feed_thread = "none"
  /\ FeedJoined => feed_thread \in {"none", "joined"}
  /\ stopped # {} => FeedJoined
  /\ main_pc \in {"close_storage", "unwind", "done"} => io_pc = "joined"
  /\ closed => main_pc \in {"unwind", "done"}

\* Nothing has happened yet.
LEMMA PlatformInvInit == Init => PlatformInv
  BY Zenon DEF Init, FeedInit, PlatformInv, FeedJoined

\* A step that changes none of these variables.
LEMMA ShutdownFrame ==
  ASSUME PlatformInv, UNCHANGED shutdownVars
  PROVE  PlatformInv'
  BY Zenon DEF PlatformInv, FeedJoined, shutdownVars

\* The order of main's steps.
LEMMA Order ==
  ASSUME NEW step, At(step)
  PROVE  /\ main_pc = step
         /\ step = "stop_feed" => main_pc' = "join_feed"
         /\ step = "join_feed" => main_pc' = "stop_all"
         /\ step = "stop_all" => main_pc' = "stop_executor"
         /\ step = "stop_executor" => main_pc' = "join_executor"
         /\ step = "join_executor" => main_pc' = "close_connection"
         /\ step = "close_connection" => main_pc' = "stop_io"
         /\ step = "stop_io" => main_pc' = "join_io"
         /\ step = "join_io" => main_pc' = "close_storage"
         /\ step = "close_storage" => main_pc' = "unwind"
         /\ step = "unwind" => main_pc' = "done"
<1>1. main_pc = step
  BY Zenon DEF At
<1>2. PICK i \in 1..11 : Shutdown[i] = step /\ main_pc' = Shutdown[i + 1]
  BY DEF At, Shutdown
<1>3. i \in {1, 2, 3, 4, 5, 6, 7, 8, 9, 10, 11}
  OBVIOUS
<1> QED
  BY <1>1, <1>2, <1>3 DEF Shutdown

-----------------------------------------------------------------------------
\* The market data thread between callbacks.
LEMMA FeedKeepsInv ==
  ASSUME PlatformInv,
         \/ FeedConnect \/ FeedLoop \/ FeedRead \/ FeedHandle \/ FeedCallback
         \/ FeedClose \/ FeedEnd,
         UNCHANGED <<too_late, late, main_pc, strategy_pc, stopped, io_pc, closed>>
  PROVE  PlatformInv'
<1>1. UNCHANGED terminated
  BY Zenon DEF FeedConnect, FeedLoop, FeedRead, FeedHandle, FeedCallback, FeedClose, FeedEnd, FeedGoto
<1>2. feed_pc \in {"connect", "loop", "read", "handle", "close", "end"}
  BY Zenon DEF FeedConnect, FeedLoop, FeedRead, FeedHandle, FeedCallback, FeedClose, FeedEnd
<1>3. feed_thread = "started" /\ ~FeedJoined /\ main_pc \notin {"wait", "decide"} /\ strategy_pc = "idle"
  BY <1>2, Zenon DEF PlatformInv
<1>4. \/ UNCHANGED feed_thread
      \/ feed_thread' = "finished" /\ feed_pc' = "off"
  BY Zenon DEF FeedConnect, FeedLoop, FeedRead, FeedHandle, FeedCallback, FeedClose, FeedEnd, FeedGoto
<1> QED
  BY <1>1, <1>3, <1>4, Zenon DEF PlatformInv, FeedJoined

\* An append of a thread that main has not joined finds the storage open.
LEMMA AppendKeepsInv ==
  ASSUME PlatformInv, NEW e, NEW ok \in BOOLEAN, StorageAppend(e, ok), ~closed
  PROVE  late' = {} /\ closed' = closed
  BY Zenon DEF PlatformInv, StorageAppend

\* The strategies, inside a callback.
LEMMA StrategiesKeepInv ==
  ASSUME PlatformInv,
         Dispatch \/ HandOver \/ PlaceOrder \/ SubmitTrade \/ StoreSubmitted \/ DispatchReturns
  PROVE  PlatformInv'
<1>1. feed_pc = "callback"
  BY Zenon DEF PlatformInv, Dispatch, HandOver, PlaceOrder, SubmitTrade, StoreSubmitted, DispatchReturns
<1>2. /\ feed_thread = "started" /\ ~FeedJoined /\ main_pc \notin {"wait", "decide"}
      /\ stopped = {} /\ ~closed
  BY <1>1, Zenon DEF PlatformInv, FeedJoined
<1>3. UNCHANGED <<terminated, main_pc, feed_thread, stopped, io_pc>>
  BY ZenonT(30) DEF Dispatch, HandOver, PlaceOrder, SubmitTrade, StoreSubmitted, DispatchReturns, FeedReturn,
         feedVars, mainVars, ioVars, historyVars
<1>4. too_late' = {}
  BY <1>2, Zenon DEF PlatformInv, Dispatch, HandOver, PlaceOrder, SubmitTrade, StoreSubmitted, DispatchReturns,
         historyVars
<1>5. late' = {} /\ closed' = closed
  <2>1. CASE Dispatch \/ StoreSubmitted
    BY <1>2, <2>1, AppendKeepsInv, Zenon DEF Dispatch, StoreSubmitted
  <2>2. CASE HandOver \/ PlaceOrder \/ SubmitTrade \/ DispatchReturns
    BY <2>2, Zenon DEF HandOver, PlaceOrder, SubmitTrade, DispatchReturns, storageVars, PlatformInv
  <2> QED
    BY <2>1, <2>2, Zenon
<1>6. feed_pc' # "callback" => strategy_pc' = "idle"
  BY <1>1, Zenon DEF Dispatch, HandOver, PlaceOrder, SubmitTrade, StoreSubmitted, DispatchReturns, FeedReturn, feedVars
<1> QED
  BY <1>2, <1>3, <1>4, <1>5, <1>6, Zenon DEF PlatformInv, FeedJoined

\* The executor thread, the I/O thread and a signal: only the I/O thread's
\* response handler appends, and only while main has not joined it.
LEMMA OthersKeepInv ==
  ASSUME PlatformInv, Signal \/ ExecutorStep \/ IoStep
  PROVE  PlatformInv'
<1>1. CASE Signal \/ ExecutorStep \/ IoConnect \/ IoDisconnect \/ IoWrite
  <2>1. UNCHANGED shutdownVars
    BY <1>1, Zenon DEF Signal, ExecutorStep, ExecutorHead, ExecutorDrain, IoConnect, IoDisconnect,
         IoWrite, shutdownVars, feedVars, mainVars, strategyVars, ioVars, storageVars, historyVars
  <2> QED
    BY <2>1, ShutdownFrame, Zenon
<1>2. CASE IoRead \/ IoRespond \/ IoEnd
  <2>1. io_pc \in {"run", "respond"}
    BY <1>2, Zenon DEF IoRead, IoRespond, IoEnd, IoRuns
  <2>2. main_pc \notin {"close_storage", "unwind", "done"} /\ ~closed
    BY <2>1, Zenon DEF PlatformInv
  <2>3. UNCHANGED <<terminated, too_late, main_pc, feed_thread, feed_pc, strategy_pc, stopped>>
    BY <1>2, Zenon DEF IoRead, IoRespond, IoEnd, feedVars, mainVars, strategyVars, historyVars
  <2>4. late' = {} /\ closed' = closed
    <3>1. CASE IoRespond
      BY <2>2, <3>1, AppendKeepsInv, Zenon DEF IoRespond
    <3>2. CASE IoRead \/ IoEnd
      BY <3>2, Zenon DEF IoRead, IoEnd, storageVars, PlatformInv
    <3> QED
      BY <1>2, <3>1, <3>2, Zenon
  <2> QED
    BY <2>2, <2>3, <2>4, Zenon DEF PlatformInv, FeedJoined
<1> QED
  BY <1>1, <1>2, Zenon DEF IoStep

\* main: each step of the shutdown finds what the steps before it have left.
LEMMA MainKeepsInv ==
  ASSUME PlatformInv, MainStep
  PROVE  PlatformInv'
<1>1. CASE Wait
  <2>1. main_pc = "wait" /\ main_pc' \in {"wait", "decide"}
    BY <1>1, Zenon DEF Wait
  <2>2. UNCHANGED <<terminated, too_late, late, feed_thread, feed_pc, strategy_pc, stopped, io_pc, closed>>
    BY <1>1, Zenon DEF Wait, feedVars, strategyVars, ioVars, storageVars, historyVars
  <2> QED
    BY <2>1, <2>2, Zenon DEF PlatformInv, FeedJoined
<1>2. CASE Decide
  <2>1. main_pc = "decide" /\ main_pc' = "loop" /\ feed_thread = "none" /\ feed_pc = "off"
    BY <1>2, Zenon DEF Decide, PlatformInv
  <2>2. UNCHANGED <<too_late, late, strategy_pc, stopped, io_pc, closed>>
    BY <1>2, Zenon DEF Decide, ioVars, storageVars, historyVars
  <2>3. ~terminated'
    BY <1>2, <2>1, ZenonT(60) DEF Decide, FeedStart, Joinable, feedVars, PlatformInv
  <2>4. \/ UNCHANGED <<feed_thread, feed_pc>>
        \/ feed_thread' = "started" /\ feed_pc' = "connect"
    BY <1>2, Zenon DEF Decide, FeedStart, feedVars
  <2> QED
    BY <2>1, <2>2, <2>3, <2>4, Zenon DEF PlatformInv, FeedJoined
<1>3. CASE MainLoop
  <2>1. main_pc = "loop" /\ main_pc' = "stop_feed"
    BY <1>3, Zenon DEF MainLoop, Shutdown
  <2>2. UNCHANGED <<terminated, too_late, late, feed_thread, feed_pc, strategy_pc, stopped, io_pc, closed>>
    BY <1>3, Zenon DEF MainLoop, feedVars, strategyVars, ioVars, storageVars, historyVars
  <2> QED
    BY <2>1, <2>2, Zenon DEF PlatformInv, FeedJoined
<1>4. CASE StopFeed
  <2>1. main_pc = "stop_feed" /\ main_pc' = "join_feed"
    BY <1>4, Order, Zenon DEF StopFeed
  <2>2. UNCHANGED <<terminated, too_late, late, feed_thread, feed_pc, strategy_pc, stopped, io_pc, closed>>
    BY <1>4, Zenon DEF StopFeed, FeedStop, strategyVars, ioVars, storageVars, historyVars
  <2> QED
    BY <2>1, <2>2, Zenon DEF PlatformInv, FeedJoined
<1>5. CASE JoinFeed
  <2>1. main_pc = "join_feed" /\ main_pc' = "stop_all"
    BY <1>5, Order, Zenon DEF JoinFeed
  <2>2. UNCHANGED <<terminated, too_late, late, feed_pc, strategy_pc, stopped, io_pc, closed>>
    BY <1>5, Zenon DEF JoinFeed, FeedJoin, strategyVars, ioVars, storageVars, historyVars
  <2>3. feed_thread' \in {"none", "joined"} /\ feed_pc = "off"
    BY <1>5, Zenon DEF JoinFeed, FeedJoin, MustJoin, Joinable, PlatformInv
  <2> QED
    BY <2>1, <2>2, <2>3, Zenon DEF PlatformInv, FeedJoined
<1>6. CASE StopAll
  <2>1. main_pc = "stop_all" /\ main_pc' \in {"stop_all", "stop_executor"}
    BY <1>6, Order, ZenonT(60) DEF StopAll, mainVars
  <2>2. UNCHANGED <<terminated, too_late, late, feed_thread, feed_pc, strategy_pc, io_pc, closed>>
    BY <1>6, Zenon DEF StopAll, feedVars, ioVars, storageVars
  <2> QED
    BY <2>1, <2>2, Zenon DEF PlatformInv, FeedJoined
<1>7. CASE StopExecutor \/ JoinExecutor \/ CloseConnection \/ StopIo
  <2>1. /\ main_pc \in {"stop_executor", "join_executor", "close_connection", "stop_io"}
        /\ main_pc' \in {"join_executor", "close_connection", "stop_io", "join_io"}
    BY <1>7, Order, Zenon DEF StopExecutor, JoinExecutor, CloseConnection, StopIo
  <2>2. UNCHANGED <<terminated, too_late, late, feed_thread, feed_pc, strategy_pc, stopped, io_pc, closed>>
    BY <1>7, Zenon DEF StopExecutor, JoinExecutor, CloseConnection, StopIo, feedVars, strategyVars,
         ioVars, storageVars, historyVars
  <2> QED
    BY <2>1, <2>2, Zenon DEF PlatformInv, FeedJoined
<1>8. CASE JoinIo
  <2>1. main_pc = "join_io" /\ main_pc' = "close_storage" /\ io_pc' = "joined"
    BY <1>8, Order, Zenon DEF JoinIo
  <2>2. UNCHANGED <<terminated, too_late, late, feed_thread, feed_pc, strategy_pc, stopped, closed>>
    BY <1>8, Zenon DEF JoinIo, feedVars, strategyVars, storageVars, historyVars
  <2> QED
    BY <2>1, <2>2, Zenon DEF PlatformInv, FeedJoined
<1>9. CASE CloseStorage
  <2>1. main_pc = "close_storage" /\ main_pc' = "unwind"
    BY <1>9, Order, Zenon DEF CloseStorage
  <2>2. UNCHANGED <<terminated, too_late, late, feed_thread, feed_pc, strategy_pc, stopped, io_pc>>
    BY <1>9, Zenon DEF CloseStorage, feedVars, strategyVars, ioVars, historyVars
  <2> QED
    BY <2>1, <2>2, Zenon DEF PlatformInv, FeedJoined
<1>10. CASE Unwind
  <2>1. main_pc = "unwind" /\ main_pc' = "done"
    BY <1>10, Order, Zenon DEF Unwind
  <2>2. UNCHANGED <<too_late, late, feed_thread, feed_pc, strategy_pc, stopped, io_pc, closed>>
    BY <1>10, Zenon DEF Unwind, FeedDestroy, strategyVars, ioVars, storageVars, historyVars
  <2>3. ~terminated'
    BY <1>10, <2>1, ZenonT(60) DEF Unwind, FeedDestroy, Joinable, PlatformInv, FeedJoined
  <2> QED
    BY <2>1, <2>2, <2>3, Zenon DEF PlatformInv, FeedJoined
<1> QED
  BY <1>1, <1>2, <1>3, <1>4, <1>5, <1>6, <1>7, <1>8, <1>9, <1>10, Zenon DEF MainStep

\* PlatformInv holds at every moment.
THEOREM PlatformInvariance == Spec => []PlatformInv
<1>1. PlatformInv /\ [Next]_vars => PlatformInv'
  <2> SUFFICES ASSUME PlatformInv, [Next]_vars PROVE PlatformInv'
    BY Zenon
  <2>1. CASE UNCHANGED vars
    <3>1. UNCHANGED shutdownVars
      BY <2>1, Zenon DEF vars, shutdownVars, feedVars, mainVars, strategyVars, ioVars, storageVars,
           historyVars
    <3> QED
      BY <3>1, ShutdownFrame, Zenon
  <2>2. CASE FeedStep
    <3>1. CASE Dispatch \/ HandOver \/ PlaceOrder \/ SubmitTrade \/ StoreSubmitted \/ DispatchReturns
      BY <3>1, StrategiesKeepInv, Zenon
    <3>2. CASE /\ \/ FeedConnect \/ FeedLoop \/ FeedRead \/ FeedHandle \/ FeedCallback
                  \/ FeedClose \/ FeedEnd
               /\ UNCHANGED <<mainVars, strategyVars, connectionVars, ioVars, executorVars, exchangeVars,
                              storageVars, historyVars>>
      <4>1. UNCHANGED <<too_late, late, main_pc, strategy_pc, stopped, io_pc, closed>>
        BY <3>2, Zenon DEF mainVars, strategyVars, ioVars, storageVars, historyVars
      <4> QED
        BY <3>2, <4>1, FeedKeepsInv, Zenon
    <3> QED
      BY <2>2, <3>1, <3>2, Zenon DEF FeedStep
  <2> QED
    BY <2>1, <2>2, OthersKeepInv, MainKeepsInv, Zenon DEF Next
<1> QED
  BY <1>1, PlatformInvInit, PTL DEF Spec

\* Nothing is appended to a storage that main has closed.
THEOREM CloseIsLast == Spec => []NothingAppendedAfterClose
<1>1. PlatformInv => NothingAppendedAfterClose
  BY Zenon DEF PlatformInv, NothingAppendedAfterClose
<1> QED
  BY <1>1, PlatformInvariance, PTL

\* No order is accepted from a strategy that stop_all has stopped.
THEOREM QuietAfterStop == Spec => []StoppedStrategiesAreQuiet
<1>1. PlatformInv => StoppedStrategiesAreQuiet
  BY Zenon DEF PlatformInv, StoppedStrategiesAreQuiet
<1> QED
  BY <1>1, PlatformInvariance, PTL

\* The market data thread is never destroyed or replaced while joinable.
THEOREM NoTermination == Spec => []NeverTerminates
<1>1. PlatformInv => NeverTerminates
  BY Zenon DEF PlatformInv, NeverTerminates
<1> QED
  BY <1>1, PlatformInvariance, PTL

-----------------------------------------------------------------------------
(* Refused appends are counted by the strategies that were called *)

OrderSet == [kind : {"order"}, id : Nat, strategy : Names, ticker : Tickers]
MessageSet == OrderSet \cup [kind : {"cancel_all"}, ticker : Tickers]

\* The numbers of the orders in a sequence of messages, and that none is in it twice.
IsOrder(m) == m.kind = "order"
Ids(q) == {q[i].id : i \in {j \in DOMAIN q : IsOrder(q[j])}}
Once(q) ==
  \A i, j \in DOMAIN q : IsOrder(q[i]) /\ IsOrder(q[j]) /\ q[i].id = q[j].id => i = j

\* Appending an order with a new number.
LEMMA IdsAppend ==
  ASSUME NEW q \in Seq(MessageSet), NEW m \in MessageSet
  PROVE  /\ Append(q, m) \in Seq(MessageSet)
         /\ Ids(Append(q, m)) = IF IsOrder(m) THEN Ids(q) \cup {m.id} ELSE Ids(q)
         /\ Once(q) /\ (IsOrder(m) => m.id \notin Ids(q)) => Once(Append(q, m))
<1>1. /\ Append(q, m) \in Seq(MessageSet)
      /\ DOMAIN q = 1..Len(q) /\ DOMAIN Append(q, m) = 1..(Len(q) + 1) /\ Len(q) \in Nat
      /\ Append(q, m)[Len(q) + 1] = m /\ \A i \in 1..Len(q) : Append(q, m)[i] = q[i]
  OBVIOUS
<1>. DEFINE r == Append(q, m)
<1>. HIDE DEF r
<1>2. Ids(r) = IF IsOrder(m) THEN Ids(q) \cup {m.id} ELSE Ids(q)
  BY <1>1 DEF Ids, r
<1>3. Once(q) /\ (IsOrder(m) => m.id \notin Ids(q)) => Once(r)
  BY <1>1 DEF Ids, Once, r
<1>. QED
  BY <1>1, <1>2, <1>3, Zenon DEF r

\* Removing the oldest message.
LEMMA IdsTail ==
  ASSUME NEW q \in Seq(MessageSet), q # <<>>
  PROVE  /\ Tail(q) \in Seq(MessageSet) /\ Head(q) \in MessageSet
         /\ Ids(q) = IF IsOrder(Head(q)) THEN Ids(Tail(q)) \cup {Head(q).id} ELSE Ids(Tail(q))
         /\ Once(q) => Once(Tail(q)) /\ (IsOrder(Head(q)) => Head(q).id \notin Ids(Tail(q)))
<1>1. /\ Tail(q) \in Seq(MessageSet) /\ Head(q) \in MessageSet /\ Head(q) = q[1]
      /\ DOMAIN q = 1..Len(q) /\ Len(q) \in Nat \ {0} /\ DOMAIN Tail(q) = 1..(Len(q) - 1)
      /\ \A i \in 1..(Len(q) - 1) : Tail(q)[i] = q[i + 1]
  OBVIOUS
<1>. DEFINE r == Tail(q)
            h == Head(q)
<1>. HIDE DEF r, h
<1>2. Ids(q) = IF IsOrder(h) THEN Ids(r) \cup {h.id} ELSE Ids(r)
  <2>1. ASSUME NEW i \in DOMAIN q, IsOrder(q[i]), q[i].id # h.id \/ ~IsOrder(h)
        PROVE  q[i].id \in Ids(r)
    <3>1. i # 1 /\ i - 1 \in 1..(Len(q) - 1) /\ r[i - 1] = q[i]
      BY <1>1, <2>1 DEF r, h
    <3>. QED
      BY <1>1, <2>1, <3>1, Zenon DEF Ids, r
  <2>2. ASSUME NEW i \in DOMAIN r, IsOrder(r[i])
        PROVE  r[i].id \in Ids(q)
    <3>1. i + 1 \in DOMAIN q /\ q[i + 1] = r[i]
      BY <1>1, <2>2 DEF r
    <3>. QED
      BY <2>2, <3>1, Zenon DEF Ids
  <2>3. IsOrder(h) => h.id \in Ids(q)
    BY <1>1 DEF Ids, h
  <2>4. Ids(r) \subseteq Ids(q)
    BY <2>2, Zenon DEF Ids
  <2>5. \A x \in Ids(q) : x \in Ids(r) \/ (IsOrder(h) /\ x = h.id)
    BY <2>1, Zenon DEF Ids
  <2>. QED
    BY <2>3, <2>4, <2>5, ZenonT(30)
<1>3. Once(q) => Once(r)
  <2>. SUFFICES ASSUME Once(q), NEW i \in DOMAIN r, NEW j \in DOMAIN r,
                       IsOrder(r[i]), IsOrder(r[j]), r[i].id = r[j].id
                PROVE  i = j
    BY Zenon DEF Once
  <2>1. i + 1 \in DOMAIN q /\ j + 1 \in DOMAIN q /\ q[i + 1] = r[i] /\ q[j + 1] = r[j] /\ i \in Int /\ j \in Int
    BY <1>1 DEF r
  <2>2. i + 1 = j + 1
    BY <2>1, Zenon DEF Once
  <2>. QED
    BY <2>1, <2>2
<1>4. Once(q) /\ IsOrder(h) => h.id \notin Ids(r)
  <2>. SUFFICES ASSUME Once(q), IsOrder(h), NEW i \in DOMAIN r, IsOrder(r[i]), r[i].id = h.id
                PROVE  FALSE
    BY Zenon DEF Ids
  <2>1. i + 1 \in DOMAIN q /\ q[i + 1] = r[i] /\ 1 \in DOMAIN q /\ q[1] = h /\ i \in 1..(Len(q) - 1)
    BY <1>1 DEF r, h
  <2>2. i + 1 = 1
    BY <2>1, Zenon DEF Once
  <2>. QED
    BY <2>1, <2>2
<1>. QED
  BY <1>1, <1>2, <1>3, <1>4, Zenon DEF r, h

\* What is left to dispatch is an end of the list of strategies, and the strategy
\* that runs is its first.
StrategySet == [name : Names, kind : {"market_maker", "momentum"}, ticker : Tickers]
Inside == {"place", "submit", "store"}
TodoInv ==
  /\ todo \in Seq(StrategySet)
  /\ Len(todo) <= Len(Strategies)
  /\ \A i \in 1..Len(todo) : todo[i] = Strategies[Len(Strategies) - Len(todo) + i]
  /\ strategy_pc \in Inside => todo # <<>>

\* The list of strategies is walked from its first to its last.
LEMMA TodoInvariance == Spec => []TodoInv
<1>0. Strategies \in Seq(StrategySet)
  BY PlatformAssumption, Zenon DEF StrategySet
<1>1. Init => TodoInv
  BY <1>0 DEF Init, TodoInv, Inside
<1>2. ASSUME TodoInv, [Next]_vars
      PROVE  TodoInv'
  <2>1. CASE UNCHANGED <<todo, strategy_pc>>
    BY <1>2, <2>1, Zenon DEF TodoInv
  <2>2. ASSUME todo # <<>>, todo' = Tail(todo), strategy_pc' = "next"
        PROVE  TodoInv'
    <3>1. /\ Tail(todo) \in Seq(StrategySet) /\ Len(Tail(todo)) = Len(todo) - 1 /\ Len(todo) \in Nat
          /\ \A i \in 1..(Len(todo) - 1) : Tail(todo)[i] = todo[i + 1]
      BY <1>2, <2>2 DEF TodoInv
    <3>2. Len(Strategies) \in Nat
      BY <1>0
    <3>3. ASSUME NEW i \in 1..Len(todo')
          PROVE  todo'[i] = Strategies[Len(Strategies) - Len(todo') + i]
      <4>1. i + 1 \in 1..Len(todo) /\ todo'[i] = todo[i + 1]
        BY <2>2, <3>1, <3>3
      <4>2. Len(Strategies) - Len(todo) + (i + 1) = Len(Strategies) - Len(todo') + i
        BY <2>2, <3>1, <3>2, <3>3
      <4>. QED
        BY <1>2, <4>1, <4>2, Zenon DEF TodoInv
    <3>. QED
      BY <1>2, <2>2, <3>1, <3>2, <3>3 DEF TodoInv, Inside
  <2>3. CASE Dispatch
    <3>1. todo' = Strategies /\ strategy_pc' = "next"
      BY <2>3, Zenon DEF Dispatch
    <3>. QED
      BY <1>0, <3>1 DEF TodoInv, Inside
  <2>4. CASE HandOver
    <3>1. \/ todo # <<>> /\ todo' = Tail(todo) /\ strategy_pc' = "next"
          \/ todo # <<>> /\ todo' = todo
      BY <2>4, Zenon DEF HandOver
    <3>. QED
      BY <1>2, <2>2, <3>1, Zenon DEF TodoInv
  <2>5. CASE PlaceOrder
    <3>1. \/ strategy_pc = "place" /\ todo' = Tail(todo) /\ strategy_pc' = "next"
          \/ strategy_pc = "place" /\ todo' = todo
      BY <2>5, Zenon DEF PlaceOrder
    <3>. QED
      BY <1>2, <2>2, <3>1, Zenon DEF TodoInv, Inside
  <2>6. CASE SubmitTrade \/ StoreSubmitted
    <3>1. strategy_pc \in Inside /\ todo' = todo
      BY <2>6, Zenon DEF SubmitTrade, StoreSubmitted, Inside
    <3>. QED
      BY <1>2, <3>1, Zenon DEF TodoInv
  <2>7. CASE DispatchReturns
    <3>1. todo' = todo /\ strategy_pc' = "idle"
      BY <2>7, Zenon DEF DispatchReturns
    <3>. QED
      BY <1>2, <3>1, Zenon DEF TodoInv, Inside
  <2>8. ASSUME \/ FeedStep /\ UNCHANGED strategyVars
               \/ Signal \/ MainStep \/ ExecutorStep \/ IoStep \/ UNCHANGED vars
        PROVE  UNCHANGED <<todo, strategy_pc>>
    BY <2>8, Zenon DEF Signal, MainStep, Wait, Decide, MainLoop, StopFeed, JoinFeed, StopAll, StopExecutor,
       JoinExecutor, CloseConnection, StopIo, JoinIo, CloseStorage, Unwind, ExecutorStep, ExecutorHead,
       ExecutorDrain, IoStep, IoConnect, IoDisconnect, IoWrite, IoRead, IoRespond, IoEnd, strategyVars, vars
  <2>. QED
    BY <1>2, <2>1, <2>3, <2>4, <2>5, <2>6, <2>7, <2>8, Zenon DEF Next, FeedStep
<1>. QED
  BY <1>1, <1>2, PTL DEF Spec

\* What a callback runs for is a quote or a trade.
EventInv == items \in Seq(Items) /\ (feed_pc = "callback" => event \in Items)

\* The market data client hands over nothing else.
LEMMA EventInvariance == Spec => []EventInv
<1>1. Init => EventInv
  BY DEF Init, FeedInit, EventInv
<1>2. ASSUME EventInv, [Next]_vars
      PROVE  EventInv'
  <2>1. ASSUME items' \in Seq(Items), feed_pc' # "callback"
        PROVE  EventInv'
    BY <2>1, Zenon DEF EventInv
  <2>2. CASE FeedConnect \/ FeedLoop \/ FeedRead \/ FeedHandle \/ FeedClose \/ FeedEnd
    <3>1. items' \in Seq(Items)
      <4>1. CASE FeedRead
        BY <1>2, <4>1, FeedAssumption, Zenon DEF FeedRead, EventInv
      <4>2. CASE FeedHandle
        <5>1. items' = items \/ (items # <<>> /\ items' = Tail(items)) \/ items' = <<>>
          BY <4>2, Zenon DEF FeedHandle
        <5>2. items \in Seq(Items) /\ <<>> \in Seq(Items)
          BY <1>2 DEF EventInv
        <5>3. items # <<>> => Tail(items) \in Seq(Items)
          BY <5>2
        <5>. QED
          BY <5>1, <5>2, <5>3, ZenonT(30)
      <4>3. CASE FeedConnect \/ FeedLoop \/ FeedClose \/ FeedEnd
        BY <1>2, <4>3, Zenon DEF FeedConnect, FeedLoop, FeedClose, FeedEnd, EventInv
      <4>. QED
        BY <2>2, <4>1, <4>2, <4>3, Zenon
    <3>2. feed_pc' # "callback"
      BY <2>2, Zenon DEF FeedConnect, FeedLoop, FeedRead, FeedHandle, FeedClose, FeedEnd, FeedGoto
    <3>. QED
      BY <2>1, <3>1, <3>2, Zenon
  <2>3. CASE FeedCallback
    BY <1>2, <2>3 DEF FeedCallback, EventInv
  <2>4. CASE DispatchReturns
    BY <1>2, <2>4, Zenon DEF DispatchReturns, FeedReturn, EventInv
  <2>5. CASE UNCHANGED <<items, event, feed_pc>>
    BY <1>2, <2>5, Zenon DEF EventInv
  <2>6. CASE Decide
    <3>1. UNCHANGED <<items, event>> /\ (feed_pc' = feed_pc \/ feed_pc' = "connect")
      BY <2>6, Zenon DEF Decide, FeedStart, feedVars
    <3>. QED
      BY <1>2, <3>1, Zenon DEF EventInv
  <2>7. ASSUME \/ Dispatch \/ HandOver \/ PlaceOrder \/ SubmitTrade \/ StoreSubmitted
               \/ Wait \/ MainLoop \/ StopFeed \/ JoinFeed \/ StopAll \/ StopExecutor
               \/ JoinExecutor \/ CloseConnection \/ StopIo \/ JoinIo \/ CloseStorage \/ Unwind
               \/ Signal \/ ExecutorStep \/ IoStep \/ UNCHANGED vars
        PROVE  UNCHANGED <<items, event, feed_pc>>
    BY <2>7, Zenon DEF Dispatch, HandOver, PlaceOrder, SubmitTrade, StoreSubmitted,
       Signal, Wait, MainLoop, StopFeed, FeedStop, JoinFeed, FeedJoin, StopAll, StopExecutor,
       JoinExecutor, CloseConnection, StopIo, JoinIo, CloseStorage, Unwind, FeedDestroy, ExecutorStep,
       ExecutorHead, ExecutorDrain, IoStep, IoConnect, IoDisconnect, IoWrite, IoRead, IoRespond, IoEnd,
       feedVars, vars
  <2>. QED
    BY <1>2, <2>2, <2>3, <2>4, <2>5, <2>6, <2>7, Zenon DEF Next, FeedStep, MainStep
<1>. QED
  BY <1>1, <1>2, PTL DEF Spec

\* Where the number of an order is: it waits in the executor's queue, in the send
\* queue or in the exchange's responses, is in the hands of the I/O thread, or has
\* been told to its strategy.
InHand == IF io_pc = "respond" THEN {response.id} ELSE {}
ToldIds == {r.id : r \in told}

\* What the proofs use of finite sets and of the number of their elements.  These
\* are facts of the library, which is cited once, behind the lemmas.
FiniteSetFacts ==
  /\ IsFiniteSet({}) /\ Cardinality({}) = 0
  /\ \A S : IsFiniteSet(S) => Cardinality(S) \in Nat
  /\ \A S, T : IsFiniteSet(S) /\ T \subseteq S => IsFiniteSet(T)
  /\ \A S, x : IsFiniteSet(S) =>
       /\ IsFiniteSet(S \cup {x})
       /\ x \notin S => Cardinality(S \cup {x}) = Cardinality(S) + 1
  /\ \A n \in Nat : IsFiniteSet(0..(n - 1))

\* Inductive: an order is in one place at a time, so that its response reaches its
\* strategy at most once.
OrderInv ==
  /\ orders \in Nat
  /\ trade_queue \in Seq(MessageSet) /\ outbox \in Seq(MessageSet) /\ inbox \in Seq(OrderSet)
  /\ io_pc = "respond" => response \in OrderSet
  /\ told \subseteq OrderSet /\ IsFiniteSet(told)
  /\ Once(trade_queue) /\ Once(outbox) /\ Once(inbox)
  /\ Ids(trade_queue) \cup Ids(outbox) \cup Ids(inbox) \cup InHand \cup ToldIds \subseteq 0..(orders - 1)
  /\ Ids(trade_queue) \cap (Ids(outbox) \cup Ids(inbox) \cup InHand \cup ToldIds) = {}
  /\ Ids(outbox) \cap (Ids(inbox) \cup InHand \cup ToldIds) = {}
  /\ Ids(inbox) \cap (InHand \cup ToldIds) = {}
  /\ InHand \cap ToldIds = {}

orderVars == <<orders, trade_queue, outbox, inbox, io_pc, response, told>>

\* A step that moves no order.
LEMMA OrderFrame ==
  ASSUME OrderInv, UNCHANGED orderVars
  PROVE  OrderInv'
BY Zenon DEF OrderInv, orderVars, InHand, ToldIds

\* An empty sequence of messages.
LEMMA EmptyIds ==
  <<>> \in Seq(OrderSet) /\ <<>> \in Seq(MessageSet) /\ Ids(<<>>) = {} /\ Once(<<>>)
BY DEF Ids, Once

\* A new order takes a number nobody has.
LEMMA SubmitKeepsOrders ==
  ASSUME OrderInv, TodoInv, SubmitTrade
  PROVE  OrderInv'
<1>1. UNCHANGED <<outbox, inbox, io_pc, response, told>>
  BY Zenon DEF SubmitTrade, connectionVars, ioVars, exchangeVars
<1>2. CASE UNCHANGED <<trade_queue, orders>>
  BY <1>1, <1>2, OrderFrame, Zenon DEF orderVars
<1>3. CASE ~UNCHANGED <<trade_queue, orders>>
  <2>. DEFINE m == [kind |-> "order", id |-> orders, strategy |-> Head(todo).name,
                    ticker |-> Head(todo).ticker]
  <2>1. trade_queue' = Append(trade_queue, m) /\ orders' = orders + 1
    BY <1>3, Zenon DEF SubmitTrade
  <2>2. Head(todo) \in StrategySet
    BY SMTT(30) DEF SubmitTrade, TodoInv, Inside
  <2>3. m \in OrderSet /\ m \in MessageSet /\ IsOrder(m) /\ m.id = orders /\ orders \in Nat
    BY <2>2, Zenon DEF OrderInv, OrderSet, MessageSet, StrategySet, IsOrder
  <2>. HIDE DEF m
  <2>4. /\ trade_queue \in Seq(MessageSet) /\ Once(trade_queue)
        /\ orders \notin Ids(trade_queue) \cup Ids(outbox) \cup Ids(inbox) \cup InHand \cup ToldIds
    BY <2>3 DEF OrderInv
  <2>5. /\ trade_queue' \in Seq(MessageSet) /\ Once(trade_queue')
        /\ Ids(trade_queue') = Ids(trade_queue) \cup {orders}
    BY <2>1, <2>3, <2>4, IdsAppend, Zenon
  <2>6. InHand' = InHand /\ ToldIds' = ToldIds
    BY <1>1, Zenon DEF InHand, ToldIds
  <2>7. 0..(orders - 1) \subseteq 0..(orders' - 1) /\ orders \in 0..(orders' - 1) /\ orders' \in Nat
    BY <2>1, <2>3
  <2>. QED
    <3>1. /\ Ids(outbox') = Ids(outbox) /\ Ids(inbox') = Ids(inbox)
          /\ Ids(trade_queue) \cup Ids(outbox) \cup Ids(inbox) \cup InHand \cup ToldIds \subseteq 0..(orders' - 1)
      BY <1>1, <2>7, ZenonT(30) DEF OrderInv
    <3>2. Ids(trade_queue') \cup Ids(outbox') \cup Ids(inbox') \cup InHand' \cup ToldIds' \subseteq 0..(orders' - 1)
      BY <2>5, <2>6, <2>7, <3>1, ZenonT(30)
    <3>3. Ids(trade_queue') \cap (Ids(outbox') \cup Ids(inbox') \cup InHand' \cup ToldIds') = {}
      BY <2>4, <2>5, <2>6, <3>1 DEF OrderInv
    <3>. QED
      BY <1>1, <2>5, <2>6, <2>7, <3>1, <3>2, <3>3, Zenon DEF OrderInv
<1>. QED
  BY <1>2, <1>3, Zenon

\* The executor sends an order, loses it or puts it back.
LEMMA DrainKeepsOrders ==
  ASSUME OrderInv, ExecutorDrain
  PROVE  OrderInv'
<1>1. UNCHANGED <<orders, inbox, io_pc, response, told>>
  BY Zenon DEF ExecutorDrain, ioVars, exchangeVars, historyVars
<1>2. InHand' = InHand /\ ToldIds' = ToldIds
  BY <1>1, Zenon DEF InHand, ToldIds
<1>3. CASE UNCHANGED <<trade_queue, outbox>>
  BY <1>1, <1>3, OrderFrame, Zenon DEF orderVars
<1>4. CASE ~UNCHANGED <<trade_queue, outbox>>
  <2>. DEFINE h == Head(trade_queue)
              t == Tail(trade_queue)
  <2>1. /\ trade_queue # <<>>
        /\ \/ trade_queue' = t /\ outbox' = Append(outbox, h)
           \/ trade_queue' = t /\ outbox' = outbox
           \/ trade_queue' = Append(t, h) /\ outbox' = outbox
    BY <1>4, ZenonT(30) DEF ExecutorDrain
  <2>2. /\ t \in Seq(MessageSet) /\ h \in MessageSet /\ Once(t)
        /\ Ids(trade_queue) = IF IsOrder(h) THEN Ids(t) \cup {h.id} ELSE Ids(t)
        /\ IsOrder(h) => h.id \notin Ids(t)
    BY <2>1, IdsTail, Zenon DEF OrderInv
  <2>. HIDE DEF h, t
  <2>3. CASE trade_queue' = t /\ outbox' = Append(outbox, h)
    <3>1. IsOrder(h) => h.id \notin Ids(outbox)
      BY <2>2, Zenon DEF OrderInv
    <3>2. /\ outbox' \in Seq(MessageSet) /\ Once(outbox')
          /\ Ids(outbox') = IF IsOrder(h) THEN Ids(outbox) \cup {h.id} ELSE Ids(outbox)
      BY <2>2, <2>3, <3>1, IdsAppend, Zenon DEF OrderInv
    <3>. QED
      BY <1>1, <1>2, <2>2, <2>3, <3>2 DEF OrderInv
  <2>4. CASE trade_queue' = t /\ outbox' = outbox
    BY <1>1, <1>2, <2>2, <2>4, Zenon DEF OrderInv
  <2>5. CASE trade_queue' = Append(t, h) /\ outbox' = outbox
    <3>1. /\ trade_queue' \in Seq(MessageSet) /\ Once(trade_queue')
          /\ Ids(trade_queue') = Ids(trade_queue)
      BY <2>2, <2>5, IdsAppend, Zenon
    <3>. QED
      BY <1>1, <1>2, <2>5, <3>1, Zenon DEF OrderInv
  <2>. QED
    BY <2>1, <2>3, <2>4, <2>5, Zenon
<1>. QED
  BY <1>3, <1>4, Zenon

\* The I/O thread writes, reads, answers and loses messages.
LEMMA IoKeepsOrders ==
  ASSUME FiniteSetFacts, OrderInv, IoStep
  PROVE  OrderInv'
<1>1. CASE IoConnect
  BY <1>1, OrderFrame, Zenon DEF IoConnect, orderVars, executorVars, ioVars, exchangeVars, historyVars
<1>2. CASE IoEnd
  <2>1. UNCHANGED <<orders, trade_queue, outbox, inbox, told>> /\ InHand' = InHand /\ io_pc' # "respond"
    BY <1>2, Zenon DEF IoEnd, executorVars, connectionVars, exchangeVars, historyVars, InHand
  <2>2. ToldIds' = ToldIds
    BY <2>1, Zenon DEF ToldIds
  <2>. QED
    BY <2>1, <2>2, Zenon DEF OrderInv
<1>3. CASE IoDisconnect
  <2>1. UNCHANGED <<orders, trade_queue, io_pc, response, told>> /\ inbox' = <<>>
    BY <1>3, Zenon DEF IoDisconnect, executorVars, ioVars
  <2>2. outbox \in Seq(MessageSet) /\ Once(outbox)
    BY Zenon DEF OrderInv
  <2>3. outbox' \in Seq(MessageSet) /\ Once(outbox') /\ Ids(outbox') \subseteq Ids(outbox)
    <3>1. outbox' = outbox \/ outbox' = SubSeq(outbox, 2, Len(outbox))
      BY <1>3, Zenon DEF IoDisconnect
    <3>2. CASE outbox = <<>>
      <4>1. SubSeq(<<>>, 2, Len(<<>>)) = <<>>
        OBVIOUS
      <4>. QED
        BY <2>2, <3>1, <3>2, <4>1, ZenonT(30)
    <3>3. CASE outbox # <<>>
      <4>1. SubSeq(outbox, 2, Len(outbox)) = Tail(outbox)
        BY <2>2, <3>3
      <4>. QED
        BY <2>2, <3>1, <3>3, <4>1, IdsTail, ZenonT(30)
    <3>. QED
      BY <3>2, <3>3, Zenon
  <2>4. InHand' = InHand /\ ToldIds' = ToldIds
    BY <2>1, Zenon DEF InHand, ToldIds
  <2>. QED
    BY <2>1, <2>3, <2>4, EmptyIds DEF OrderInv
<1>4. CASE IoWrite
  <2>. DEFINE h == Head(outbox)
              t == Tail(outbox)
  <2>1. /\ UNCHANGED <<orders, trade_queue, io_pc, response, told>> /\ outbox # <<>> /\ outbox' = t
        /\ \/ h.kind = "cancel_all" /\ inbox' = inbox
           \/ h.kind # "cancel_all" /\ inbox' = Append(inbox, h)
    BY <1>4, Zenon DEF IoWrite, executorVars, ioVars, historyVars
  <2>2. /\ t \in Seq(MessageSet) /\ h \in MessageSet /\ Once(t)
        /\ Ids(outbox) = IF IsOrder(h) THEN Ids(t) \cup {h.id} ELSE Ids(t)
        /\ IsOrder(h) => h.id \notin Ids(t)
    BY <2>1, IdsTail, Zenon DEF OrderInv
  <2>3. h.kind # "cancel_all" => IsOrder(h) /\ h \in OrderSet
    BY <2>2, Zenon DEF MessageSet, OrderSet, IsOrder
  <2>. HIDE DEF h, t
  <2>4. InHand' = InHand /\ ToldIds' = ToldIds
    BY <2>1, Zenon DEF InHand, ToldIds
  <2>5. CASE inbox' = inbox
    BY <2>1, <2>2, <2>4, <2>5, Zenon DEF OrderInv
  <2>6. CASE h.kind # "cancel_all" /\ inbox' = Append(inbox, h)
    <3>1. inbox \in Seq(MessageSet) /\ Once(inbox) /\ h.id \notin Ids(inbox) /\ inbox' \in Seq(OrderSet)
      BY <2>2, <2>3, <2>6 DEF OrderInv, MessageSet
    <3>2. Once(inbox') /\ Ids(inbox') = Ids(inbox) \cup {h.id}
      BY <2>2, <2>3, <2>6, <3>1, IdsAppend, Zenon
    <3>. QED
      BY <2>1, <2>2, <2>3, <2>4, <2>6, <3>1, <3>2, SMTT(30) DEF OrderInv
  <2>. QED
    BY <2>1, <2>5, <2>6, Zenon
<1>5. CASE IoRead
  <2>. DEFINE h == Head(inbox)
              t == Tail(inbox)
  <2>1. /\ UNCHANGED <<orders, trade_queue, outbox, told>> /\ inbox # <<>> /\ inbox' = t
        /\ io_pc = "run" /\ io_pc' = "respond" /\ response' = h
    BY <1>5, Zenon DEF IoRead, IoRuns, executorVars, connectionVars, historyVars
  <2>2. inbox \in Seq(MessageSet) /\ t \in Seq(OrderSet) /\ h \in OrderSet
    BY <2>1 DEF OrderInv, MessageSet
  <2>3. IsOrder(h)
    BY <2>2, Zenon DEF OrderSet, IsOrder
  <2>4. Once(t) /\ Ids(inbox) = Ids(t) \cup {h.id} /\ h.id \notin Ids(t)
    BY <2>1, <2>2, <2>3, IdsTail, Zenon DEF OrderInv
  <2>. HIDE DEF h, t
  <2>5. InHand = {} /\ InHand' = {h.id} /\ ToldIds' = ToldIds
    BY <2>1, Zenon DEF InHand, ToldIds
  <2>. QED
    BY <2>1, <2>2, <2>4, <2>5 DEF OrderInv
<1>6. CASE IoRespond
  <2>1. /\ UNCHANGED <<orders, trade_queue, outbox, inbox>>
        /\ io_pc = "respond" /\ io_pc' = "run" /\ told' = told \cup {response}
    BY <1>6, Zenon DEF IoRespond, executorVars, connectionVars, exchangeVars
  <2>2. InHand = {response.id} /\ InHand' = {} /\ ToldIds' = ToldIds \cup {response.id}
    BY <2>1, Zenon DEF InHand, ToldIds
  <2>3. told' \subseteq OrderSet /\ IsFiniteSet(told')
    <3>1. told' \subseteq OrderSet
      BY <2>1, Zenon DEF OrderInv
    <3>2. IsFiniteSet(told) /\ told' = told \cup {response}
      BY <2>1, Zenon DEF OrderInv
    <3>3. IsFiniteSet(told')
      BY <3>2, Zenon DEF FiniteSetFacts
    <3>. QED
      BY <3>1, <3>3, Zenon
  <2>. QED
    BY <2>1, <2>2, <2>3, Zenon DEF OrderInv
<1>. QED
  BY <1>1, <1>2, <1>3, <1>4, <1>5, <1>6, Zenon DEF IoStep

\* main stops a strategy, which may cancel: that is no order.
LEMMA StopKeepsOrders ==
  ASSUME OrderInv, StopAll
  PROVE  OrderInv'
<1>1. UNCHANGED <<orders, trade_queue, inbox, io_pc, response, told>>
  BY Zenon DEF StopAll, ioVars, executorVars, exchangeVars
<1>2. \/ outbox' = outbox
      \/ \E s \in StrategySet : outbox' = Append(outbox, [kind |-> "cancel_all", ticker |-> s.ticker])
  <2>1. \/ outbox' = outbox
        \/ \E i \in DOMAIN Strategies : outbox' = OutboxAfterStop(Strategies[i])
    BY Zenon DEF StopAll
  <2>2. \A i \in DOMAIN Strategies : Strategies[i] \in StrategySet
    <3>1. Strategies \in Seq(StrategySet)
      BY PlatformAssumption, Zenon DEF StrategySet
    <3>. QED
      BY <3>1
  <2>. QED
    BY <2>1, <2>2, Zenon DEF OutboxAfterStop
<1>3. InHand' = InHand /\ ToldIds' = ToldIds
  BY <1>1, Zenon DEF InHand, ToldIds
<1>4. CASE outbox' = outbox
  BY <1>1, <1>3, <1>4, Zenon DEF OrderInv
<1>5. ASSUME NEW s \in StrategySet, outbox' = Append(outbox, [kind |-> "cancel_all", ticker |-> s.ticker])
      PROVE  OrderInv'
  <2>. DEFINE m == [kind |-> "cancel_all", ticker |-> s.ticker]
  <2>1. m \in MessageSet /\ ~IsOrder(m)
    BY Zenon DEF MessageSet, StrategySet, IsOrder
  <2>. HIDE DEF m
  <2>2. outbox' \in Seq(MessageSet) /\ Once(outbox') /\ Ids(outbox') = Ids(outbox)
    BY <1>5, <2>1, IdsAppend, ZenonT(30) DEF OrderInv, m
  <2>. QED
    BY <1>1, <1>3, <2>2, Zenon DEF OrderInv
<1>. QED
  BY <1>2, <1>4, <1>5, ZenonT(30)

\* The strategies in the list that the current event has not been handed to.
Unhandled == IF strategy_pc \in Inside THEN 2..Len(todo) ELSE 1..Len(todo)

\* Inductive: a strategy is handed an event once, and the storage has no event
\* that has not been dispatched and no response that has not been told.
CountInv ==
  /\ events \in Nat
  /\ append_failures \in [Names -> Nat]
  /\ seen \in [Names -> SUBSET (0..(events - 1))]
  /\ \A n \in Nat : Recorded(n) => n < events
  /\ \A n \in Nat : [type |-> "OrderResponse", id |-> n] \in recorded => n \in ToldIds
  /\ persisted \in BOOLEAN
  /\ strategy_pc # "idle" =>
       /\ events # 0
       /\ persisted <=> Recorded(events - 1)
       /\ \A i \in Unhandled : events - 1 \notin seen[todo[i].name]
  /\ RefusalsReachTheStrategies

countVars == <<events, append_failures, seen, recorded, told, persisted, strategy_pc, todo>>

\* What is counted is finite.
LEMMA CountsFinite ==
  ASSUME FiniteSetFacts, CountInv, OrderInv, NEW s \in Names
  PROVE  /\ IsFiniteSet(Lost(s)) /\ Cardinality(Lost(s)) \in Nat
         /\ IsFiniteSet(Unstored(s)) /\ Cardinality(Unstored(s)) \in Nat
<1>1. Lost(s) \subseteq 0..(events - 1) /\ Unstored(s) \subseteq told
  BY Zenon DEF CountInv, Lost, Unstored
<1>2. IsFiniteSet(0..(events - 1)) /\ IsFiniteSet(told)
  BY Zenon DEF FiniteSetFacts, CountInv, OrderInv
<1>3. IsFiniteSet(Lost(s)) /\ IsFiniteSet(Unstored(s))
  BY <1>1, <1>2, ZenonT(30) DEF FiniteSetFacts
<1>. QED
  BY <1>3, Zenon DEF FiniteSetFacts

\* A step that counts nothing.
LEMMA CountFrame ==
  ASSUME CountInv, UNCHANGED countVars
  PROVE  CountInv'
BY ZenonT(30) DEF CountInv, countVars, Recorded, ToldIds, Unhandled, RefusalsReachTheStrategies, Lost, Unstored

\* A new event is in the storage or not, and nobody has been handed it.
LEMMA DispatchCounts ==
  ASSUME CountInv, EventInv, Dispatch
  PROVE  CountInv'
<1>. PICK e \in Nat : e = events
  BY Zenon DEF CountInv
<1>. PICK ok \in BOOLEAN : StorageAppend([type |-> event.type, id |-> events], ok) /\ persisted' = ok
  BY Zenon DEF Dispatch
<1>1. /\ events' = e + 1 /\ strategy_pc' = "next" /\ todo' = Strategies
      /\ UNCHANGED <<append_failures, seen, told>>
      /\ recorded' = IF ok THEN recorded \cup {[type |-> event.type, id |-> e]} ELSE recorded
  BY Zenon DEF Dispatch, StorageAppend
<1>2. event.type \in {"quote", "trade"}
  BY FeedAssumption, Zenon DEF Dispatch, EventInv
<1>3. \A n \in Nat : Recorded(n)' <=> Recorded(n) \/ (ok /\ n = e)
  BY <1>1, <1>2, Zenon DEF Recorded
<1>4. ~Recorded(e)
  BY DEF CountInv
<1>5. \A n \in Nat : [type |-> "OrderResponse", id |-> n] \in recorded'
                       <=> [type |-> "OrderResponse", id |-> n] \in recorded
  BY <1>1, <1>2, Zenon
<1>6. seen \in [Names -> SUBSET (0..(e - 1))] /\ 0..(e - 1) \subseteq Nat /\ e \notin 0..(e - 1)
  BY DEF CountInv
<1>7. seen' \in [Names -> SUBSET (0..(events' - 1))]
  <2>1. 0..(e - 1) \subseteq 0..((e + 1) - 1)
    OBVIOUS
  <2>. QED
    BY <1>1, <1>6, <2>1, Zenon
<1>8. \A n \in Nat : Recorded(n)' => n < events'
  BY <1>1, <1>3, SMTT(30) DEF CountInv
<1>9. \A n \in Nat : [type |-> "OrderResponse", id |-> n] \in recorded' => n \in ToldIds'
  BY <1>1, <1>5, Zenon DEF CountInv, ToldIds
<1>10. persisted' <=> Recorded(e)'
  BY <1>3, <1>4, Zenon
<1>11. \A i \in Unhandled' : e \notin seen[todo'[i].name]
  <2>1. Strategies \in Seq(StrategySet)
    BY PlatformAssumption, Zenon DEF StrategySet
  <2>2. \A i \in 1..Len(Strategies) : Strategies[i].name \in Names
    <3>1. \A i \in 1..Len(Strategies) : Strategies[i] \in StrategySet
      BY <2>1
    <3>. QED
      BY <3>1, Zenon DEF StrategySet
  <2>. QED
    BY <1>1, <1>6, <2>2, Zenon DEF Unhandled, Inside
<1>12. \A s \in Names : Lost(s)' = Lost(s)
  BY <1>1, <1>3, <1>6, Zenon DEF Lost
<1>13. ASSUME NEW s \in Names PROVE Unstored(s)' = Unstored(s)
  <2>1. \A r \in told : [type |-> "OrderResponse", id |-> r.id] # [type |-> event.type, id |-> e]
    BY <1>2, Zenon
  <2>. QED
    BY <1>1, <2>1, Zenon DEF Unstored
<1>14. RefusalsReachTheStrategies'
  BY <1>1, <1>12, <1>13, ZenonT(30) DEF CountInv, RefusalsReachTheStrategies
<1>15. events' - 1 = e /\ events' \in Nat /\ events' # 0
  BY <1>1
<1>. QED
  BY <1>1, <1>7, <1>8, <1>9, <1>10, <1>11, <1>14, <1>15, ZenonT(30) DEF CountInv

\* The strategy that is called for an event counts it if the storage refused it.
LEMMA HandOverCounts ==
  ASSUME FiniteSetFacts, CountInv, OrderInv, TodoInv, HandOver
  PROVE  CountInv'
<1>. PICK e \in Nat : e = events - 1 /\ events \in Nat
  BY DEF CountInv, HandOver
<1>. PICK t : t = Head(todo)
  BY Zenon
<1>. PICK a : a = t.name
  BY Zenon
<1>1. /\ strategy_pc = "next" /\ todo # <<>> /\ UNCHANGED <<events, recorded, told, persisted>>
      /\ \/ /\ append_failures' = [append_failures EXCEPT ![a] = FailuresAfter(t)]
            /\ seen' = [seen EXCEPT ![a] = @ \cup {e}]
            /\ strategy_pc' = "place" /\ todo' = todo
         \/ /\ todo' = Tail(todo)
            /\ UNCHANGED <<append_failures, seen, strategy_pc>>
  BY Zenon DEF HandOver, storageVars
<1>2. /\ t \in StrategySet /\ a \in Names /\ t = todo[1] /\ Len(todo) \in Nat \ {0}
      /\ \A i \in 1..Len(todo) : todo[i] \in StrategySet /\ todo[i].name \in Names
  <2>1. /\ t = todo[1] /\ Len(todo) \in Nat \ {0}
        /\ \A i \in 1..Len(todo) : todo[i] \in StrategySet
    BY <1>1 DEF TodoInv
  <2>2. \A s \in StrategySet : s.name \in Names
    BY Zenon DEF StrategySet
  <2>. QED
    BY <2>1, <2>2
<1>3. Unhandled = 1..Len(todo) /\ e \notin seen[a] /\ (persisted <=> Recorded(e))
  BY <1>1, <1>2 DEF CountInv, Unhandled, Inside
<1>4. \A n : Recorded(n)' <=> Recorded(n)
  BY <1>1, Zenon DEF Recorded
<1>5. ToldIds' = ToldIds /\ \A s \in Names : Unstored(s)' = Unstored(s)
  BY <1>1, Zenon DEF ToldIds, Unstored
<1>6. CASE UNCHANGED <<append_failures, seen, strategy_pc>> /\ todo' = Tail(todo)
  <2>1. \A s \in Names : Lost(s)' = Lost(s)
    BY <1>4, <1>6, Zenon DEF Lost
  <2>2. ASSUME NEW i \in Unhandled'
        PROVE  e \notin seen'[todo'[i].name]
    <3>1. i + 1 \in 1..Len(todo) /\ todo'[i] = todo[i + 1]
      BY <1>1, <1>2, <1>6, <2>2, SMTT(30) DEF Unhandled, Inside, TodoInv
    <3>. QED
      BY <1>1, <1>3, <1>6, <3>1, ZenonT(30) DEF CountInv
  <2>. QED
    BY <1>1, <1>4, <1>5, <1>6, <2>1, <2>2, ZenonT(30) DEF CountInv, RefusalsReachTheStrategies
<1>7. CASE /\ append_failures' = [append_failures EXCEPT ![a] = FailuresAfter(t)]
           /\ seen' = [seen EXCEPT ![a] = @ \cup {e}]
           /\ strategy_pc' = "place" /\ todo' = todo
  <2>1. append_failures \in [Names -> Nat] /\ seen \in [Names -> SUBSET (0..(events - 1))]
        /\ e \in 0..(events - 1) /\ RefusalsReachTheStrategies
    BY DEF CountInv
  <2>2. seen' \in [Names -> SUBSET (0..(events' - 1))] /\ seen'[a] = seen[a] \cup {e}
        /\ \A s \in Names : s # a => seen'[s] = seen[s]
    BY <1>1, <1>2, <1>7, <2>1
  <2>3. append_failures'[a] = append_failures[a] + (IF persisted THEN 0 ELSE 1)
        /\ \A s \in Names : s # a => append_failures'[s] = append_failures[s]
    BY <1>2, <1>7, <2>1, Zenon DEF FailuresAfter
  <2>4. append_failures' \in [Names -> Nat]
    BY <1>2, <1>7, <2>1 DEF FailuresAfter
  <2>5. \A s \in Names : s # a => Lost(s)' = Lost(s)
    BY <1>4, <2>2, Zenon DEF Lost
  <2>6. Lost(a)' = IF persisted THEN Lost(a) ELSE Lost(a) \cup {e}
    BY <1>3, <1>4, <2>2, Zenon DEF Lost
  <2>7. e \notin Lost(a) /\ IsFiniteSet(Lost(a)) /\ Cardinality(Lost(a)) \in Nat /\ Cardinality(Unstored(a)) \in Nat
    BY <1>2, <1>3, CountsFinite, ZenonT(30) DEF Lost
  <2>8. Cardinality(Lost(a)') = Cardinality(Lost(a)) + (IF persisted THEN 0 ELSE 1)
    <3>1. CASE persisted
      <4>1. Lost(a)' = Lost(a)
        BY <2>6, <3>1, Zenon
      <4>. QED
        BY <2>7, <3>1, <4>1
    <3>2. CASE ~persisted
      <4>1. Lost(a)' = Lost(a) \cup {e}
        BY <2>6, <3>2, Zenon
      <4>2. Cardinality(Lost(a) \cup {e}) = Cardinality(Lost(a)) + 1
        BY <2>7, Zenon DEF FiniteSetFacts
      <4>. QED
        BY <3>2, <4>1, <4>2, Zenon
    <3>. QED
      BY <3>1, <3>2, Zenon
  <2>9. append_failures'[a] = Cardinality(Lost(a)') + Cardinality(Unstored(a)')
    <3>1. append_failures[a] = Cardinality(Lost(a)) + Cardinality(Unstored(a))
      BY <1>2, <2>1, Zenon DEF RefusalsReachTheStrategies
    <3>. QED
      BY <1>2, <1>5, <2>3, <2>7, <2>8, <3>1
  <2>10. RefusalsReachTheStrategies'
    BY <1>5, <2>1, <2>3, <2>5, <2>9, Zenon DEF RefusalsReachTheStrategies
  <2>11. ASSUME NEW i \in Unhandled'
         PROVE  e \notin seen'[todo'[i].name]
    <3>1. i \in 2..Len(todo)
      BY <1>7, <2>11, Zenon DEF Unhandled, Inside
    <3>2. todo[i].name # a
      <4>. DEFINE k == Len(Strategies) - Len(todo)
      <4>1. k \in Nat /\ todo[i] = Strategies[k + i] /\ todo[1] = Strategies[k + 1]
        BY <1>2, <3>1, PlatformAssumption, SMTT(30) DEF TodoInv
      <4>2. k + i \in DOMAIN Strategies /\ k + 1 \in DOMAIN Strategies /\ k + i # k + 1
        BY <1>2, <3>1, <4>1, PlatformAssumption, SMTT(30)
      <4>. HIDE DEF k
      <4>. QED
        BY <1>2, <4>1, <4>2, PlatformAssumption, Zenon
    <3>3. e \notin seen[todo[i].name]
      BY <1>1, <1>2, <1>3, <3>1, SMTT(30) DEF CountInv
    <3>. QED
      BY <1>2, <1>7, <2>2, <3>1, <3>2, <3>3
  <2>. QED
    BY <1>1, <1>3, <1>4, <1>5, <1>7, <2>2, <2>4, <2>10, <2>11, Zenon DEF CountInv
<1>. QED
  BY <1>1, <1>6, <1>7, Zenon

\* A response that the storage refused is counted by the strategy it is told to.
LEMMA RespondCounts ==
  ASSUME FiniteSetFacts, CountInv, OrderInv, IoRespond
  PROVE  CountInv'
<1>. PICK r \in OrderSet : r = response /\ io_pc = "respond"
  BY Zenon DEF OrderInv, IoRespond
<1>. PICK ok \in BOOLEAN :
       /\ StorageAppend([type |-> "OrderResponse", id |-> response.id], ok)
       /\ append_failures' = [append_failures EXCEPT ![r.strategy] = @ + (IF ok THEN 0 ELSE 1)]
  BY ZenonT(30) DEF IoRespond
<1>1. /\ told' = told \cup {r} /\ UNCHANGED <<events, seen, persisted, strategy_pc, todo>>
      /\ recorded' = IF ok THEN recorded \cup {[type |-> "OrderResponse", id |-> r.id]} ELSE recorded
  BY Zenon DEF IoRespond, StorageAppend
<1>2. r.id \in Nat /\ r.strategy \in Names
  BY Zenon DEF OrderSet
<1>3. r \notin told /\ r.id \notin ToldIds
  <2>1. InHand = {r.id} /\ InHand \cap ToldIds = {}
    BY Zenon DEF OrderInv, InHand
  <2>2. r.id \notin ToldIds
    BY <2>1, ZenonT(30)
  <2>. QED
    BY <2>2, ZenonT(30) DEF ToldIds
<1>4. [type |-> "OrderResponse", id |-> r.id] \notin recorded
  BY <1>2, <1>3, Zenon DEF CountInv
<1>5. ToldIds' = ToldIds \cup {r.id}
  BY <1>1, ZenonT(30) DEF ToldIds
<1>6. \A n : Recorded(n)' <=> Recorded(n)
  <2>1. \A t \in {"quote", "trade"} : \A n : [type |-> t, id |-> n] # [type |-> "OrderResponse", id |-> r.id]
    BY Zenon
  <2>2. \A t \in {"quote", "trade"} : \A n : [type |-> t, id |-> n] \in recorded' <=> [type |-> t, id |-> n] \in recorded
    BY <1>1, <2>1, Zenon
  <2>. QED
    BY <2>2, ZenonT(30) DEF Recorded
<1>7. \A n \in Nat : [type |-> "OrderResponse", id |-> n] \in recorded' => n \in ToldIds'
  <2>1. \A n \in Nat : [type |-> "OrderResponse", id |-> n] \in recorded => n \in ToldIds
    BY Zenon DEF CountInv
  <2>2. \A n \in Nat : [type |-> "OrderResponse", id |-> n] = [type |-> "OrderResponse", id |-> r.id] => n = r.id
    BY Zenon
  <2>. QED
    BY <1>1, <1>5, <2>1, <2>2, ZenonT(30)
<1>8. \A s \in Names : Lost(s)' = Lost(s)
  BY <1>1, <1>6, ZenonT(30) DEF Lost
<1>9. ASSUME NEW s \in Names, s # r.strategy
      PROVE  Unstored(s)' = Unstored(s)
  <2>1. \A q \in told : [type |-> "OrderResponse", id |-> q.id] \in recorded'
                          <=> [type |-> "OrderResponse", id |-> q.id] \in recorded
    BY <1>1, <1>3, Zenon DEF ToldIds
  <2>. QED
    BY <1>1, <1>9, <2>1, Zenon DEF Unstored
<1>10. Unstored(r.strategy)' = IF ok THEN Unstored(r.strategy) ELSE Unstored(r.strategy) \cup {r}
  <2>1. \A q \in told : [type |-> "OrderResponse", id |-> q.id] \in recorded'
                          <=> [type |-> "OrderResponse", id |-> q.id] \in recorded
    BY <1>1, <1>3, Zenon DEF ToldIds
  <2>2. [type |-> "OrderResponse", id |-> r.id] \in recorded' <=> ok
    BY <1>1, <1>4, Zenon
  <2>. QED
    BY <1>1, <2>1, <2>2, Zenon DEF Unstored
<1>11. /\ Cardinality(Lost(r.strategy)) \in Nat /\ Cardinality(Unstored(r.strategy)) \in Nat
       /\ IsFiniteSet(Unstored(r.strategy)) /\ r \notin Unstored(r.strategy)
  <2>1. r \notin Unstored(r.strategy)
    BY <1>3, Zenon DEF Unstored
  <2>. QED
    BY <1>2, <2>1, CountsFinite, Zenon
<1>12. Cardinality(Unstored(r.strategy)') = Cardinality(Unstored(r.strategy)) + (IF ok THEN 0 ELSE 1)
  <2>1. CASE ok
    BY <1>10, <1>11, <2>1, SMTT(30)
  <2>2. CASE ~ok
    <3>1. Cardinality(Unstored(r.strategy) \cup {r}) = Cardinality(Unstored(r.strategy)) + 1
      BY <1>11, ZenonT(30) DEF FiniteSetFacts
    <3>. QED
      BY <1>10, <1>11, <2>2, <3>1, Zenon
  <2>. QED
    BY <2>1, <2>2, Zenon
<1>13. append_failures \in [Names -> Nat] /\ RefusalsReachTheStrategies
  BY ZenonT(30) DEF CountInv
<1>14. append_failures' \in [Names -> Nat]
  BY <1>2, <1>13
<1>15. ASSUME NEW s \in Names
       PROVE  append_failures'[s] = Cardinality(Lost(s)') + Cardinality(Unstored(s)')
  <2>1. append_failures[s] = Cardinality(Lost(s)) + Cardinality(Unstored(s))
    BY <1>13, Zenon DEF RefusalsReachTheStrategies
  <2>2. CASE s # r.strategy
    BY <1>8, <1>9, <1>13, <2>1, <2>2, Zenon
  <2>3. CASE s = r.strategy
    <3>1. append_failures'[s] = append_failures[s] + (IF ok THEN 0 ELSE 1)
      BY <1>2, <1>13, <2>3, Zenon
    <3>2. Cardinality(Lost(s)') = Cardinality(Lost(s))
      BY <1>8, Zenon
    <3>3. Cardinality(Unstored(s)') = Cardinality(Unstored(s)) + (IF ok THEN 0 ELSE 1)
      BY <1>12, <2>3, Zenon
    <3>4. Cardinality(Lost(s)) \in Nat /\ Cardinality(Unstored(s)) \in Nat
      BY <1>11, <2>3, Zenon
    <3>5. \A a, b, c \in Nat : a + (b + c) = (a + b) + c
      OBVIOUS
    <3>. QED
      BY <2>1, <3>1, <3>2, <3>3, <3>4, SMTT(30)
  <2>. QED
    BY <2>2, <2>3, Zenon
<1>16. RefusalsReachTheStrategies'
  BY <1>15, Zenon DEF RefusalsReachTheStrategies
<1>17. Unhandled' = Unhandled
  BY <1>1, Zenon DEF Unhandled
<1>. QED
  <2>1. events' \in Nat /\ seen' \in [Names -> SUBSET (0..(events' - 1))] /\ persisted' \in BOOLEAN
    BY <1>1, Zenon DEF CountInv
  <2>2. \A n \in Nat : Recorded(n)' => n < events'
    BY <1>1, <1>6, Zenon DEF CountInv
  <2>3. strategy_pc' # "idle" =>
          /\ events' # 0
          /\ persisted' <=> Recorded(events - 1)'
          /\ \A i \in Unhandled' : events' - 1 \notin seen'[todo'[i].name]
    BY <1>1, <1>6, <1>17, Zenon DEF CountInv
  <2>. QED
    BY <1>7, <1>14, <1>16, <2>1, <2>2, <2>3, Zenon DEF CountInv

\* The rest of a dispatch: orders, the storage's record of them, and the way to
\* the next strategy.
LEMMA CallbackCounts ==
  ASSUME CountInv, TodoInv, PlaceOrder \/ SubmitTrade \/ StoreSubmitted \/ DispatchReturns
  PROVE  CountInv'
<1>1. UNCHANGED <<events, append_failures, seen, told, persisted>> /\ strategy_pc # "idle"
  BY ZenonT(30) DEF PlaceOrder, SubmitTrade, StoreSubmitted, DispatchReturns, historyVars
<1>2. /\ \A n : Recorded(n)' <=> Recorded(n)
      /\ \A n : [type |-> "OrderResponse", id |-> n] \in recorded'
                  <=> [type |-> "OrderResponse", id |-> n] \in recorded
  <2>1. CASE StoreSubmitted
    <3>1. recorded' = recorded \/ \E n : recorded' = recorded \cup {[type |-> "TradeSubmitted", id |-> n]}
      BY <2>1, Zenon DEF StoreSubmitted, StorageAppend
    <3>. QED
      BY <3>1, Zenon DEF Recorded
  <2>2. CASE PlaceOrder \/ SubmitTrade \/ DispatchReturns
    <3>1. recorded' = recorded
      BY <2>2, ZenonT(30) DEF PlaceOrder, SubmitTrade, DispatchReturns, storageVars
    <3>. QED
      BY <3>1, Zenon DEF Recorded
  <2>. QED
    BY <2>1, <2>2, ZenonT(30)
<1>3. ToldIds' = ToldIds /\ \A s : Lost(s)' = Lost(s) /\ Unstored(s)' = Unstored(s)
  BY <1>1, <1>2, Zenon DEF ToldIds, Lost, Unstored
<1>4. RefusalsReachTheStrategies'
  BY <1>1, <1>3, Zenon DEF CountInv, RefusalsReachTheStrategies
<1>5. ASSUME strategy_pc' # "idle", NEW i \in Unhandled'
      PROVE  events - 1 \notin seen[todo'[i].name]
  <2>1. CASE strategy_pc = "place" /\ todo' = Tail(todo) /\ strategy_pc' = "next"
    <3>1. todo \in Seq(StrategySet) /\ todo # <<>> /\ Unhandled = 2..Len(todo) /\ i \in 1..Len(Tail(todo))
      BY <1>5, <2>1, Zenon DEF TodoInv, Unhandled, Inside
    <3>2. i + 1 \in 2..Len(todo) /\ todo'[i] = todo[i + 1]
      BY <2>1, <3>1, SMTT(30)
    <3>. QED
      BY <1>1, <3>1, <3>2, Zenon DEF CountInv
  <2>2. CASE strategy_pc \in Inside /\ strategy_pc' \in Inside /\ todo' = todo
    <3>1. Unhandled' = Unhandled
      BY <2>2, Zenon DEF Unhandled
    <3>. QED
      BY <1>1, <1>5, <2>2, <3>1, Zenon DEF CountInv
  <2>3. \/ strategy_pc = "place" /\ todo' = Tail(todo) /\ strategy_pc' = "next"
        \/ strategy_pc \in Inside /\ strategy_pc' \in Inside /\ todo' = todo
    <3>1. CASE PlaceOrder
      <4>1. /\ strategy_pc = "place"
            /\ \/ todo' = Tail(todo) /\ strategy_pc' = "next"
               \/ todo' = todo /\ (strategy_pc' = "submit" \/ strategy_pc' = "place")
        BY <3>1, Zenon DEF PlaceOrder
      <4>. QED
        BY <4>1, Zenon DEF Inside
    <3>2. CASE SubmitTrade
      <4>1. strategy_pc = "submit" /\ todo' = todo /\ (strategy_pc' = "place" \/ strategy_pc' = "store")
        BY <3>2, Zenon DEF SubmitTrade
      <4>. QED
        BY <4>1, Zenon DEF Inside
    <3>3. CASE StoreSubmitted
      <4>1. strategy_pc = "store" /\ todo' = todo /\ strategy_pc' = "place"
        BY <3>3, Zenon DEF StoreSubmitted
      <4>. QED
        BY <4>1, Zenon DEF Inside
    <3>4. CASE DispatchReturns
      BY <1>5, <3>4, Zenon DEF DispatchReturns
    <3>. QED
      BY <3>1, <3>2, <3>3, <3>4, Zenon
  <2>. QED
    BY <2>1, <2>2, <2>3, Zenon
<1>. QED
  BY <1>1, <1>2, <1>3, <1>4, <1>5, ZenonT(30) DEF CountInv

-----------------------------------------------------------------------------
INSTANCE FiniteSetTheorems

\* The library proves them.
LEMMA FiniteSetsAreFinite == FiniteSetFacts
<1>1. \A S, T : IsFiniteSet(S) /\ T \subseteq S => IsFiniteSet(T)
  BY FS_Subset, Zenon
<1>2. \A S : IsFiniteSet(S) => Cardinality(S) \in Nat
  BY FS_CardinalityType, Zenon
<1>3. ASSUME NEW S, NEW x, IsFiniteSet(S)
      PROVE  /\ IsFiniteSet(S \cup {x})
             /\ x \notin S => Cardinality(S \cup {x}) = Cardinality(S) + 1
  BY <1>3, FS_AddElement, Zenon
<1>4. ASSUME NEW n \in Nat
      PROVE  IsFiniteSet(0..(n - 1))
  BY FS_Interval
<1>. QED
  BY <1>1, <1>2, <1>3, <1>4, FS_EmptySet, Zenon DEF FiniteSetFacts

\* OrderInv holds at every moment.
LEMMA OrderInvariance == Spec => []OrderInv
<1>1. Init => OrderInv
  <2>. SUFFICES ASSUME Init
                PROVE  OrderInv
    BY Zenon
  <2>1. /\ orders = 0 /\ trade_queue = <<>> /\ outbox = <<>> /\ inbox = <<>> /\ told = {}
        /\ io_pc = "run"
    BY Zenon DEF Init
  <2>2. InHand = {} /\ ToldIds = {}
    BY <2>1, Zenon DEF InHand, ToldIds
  <2>. QED
    BY <2>1, <2>2, EmptyIds, FiniteSetsAreFinite, Zenon DEF OrderInv, FiniteSetFacts
<1>2. ASSUME OrderInv, TodoInv, [Next]_vars
      PROVE  OrderInv'
  <2>1. ASSUME \/ FeedStep /\ ~SubmitTrade
               \/ MainStep /\ ~StopAll /\ ~JoinIo
               \/ Signal \/ ExecutorHead \/ UNCHANGED vars
        PROVE  UNCHANGED orderVars
    <3>. USE DEF orderVars, mainVars, strategyVars, connectionVars, ioVars, executorVars, exchangeVars,
         storageVars, historyVars
    <3>1. CASE FeedStep /\ ~SubmitTrade
      BY <3>1, Zenon DEF FeedStep, Dispatch, HandOver, PlaceOrder, StoreSubmitted, DispatchReturns
    <3>2. CASE MainStep /\ ~StopAll /\ ~JoinIo
      BY <3>2, Zenon DEF MainStep, Wait, Decide, MainLoop, StopFeed, JoinFeed, StopExecutor,
         JoinExecutor, CloseConnection, StopIo, CloseStorage, Unwind
    <3>3. CASE Signal \/ ExecutorHead \/ UNCHANGED vars
      BY <3>3, ZenonT(30) DEF Signal, ExecutorHead, vars
    <3>. QED
      BY <2>1, <3>1, <3>2, <3>3, Zenon
  <2>2. CASE JoinIo
    <3>1. UNCHANGED <<orders, trade_queue, outbox, inbox, told>> /\ io_pc = "exited" /\ io_pc' = "joined"
      BY <2>2, Zenon DEF JoinIo, executorVars, connectionVars, exchangeVars, historyVars
    <3>2. InHand = {} /\ InHand' = {} /\ ToldIds' = ToldIds
      BY <3>1, Zenon DEF InHand, ToldIds
    <3>. QED
      BY <1>2, <3>1, <3>2, Zenon DEF OrderInv
  <2>. QED
    BY <1>2, <2>1, <2>2, OrderFrame, SubmitKeepsOrders, DrainKeepsOrders, IoKeepsOrders, StopKeepsOrders,
       FiniteSetsAreFinite, Zenon
       DEF Next, ExecutorStep
<1>. QED
  BY <1>1, <1>2, TodoInvariance, PTL DEF Spec

\* Each strategy's count of storage failures is the number of market events it was
\* handed and of responses it was told that the storage refused: none is missed and
\* none counted twice, although two threads count.
THEOREM RefusalsCounted == Spec => []RefusalsReachTheStrategies
<1>1. Init => CountInv
  <2>. SUFFICES ASSUME Init
                PROVE  CountInv
    BY Zenon
  <2>1. /\ events = 0 /\ append_failures = [s \in Names |-> 0] /\ seen = [s \in Names |-> {}]
        /\ recorded = {} /\ told = {} /\ persisted = TRUE /\ strategy_pc = "idle"
    BY Zenon DEF Init
  <2>2. \A s \in Names : Lost(s) = {} /\ Unstored(s) = {}
    BY <2>1, Zenon DEF Lost, Unstored
  <2>3. RefusalsReachTheStrategies
    <3>1. Cardinality({}) = 0
      BY FiniteSetsAreFinite, Zenon DEF FiniteSetFacts
    <3>. QED
      BY <2>1, <2>2, <3>1 DEF RefusalsReachTheStrategies
  <2>. QED
    BY <2>1, <2>3, Zenon DEF CountInv, Recorded
<1>2. ASSUME CountInv, OrderInv, TodoInv, EventInv, [Next]_vars
      PROVE  CountInv'
  <2>1. ASSUME \/ FeedStep /\ UNCHANGED <<strategyVars, storageVars, historyVars>>
               \/ MainStep \/ Signal \/ ExecutorStep \/ (IoStep /\ ~IoRespond) \/ UNCHANGED vars
        PROVE  UNCHANGED countVars
    <3>. USE DEF countVars, strategyVars, storageVars, historyVars
    <3>1. CASE MainStep
      BY <3>1, Zenon DEF MainStep, Wait, Decide, MainLoop, StopFeed, JoinFeed, StopAll, StopExecutor,
         JoinExecutor, CloseConnection, StopIo, JoinIo, CloseStorage, Unwind
    <3>2. CASE Signal \/ ExecutorStep \/ UNCHANGED vars
      BY <3>2, Zenon DEF Signal, ExecutorStep, ExecutorHead, ExecutorDrain, vars
    <3>3. CASE IoStep /\ ~IoRespond
      BY <3>3, Zenon DEF IoStep, IoConnect, IoDisconnect, IoWrite, IoRead, IoEnd
    <3>. QED
      BY <2>1, <3>1, <3>2, <3>3, Zenon
  <2>. QED
    BY <1>2, <2>1, CountFrame, DispatchCounts, HandOverCounts, RespondCounts, CallbackCounts,
       FiniteSetsAreFinite, Zenon
       DEF Next, FeedStep, IoStep
<1>3. CountInv => RefusalsReachTheStrategies
  BY Zenon DEF CountInv
<1>. QED
  BY <1>1, <1>2, <1>3, OrderInvariance, TodoInvariance, EventInvariance, PTL DEF Spec
=============================================================================

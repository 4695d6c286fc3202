------------------------ MODULE LiveOrderPathProofs ------------------------
(***************************************************************************)
(* Proofs about LiveOrderPath, for any number of strategy threads, any     *)
(* queue capacity and any number of orders, refusals and disconnections.   *)
(***************************************************************************)
EXTENDS LiveOrderPath, SequenceTheorems, TLAPS

-----------------------------------------------------------------------------
(* Sequences without repetition *)

Values(q) == {q[i] : i \in 1..Len(q)}
Distinct(q) == \A i, j \in 1..Len(q) : q[i] = q[j] => i = j

\* The empty sequence has no values.
LEMMA EmptyValues ==
  ASSUME NEW S
  PROVE  <<>> \in Seq(S) /\ Values(<<>>) = {} /\ Distinct(<<>>)
  BY EmptySeq DEF Values, Distinct

\* Appending a new value.
LEMMA AppendValues ==
  ASSUME NEW S, NEW q \in Seq(S), NEW x \in S
  PROVE  /\ Append(q, x) \in Seq(S)
         /\ Values(Append(q, x)) = Values(q) \cup {x}
         /\ Distinct(q) /\ x \notin Values(q) => Distinct(Append(q, x))
<1> DEFINE r == Append(q, x)
<1>1. /\ r \in Seq(S) /\ Len(r) = Len(q) + 1 /\ Len(q) \in Nat
      /\ \A i \in 1..Len(q) : r[i] = q[i]
      /\ r[Len(q) + 1] = x
  BY AppendProperties, LenProperties
<1> HIDE DEF r
<1>2. Values(r) = Values(q) \cup {x}
  BY <1>1 DEF Values
<1>3. Distinct(q) /\ x \notin Values(q) => Distinct(r)
  BY <1>1 DEF Values, Distinct
<1> QED
  BY <1>1, <1>2, <1>3, Zenon DEF r

\* Taking the first value away.
LEMMA TailValues ==
  ASSUME NEW S, NEW q \in Seq(S), q # <<>>
  PROVE  /\ Head(q) \in S /\ Head(q) \in Values(q)
         /\ Tail(q) \in Seq(S)
         /\ Values(Tail(q)) \subseteq Values(q)
         /\ Distinct(q) => Distinct(Tail(q)) /\ Head(q) \notin Values(Tail(q))
<1> DEFINE r == Tail(q)
           h == Head(q)
<1>1. /\ h \in S /\ h = q[1] /\ r \in Seq(S)
      /\ Len(q) \in Nat /\ Len(q) >= 1 /\ Len(r) = Len(q) - 1
      /\ \A i \in 1..Len(r) : r[i] = q[i + 1]
  BY HeadTailProperties, EmptySeq
<1> HIDE DEF r, h
<1>2. h \in Values(q) /\ Values(r) \subseteq Values(q)
  BY <1>1 DEF Values
<1>3. Distinct(q) => Distinct(r) /\ h \notin Values(r)
  BY <1>1, SMTT(60) DEF Values, Distinct
<1> QED
  BY <1>1, <1>2, <1>3, Zenon DEF r, h

-----------------------------------------------------------------------------
(* No order is sent twice *)

\* The executor thread has a trade in its hand.
Holding == executor_pc \in {"acquire", "push_back"}

\* Orders that have been pushed at least once.
Pushed ==
  Values(trade_queue) \cup Values(sent) \cup (IF Holding THEN {hand} ELSE {})

\* Inductive: an order has one place.  It belongs to one strategy thread until it
\* is pushed, and then it is once in the queue, in the executor's hand or sent
\* (or given up), so that no pop and no push back can make two of it.
OnceInv ==
  /\ order_id_counter \in Nat
  /\ pc \in [Strategies -> {"idle", "insert", "register", "push", "store"}]
  /\ order \in [Strategies -> Ids \cup {NoOrder}]
  /\ trade_queue \in Seq(Ids) /\ sent \in Seq(Ids)
  /\ Holding => hand \in Ids
  /\ \A s \in Strategies : pc[s] # "idle" => order[s] \in Ids /\ order[s] < order_id_counter
  /\ \A s, u \in Strategies :
       pc[s] # "idle" /\ pc[u] # "idle" /\ order[s] = order[u] => s = u
  /\ \A id \in Pushed : id < order_id_counter
  /\ \A id \in Pushed, s \in Strategies :
       pc[s] \in {"insert", "register", "push"} => order[s] # id
  /\ Distinct(trade_queue) /\ Distinct(sent)
  /\ Values(trade_queue) \cap Values(sent) = {}
  /\ Holding => hand \notin Values(trade_queue) \cup Values(sent)

\* What OnceInv depends on.
onceVars == <<order_id_counter, pc, order, trade_queue, sent, executor_pc, hand>>

\* Numbers of orders.
LEMMA IdsNat == Ids \subseteq Nat /\ NoOrder \notin Ids
  BY PathAssumption DEF Ids

\* No order exists at the start.
LEMMA OnceInvInit == Init => OnceInv
<1> SUFFICES ASSUME Init PROVE OnceInv
  BY Zenon
<1>1. /\ trade_queue \in Seq(Ids) /\ sent \in Seq(Ids)
      /\ Values(trade_queue) = {} /\ Values(sent) = {}
      /\ Distinct(trade_queue) /\ Distinct(sent)
  BY EmptyValues, Zenon DEF Init
<1>2. ~Holding
  BY Zenon DEF Init, Holding
<1>3. Pushed = {}
  BY <1>1, <1>2, Zenon DEF Pushed
<1> QED
  BY <1>1, <1>2, <1>3, Zenon DEF Init, OnceInv

\* A step that changes none of these variables.
LEMMA OnceFrame ==
  ASSUME OnceInv, UNCHANGED onceVars
  PROVE  OnceInv'
<1>1. UNCHANGED <<order_id_counter, pc, order, trade_queue, sent, executor_pc, hand>>
  BY Zenon DEF onceVars
<1>2. /\ Values(trade_queue)' = Values(trade_queue) /\ Values(sent)' = Values(sent)
      /\ Distinct(trade_queue)' = Distinct(trade_queue) /\ Distinct(sent)' = Distinct(sent)
  BY <1>1, Zenon
<1>3. Holding' = Holding /\ Pushed' = Pushed
  BY <1>1, <1>2, Zenon DEF Holding, Pushed
<1> QED
  BY <1>1, <1>2, <1>3, Zenon DEF OnceInv

\* The threads of the strategies: an order is created with a new number, and
\* leaves its thread for the queue.
LEMMA StrategiesKeepOnce ==
  ASSUME OnceInv, NEW s \in Strategies, (\E t \in Trades : CheckAndGo(s, t)) \/ SubmitStep(s)
  PROVE  OnceInv'
<1>1. UNCHANGED <<sent, executor_pc, hand>>
  BY Zenon DEF CheckAndGo, SubmitStep, InsertSubmitted, Register, PushTrade, StoreSubmitted,
         executorVars, historyVars
<1>2. Values(sent)' = Values(sent) /\ Distinct(sent)' = Distinct(sent) /\ Holding' = Holding
  BY <1>1, Zenon DEF Holding
<1>3. ASSUME UNCHANGED trade_queue
      PROVE  /\ Values(trade_queue)' = Values(trade_queue)
             /\ Distinct(trade_queue)' = Distinct(trade_queue)
             /\ Pushed' = Pushed
  <2>1. Values(trade_queue)' = Values(trade_queue) /\ Distinct(trade_queue)' = Distinct(trade_queue)
    BY <1>3, Zenon
  <2> QED
    BY <1>1, <1>2, <2>1, Zenon DEF Pushed
<1>4. ASSUME NEW t \in Trades, CheckAndGo(s, t) PROVE OnceInv'
  <2>1. /\ order_id_counter \in Ids /\ order_id_counter' = order_id_counter + 1
        /\ UNCHANGED trade_queue /\ pc[s] = "idle"
    BY <1>4, PathAssumption, SMTT(60) DEF CheckAndGo, executorVars, OnceInv, Ids
  <2>2. \/ /\ order' = [order EXCEPT ![s] = order_id_counter]
           /\ pc' = [pc EXCEPT ![s] = "insert"]
        \/ /\ order' = [order EXCEPT ![s] = NoOrder]
           /\ pc' = [pc EXCEPT ![s] = "idle"]
    BY <1>4, ZenonT(60) DEF CheckAndGo
  <2>3. /\ pc' \in [Strategies -> {"idle", "insert", "register", "push", "store"}]
        /\ order' \in [Strategies -> Ids \cup {NoOrder}]
    BY <2>1, <2>2, SMTT(30) DEF OnceInv
  <2>4. \A u \in Strategies : pc'[u] # "idle" =>
          \/ u # s /\ pc'[u] = pc[u] /\ order'[u] = order[u]
          \/ u = s /\ order'[u] = order_id_counter
    BY <2>2, Zenon DEF OnceInv
  <2>5. order_id_counter < order_id_counter' /\ order_id_counter' \in Nat
    BY <2>1 DEF OnceInv
  <2>6. \A u \in Strategies : pc'[u] # "idle" => order'[u] \in Ids /\ order'[u] < order_id_counter'
    <3>1. \A u \in Strategies : pc[u] # "idle" =>
            order[u] \in Ids /\ order[u] \in Nat /\ order[u] < order_id_counter
      BY IdsNat, ZenonT(60) DEF OnceInv
    <3>2. \A n \in Nat : n < order_id_counter => n < order_id_counter'
      BY <2>1, <2>5, IdsNat
    <3> QED
      BY <2>1, <2>4, <2>5, <3>1, <3>2, Zenon
  <2>7. \A u, v \in Strategies :
          pc'[u] # "idle" /\ pc'[v] # "idle" /\ order'[u] = order'[v] => u = v
    BY <2>1, <2>4, IdsNat, SMTT(60) DEF OnceInv
  <2>8. /\ Pushed' = Pushed /\ Values(trade_queue)' = Values(trade_queue)
        /\ Distinct(trade_queue)' = Distinct(trade_queue)
    BY <1>3, <2>1, Zenon
  <2>9. \A id \in Pushed : id \in Nat /\ id < order_id_counter
    <3>1. Values(trade_queue) \subseteq Ids /\ Values(sent) \subseteq Ids
      BY LenProperties DEF OnceInv, Values
    <3> QED
      BY <3>1, IdsNat, ZenonT(60) DEF OnceInv, Pushed
  <2>10. \A id \in Pushed : id < order_id_counter'
    BY <2>1, <2>5, <2>9 DEF OnceInv
  <2>11. \A id \in Pushed, u \in Strategies :
           pc'[u] \in {"insert", "register", "push"} => order'[u] # id
    BY <2>1, <2>4, <2>9 DEF OnceInv
  <2> QED
    BY <1>1, <1>2, <2>1, <2>3, <2>5, <2>6, <2>7, <2>8, <2>10, <2>11, Zenon DEF OnceInv
<1>5. CASE InsertSubmitted(s)
  <2>1. /\ UNCHANGED <<trade_queue, order, order_id_counter>>
        /\ pc[s] = "insert" /\ pc' = [pc EXCEPT ![s] = "register"]
    BY <1>5, Zenon DEF InsertSubmitted, executorVars
  <2> QED
    BY <1>1, <1>2, <1>3, <2>1, Zenon DEF OnceInv
<1>6. CASE Register(s)
  <2>1. /\ UNCHANGED <<trade_queue, order_id_counter>> /\ pc[s] = "register"
        /\ \/ pc' = [pc EXCEPT ![s] = "push"] /\ order' = order
           \/ pc' = [pc EXCEPT ![s] = "idle"] /\ order' = [order EXCEPT ![s] = NoOrder]
    BY <1>6, ZenonT(60) DEF Register, riskVars, OnceInv
  <2>2. order' \in [Strategies -> Ids \cup {NoOrder}]
    BY <2>1, Zenon DEF OnceInv
  <2>3. pc' \in [Strategies -> {"idle", "insert", "register", "push", "store"}]
    BY <2>1, Zenon DEF OnceInv
  <2>4. \A u \in Strategies : pc'[u] # "idle" =>
          order'[u] = order[u] /\ pc[u] # "idle" /\ (pc'[u] = pc[u] \/ pc[u] = "register")
    BY <2>1, Zenon DEF OnceInv
  <2> QED
    BY <1>1, <1>2, <1>3, <2>1, <2>2, <2>3, <2>4, SMTT(60) DEF OnceInv
<1>7. CASE PushTrade(s)
  <2>1. UNCHANGED order_id_counter /\ pc[s] = "push"
    BY <1>7, Zenon DEF PushTrade, riskVars
  <2>2. CASE QueueHasRoom
    <3>1. /\ trade_queue' = Append(trade_queue, order[s])
          /\ pc' = [pc EXCEPT ![s] = "store"] /\ order' = order
      BY <1>7, <2>2, Zenon DEF PushTrade, OnceInv
    <3>2. order[s] \in Ids /\ order[s] < order_id_counter /\ order[s] \notin Pushed
      BY <2>1, Zenon DEF OnceInv
    <3>3. /\ trade_queue' \in Seq(Ids) /\ Distinct(trade_queue')
          /\ Values(trade_queue') = Values(trade_queue) \cup {order[s]}
      BY <3>1, <3>2, AppendValues DEF OnceInv, Pushed
    <3>4. Pushed' = Pushed \cup {order[s]}
      BY <1>1, <1>2, <3>3, Zenon DEF Pushed
    <3>5. pc' \in [Strategies -> {"idle", "insert", "register", "push", "store"}]
      BY <3>1, Zenon DEF OnceInv
    <3>6. \A u \in Strategies : pc'[u] # "idle" => pc[u] # "idle"
      BY <2>1, <3>1, Zenon DEF OnceInv
    <3>7. \A u \in Strategies : pc'[u] \in {"insert", "register", "push"} =>
            u # s /\ pc[u] = pc'[u]
      BY <3>1, Zenon DEF OnceInv
    <3>8. \A id \in Pushed', u \in Strategies :
            pc'[u] \in {"insert", "register", "push"} => order'[u] # id
      BY <2>1, <3>1, <3>4, <3>7 DEF OnceInv
    <3>9. \A id \in Pushed' : id < order_id_counter'
      BY <2>1, <3>2, <3>4, Zenon DEF OnceInv
    <3>10. /\ Values(trade_queue') \cap Values(sent) = {}
           /\ Holding => hand \notin Values(trade_queue') \cup Values(sent)
      BY <3>2, <3>3 DEF OnceInv, Pushed
    <3> QED
      BY <1>1, <1>2, <2>1, <3>1, <3>3, <3>5, <3>6, <3>8, <3>9, <3>10, Zenon DEF OnceInv
  <2>3. CASE ~QueueHasRoom
    <3>1. /\ UNCHANGED trade_queue
          /\ pc' = [pc EXCEPT ![s] = "idle"] /\ order' = [order EXCEPT ![s] = NoOrder]
      BY <1>7, <2>3, Zenon DEF PushTrade
    <3>2. \A u \in Strategies : pc'[u] # "idle" =>
            order'[u] = order[u] /\ pc'[u] = pc[u]
      BY <3>1, Zenon DEF OnceInv
    <3>3. order' \in [Strategies -> Ids \cup {NoOrder}]
      BY <3>1, Zenon DEF OnceInv
    <3> QED
      BY <1>1, <1>2, <1>3, <2>1, <3>1, <3>2, <3>3, SMTT(60) DEF OnceInv
  <2> QED
    BY <2>2, <2>3, Zenon
<1>8. CASE StoreSubmitted(s)
  <2>1. /\ UNCHANGED <<trade_queue, order_id_counter>>
        /\ pc' = [pc EXCEPT ![s] = "idle"] /\ order' = [order EXCEPT ![s] = NoOrder]
    BY <1>8, Zenon DEF StoreSubmitted, executorVars, riskVars
  <2>2. \A u \in Strategies : pc'[u] # "idle" =>
          order'[u] = order[u] /\ pc'[u] = pc[u]
    BY <2>1, Zenon DEF OnceInv
  <2>3. order' \in [Strategies -> Ids \cup {NoOrder}]
    BY <2>1, Zenon DEF OnceInv
  <2> QED
    BY <1>1, <1>2, <1>3, <2>1, <2>2, <2>3, SMTT(60) DEF OnceInv
<1> QED
  BY <1>4, <1>5, <1>6, <1>7, <1>8, Zenon DEF SubmitStep

\* The executor thread: the trade it pops is in its hand alone until it is sent,
\* pushed back or given up.
LEMMA ExecutorKeepsOnce ==
  ASSUME OnceInv, ExecutorStep
  PROVE  OnceInv'
<1>1. UNCHANGED <<order_id_counter, pc, order>>
  BY Zenon DEF ExecutorStep, LoopHead, PopTrade, SendOrder, Refuse, PushBack, riskVars, strategyVars
\* It is enough that no order is added to those pushed, and that each has one place.
<1>2. ASSUME trade_queue' \in Seq(Ids), sent' \in Seq(Ids), Holding' => hand' \in Ids,
             Pushed' \subseteq Pushed,
             Distinct(trade_queue'), Distinct(sent'),
             Values(trade_queue') \cap Values(sent') = {},
             Holding' => hand' \notin Values(trade_queue') \cup Values(sent')
      PROVE  OnceInv'
  BY <1>1, <1>2, Zenon DEF OnceInv
<1>3. CASE LoopHead
  <2>1. UNCHANGED <<trade_queue, sent>> /\ ~Holding /\ ~Holding'
    BY <1>3, Zenon DEF LoopHead, Holding, historyVars
  <2>2. Pushed' = Pushed
    BY <2>1, Zenon DEF Pushed
  <2> QED
    BY <1>2, <2>1, <2>2, Zenon DEF OnceInv
<1>4. CASE PopTrade
  <2>1. UNCHANGED sent /\ ~Holding
    BY <1>4, Zenon DEF PopTrade, Holding, historyVars
  <2>2. CASE trade_queue = <<>>
    <3>1. UNCHANGED trade_queue /\ ~Holding'
      BY <1>4, <2>2, Zenon DEF PopTrade, Holding
    <3>2. Pushed' = Pushed
      BY <2>1, <3>1, Zenon DEF Pushed
    <3> QED
      BY <1>2, <2>1, <3>1, <3>2, Zenon DEF OnceInv
  <2>3. CASE trade_queue # <<>>
    <3>1. Holding' /\ hand' = Head(trade_queue) /\ trade_queue' = Tail(trade_queue)
      BY <1>4, <2>3, Zenon DEF PopTrade, Popped, Holding
    <3>2. /\ hand' \in Ids /\ hand' \in Values(trade_queue)
          /\ trade_queue' \in Seq(Ids) /\ Values(trade_queue') \subseteq Values(trade_queue)
          /\ Distinct(trade_queue') /\ hand' \notin Values(trade_queue')
      BY <2>3, <3>1, TailValues, Zenon DEF OnceInv
    <3>3. Pushed' \subseteq Pushed
      BY <2>1, <3>1, <3>2, Zenon DEF Pushed
    <3> QED
      BY <1>2, <2>1, <3>1, <3>2, <3>3, Zenon DEF OnceInv
  <2> QED
    BY <2>2, <2>3, Zenon
<1>5. CASE SendOrder
  <2>1. UNCHANGED trade_queue /\ Holding /\ ~Holding'
    BY <1>5, Zenon DEF SendOrder, Holding
  <2>2. sent' = sent \/ sent' = Append(sent, hand)
    BY <1>5, Zenon DEF SendOrder
  <2>3. /\ sent' \in Seq(Ids) /\ Values(sent') \subseteq Values(sent) \cup {hand}
        /\ Distinct(sent')
    <3>1. hand \in Ids /\ sent \in Seq(Ids) /\ hand \notin Values(sent) /\ Distinct(sent)
      BY <2>1, Zenon DEF OnceInv
    <3>2. CASE sent' = sent
      BY <3>1, <3>2, Zenon
    <3>3. CASE sent' = Append(sent, hand)
      BY <3>1, <3>3, AppendValues, Zenon
    <3> QED
      BY <2>2, <3>2, <3>3, Zenon
  <2>4. Pushed' \subseteq Pushed
    BY <2>1, <2>3, Zenon DEF Pushed
  <2> QED
    BY <1>2, <2>1, <2>3, <2>4, Zenon DEF OnceInv
<1>6. CASE Refuse
  <2>1. UNCHANGED <<trade_queue, sent, hand>> /\ Holding /\ Holding'
    BY <1>6, Zenon DEF Refuse, Holding, historyVars
  <2>2. Pushed' = Pushed
    BY <2>1, Zenon DEF Pushed
  <2> QED
    BY <1>2, <2>1, <2>2, Zenon DEF OnceInv
<1>7. CASE PushBack
  <2>1. UNCHANGED sent /\ Holding /\ ~Holding'
    BY <1>7, Zenon DEF PushBack, Holding
  <2>2. trade_queue' = trade_queue \/ trade_queue' = Append(trade_queue, hand)
    BY <1>7, Zenon DEF PushBack, PushedBack
  <2>3. /\ trade_queue' \in Seq(Ids)
        /\ Values(trade_queue') \subseteq Values(trade_queue) \cup {hand}
        /\ Distinct(trade_queue')
    <3>1. /\ hand \in Ids /\ trade_queue \in Seq(Ids)
          /\ hand \notin Values(trade_queue) /\ Distinct(trade_queue)
      BY <2>1, Zenon DEF OnceInv
    <3>2. CASE trade_queue' = trade_queue
      BY <3>1, <3>2, Zenon
    <3>3. CASE trade_queue' = Append(trade_queue, hand)
      BY <3>1, <3>3, AppendValues, Zenon
    <3> QED
      BY <2>2, <3>2, <3>3, Zenon
  <2>4. Pushed' \subseteq Pushed
    BY <2>1, <2>3, Zenon DEF Pushed
  <2> QED
    BY <1>2, <2>1, <2>3, <2>4, SMTT(60) DEF OnceInv
<1> QED
  BY <1>3, <1>4, <1>5, <1>6, <1>7, Zenon DEF ExecutorStep

\* Every step keeps it.
LEMMA OnceInvNext == OnceInv /\ [Next]_vars => OnceInv'
<1> SUFFICES ASSUME OnceInv, [Next]_vars PROVE OnceInv'
  BY Zenon
<1>1. CASE \/ UNCHANGED vars \/ StartAll \/ UpdateQuote \/ IoStep \/ Connect \/ Disconnect \/ Receive
           \/ \E id \in Ids : Fill(id) \/ Cancel(id)
  <2>1. UNCHANGED onceVars
    BY <1>1, ZenonT(60) DEF onceVars, vars, StartAll, UpdateQuote, IoStep, HandleMessage, StoreResponse,
         ApplyResponse, Connect, Disconnect, Receive, Fill, Cancel, Answer,
         riskVars, executorVars, strategyVars, historyVars
  <2> QED
    BY <2>1, OnceFrame, Zenon
<1>2. CASE Stop
  <2>1. UNCHANGED onceVars
    BY <1>2, Zenon DEF onceVars, Stop, riskVars, historyVars
  <2> QED
    BY <2>1, OnceFrame, Zenon
<1>3. CASE JoinExecutor
  <2>1. UNCHANGED <<order_id_counter, pc, order, trade_queue, sent>>
    BY <1>3, Zenon DEF JoinExecutor, riskVars, strategyVars, historyVars
  <2>2. ~Holding /\ ~Holding'
    BY <1>3, Zenon DEF JoinExecutor, Holding
  <2>3. Pushed' = Pushed
    BY <2>1, <2>2, Zenon DEF Pushed
  <2> QED
    BY <2>1, <2>2, <2>3, Zenon DEF OnceInv
<1> QED
  BY <1>1, <1>2, <1>3, StrategiesKeepOnce, ExecutorKeepsOnce, Zenon DEF Next

\* No order is handed to the connection twice, whatever the rate limiter sends
\* back to the queue and whenever the connection drops.
THEOREM NoDuplicateOrders == Spec => []SentOnce
<1>1. OnceInv => SentOnce
  <2> SUFFICES ASSUME OnceInv PROVE SentOnce
    BY Zenon
  <2>1. DOMAIN sent = 1..Len(sent)
    BY LenProperties, Zenon DEF OnceInv
  <2> QED
    BY <2>1, Zenon DEF OnceInv, Distinct, SentOnce
<1> QED
  BY <1>1, OnceInvInit, OnceInvNext, PTL DEF Spec

-----------------------------------------------------------------------------
(* A callback finds its trade *)

\* What the exchange sends: an error names no order, anything else names one.
Replies ==
  {m \in [code : {0, 1}, client_oid : Ids \cup {NoOrder},
          status : {"none", "FILLED", "ACTIVE", "CANCELED"}, filled : Int] :
     /\ m.code = 0 => m.client_oid \in Ids
     /\ 0 \in Ids}

\* A response is being handled, and this is its order.
Handling == io_pc \in {"store", "apply"}
Answered == response.client_order_id

\* The order's submit_trade has not registered its callback yet.
Unregistered(s) == pc[s] \in {"insert", "register"}

\* Inductive: an order's callback is registered once, after its trade was inserted
\* into submitted_trades_, and taken out once, before the trade is erased.  An
\* order that is still to be registered has nothing in pending_orders_ and no
\* response under way.
CallInv ==
  /\ wire \in Seq(Ids) /\ inbox \in Seq(Replies)
  /\ exchange \in [Ids -> [state : {"unknown", "open", "closed", "rejected"}, filled : Int]]
  /\ pending_orders \in [Ids -> {"none", "callback", "empty"}]
  /\ \A id \in Ids : pending_orders[id] = "callback" => id \in submitted_trades
  /\ \A id \in Ids : pending_orders[id] # "none" => id < order_id_counter
  /\ \A id \in Ids, s \in Strategies :
       pending_orders[id] # "none" /\ Unregistered(s) => order[s] # id
  /\ \A s \in Strategies : pc[s] = "register" => order[s] \in submitted_trades
  /\ Handling =>
       /\ Answered \in Ids /\ Answered < order_id_counter
       /\ Answered \in submitted_trades
       /\ pending_orders[Answered] # "callback"
       /\ \A s \in Strategies : Unregistered(s) => order[s] # Answered

\* What CallInv depends on.
registerVars == <<order_id_counter, pc, order, submitted_trades, pending_orders, io_pc, response>>

\* No order exists at the start.
LEMMA CallInvInit == Init => CallInv
<1> SUFFICES ASSUME Init PROVE CallInv
  BY Zenon
<1>1. wire \in Seq(Ids) /\ inbox \in Seq(Replies)
  BY EmptySeq, Zenon DEF Init
<1>2. exchange \in [Ids -> [state : {"unknown", "open", "closed", "rejected"}, filled : Int]]
  BY DEF Init
<1> QED
  BY <1>1, <1>2, Zenon DEF Init, CallInv, Handling, Unregistered

\* A step that changes at most the connection and the exchange.
LEMMA CallFrame ==
  ASSUME CallInv, UNCHANGED registerVars,
         wire' \in Seq(Ids), inbox' \in Seq(Replies),
         exchange' \in [Ids -> [state : {"unknown", "open", "closed", "rejected"}, filled : Int]]
  PROVE  CallInv'
<1>1. UNCHANGED <<order_id_counter, pc, order, submitted_trades, pending_orders, io_pc, response>>
  BY Zenon DEF registerVars
<1> QED
  BY <1>1, Zenon DEF CallInv, Handling, Answered, Unregistered

\* The threads of the strategies.
LEMMA StrategiesKeepCalls ==
  ASSUME OnceInv, CallInv, NEW s \in Strategies,
         (\E t \in Trades : CheckAndGo(s, t)) \/ SubmitStep(s)
  PROVE  CallInv'
<1>1. UNCHANGED <<wire, inbox, exchange, io_pc, response>>
  BY Zenon DEF CheckAndGo, SubmitStep, InsertSubmitted, Register, PushTrade, StoreSubmitted,
         ioVars, exchangeVars
<1>2. Handling' = Handling /\ Answered' = Answered
  BY <1>1, Zenon DEF Handling, Answered
<1>3. pc \in [Strategies -> {"idle", "insert", "register", "push", "store"}]
      /\ order \in [Strategies -> Ids \cup {NoOrder}] /\ order_id_counter \in Nat
  BY Zenon DEF OnceInv
<1>4. ASSUME NEW t \in Trades, CheckAndGo(s, t) PROVE CallInv'
  <2>1. /\ order_id_counter' = order_id_counter + 1
        /\ UNCHANGED <<submitted_trades, pending_orders>>
        /\ \/ /\ order' = [order EXCEPT ![s] = order_id_counter]
              /\ pc' = [pc EXCEPT ![s] = "insert"]
           \/ /\ order' = [order EXCEPT ![s] = NoOrder]
              /\ pc' = [pc EXCEPT ![s] = "idle"]
    BY <1>4, ZenonT(60) DEF CheckAndGo, executorVars
  <2>2. \A u \in Strategies : Unregistered(u)' =>
          \/ Unregistered(u) /\ pc'[u] = pc[u] /\ order'[u] = order[u]
          \/ pc'[u] = "insert" /\ order'[u] = order_id_counter
    BY <1>3, <2>1, Zenon DEF Unregistered
  <2>3. \A u \in Strategies : pc'[u] = "register" => pc[u] = "register" /\ order'[u] = order[u]
    BY <1>3, <2>1, Zenon
  <2>4. \A n \in Ids : n < order_id_counter => n < order_id_counter' /\ n # order_id_counter
    BY <1>3, <2>1, IdsNat
  <2>5. \A id \in Ids : pending_orders[id] # "none" => id < order_id_counter'
    BY <2>4, Zenon DEF CallInv
  <2>6. \A id \in Ids, u \in Strategies :
          pending_orders[id] # "none" /\ Unregistered(u)' => order'[u] # id
    BY <2>2, <2>4, Zenon DEF CallInv
  <2>7. Handling => /\ Answered < order_id_counter'
                    /\ \A u \in Strategies : Unregistered(u)' => order'[u] # Answered
    BY <2>2, <2>4, ZenonT(60) DEF CallInv
  <2>8. \A u \in Strategies : pc'[u] = "register" => order'[u] \in submitted_trades
    BY <2>3, Zenon DEF CallInv
  <2> QED
    BY <1>1, <1>2, <2>1, <2>5, <2>6, <2>7, <2>8, Zenon DEF CallInv
<1>5. CASE InsertSubmitted(s)
  <2>1. /\ UNCHANGED <<order_id_counter, order, pending_orders>>
        /\ submitted_trades' = submitted_trades \cup {order[s]}
        /\ pc[s] = "insert" /\ pc' = [pc EXCEPT ![s] = "register"]
    BY <1>5, Zenon DEF InsertSubmitted, executorVars
  <2>2. \A u \in Strategies : Unregistered(u)' = Unregistered(u)
    BY <1>3, <2>1 DEF Unregistered
  <2>3. \A u \in Strategies : pc'[u] = "register" => order[u] \in submitted_trades'
    BY <1>3, <2>1, Zenon DEF CallInv
  <2> QED
    BY <1>1, <1>2, <2>1, <2>2, <2>3, Zenon DEF CallInv
<1>6. CASE Register(s)
  <2>1. /\ UNCHANGED <<order_id_counter, submitted_trades>> /\ pc[s] = "register"
    BY <1>6, Zenon DEF Register, riskVars
  <2>2. CASE running
    <3>1. /\ pc' = [pc EXCEPT ![s] = "push"] /\ order' = order
          /\ pending_orders' = [pending_orders EXCEPT ![order[s]] = "callback"]
      BY <1>3, <1>6, <2>2, Zenon DEF Register
    <3>2. /\ order[s] \in Ids /\ order[s] < order_id_counter
          /\ order[s] \in submitted_trades
          /\ Handling => order[s] # Answered
      BY <2>1, Zenon DEF OnceInv, CallInv, Unregistered
    <3>3. \A u \in Strategies : Unregistered(u)' => u # s /\ Unregistered(u)
      BY <1>3, <3>1, Zenon DEF Unregistered
    <3>4. \A u \in Strategies : Unregistered(u)' => order[u] # order[s]
      BY <2>1, <3>3, Zenon DEF OnceInv, Unregistered
    <3>5. pending_orders' \in [Ids -> {"none", "callback", "empty"}]
      BY <3>1, ZenonT(60) DEF CallInv
    <3>6. \A id \in Ids : pending_orders'[id] = IF id = order[s] THEN "callback" ELSE pending_orders[id]
      BY <3>1, <3>2, Zenon DEF CallInv
    <3>7. \A u \in Strategies : pc'[u] = "register" => pc[u] = "register"
      BY <1>3, <3>1, Zenon
    <3> QED
      BY <1>1, <1>2, <2>1, <3>1, <3>2, <3>3, <3>4, <3>5, <3>6, <3>7, Zenon DEF CallInv
  <2>3. CASE ~running
    <3>1. /\ pc' = [pc EXCEPT ![s] = "idle"] /\ order' = [order EXCEPT ![s] = NoOrder]
          /\ pending_orders' = pending_orders
      BY <1>6, <2>3, Zenon DEF Register
    <3>2. \A u \in Strategies : Unregistered(u)' => Unregistered(u) /\ order'[u] = order[u] /\ pc'[u] = pc[u]
      BY <1>3, <3>1, Zenon DEF Unregistered
    <3>3. \A u \in Strategies : pc'[u] = "register" => order'[u] \in submitted_trades
      BY <1>3, <3>1, Zenon DEF CallInv
    <3> QED
      BY <1>1, <1>2, <2>1, <3>1, <3>2, <3>3, SMTT(60) DEF CallInv
  <2> QED
    BY <2>2, <2>3, Zenon
<1>7. CASE PushTrade(s) \/ StoreSubmitted(s)
  <2>1. /\ UNCHANGED <<order_id_counter, submitted_trades, pending_orders>>
        /\ pc' = [pc EXCEPT ![s] = "idle"] \/ pc' = [pc EXCEPT ![s] = "store"]
        /\ order' = order \/ order' = [order EXCEPT ![s] = NoOrder]
    BY <1>3, <1>7, Zenon DEF PushTrade, StoreSubmitted, riskVars, executorVars
  <2>2. \A u \in Strategies : Unregistered(u)' => Unregistered(u) /\ order'[u] = order[u] /\ pc'[u] = pc[u]
    BY <1>3, <2>1, Zenon DEF Unregistered
  <2>3. \A u \in Strategies : pc'[u] = "register" => order'[u] \in submitted_trades
    BY <1>3, <2>1, Zenon DEF CallInv
  <2> QED
    BY <1>1, <1>2, <2>1, <2>2, <2>3, SMTT(60) DEF CallInv
<1> QED
  BY <1>4, <1>5, <1>6, <1>7, Zenon DEF SubmitStep

\* The I/O thread.
LEMMA IoKeepsCalls ==
  ASSUME OnceInv, CallInv, IoStep
  PROVE  CallInv'
<1>1. UNCHANGED <<order_id_counter, pc, order, wire, exchange>>
  BY Zenon DEF IoStep, HandleMessage, StoreResponse, ApplyResponse, riskVars, strategyVars, exchangeVars
<1>2. \A s \in Strategies : Unregistered(s)' = Unregistered(s)
  BY <1>1, Zenon DEF Unregistered
<1>3. CASE HandleMessage
  <2> DEFINE m == Head(inbox)
             id == Parse(m).client_order_id
  <2>1. /\ m \in Replies /\ Tail(inbox) \in Seq(Replies)
    BY <1>3, HeadTailProperties, Zenon DEF HandleMessage, CallInv
  <2>2. id \in Ids
    BY <2>1, Zenon DEF Parse, Replies
  <2>3. /\ io_pc = "read" /\ inbox' = Tail(inbox) /\ UNCHANGED submitted_trades
        /\ response' = IF pending_orders[id] = "callback" THEN Parse(m) ELSE NoResponse
        /\ pending_orders' =
             IF pending_orders[id] = "none" THEN pending_orders
             ELSE [pending_orders EXCEPT ![id] = LeftBehind(Parse(m).status)]
        /\ io_pc' = IF pending_orders[id] = "callback" THEN "store" ELSE "read"
    BY <1>3, Zenon DEF HandleMessage, riskVars
  <2>4. LeftBehind(Parse(m).status) \in {"none", "empty"}
    BY Zenon DEF LeftBehind
  <2>5. pending_orders[id] = "callback" => response'.client_order_id = id
    BY <2>3, Zenon
  <2> HIDE DEF m, id
  <2>6. /\ pending_orders' \in [Ids -> {"none", "callback", "empty"}]
        /\ \A i \in Ids : pending_orders'[i] # "none" => pending_orders[i] # "none"
        /\ \A i \in Ids : pending_orders'[i] = "callback" => pending_orders[i] = "callback"
        /\ pending_orders'[id] # "callback" \/ pending_orders[id] = "none"
    BY <2>2, <2>3, <2>4, Zenon DEF CallInv
  <2>7. Handling' => pending_orders[id] = "callback" /\ Answered' = id
    BY <2>3, <2>5, Zenon DEF Handling, Answered
  <2> QED
    BY <1>1, <1>2, <2>1, <2>2, <2>3, <2>6, <2>7, Zenon DEF CallInv
<1>4. CASE StoreResponse
  <2>1. /\ UNCHANGED <<submitted_trades, pending_orders, inbox, response>>
        /\ Handling /\ Handling'
    BY <1>4, Zenon DEF StoreResponse, riskVars, executorVars, exchangeVars, Handling
  <2> QED
    BY <1>1, <1>2, <2>1, Zenon DEF CallInv, Answered
<1>5. CASE ApplyResponse
  <2>1. /\ UNCHANGED <<pending_orders, inbox>> /\ Handling /\ ~Handling'
        /\ submitted_trades' = submitted_trades \/ submitted_trades' = submitted_trades \ {Answered}
    BY <1>5, Zenon DEF ApplyResponse, executorVars, exchangeVars, Handling, Answered
  <2>2. /\ pending_orders[Answered] # "callback"
        /\ \A s \in Strategies : Unregistered(s) => order[s] # Answered
    BY <2>1, Zenon DEF CallInv
  <2> QED
    BY <1>1, <1>2, <2>1, <2>2, Zenon DEF CallInv, Unregistered
<1> QED
  BY <1>3, <1>4, <1>5, Zenon DEF IoStep

\* The connection and the exchange send replies.
LEMMA ExchangeKeepsCalls ==
  ASSUME CallInv, Connect \/ Disconnect \/ Receive \/ \E id \in Ids : Fill(id) \/ Cancel(id)
  PROVE  CallInv'
<1>1. UNCHANGED registerVars
  BY ZenonT(60) DEF registerVars, Connect, Disconnect, Receive, Fill, Cancel, Answer,
       riskVars, executorVars, strategyVars, ioVars
<1>2. ASSUME NEW id \in Ids, NEW state \in {"open", "closed", "rejected"}, NEW filled \in Int,
             NEW reply \in Replies, Answer(id, state, filled, reply)
      PROVE  /\ inbox' \in Seq(Replies)
             /\ exchange' \in [Ids -> [state : {"unknown", "open", "closed", "rejected"}, filled : Int]]
  <2>1. exchange' = [exchange EXCEPT ![id] = [state |-> state, filled |-> filled]]
    BY <1>2, Zenon DEF Answer
  <2>2. inbox' = inbox \/ inbox' = Append(inbox, reply)
    BY <1>2, Zenon DEF Answer
  <2>3. Append(inbox, reply) \in Seq(Replies)
    BY AppendProperties, Zenon DEF CallInv
  <2> QED
    BY <2>1, <2>2, <2>3, ZenonT(60) DEF CallInv
<1>3. \A id \in Ids : 0 \in Ids /\ NoOrder \notin Ids
  BY PathAssumption, SMTT(30) DEF Ids
<1>4. CASE Connect
  <2>1. UNCHANGED <<wire, inbox, exchange>>
    BY <1>4, Zenon DEF Connect
  <2> QED
    BY <1>1, <2>1, CallFrame, Zenon DEF CallInv
<1>5. CASE Disconnect
  <2>1. wire' \in {<<>>, wire} /\ inbox' = <<>> /\ UNCHANGED exchange
    BY <1>5, Zenon DEF Disconnect
  <2>2. wire' \in Seq(Ids) /\ inbox' \in Seq(Replies)
    BY <2>1, EmptySeq, ZenonT(60) DEF CallInv
  <2> QED
    BY <1>1, <2>1, <2>2, CallFrame, ZenonT(60) DEF CallInv
<1>6. CASE Receive
  <2>1. Head(wire) \in Ids /\ wire' = Tail(wire) /\ Tail(wire) \in Seq(Ids)
    BY <1>6, HeadTailProperties, Zenon DEF Receive, CallInv
  <2>2. /\ Message(0, Head(wire), "none", 0) \in Replies
        /\ Message(1, NoOrder, "none", 0) \in Replies
    BY <1>3, <2>1, SMTT(60) DEF Message, Replies
  <2>3. \/ Answer(Head(wire), "open", 0, Message(0, Head(wire), "none", 0))
        \/ Answer(Head(wire), "rejected", 0, Message(1, NoOrder, "none", 0))
    BY <1>6, Zenon DEF Receive
  <2>4. /\ inbox' \in Seq(Replies)
        /\ exchange' \in [Ids -> [state : {"unknown", "open", "closed", "rejected"}, filled : Int]]
    BY <1>2, <2>1, <2>2, <2>3
  <2> QED
    BY <1>1, <2>1, <2>4, CallFrame, Zenon
<1>7. ASSUME NEW id \in Ids, Fill(id) PROVE CallInv'
  <2>0. PICK filled \in (exchange[id].filled + 1)..trade[id].quantity :
          \/ Answer(id, "closed", filled, Message(0, id, "FILLED", filled))
          \/ Answer(id, "open", filled, Message(0, id, "ACTIVE", filled))
    BY <1>7, ZenonT(30) DEF Fill
  <2>1. filled \in Int
    BY <2>0, SMTT(60)
  <2>2. /\ Message(0, id, "FILLED", filled) \in Replies
        /\ Message(0, id, "ACTIVE", filled) \in Replies
    BY <1>3, <2>1, Zenon DEF Message, Replies
  <2>3. /\ inbox' \in Seq(Replies)
        /\ exchange' \in [Ids -> [state : {"unknown", "open", "closed", "rejected"}, filled : Int]]
    BY <1>2, <2>0, <2>1, <2>2, Zenon
  <2>4. UNCHANGED wire
    BY <1>7, Zenon DEF Fill
  <2> QED
    BY <1>1, <2>3, <2>4, CallFrame, ZenonT(60) DEF CallInv
<1>8. ASSUME NEW id \in Ids, Cancel(id) PROVE CallInv'
  <2> DEFINE filled == exchange[id].filled
  <2>1. filled \in Int
    BY Zenon DEF CallInv
  <2>2. Answer(id, "closed", filled, Message(0, id, "CANCELED", filled)) /\ UNCHANGED wire
    BY <1>8, Zenon DEF Cancel
  <2> HIDE DEF filled
  <2>3. Message(0, id, "CANCELED", filled) \in Replies
    BY <1>3, <2>1, Zenon DEF Message, Replies
  <2>4. /\ inbox' \in Seq(Replies)
        /\ exchange' \in [Ids -> [state : {"unknown", "open", "closed", "rejected"}, filled : Int]]
    BY <1>2, <2>1, <2>2, <2>3, Zenon
  <2> QED
    BY <1>1, <2>2, <2>4, CallFrame, ZenonT(30) DEF CallInv
<1> QED
  BY <1>4, <1>5, <1>6, <1>7, <1>8, Zenon

\* Every step keeps it, given that an order has one place.
LEMMA CallInvNext == OnceInv /\ CallInv /\ [Next]_vars => CallInv'
<1> SUFFICES ASSUME OnceInv, CallInv, [Next]_vars PROVE CallInv'
  BY Zenon
<1>1. CASE UNCHANGED vars \/ StartAll \/ UpdateQuote \/ Stop \/ JoinExecutor \/ ExecutorStep
  <2>1. UNCHANGED registerVars
    BY <1>1, ZenonT(60) DEF registerVars, vars, StartAll, UpdateQuote, Stop, JoinExecutor, ExecutorStep,
         LoopHead, PopTrade, SendOrder, Refuse, PushBack, riskVars, executorVars, strategyVars, ioVars
  <2>2. UNCHANGED <<inbox, exchange>>
    BY <1>1, ZenonT(60) DEF vars, StartAll, UpdateQuote, Stop, JoinExecutor, ExecutorStep,
         LoopHead, PopTrade, SendOrder, Refuse, PushBack, exchangeVars
  <2>3. wire' \in Seq(Ids)
    <3>1. CASE SendOrder
      <4>1. wire' = wire \/ wire' = Append(wire, hand)
        BY <3>1, Zenon DEF SendOrder
      <4>2. hand \in Ids
        BY <3>1, Zenon DEF SendOrder, OnceInv, Holding
      <4>3. Append(wire, hand) \in Seq(Ids)
        BY <4>2, AppendProperties, Zenon DEF CallInv
      <4> QED
        BY <4>1, <4>3, ZenonT(60) DEF CallInv
    <3>2. CASE ~SendOrder
      <4>1. UNCHANGED wire
        BY <1>1, <3>2, ZenonT(60) DEF vars, StartAll, UpdateQuote, Stop, JoinExecutor, ExecutorStep,
             LoopHead, PopTrade, Refuse, PushBack, exchangeVars
      <4> QED
        BY <4>1, Zenon DEF CallInv
    <3> QED
      BY <3>1, <3>2, Zenon
  <2> QED
    BY <2>1, <2>2, <2>3, CallFrame, ZenonT(60) DEF CallInv
<1> QED
  BY <1>1, StrategiesKeepCalls, IoKeepsCalls, ExchangeKeepsCalls, Zenon DEF Next

\* A response that has a callback always finds the trade it belongs to, so that
\* the risk manager never overlooks a fill it is told of.
THEOREM FillsFindTheirTrade == Spec => []CallbackFindsTrade
<1>1. CallInv => CallbackFindsTrade
  BY Zenon DEF CallInv, CallbackFindsTrade, Handling, Answered
<1> QED
  BY <1>1, OnceInvInit, OnceInvNext, CallInvInit, CallInvNext, PTL DEF Spec
=============================================================================

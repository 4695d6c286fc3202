--------------------------- MODULE LiveOrderPath ---------------------------
(***************************************************************************)
(* An order on its way to the exchange and its responses on their way      *)
(* back: StrategyBase -> RiskCheckedExecutionSink -> LiveOrderExecutorSink *)
(* -> OrderExecutor -> CryptoComWebSocketClient, as main wires them.       *)
(* Strategies submit, the executor thread sends, the I/O thread handles    *)
(* what the exchange sends, and main stops them.                           *)
(*                                                                         *)
(* Critical sections and single atomic accesses are steps.  The trade      *)
(* queue is the bounded FIFO that MPSCTradeQueue implements, with a push   *)
(* in one step.  A rate limiter that refuses, a connection that drops and  *)
(* what the exchange answers are nondeterministic.                         *)
(***************************************************************************)
EXTENDS RiskManager, Sequences, FiniteSets

CONSTANTS
  Strategies,      \* threads that run strategy callbacks
  Trades,          \* the orders they place: [type, side, quantity, price]
  Mids,            \* mid prices that quotes bring
  QueueCapacity,   \* capacity of trade_queue_
  MaxOrders,       \* bound: orders created
  MaxRefusals,     \* bound: try_acquire returning false
  MaxDisconnects,  \* bound: connections lost
  NoOrder, NoTrade, NoResponse

ASSUME PathAssumption ==
  /\ {QueueCapacity, MaxOrders, MaxRefusals, MaxDisconnects} \subseteq Nat
  /\ NoOrder \notin Nat
  /\ Trades \subseteq [type : {"LIMIT", "MARKET"}, side : {"BUY", "SELL"},
                      quantity : Nat, price : Nat]

VARIABLES
  (* Trade, RiskManager and RiskCheckedExecutionSink *)
  order_id_counter,  \* the next client_order_id
  trade,             \* client_order_id -> the trade created with it
  mid_price,         \* mid_prices_, 0 before the first quote
  net_quantity,      \* positions_[ticker].net_quantity
  submitted_trades,  \* keys of submitted_trades_
  (* OrderExecutor *)
  pending_orders,    \* client_order_id -> "none", "callback" or "empty"
  trade_queue,       \* trade_queue_
  running,           \* running_
  executor_pc, hand, \* the executor thread, and its trade
  (* LiveOrderExecutorSink *)
  stored,            \* the events it appended to the storage: [type, id]
  (* threads *)
  active,            \* are the strategies running?
  pc, order,         \* each strategy thread in submit_trade, and its order
  io_pc, response,   \* the I/O thread in handle_message, and what it handles
  (* connection and exchange *)
  authenticated,     \* authenticated_
  wire, inbox,       \* messages to and from the exchange
  exchange,          \* client_order_id -> [state, filled]
  refusals, disconnects,
  (* history *)
  accepted,          \* orders whose submit_trade returned true
  sent,              \* orders handed to the connection, in order
  dropped,           \* orders the executor popped and gave up, see SendOrder and PushBack
  told               \* client_order_id -> statuses its strategy was told

riskVars == <<order_id_counter, trade, mid_price, net_quantity, submitted_trades>>
executorVars == <<pending_orders, trade_queue, running, executor_pc, hand>>
strategyVars == <<active, pc, order>>
ioVars == <<io_pc, response>>
exchangeVars == <<authenticated, wire, inbox, exchange, refusals, disconnects>>
historyVars == <<accepted, sent, dropped, told>>
vars == <<riskVars, executorVars, stored, strategyVars, ioVars, exchangeVars, historyVars>>

Ids == 0..(MaxOrders - 1)

Init ==
  /\ order_id_counter = 0 /\ trade = [i \in Ids |-> NoTrade]
  /\ mid_price = 0 /\ net_quantity = 0 /\ submitted_trades = {}
  /\ pending_orders = [i \in Ids |-> "none"]
  /\ trade_queue = <<>> /\ running = TRUE /\ executor_pc = "loop" /\ hand = NoOrder
  /\ stored = {}
  /\ active = FALSE
  /\ pc = [s \in Strategies |-> "idle"] /\ order = [s \in Strategies |-> NoOrder]
  /\ io_pc = "read" /\ response = NoResponse
  /\ authenticated = FALSE /\ wire = <<>> /\ inbox = <<>>
  /\ exchange = [i \in Ids |-> [state |-> "unknown", filled |-> 0]]
  /\ refusals = 0 /\ disconnects = 0
  /\ accepted = {} /\ sent = <<>> /\ dropped = {}
  /\ told = [i \in Ids |-> {}]

-----------------------------------------------------------------------------
(* A strategy places an order *)

\* main starts the strategies once the connection is authenticated.
StartAll ==
  /\ authenticated /\ running /\ ~active
  /\ active' = TRUE
  /\ UNCHANGED <<riskVars, executorVars, stored, pc, order, ioVars, exchangeVars, historyVars>>

UpdateQuote ==
  /\ active
  /\ \E mid \in Mids : mid_price' = mid
  /\ UNCHANGED <<order_id_counter, trade, net_quantity, submitted_trades, executorVars, stored,
                 strategyVars, ioVars, exchangeVars, historyVars>>

\* Creates the trade and checks it.  A rejected order calls back at once and
\* goes no further.
CheckAndGo(s, t) ==
  LET id == order_id_counter
      ok == CheckOrder(t, mid_price, net_quantity)
  IN /\ active /\ pc[s] = "idle"
     /\ id < MaxOrders
     /\ order_id_counter' = id + 1
     /\ trade' = [trade EXCEPT ![id] = t]
     /\ order' = [order EXCEPT ![s] = IF ok THEN id ELSE NoOrder]
     /\ pc' = [pc EXCEPT ![s] = IF ok THEN "insert" ELSE "idle"]
     /\ told' = [told EXCEPT ![id] = IF ok THEN {} ELSE {"REJECTED"}]
     /\ UNCHANGED <<mid_price, net_quantity, submitted_trades, executorVars, stored, active,
                    ioVars, exchangeVars, accepted, sent, dropped>>

InsertSubmitted(s) ==
  /\ pc[s] = "insert"
  /\ submitted_trades' = submitted_trades \cup {order[s]}
  /\ pc' = [pc EXCEPT ![s] = "register"]
  /\ UNCHANGED <<order_id_counter, trade, mid_price, net_quantity, executorVars, stored, active,
                 order, ioVars, exchangeVars, historyVars>>

\* OrderExecutor::submit_trade up to the push; nothing undoes the insertion when
\* the executor is not running.
Register(s) ==
  /\ pc[s] = "register"
  /\ pc' = [pc EXCEPT ![s] = IF running THEN "push" ELSE "idle"]
  /\ order' = [order EXCEPT ![s] = IF running THEN @ ELSE NoOrder]
  /\ pending_orders' =
       IF running THEN [pending_orders EXCEPT ![order[s]] = "callback"] ELSE pending_orders
  /\ UNCHANGED <<riskVars, trade_queue, running, executor_pc, hand, stored, active,
                 ioVars, exchangeVars, historyVars>>

QueueHasRoom == Len(trade_queue) < QueueCapacity

\* try_push; a full queue makes every submit_trade on the way return false.
PushTrade(s) ==
  /\ pc[s] = "push"
  /\ trade_queue' = IF QueueHasRoom THEN Append(trade_queue, order[s]) ELSE trade_queue
  /\ accepted' = IF QueueHasRoom THEN accepted \cup {order[s]} ELSE accepted
  /\ pc' = [pc EXCEPT ![s] = IF QueueHasRoom THEN "store" ELSE "idle"]
  /\ order' = [order EXCEPT ![s] = IF QueueHasRoom THEN @ ELSE NoOrder]
  /\ UNCHANGED <<riskVars, pending_orders, running, executor_pc, hand, stored, active,
                 ioVars, exchangeVars, sent, dropped, told>>

\* LiveOrderExecutorSink appends TradeSubmitted when the executor has the trade.
StoreSubmitted(s) ==
  /\ pc[s] = "store"
  /\ stored' = stored \cup {[type |-> "TradeSubmitted", id |-> order[s]]}
  /\ pc' = [pc EXCEPT ![s] = "idle"] /\ order' = [order EXCEPT ![s] = NoOrder]
  /\ UNCHANGED <<riskVars, executorVars, active, ioVars, exchangeVars, historyVars>>

-----------------------------------------------------------------------------
(* The executor thread *)

LeavesSleep == ~running \/ authenticated

\* The two tests at the head of execution_loop; it sleeps while not authenticated.
LoopHead ==
  /\ executor_pc = "loop"
  /\ LeavesSleep
  /\ executor_pc' = IF running THEN "pop" ELSE "exited"
  /\ UNCHANGED <<riskVars, pending_orders, trade_queue, running, hand, stored, strategyVars,
                 ioVars, exchangeVars, historyVars>>

\* Mutant of Popped: the head is only peeked at.
Peeked == trade_queue

Popped == Tail(trade_queue)

PopTrade ==
  /\ executor_pc = "pop"
  /\ IF trade_queue = <<>>
       THEN executor_pc' = "loop" /\ UNCHANGED <<hand, trade_queue>>
       ELSE /\ executor_pc' = "acquire"
            /\ hand' = Head(trade_queue)
            /\ trade_queue' = Popped
  /\ UNCHANGED <<riskVars, pending_orders, running, stored, strategyVars,
                 ioVars, exchangeVars, historyVars>>

\* try_acquire grants: send_order, which gives up without authentication.
SendOrder ==
  /\ executor_pc = "acquire"
  /\ wire' = IF authenticated THEN Append(wire, hand) ELSE wire
  /\ sent' = IF authenticated THEN Append(sent, hand) ELSE sent
  /\ dropped' = IF authenticated THEN dropped ELSE dropped \cup {hand}
  /\ executor_pc' = "pop"
  /\ hand' = NoOrder
  /\ UNCHANGED <<riskVars, pending_orders, trade_queue, running, stored, strategyVars, ioVars,
                 authenticated, inbox, exchange, refusals, disconnects, accepted, told>>

Refuse ==
  /\ executor_pc = "acquire"
  /\ refusals < MaxRefusals
  /\ refusals' = refusals + 1
  /\ executor_pc' = "push_back"
  /\ UNCHANGED <<riskVars, pending_orders, trade_queue, running, hand, stored, strategyVars,
                 ioVars, authenticated, wire, inbox, exchange, disconnects, historyVars>>

\* Mutant of PushedBack: the refused trade is forgotten.
PushedBackNothing == trade_queue

PushedBack ==
  IF QueueHasRoom THEN Append(trade_queue, hand) ELSE trade_queue

\* The refused trade goes to the tail; the result of try_push is not looked at.
PushBack ==
  /\ executor_pc = "push_back"
  /\ trade_queue' = PushedBack
  /\ dropped' = IF QueueHasRoom THEN dropped ELSE dropped \cup {hand}
  /\ hand' = NoOrder
  /\ executor_pc' = "loop"
  /\ UNCHANGED <<riskVars, pending_orders, running, stored, strategyVars,
                 ioVars, exchangeVars, accepted, sent, told>>

-----------------------------------------------------------------------------
(* The I/O thread: OrderExecutor::handle_message and the callbacks *)

ParseStatus(status) ==
  IF status \in {"FILLED", "PARTIALLY_FILLED", "CANCELED", "REJECTED", "EXPIRED"}
    THEN status ELSE "NEW"

\* parse_order_response.  An error has no order in it, and client_order_id stays
\* 0; an acknowledgement has no status, and it stays NEW.
Parse(msg) ==
  IF msg.code # 0
    THEN [client_order_id |-> 0, status |-> "REJECTED", filled_quantity |-> 0]
    ELSE [client_order_id |-> msg.client_oid,
          status |-> IF msg.status = "none" THEN "NEW"
                     ELSE IF ParseStatus(msg.status) = "NEW" /\ msg.filled > 0
                       THEN "PARTIALLY_FILLED"
                     ELSE ParseStatus(msg.status),
          filled_quantity |-> msg.filled]

Terminal(status) == status \in {"FILLED", "CANCELED", "REJECTED", "EXPIRED"}

\* Mutant of LeftBehind: nothing is erased and the callback is copied, not moved.
LeftBehindForGood(status) == "callback"

\* What handle_message leaves in pending_orders_ where it found the callback: it
\* moves the function out, and erases the entry after a terminal status.
LeftBehind(status) == IF Terminal(status) THEN "none" ELSE "empty"

HandleMessage ==
  LET r == Parse(Head(inbox))
      id == r.client_order_id
  IN /\ io_pc = "read" /\ inbox # <<>>
     /\ inbox' = Tail(inbox)
     /\ response' = IF pending_orders[id] = "callback" THEN r ELSE NoResponse
     /\ pending_orders' =
          IF pending_orders[id] = "none" THEN pending_orders
          ELSE [pending_orders EXCEPT ![id] = LeftBehind(r.status)]
     /\ io_pc' = IF pending_orders[id] = "callback" THEN "store" ELSE "read"
     /\ UNCHANGED <<riskVars, trade_queue, running, executor_pc, hand, stored, strategyVars,
                    authenticated, wire, exchange, refusals, disconnects, historyVars>>

\* LiveOrderExecutorSink's callback appends the response.
StoreResponse ==
  /\ io_pc = "store"
  /\ stored' = stored \cup {[type |-> "OrderResponse", id |-> response.client_order_id]}
  /\ io_pc' = "apply"
  /\ UNCHANGED <<riskVars, executorVars, strategyVars, response, exchangeVars, historyVars>>

\* RiskCheckedExecutionSink's callback finds the trade and tells the risk
\* manager, then the strategy.
ApplyResponse ==
  LET id == response.client_order_id
      found == id \in submitted_trades
  IN /\ io_pc = "apply"
     /\ submitted_trades' =
          IF Terminal(response.status) THEN submitted_trades \ {id} ELSE submitted_trades
     /\ net_quantity' = net_quantity + (IF found THEN FillQuantity(trade[id], response) ELSE 0)
     /\ told' = [told EXCEPT ![id] = @ \cup {response.status}]
     /\ io_pc' = "read" /\ response' = NoResponse
     /\ UNCHANGED <<order_id_counter, trade, mid_price, executorVars, stored, strategyVars,
                    exchangeVars, accepted, sent, dropped>>

-----------------------------------------------------------------------------
(* The connection and the exchange (external) *)

Connect ==
  /\ ~authenticated /\ executor_pc # "joined"
  /\ authenticated' = TRUE
  /\ UNCHANGED <<riskVars, executorVars, stored, strategyVars, ioVars,
                 wire, inbox, exchange, refusals, disconnects, historyVars>>

\* What is under way is lost; what is still in send_queue_ may go out later.
Disconnect ==
  /\ authenticated
  /\ disconnects < MaxDisconnects
  /\ disconnects' = disconnects + 1
  /\ authenticated' = FALSE
  /\ wire' \in {<<>>, wire}
  /\ inbox' = <<>>
  /\ UNCHANGED <<riskVars, executorVars, stored, strategyVars, ioVars,
                 exchange, refusals, historyVars>>

Message(code, id, status, filled) ==
  [code |-> code, client_oid |-> id, status |-> status, filled |-> filled]

\* The exchange changes its order and, if connected, says so.
Answer(id, state, filled, msg) ==
  /\ exchange' = [exchange EXCEPT ![id] = [state |-> state, filled |-> filled]]
  /\ inbox' = IF authenticated THEN Append(inbox, msg) ELSE inbox
  /\ UNCHANGED <<riskVars, executorVars, stored, strategyVars, ioVars, authenticated,
                 refusals, disconnects, historyVars>>

\* It accepts an order, naming it but no status, or refuses it with an error code.
Receive ==
  /\ authenticated /\ wire # <<>>
  /\ wire' = Tail(wire)
  /\ LET id == Head(wire)
     IN \/ Answer(id, "open", 0, Message(0, id, "none", 0))
        \/ Answer(id, "rejected", 0, Message(1, NoOrder, "none", 0))

Fill(id) ==
  /\ exchange[id].state = "open"
  /\ \E filled \in (exchange[id].filled + 1)..trade[id].quantity :
       IF filled = trade[id].quantity
         THEN Answer(id, "closed", filled, Message(0, id, "FILLED", filled))
         ELSE Answer(id, "open", filled, Message(0, id, "ACTIVE", filled))
  /\ UNCHANGED wire

Cancel(id) ==
  /\ exchange[id].state = "open"
  /\ Answer(id, "closed", exchange[id].filled,
            Message(0, id, "CANCELED", exchange[id].filled))
  /\ UNCHANGED wire

-----------------------------------------------------------------------------
(* main stops *)

\* The market data thread is joined and the strategies are stopped before
\* OrderExecutor::stop.
Stop ==
  /\ running /\ \A s \in Strategies : pc[s] = "idle"
  /\ active' = FALSE
  /\ running' = FALSE
  /\ UNCHANGED <<riskVars, pending_orders, trade_queue, executor_pc, hand, stored, pc, order,
                 ioVars, exchangeVars, historyVars>>

\* The executor thread is joined and the connection closed.
JoinExecutor ==
  /\ executor_pc = "exited"
  /\ executor_pc' = "joined"
  /\ authenticated' = FALSE
  /\ UNCHANGED <<riskVars, pending_orders, trade_queue, running, hand, stored, strategyVars,
                 ioVars, wire, inbox, exchange, refusals, disconnects, historyVars>>

-----------------------------------------------------------------------------
SubmitStep(s) == InsertSubmitted(s) \/ Register(s) \/ PushTrade(s) \/ StoreSubmitted(s)
ExecutorStep == LoopHead \/ PopTrade \/ SendOrder \/ Refuse \/ PushBack
IoStep == HandleMessage \/ StoreResponse \/ ApplyResponse

Next ==
  \/ StartAll \/ UpdateQuote \/ Stop \/ JoinExecutor
  \/ \E s \in Strategies : (\E t \in Trades : CheckAndGo(s, t)) \/ SubmitStep(s)
  \/ ExecutorStep
  \/ IoStep
  \/ Connect \/ Disconnect \/ Receive
  \/ \E id \in Ids : Fill(id) \/ Cancel(id)

Spec == Init /\ [][Next]_vars

\* The threads keep running; the exchange and the connection owe nothing.
Fairness ==
  /\ \A s \in Strategies : WF_vars(SubmitStep(s))
  /\ WF_vars(ExecutorStep)
  /\ WF_vars(IoStep)

FairSpec == Spec /\ Fairness

-----------------------------------------------------------------------------
(* Properties.  The last four do not hold; the README says why. *)

\* What the exchange has really bought less what it has sold.
NetFilled ==
  LET sum[n \in 0..MaxOrders] ==
        IF n = 0 THEN 0
        ELSE sum[n - 1] + (IF trade[n - 1] = NoTrade THEN 0
                           ELSE SignedQuantity(trade[n - 1].side, exchange[n - 1].filled))
  IN sum[MaxOrders]

\* No order goes out twice, whatever the rate limiter sends back to the queue.
SentOnce == \A i, j \in DOMAIN sent : sent[i] = sent[j] => i = j

\* A live callback always finds its trade: while pending_orders_ can still call
\* back for an order, or is calling back, submitted_trades_ has it, so a fill
\* that arrives is never ignored by RiskCheckedExecutionSink.
CallbackFindsTrade ==
  /\ \A id \in Ids : pending_orders[id] = "callback" => id \in submitted_trades
  /\ io_pc \in {"store", "apply"} => response.client_order_id \in submitted_trades

\* An order whose submit_trade returned true is sent, unless the executor is
\* stopped, the connection lost, or the queue full when the rate limiter sent the
\* order back to it: an order is never merely forgotten.
AcceptedAreSent ==
  \A id \in Ids :
    id \in accepted ~>
      (id \in {sent[i] : i \in DOMAIN sent} \cup dropped \/ ~running \/ ~authenticated)

\* When everything the exchange sent has been handled on an unbroken connection,
\* the risk manager's position is what was filled.
PositionFollowsFills ==
  disconnects = 0 /\ inbox = <<>> /\ io_pc = "read" => net_quantity = NetFilled

\* Nothing but a rejection of an order tells its strategy that it is rejected.
RejectionsAreOwn ==
  \A id \in Ids :
    "REJECTED" \in told[id] /\ id \in submitted_trades \cup accepted
      => exchange[id].state = "rejected"

\* The exchange never holds a net position beyond max_net_position_abs.
NetPositionWithinLimit == MaxNetPosition > 0 => AbsoluteValue(NetFilled) <= MaxNetPosition

\* The storage has an order's TradeSubmitted before its first OrderResponse.
SubmissionStoredFirst ==
  [][\A id \in Ids :
       [type |-> "OrderResponse", id |-> id] \in stored' \ stored =>
         [type |-> "TradeSubmitted", id |-> id] \in stored]_vars
=============================================================================

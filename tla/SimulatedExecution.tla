------------------------ MODULE SimulatedExecution ------------------------
(***************************************************************************)
(* SimulatedExecutionSink of backtest/simulated_execution_sink.hpp: orders *)
(* of strategies meet recorded quotes and trades.  One thread runs it all, *)
(* but re-enters the sink: a strategy may submit and cancel from the       *)
(* callback of a response while other responses of the same quote or trade *)
(* are still to be delivered.                                              *)
(*                                                                         *)
(* Deliveries under way form a stack, the innermost call's first; a call   *)
(* that resolves an order itself delivers at once.  An order's number is   *)
(* its client_order_id.  Fees are in units of 1/10000.                     *)
(***************************************************************************)
EXTENDS Integers, Sequences

CONSTANTS
  Tickers,
  Orders,               \* what strategies submit: [ticker, type, side, quantity, price]
  HasStorage,           \* storage_ is not null
  RejectWithoutMarket,  \* config_.reject_without_market
  MakerFee, TakerFee,   \* config_.maker_fee_bps, config_.taker_fee_bps
  MaxOrders,            \* bound: orders submitted
  MaxFailures,          \* bound: appends that storage_ refuses
  NoQuote

ASSUME SimulatorAssumption ==
  /\ Orders \subseteq [ticker : Tickers, type : {"LIMIT", "MARKET", "STOP_LOSS"},
                      side : {"BUY", "SELL"}, quantity : Nat, price : Nat]
  /\ HasStorage \in BOOLEAN /\ RejectWithoutMarket \in BOOLEAN
  /\ {MakerFee, TakerFee, MaxOrders, MaxFailures} \subseteq Nat

VARIABLES
  quotes,                  \* quotes_
  resting_orders,          \* resting_orders_: [trade, id, exchange_order_id]
  next_exchange_order_id,  \* next_exchange_order_id_
  gross_notional, fees,    \* gross_notional_, fees_
  deliveries,              \* responses whose callbacks are still to run
  calling,                 \* does a strategy's code run?
  submitted,               \* submitted_, and the next client_order_id
  published,               \* responses that were published, in order
  execution_log,           \* what storage_ has got of the sink: [type, id]
  storage_append_failures  \* storage_append_failures_; the order's strategy, which is told
                           \* of each, counts it, too

recordVars == <<execution_log, storage_append_failures>>
sinkVars == <<quotes, resting_orders, next_exchange_order_id, gross_notional, fees, deliveries,
              calling, submitted, published, recordVars>>

SinkInit ==
  /\ quotes = [t \in Tickers |-> NoQuote]
  /\ resting_orders = <<>>
  /\ next_exchange_order_id = 1
  /\ gross_notional = 0 /\ fees = 0
  /\ deliveries = <<>>
  /\ calling = FALSE
  /\ submitted = 0
  /\ published = <<>>
  /\ execution_log = <<>> /\ storage_append_failures = 0

-----------------------------------------------------------------------------
\* validate_order_locked finds nothing wrong.
Valid(t) ==
  /\ t.quantity > 0
  /\ t.type = "LIMIT" => t.price > 0
  /\ t.type \in {"LIMIT", "MARKET"}
  /\ t.type = "MARKET" /\ RejectWithoutMarket => quotes[t.ticker] # NoQuote

\* The side of a quote that an order trades against.
QuotePrice(t, q) == IF t.side = "BUY" THEN q.ask ELSE q.bid

\* A limit order reaches a price: of a quote's other side, or of a trade.
Reaches(t, price) == IF t.side = "BUY" THEN t.price >= price ELSE t.price <= price

\* immediate_fill_locked.
FillsAtOnce(t) ==
  LET q == quotes[t.ticker]
  IN q # NoQuote /\ (t.type = "MARKET" \/ Reaches(t, QuotePrice(t, q)))

\* What make_response_locked adds to the books for a fill.
Notional(t, price) == price * t.quantity
Fee(t, price) == Notional(t, price) * (IF t.type = "MARKET" THEN TakerFee ELSE MakerFee)

\* make_response_locked for these orders, which keep the exchange_order_id they
\* have although another one is used up for each.
Responses(orders, status, prices) ==
  [i \in DOMAIN orders |->
    [trade |-> orders[i].trade, id |-> orders[i].id, status |-> status, avg_price |-> prices[i],
     exchange_order_id |-> orders[i].exchange_order_id]]

SumOf(s) ==
  LET sum[n \in 0..Len(s)] == IF n = 0 THEN 0 ELSE sum[n - 1] + s[n]
  IN sum[Len(s)]

\* Mutant of Booked: what is cancelled is charged for, too.
BookedAlways(orders, status, prices) ==
  LET at(i) == IF prices[i] = 0 THEN orders[i].trade.price ELSE prices[i]
  IN [notional |-> SumOf([i \in DOMAIN orders |-> Notional(orders[i].trade, at(i))]),
      fees |-> SumOf([i \in DOMAIN orders |-> Fee(orders[i].trade, at(i))])]

Booked(orders, status, prices) ==
  LET total(f) == IF status = "FILLED" THEN SumOf(f) ELSE 0
  IN [notional |-> total([i \in DOMAIN orders |-> Notional(orders[i].trade, prices[i])]),
      fees |-> total([i \in DOMAIN orders |-> Fee(orders[i].trade, prices[i])])]

MakeResponses(orders, status, prices) ==
  LET booked == Booked(orders, status, prices)
  IN /\ gross_notional' = gross_notional + booked.notional
     /\ fees' = fees + booked.fees
     /\ next_exchange_order_id' = next_exchange_order_id + Len(orders)

Submission(id) == [type |-> "TradeSubmitted", id |-> id]
Response(id) == [type |-> "OrderResponse", id |-> id]

\* append_storage_event: the log when the storage takes the event or refuses it.
AppendStorageEvent(log, event, taken) == IF HasStorage /\ taken THEN Append(log, event) ELSE log

\* Its failures, of which the storage has so many.
CountFailures(refused) ==
  /\ storage_append_failures' = storage_append_failures + (IF HasStorage THEN refused ELSE 0)
  /\ storage_append_failures' <= MaxFailures

\* Mutant of SubmissionLog: the response first.
SubmissionLogBackwards(id, answered, taken) ==
  LET response == AppendStorageEvent(execution_log, Response(id), taken[2])
  IN AppendStorageEvent(IF answered THEN response ELSE execution_log, Submission(id), taken[1])

\* The log after one submit_trade: it appends the order, and its response if it is
\* not left resting.
SubmissionLog(id, answered, taken) ==
  LET submission == AppendStorageEvent(execution_log, Submission(id), taken[1])
  IN IF answered THEN AppendStorageEvent(submission, Response(id), taken[2]) ELSE submission

RecordSubmission(answered) ==
  \E taken \in [1..2 -> BOOLEAN] :
    LET refused(k) == IF taken[k] THEN 0 ELSE 1
    IN /\ execution_log' = SubmissionLog(submitted, answered, taken)
       /\ CountFailures(IF answered THEN refused(1) + refused(2) ELSE refused(1))

\* The whole of submit_trade.
Submit(t) ==
  LET order == [trade |-> t, id |-> submitted, exchange_order_id |-> next_exchange_order_id]
      respond(status, price) ==
        /\ MakeResponses(<<order>>, status, <<price>>)
        /\ published' = published \o Responses(<<order>>, status, <<price>>)
        /\ RecordSubmission(TRUE)
        /\ UNCHANGED resting_orders
  IN /\ calling /\ submitted < MaxOrders
     /\ submitted' = submitted + 1
     /\ \/ ~Valid(t) /\ respond("REJECTED", 0)
        \/ Valid(t) /\ FillsAtOnce(t) /\ respond("FILLED", QuotePrice(t, quotes[t.ticker]))
        \/ /\ Valid(t) /\ ~FillsAtOnce(t)
           /\ resting_orders' = Append(resting_orders, order)
           /\ next_exchange_order_id' = next_exchange_order_id + 1
           /\ RecordSubmission(FALSE)
           /\ UNCHANGED <<published, gross_notional, fees>>
     /\ UNCHANGED <<quotes, deliveries, calling>>

\* Places in resting_orders_ in the order a walk passes them (there is one).
Walk(places) ==
  {at \in UNION {[1..n -> places] : n \in 0..Len(resting_orders)} :
     /\ \A k, l \in DOMAIN at : k < l => at[k] < at[l]
     /\ \A i \in places : \E k \in DOMAIN at : at[k] = i}

\* Mutant of LeftBy: every order stays.
LeftByNone(places) == DOMAIN resting_orders

\* What is left of resting_orders_ when the orders at these places are erased.
LeftBy(places) == DOMAIN resting_orders \ places

\* Every walk over resting_orders_: the orders it takes get a response and are
\* erased.
Take(places, status, price) ==
  \E at \in Walk(places), left \in Walk(LeftBy(places)) :
    LET orders == [k \in DOMAIN at |-> resting_orders[at[k]]]
        prices == [k \in DOMAIN at |-> price[at[k]]]
    IN /\ resting_orders' = [k \in DOMAIN left |-> resting_orders[left[k]]]
       /\ deliveries' = Responses(orders, status, prices) \o deliveries
       /\ MakeResponses(orders, status, prices)

\* The places of resting orders on an instrument, or of all.
PlacesOn(instrument) ==
  {i \in DOMAIN resting_orders : instrument # "" => resting_orders[i].trade.ticker = instrument}

\* Mutant of Crossed: a limit at the quote itself does not trade.
CrossedBeyond(t, q) ==
  t.type = "LIMIT" /\ (IF t.side = "BUY" THEN t.price > q.ask ELSE t.price < q.bid)

\* The condition of fill_resting_orders_locked.
Crossed(t, q) == t.type = "LIMIT" /\ Reaches(t, QuotePrice(t, q))

\* on_quote, up to deliver_all.
OnQuote(ticker, q) ==
  LET crossed == {i \in DOMAIN resting_orders :
                   resting_orders[i].trade.ticker = ticker /\ Crossed(resting_orders[i].trade, q)}
  IN /\ quotes' = [quotes EXCEPT ![ticker] = q]
     /\ Take(crossed, "FILLED", [i \in crossed |-> QuotePrice(resting_orders[i].trade, q)])
     /\ calling' = FALSE
     /\ UNCHANGED <<submitted, published, recordVars>>

\* on_trade, up to deliver_all.
OnTrade(ticker, p) ==
  LET reached(t) == t.ticker = ticker /\ t.type = "LIMIT" /\ Reaches(t, p)
      crossed == {i \in DOMAIN resting_orders : reached(resting_orders[i].trade)}
  IN /\ Take(crossed, "FILLED", [i \in crossed |-> p])
     /\ calling' = FALSE
     /\ UNCHANGED <<quotes, submitted, published, recordVars>>

\* The cancellation of the orders at these places, called by a strategy.
Cancel(places) ==
  /\ Take(places, "CANCELED", [i \in places |-> 0])
  /\ calling' = (places = {})
  /\ UNCHANGED <<quotes, submitted, published, recordVars>>

\* cancel_order: the first resting order on that instrument, if one is given,
\* with that client_order_id or that exchange_order_id, where 0 means that none
\* is given.
CancelOrder(instrument, client_oid, order_id) ==
  LET matches(o) == \/ client_oid # 0 /\ o.id = client_oid
                    \/ order_id # 0 /\ o.exchange_order_id = order_id
      found == {i \in PlacesOn(instrument) : matches(resting_orders[i])}
  IN /\ calling
     /\ Cancel({i \in found : \A j \in found : i <= j})

\* cancel_all_orders.
CancelAll(instrument) == Cancel(PlacesOn(instrument))

\* deliver_all goes on: publish_response for the next delivery, whose callback
\* then runs.
Deliver ==
  /\ deliveries # <<>>
  /\ published' = Append(published, Head(deliveries))
  /\ \E taken \in BOOLEAN :
       /\ execution_log' = AppendStorageEvent(execution_log, Response(Head(deliveries).id), taken)
       /\ CountFailures(IF taken THEN 0 ELSE 1)
  /\ deliveries' = Tail(deliveries)
  /\ calling' = TRUE
  /\ UNCHANGED <<quotes, resting_orders, next_exchange_order_id, gross_notional, fees, submitted>>

-----------------------------------------------------------------------------
(* Properties *)

RangeOf(s) == {s[i] : i \in DOMAIN s}
Answered == published \o deliveries

\* Every order submitted is resting or has exactly one response, delivered or
\* about to be: no fill and cancel of the same order, however calls nest.
OneOutcome ==
  LET all == resting_orders \o Answered
  IN \A id \in 0..(submitted - 1) :
       \E i \in DOMAIN all : \A j \in DOMAIN all : all[j].id = id <=> j = i

\* No order rests that the current quote would fill: neither a quote nor an
\* order submitted from a response's callback leaves one behind.
NothingFillableRests == \A o \in RangeOf(resting_orders) : ~FillsAtOnce(o.trade)

\* The books agree with the responses: gross_notional_ and fees_ are what the
\* fills add up to, taker fees for market orders and maker fees for limit orders.
BooksBalance ==
  LET filled(i, amount) == IF Answered[i].status = "FILLED" THEN amount ELSE 0
      notional(i) == Notional(Answered[i].trade, Answered[i].avg_price)
      fee(i) == Fee(Answered[i].trade, Answered[i].avg_price)
  IN /\ gross_notional = SumOf([i \in DOMAIN Answered |-> filled(i, notional(i))])
     /\ fees = SumOf([i \in DOMAIN Answered |-> filled(i, fee(i))])

\* What the sink records can be replayed, or is known to have gaps: no response is
\* recorded before the submission of its order or twice, a storage that has refused
\* nothing has the submission of each, so that a replay finds its strategy, and
\* storage_append_failures_ counts exactly what is missing.
ResponsesFollowSubmissions ==
  /\ \A i \in DOMAIN execution_log : execution_log[i].type = "OrderResponse" =>
       LET submissions == {j \in DOMAIN execution_log :
                            execution_log[j] = Submission(execution_log[i].id)}
       IN /\ \A j \in submissions : j < i
          /\ storage_append_failures = 0 => submissions # {}
          /\ \A j \in DOMAIN execution_log : execution_log[j] = execution_log[i] => j = i
  /\ HasStorage => storage_append_failures + Len(execution_log) = submitted + Len(published)
=============================================================================

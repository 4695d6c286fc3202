----------------------------- MODULE OrderGates -----------------------------
(***************************************************************************)
(* The two gates an order passes, and what comes back: RiskManager checks  *)
(* it against the position, RateLimiter holds it back in the executor's    *)
(* queue, the exchange fills it and RiskManager changes the position.      *)
(* LiveOrderPath has the steps of the threads in between; here each gate   *)
(* is one step, and the clock, prices and the profit are in the model.     *)
(***************************************************************************)
EXTENDS RateLimiter, RiskManager, Sequences

CONSTANTS
  Trades,      \* orders the strategies place: [type, side, quantity, price]
  FillPrices,  \* avg_price of the exchange's fills, 0 if it does not say
  Mids,        \* mid prices that quotes bring
  MaxOrders    \* bound: orders placed

ASSUME GatesAssumption ==
  /\ Trades \subseteq [type : {"LIMIT", "MARKET"}, side : {"BUY", "SELL"},
                      quantity : Nat, price : Nat]
  /\ FillPrices \subseteq Nat /\ Mids \subseteq Nat /\ MaxOrders \in Nat

VARIABLES
  mid_price,     \* mid_prices_, 0 before the first quote
  position,      \* positions_
  trade_queue,   \* accepted orders that have not been sent
  sent,          \* orders at the exchange, with how often the trade occurs
  placed,        \* orders placed so far
  (* history *)
  cash,          \* what the fills have brought in or cost
  overlapped     \* was an order ever accepted while another was under way?

gateVars == <<mid_price, position, trade_queue, sent, placed, cash, overlapped>>
vars == <<limiterVars, gateVars>>

Init ==
  /\ LimiterInit
  /\ mid_price = 0
  /\ position = [net_quantity |-> 0, avg_entry_price |-> 0, realized_pnl |-> 0]
  /\ trade_queue = <<>> /\ sent = <<>> /\ placed = 0
  /\ cash = 0 /\ overlapped = FALSE

UpdateQuote ==
  /\ mid_price' \in Mids
  /\ UNCHANGED <<limiterVars, position, trade_queue, sent, placed, cash, overlapped>>

\* RiskCheckedExecutionSink::submit_trade, down to the queue.
Submit(t) ==
  /\ placed < MaxOrders
  /\ placed' = placed + 1
  /\ IF CheckOrder(t, mid_price, position.net_quantity)
       THEN /\ trade_queue' = Append(trade_queue, t)
            /\ overlapped' = (overlapped \/ trade_queue # <<>> \/ sent # <<>>)
       ELSE UNCHANGED <<trade_queue, overlapped>>
  /\ UNCHANGED <<limiterVars, mid_price, position, sent, cash>>

\* The executor pops a trade and sends it, or puts it back at the tail.
Execute ==
  /\ trade_queue # <<>>
  /\ \/ TryAcquire(TRUE) /\ trade_queue' = Tail(trade_queue)
          /\ sent' = Append(sent, Head(trade_queue))
     \/ TryAcquire(FALSE) /\ trade_queue' = Append(Tail(trade_queue), Head(trade_queue))
          /\ UNCHANGED sent
  /\ UNCHANGED <<mid_price, position, placed, cash, overlapped>>

Without(i) == SubSeq(sent, 1, i - 1) \o SubSeq(sent, i + 1, Len(sent))

\* The first response to an order, the only one that reaches on_fill: a fill of
\* all or part of it, or none.
Respond(i) ==
  LET t == sent[i]
  IN /\ \E filled \in 0..t.quantity, avg_price \in FillPrices :
          LET r == [status |-> CASE filled = 0 -> "CANCELED"
                                 [] filled = t.quantity -> "FILLED"
                                 [] OTHER -> "PARTIALLY_FILLED",
                    filled_quantity |-> filled, avg_price |-> avg_price]
          IN /\ position' = OnFill(position, t, r)
             /\ cash' = cash - FillQuantity(t, r) * FillPrice(t, r)
     /\ sent' = Without(i)
     /\ UNCHANGED <<limiterVars, mid_price, trade_queue, placed, overlapped>>

Next ==
  \/ Tick /\ UNCHANGED gateVars
  \/ UpdateQuote
  \/ \E t \in Trades : Submit(t)
  \/ Execute
  \/ \E i \in DOMAIN sent : Respond(i)

Spec == Init /\ [][Next]_vars

-----------------------------------------------------------------------------
(* Properties *)

\* The books of a position balance: realized profit is what the fills brought in
\* and cost, with the position that is left valued at its average entry price,
\* through additions, reductions, closings and turns from long to short.
AccountingBalances ==
  position.realized_pnl = cash + position.net_quantity * position.avg_entry_price

\* As long as no order is accepted while another is under way, the position stays
\* within max_net_position_abs.  (With two under way it need not: check_order
\* does not count orders that are not filled yet.)
PositionWithinLimit ==
  MaxNetPosition > 0 /\ ~overlapped => AbsoluteValue(position.net_quantity) <= MaxNetPosition
=============================================================================

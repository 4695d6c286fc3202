---------------------------- MODULE RiskManager ----------------------------
(***************************************************************************)
(* The decisions of RiskManager, include/risk/risk_manager.hpp, for one    *)
(* ticker: which orders pass and what a fill does to the position.         *)
(* Prices and quantities are integers; a limit of 0 is switched off.       *)
(***************************************************************************)
EXTENDS Integers

CONSTANTS
  MaxOrderQuantity,  \* limits_.max_order_quantity
  MaxOrderNotional,  \* limits_.max_order_notional
  MaxNetPosition,    \* limits_.max_net_position_abs
  AllowMarketOrders  \* limits_.allow_market_orders

ASSUME LimitsAssumption ==
  /\ {MaxOrderQuantity, MaxOrderNotional, MaxNetPosition} \subseteq Nat
  /\ AllowMarketOrders \in BOOLEAN

AbsoluteValue(x) == IF x < 0 THEN -x ELSE x
SignedQuantity(side, quantity) == IF side = "BUY" THEN quantity ELSE -quantity

\* order_risk_price_locked; mid is 0 when there is no quote yet.
OrderRiskPrice(t, mid) == IF t.price > 0 THEN t.price ELSE mid

\* Mutant of PositionAllowed: the position as it is, without the order.
PositionAllowedNow(t, net) == MaxNetPosition > 0 => AbsoluteValue(net) <= MaxNetPosition

\* The last test of check_order_locked.
PositionAllowed(t, net) ==
  MaxNetPosition > 0 => AbsoluteValue(net + SignedQuantity(t.side, t.quantity)) <= MaxNetPosition

\* check_order_locked: every test passes.
CheckOrder(t, mid, net) ==
  /\ t.quantity > 0
  /\ AllowMarketOrders \/ t.type # "MARKET"
  /\ MaxOrderQuantity > 0 => t.quantity <= MaxOrderQuantity
  /\ MaxOrderNotional > 0 => OrderRiskPrice(t, mid) * t.quantity <= MaxOrderNotional
  /\ PositionAllowed(t, net)

\* What on_fill adds of a response: the whole filled_quantity of a (partial) fill.
FillQuantity(t, response) ==
  IF response.status \in {"FILLED", "PARTIALLY_FILLED"} /\ response.filled_quantity > 0
    THEN SignedQuantity(t.side, response.filled_quantity)
    ELSE 0

FillPrice(t, response) == IF response.avg_price > 0 THEN response.avg_price ELSE t.price

SameSide(x, y) == (x > 0 /\ y > 0) \/ (x < 0 /\ y < 0)

\* Mutant of EntryPriceAfterClosing: the old price stays when the side changes.
EntryPriceAfterClosingKept(old, net, price) == IF net = 0 THEN 0 ELSE old.avg_entry_price

\* avg_entry_price when a fill has reduced, closed or turned the position.
EntryPriceAfterClosing(old, net, price) ==
  CASE net = 0 -> 0
    [] SameSide(net, old.net_quantity) -> old.avg_entry_price
    [] OTHER -> price

\* on_fill: a position after a fill.  Prices have to be such that the division
\* leaves no remainder.
OnFill(old, t, response) ==
  LET quantity == FillQuantity(t, response)
      price == FillPrice(t, response)
      net == old.net_quantity + quantity
      held == AbsoluteValue(old.net_quantity)
      traded == AbsoluteValue(quantity)
      closing == IF held < traded THEN held ELSE traded
      gain == (price - old.avg_entry_price) * closing
  IN CASE quantity = 0 -> old
       [] quantity # 0 /\ (old.net_quantity = 0 \/ SameSide(old.net_quantity, quantity)) ->
            [old EXCEPT !.net_quantity = net,
                        !.avg_entry_price = (@ * held + price * traded) \div (held + traded)]
       [] OTHER ->
            [net_quantity |-> net,
             avg_entry_price |-> EntryPriceAfterClosing(old, net, price),
             realized_pnl |-> old.realized_pnl + (IF old.net_quantity > 0 THEN gain ELSE -gain)]
=============================================================================

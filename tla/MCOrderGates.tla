---------------------------- MODULE MCOrderGates ----------------------------
(* Orders for model checking OrderGates. *)
EXTENDS OrderGates

\* Prices are multiples of 120960, which three averages of up to eight units
\* divide.
SomeTrades ==
  {[type |-> "LIMIT", side |-> "BUY", quantity |-> 1, price |-> 120960],
   [type |-> "LIMIT", side |-> "SELL", quantity |-> 2, price |-> 241920],
   [type |-> "MARKET", side |-> "BUY", quantity |-> 2, price |-> 0]}
=============================================================================

---------------------- MODULE MCMultiExchangeOrderBook ----------------------
(* Updates for model checking MultiExchangeOrderBook. *)
EXTENDS MultiExchangeOrderBook

At(p, q) == [price |-> p, quantity |-> q]

\* Two-sided updates, an update of one side, one that erases a level, and one
\* with a price the book ignores.
SomeUpdates ==
  {[bids |-> <<At(1, 1)>>, asks |-> <<At(3, 2)>>],
   [bids |-> <<At(2, 2), At(1, 0)>>, asks |-> <<At(3, 1)>>],
   [bids |-> <<>>, asks |-> <<At(2, 1)>>],
   [bids |-> <<At(0, 1)>>, asks |-> <<At(2, 0), At(3, 0)>>]}
=============================================================================

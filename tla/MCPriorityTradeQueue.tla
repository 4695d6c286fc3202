------------------------ MODULE MCPriorityTradeQueue ------------------------
(* Trades at the edges of three levels for model checking PriorityTradeQueue. *)
EXTENDS PriorityTradeQueue, TLC

CONSTANTS urgent, urgent2, high, low
FourTrades == {urgent, urgent2, high, low}
EdgePriorities == urgent :> 0 @@ urgent2 :> 31 @@ high :> 32 @@ low :> 255
=============================================================================

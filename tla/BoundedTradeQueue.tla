------------------------- MODULE BoundedTradeQueue -------------------------
(***************************************************************************)
(* What a trade queue promises its users: a bounded FIFO into which a push *)
(* reserves a place and later makes its trade ready.  A push is refused    *)
(* only when Capacity places are taken, and the consumer is told "empty"   *)
(* only when nothing is queued or the oldest place is not ready yet.  The  *)
(* second case is real: a producer that stalls between taking its place    *)
(* and publishing its trade hides the trades of faster producers.          *)
(***************************************************************************)
EXTENDS Naturals, Sequences

CONSTANTS
  Capacity,   \* places in the queue
  Producers,  \* threads that call try_push
  Trades,     \* the trades they push
  NoTrade     \* what try_pop returns instead of a trade (std::nullopt)

VARIABLES
  contents,   \* places taken, oldest first: the trade in it, and who (a set
              \* of at most one producer) is still writing it
  calls,      \* the try_push each producer is in: "idle", "calling", "reserved"
  args,       \* the trade of each producer's latest call
  results,    \* what each producer's latest completed call returned
  delivered   \* what the consumer's latest try_pop obtained

queueVars == <<contents, calls, args, results, delivered>>

Init ==
  /\ contents = <<>>
  /\ calls = [p \in Producers |-> "idle"]
  /\ args = [p \in Producers |-> NoTrade]
  /\ results = [p \in Producers |-> FALSE]
  /\ delivered = NoTrade

\* A producer calls try_push(trade).
Call(p, trade) ==
  /\ calls[p] = "idle"
  /\ calls' = [calls EXCEPT ![p] = "calling"]
  /\ args' = [args EXCEPT ![p] = trade]
  /\ UNCHANGED <<contents, results, delivered>>

\* The call takes the next place; its trade cannot be popped yet.
Reserve(p) ==
  /\ calls[p] = "calling"
  /\ Len(contents) < Capacity
  /\ contents' = Append(contents, [trade |-> NoTrade, writing |-> {p}])
  /\ calls' = [calls EXCEPT ![p] = "reserved"]
  /\ UNCHANGED <<args, results, delivered>>

\* The call is refused: every place is taken.
Refuse(p) ==
  /\ calls[p] = "calling"
  /\ Len(contents) = Capacity
  /\ calls' = [calls EXCEPT ![p] = "idle"]
  /\ results' = [results EXCEPT ![p] = FALSE]
  /\ UNCHANGED <<contents, args, delivered>>

\* The trade becomes available to the consumer and the call returns true.
Publish(p) ==
  /\ calls[p] = "reserved"
  /\ \E i \in DOMAIN contents :
       /\ contents[i].writing = {p}
       /\ contents' = [contents EXCEPT ![i] = [trade |-> args[p], writing |-> {}]]
  /\ calls' = [calls EXCEPT ![p] = "idle"]
  /\ results' = [results EXCEPT ![p] = TRUE]
  /\ UNCHANGED <<args, delivered>>

\* The consumer takes the oldest trade.
Take ==
  /\ contents # <<>>
  /\ Head(contents).writing = {}
  /\ delivered' = Head(contents).trade
  /\ contents' = Tail(contents)
  /\ UNCHANGED <<calls, args, results>>

\* The consumer is told that there is nothing to take.
FindNothing ==
  /\ contents # <<>> => Head(contents).writing # {}
  /\ delivered' = NoTrade
  /\ UNCHANGED <<contents, calls, args, results>>

Next ==
  \/ \E p \in Producers :
       \/ \E trade \in Trades : Call(p, trade)
       \/ Reserve(p)
       \/ Refuse(p)
       \/ Publish(p)
  \/ Take
  \/ FindNothing

Spec == Init /\ [][Next]_queueVars
=============================================================================

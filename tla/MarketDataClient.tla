-------------------------- MODULE MarketDataClient --------------------------
(***************************************************************************)
(* CryptoComMarketDataClient of src/exchange/market_data_client.cpp: an    *)
(* owner starts and stops a thread that connects, subscribes, reads        *)
(* messages and hands the quotes and trades in them to callbacks.  The     *)
(* reads block without a deadline, and the thread ends by itself when the  *)
(* connection closes or fails, or when a message has a field of the wrong  *)
(* type.                                                                   *)
(*                                                                         *)
(* A message is unparsable, a heartbeat, or data: a sequence of items,     *)
(* each of them valid (it is handed over), skipped (no ticker, no price,   *)
(* an empty book) or ill-typed (the JSON library throws).  A book message  *)
(* has one item, a trade message has any number, any other has none.       *)
(***************************************************************************)
EXTENDS Naturals, Sequences

CONSTANTS
  Messages,     \* what the exchange may send: [kind, items]
  MaxMessages,  \* bound: data messages read
  NoEvent

\* The items of all messages: each is or would be a quote or a trade.
Items == UNION {{m.items[i] : i \in DOMAIN m.items} : m \in Messages}

ASSUME FeedAssumption ==
  /\ \A m \in Messages : m.kind \in {"garbage", "heartbeat", "data"} /\ m.items \in Seq(Items)
  /\ \A x \in Items : x.type \in {"quote", "trade"}
  /\ MaxMessages \in Nat

VARIABLES
  feed_running,  \* running_
  feed_thread,   \* thread_: "none", "started", "finished" (joinable) or "joined"
  feed_pc,       \* the thread in run
  items,         \* what is left of the message it handles
  event,         \* the quote or trade a callback is running for
  messages,      \* data messages read so far
  terminated     \* std::terminate was called

feedVars == <<feed_running, feed_thread, feed_pc, items, event, messages, terminated>>

FeedInit ==
  /\ feed_running = FALSE /\ feed_thread = "none" /\ feed_pc = "off"
  /\ items = <<>> /\ event = NoEvent /\ messages = 0
  /\ terminated = FALSE

-----------------------------------------------------------------------------
(* The owner *)

Joinable == feed_thread \in {"started", "finished"}

\* start: nothing when it runs already; assigning to a joinable std::thread
\* ends the program.
FeedStart ==
  /\ feed_running' = TRUE
  /\ IF feed_running
       THEN UNCHANGED <<feed_thread, feed_pc, terminated>>
       ELSE /\ feed_thread' = "started" /\ feed_pc' = "connect"
            /\ terminated' = (terminated \/ Joinable)
  /\ UNCHANGED <<items, event, messages>>

\* Mutant of RunningAfterStop: stop joins but does not tell the thread.
RunningAfterStopAsBefore == feed_running

RunningAfterStop == FALSE

\* stop's exchange.
FeedStop ==
  /\ feed_running' = RunningAfterStop
  /\ UNCHANGED <<feed_thread, feed_pc, items, event, messages, terminated>>

\* Mutant of MustJoin: a thread that has ended by itself is not joined.
MustJoinIfAlive == feed_thread = "started"

\* stop joins on both of its branches, whether or not the thread still runs.
MustJoin == Joinable

FeedJoin ==
  /\ MustJoin => feed_thread = "finished"
  /\ feed_thread' = IF MustJoin THEN "joined" ELSE feed_thread
  /\ UNCHANGED <<feed_running, feed_pc, items, event, messages, terminated>>

\* The destructor of the std::thread member, after ~CryptoComMarketDataClient has
\* called stop once more.
FeedDestroy ==
  /\ terminated' = (terminated \/ Joinable)
  /\ UNCHANGED <<feed_running, feed_thread, feed_pc, items, event, messages>>

-----------------------------------------------------------------------------
(* The thread: run *)

FeedGoto(label) ==
  /\ feed_pc' = label
  /\ UNCHANGED <<feed_running, feed_thread, event, terminated>>

\* Resolve, connect, the two handshakes and the subscription; any may throw.
FeedConnect ==
  /\ feed_pc = "connect"
  /\ FeedGoto("loop") \/ FeedGoto("end")
  /\ UNCHANGED <<items, messages>>

FeedLoop ==
  /\ feed_pc = "loop"
  /\ FeedGoto(IF feed_running THEN "read" ELSE "close")
  /\ UNCHANGED <<items, messages>>

\* The read ends with an error or with a message; a heartbeat is answered, and
\* the answer may fail.
FeedRead ==
  /\ feed_pc = "read"
  /\ \/ FeedGoto("close") /\ UNCHANGED <<items, messages>>
     \/ \E m \in Messages :
          \/ m.kind \in {"garbage", "heartbeat"} /\ FeedGoto("loop")
               /\ UNCHANGED <<items, messages>>
          \/ m.kind = "heartbeat" /\ FeedGoto("close") /\ UNCHANGED <<items, messages>>
          \/ /\ m.kind = "data" /\ messages < MaxMessages
             /\ messages' = messages + 1
             /\ items' = m.items
             /\ FeedGoto("handle")

\* process_text_message, item by item; an exception leaves run's loop.
FeedHandle ==
  /\ feed_pc = "handle"
  /\ \/ items = <<>> /\ FeedGoto("loop") /\ UNCHANGED items
     \/ /\ items # <<>> /\ Head(items).status = "skipped"
        /\ items' = Tail(items) /\ FeedGoto("handle")
     \/ /\ items # <<>> /\ Head(items).status = "ill_typed"
        /\ items' = <<>> /\ FeedGoto("end")
  /\ UNCHANGED messages

\* A valid item: on_quote_ or on_trade_ is called, and returns.
FeedCallback ==
  /\ feed_pc = "handle" /\ items # <<>> /\ Head(items).status = "valid"
  /\ event' = Head(items)
  /\ items' = Tail(items)
  /\ feed_pc' = "callback"
  /\ UNCHANGED <<feed_running, feed_thread, messages, terminated>>

FeedReturn ==
  /\ feed_pc = "callback"
  /\ event' = NoEvent
  /\ feed_pc' = "handle"
  /\ UNCHANGED <<feed_running, feed_thread, items, messages, terminated>>

\* The closing handshake, then the last statement and the end of the thread.
FeedClose ==
  /\ feed_pc = "close"
  /\ FeedGoto("end")
  /\ UNCHANGED <<items, messages>>

FeedEnd ==
  /\ feed_pc = "end"
  /\ feed_running' = FALSE
  /\ feed_thread' = "finished" /\ feed_pc' = "off"
  /\ UNCHANGED <<items, event, messages, terminated>>
=============================================================================

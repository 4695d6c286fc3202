-------------------------- MODULE WebSocketClient --------------------------
(***************************************************************************)
(* CryptoComWebSocketClient, include/exchange/websocket_client.hpp: the    *)
(* chain of asynchronous steps that connects, authenticates, reads and     *)
(* reconnects, and the queue through which any thread sends.  Handlers run *)
(* one at a time on the I/O thread; other threads call send_order and main *)
(* calls close.                                                            *)
(*                                                                         *)
(* Critical sections of send_mutex_ and accesses to sending_ are steps.  A *)
(* message is its kind.  do_connect makes a new stream ws_, and a write     *)
(* under way on the old one is aborted.  That replacing ws_ is not         *)
(* synchronised with a sender that is using it is left out.                *)
(***************************************************************************)
EXTENDS Integers, Sequences, FiniteSets

CONSTANTS
  Senders,               \* threads that call send_order
  IO,                    \* the thread that runs the handlers
  MaxReconnectAttempts,  \* MAX_RECONNECT_ATTEMPTS
  MaxOrders,             \* bound: calls of send_order
  MaxHeartbeats,         \* bound: heartbeats received
  MaxFailures            \* bound: network failures

ASSUME ClientAssumption ==
  /\ {MaxReconnectAttempts, MaxOrders, MaxHeartbeats, MaxFailures} \subseteq Nat
  /\ IO \notin Senders

VARIABLES
  connected, authenticated, should_reconnect,  \* connected_, authenticated_, should_reconnect_
  reconnect_attempts,  \* reconnect_attempts_
  delay,               \* of the timer under way, in RECONNECT_DELAY_MS; else 0
  send_queue,          \* send_queue_
  sending,             \* sending_
  stage,               \* which asynchronous step of the chain is under way
  todo,                \* messages the handler of the I/O thread has yet to send
  reads_on,            \* that handler has called do_read already
  pc, msg,             \* each thread in async_send and do_send, and its message
  dead,                \* ws_ is closed or its connection is broken
  writes,              \* async_writes under way: [msg, live, early]
  auth_pending,        \* the exchange owes an answer to an authentication
  (* history *)
  orders, heartbeats, failures,
  sent_early,          \* kinds that reached the exchange without authentication
  write_failed         \* has a write failed since ws_ was made?

flagVars == <<connected, authenticated, should_reconnect>>
retryVars == <<reconnect_attempts, delay>>
sendVars == <<send_queue, sending, pc, msg>>
streamVars == <<dead, auth_pending, write_failed>>
boundVars == <<orders, heartbeats, failures>>
vars == <<flagVars, retryVars, sendVars, stage, todo, reads_on, streamVars, writes,
          sent_early, boundVars>>

Threads == Senders \cup {IO}

Init ==
  /\ connected = FALSE /\ authenticated = FALSE /\ should_reconnect = TRUE
  /\ reconnect_attempts = 0 /\ delay = 0
  /\ send_queue = <<>> /\ sending = FALSE
  /\ stage = "new" /\ todo = <<>> /\ reads_on = FALSE
  /\ pc = [t \in Threads |-> "idle"] /\ msg = [t \in Threads |-> "none"]
  /\ dead = FALSE /\ auth_pending = FALSE /\ write_failed = FALSE
  /\ writes = {} /\ sent_early = {}
  /\ orders = 0 /\ heartbeats = 0 /\ failures = 0

-----------------------------------------------------------------------------
(* Connecting *)

\* The I/O thread is free to run the next handler.
Polls == pc[IO] = "idle" /\ stage # "handling"

\* do_connect: a new stream, and the first step of the chain.
DoConnect ==
  /\ writes' = {[w EXCEPT !.live = FALSE] : w \in writes}
  /\ dead' = FALSE /\ auth_pending' = FALSE /\ write_failed' = FALSE
  /\ stage' = "resolving"

\* connect, called once by OrderExecutor::start.
Connect ==
  /\ stage = "new" /\ should_reconnect
  /\ should_reconnect' = TRUE
  /\ reconnect_attempts' = 0
  /\ DoConnect
  /\ UNCHANGED <<connected, authenticated, delay, sendVars, todo, reads_on, sent_early,
                 boundVars>>

Exhausted == reconnect_attempts >= MaxReconnectAttempts

\* schedule_reconnect.
ScheduleReconnect ==
  IF ~should_reconnect \/ Exhausted
    THEN stage' = "stopped" /\ UNCHANGED retryVars
    ELSE /\ reconnect_attempts' = reconnect_attempts + 1
         /\ delay' = reconnect_attempts'
         /\ stage' = "waiting"

\* The timer's handler.
OnTimer ==
  /\ Polls /\ stage = "waiting"
  /\ delay' = 0
  /\ IF should_reconnect
       THEN DoConnect
       ELSE stage' = "stopped" /\ UNCHANGED <<streamVars, writes>>
  /\ UNCHANGED <<flagVars, reconnect_attempts, sendVars, todo, reads_on, sent_early,
                 boundVars>>

\* on_resolve, on_connect and on_ssl_handshake start the next step.
StepSucceeds(from, to) ==
  /\ Polls /\ stage = from
  /\ stage' = to
  /\ UNCHANGED <<flagVars, retryVars, sendVars, todo, reads_on, streamVars, writes,
                 sent_early, boundVars>>

OnResolve == StepSucceeds("resolving", "connecting")
OnConnect == StepSucceeds("connecting", "securing")
OnSslHandshake == StepSucceeds("securing", "upgrading")

\* Mutant of AfterFailure: the handler returns without schedule_reconnect.
AfterFailureNothing == stage' = "lost" /\ UNCHANGED retryVars

AfterFailure == ScheduleReconnect

\* Any of the four handlers gets an error.
StepFails ==
  /\ Polls /\ stage \in {"resolving", "connecting", "securing", "upgrading"}
  /\ failures < MaxFailures
  /\ failures' = failures + 1
  /\ AfterFailure
  /\ UNCHANGED <<flagVars, sendVars, todo, reads_on, streamVars, writes, sent_early,
                 orders, heartbeats>>

\* on_handshake: read, and send the authentication.
OnHandshake ==
  /\ Polls /\ stage = "upgrading"
  /\ connected' = TRUE
  /\ reconnect_attempts' = 0
  /\ stage' = "handling" /\ reads_on' = TRUE
  /\ todo' = <<"auth">>
  /\ UNCHANGED <<authenticated, should_reconnect, delay, sendVars, streamVars, writes,
                 sent_early, boundVars>>

-----------------------------------------------------------------------------
(* Reading *)

\* on_read gets a message and answers it with others.
OnMessage(answers) ==
  /\ Polls /\ stage = "reading"
  /\ stage' = "handling"
  /\ todo' = answers
  /\ UNCHANGED <<connected, should_reconnect, retryVars, sendVars, reads_on, dead, write_failed,
                 writes, sent_early, orders, failures>>

OnHeartbeat ==
  /\ heartbeats < MaxHeartbeats
  /\ heartbeats' = heartbeats + 1
  /\ OnMessage(<<"heartbeat">>)
  /\ UNCHANGED <<authenticated, auth_pending>>

\* The authentication succeeds, and on_connected_ subscribes to orders and
\* trades, which does nothing when close has come in between.
OnAuthenticated ==
  /\ auth_pending
  /\ auth_pending' = FALSE
  /\ authenticated' = TRUE
  /\ OnMessage(<<"subscribe", "subscribe">>)
  /\ UNCHANGED heartbeats

\* It fails, which is only reported.
OnAuthenticationFailed ==
  /\ auth_pending
  /\ auth_pending' = FALSE
  /\ OnMessage(<<>>)
  /\ UNCHANGED <<authenticated, heartbeats>>

\* The end of the handler: do_read, unless already called or not connected.
HandlerReturns ==
  /\ stage = "handling" /\ todo = <<>> /\ pc[IO] = "idle"
  /\ stage' = IF reads_on \/ connected THEN "reading" ELSE "stopped"
  /\ reads_on' = FALSE
  /\ UNCHANGED <<flagVars, retryVars, sendVars, todo, streamVars, writes,
                 sent_early, boundVars>>

\* on_read gets an error.
OnReadError ==
  /\ Polls /\ stage = "reading" /\ dead
  /\ connected' = FALSE /\ authenticated' = FALSE
  /\ ScheduleReconnect
  /\ UNCHANGED <<should_reconnect, sendVars, todo, reads_on, streamVars, writes, sent_early,
                 boundVars>>

-----------------------------------------------------------------------------
(* Sending *)

\* send_order tests authenticated_ before it builds the message.
SendOrder(t) ==
  /\ t \in Senders /\ pc[t] = "idle"
  /\ orders < MaxOrders
  /\ authenticated
  /\ orders' = orders + 1
  /\ msg' = [msg EXCEPT ![t] = "order"]
  /\ pc' = [pc EXCEPT ![t] = "push"]
  /\ UNCHANGED <<flagVars, retryVars, send_queue, sending, stage, todo, reads_on, streamVars,
                 writes, sent_early, heartbeats, failures>>

\* The handler sends its next message.
HandlerSends ==
  /\ stage = "handling" /\ todo # <<>> /\ pc[IO] = "idle"
  /\ todo' = Tail(todo)
  /\ IF Head(todo) = "subscribe" /\ ~authenticated
       THEN UNCHANGED <<pc, msg>>
       ELSE /\ msg' = [msg EXCEPT ![IO] = Head(todo)]
            /\ pc' = [pc EXCEPT ![IO] = "push"]
  /\ UNCHANGED <<flagVars, retryVars, send_queue, sending, stage, reads_on, streamVars,
                 writes, sent_early, boundVars>>

Push(t) ==
  /\ pc[t] = "push"
  /\ send_queue' = Append(send_queue, msg[t])
  /\ msg' = [msg EXCEPT ![t] = "none"]
  /\ pc' = [pc EXCEPT ![t] = "try"]
  /\ UNCHANGED <<flagVars, retryVars, sending, stage, todo, reads_on, streamVars,
                 writes, sent_early, boundVars>>

\* Mutant of MaySend: sending_ is not looked at.
MaySendAlways == TRUE

MaySend == ~sending

\* compare_exchange_strong on sending_.
TryStart(t) ==
  /\ pc[t] = "try"
  /\ sending' = TRUE
  /\ pc' = [pc EXCEPT ![t] = IF MaySend THEN "pop" ELSE "idle"]
  /\ UNCHANGED <<flagVars, retryVars, send_queue, msg, stage, todo, reads_on, streamVars,
                 writes, sent_early, boundVars>>

\* do_send under send_mutex_: takes the next message or stops sending.
Pop(t) ==
  /\ pc[t] = "pop"
  /\ IF send_queue = <<>>
       THEN /\ sending' = FALSE
            /\ pc' = [pc EXCEPT ![t] = "idle"]
            /\ UNCHANGED <<send_queue, msg>>
       ELSE /\ send_queue' = Tail(send_queue)
            /\ msg' = [msg EXCEPT ![t] = Head(send_queue)]
            /\ pc' = [pc EXCEPT ![t] = "write"]
            /\ UNCHANGED sending
  /\ UNCHANGED <<flagVars, retryVars, stage, todo, reads_on, streamVars, writes, sent_early,
                 boundVars>>

\* do_send starts async_write on whatever ws_ is by now.  The exchange may
\* answer an authentication before the handler of its write runs.
StartWrite(t) ==
  LET open == stage \in {"handling", "reading"} /\ ~dead
  IN /\ pc[t] = "write"
     /\ writes' = writes \cup {[msg |-> msg[t], live |-> open, early |-> ~authenticated]}
     /\ auth_pending' = (auth_pending \/ (open /\ msg[t] = "auth"))
     /\ msg' = [msg EXCEPT ![t] = "none"]
     /\ pc' = [pc EXCEPT ![t] = "idle"]
     /\ UNCHANGED <<flagVars, retryVars, send_queue, sending, stage, todo, reads_on, dead,
                    write_failed, sent_early, boundVars>>

\* The write is to a stream that was open and still is.
Reaches(w) == w.live /\ ~dead

\* Mutant of AfterWrite: the handler clears sending_ and does not go on.
AfterWriteStops == sending' = FALSE /\ UNCHANGED pc

AfterWrite == pc' = [pc EXCEPT ![IO] = "pop"] /\ UNCHANGED sending

\* The handler of async_write: on with do_send.
OnWrite(w) ==
  /\ Polls /\ w \in writes /\ Reaches(w)
  /\ writes' = writes \ {w}
  /\ sent_early' = IF w.early THEN sent_early \cup {w.msg} ELSE sent_early
  /\ AfterWrite
  /\ UNCHANGED <<flagVars, retryVars, send_queue, msg, stage, todo, reads_on, streamVars,
                 boundVars>>

\* The same with an error: sending_ is cleared, and what is queued stays.
OnWriteError(w) ==
  /\ Polls /\ w \in writes /\ ~Reaches(w)
  /\ writes' = writes \ {w}
  /\ sending' = FALSE
  /\ write_failed' = TRUE
  /\ UNCHANGED <<flagVars, retryVars, send_queue, pc, msg, stage, todo, reads_on, dead,
                 auth_pending, sent_early, boundVars>>

-----------------------------------------------------------------------------
(* The network fails; main closes when the executor thread has ended *)

Break ==
  /\ stage \in {"handling", "reading"} /\ ~dead
  /\ failures < MaxFailures
  /\ failures' = failures + 1
  /\ dead' = TRUE
  /\ UNCHANGED <<flagVars, retryVars, sendVars, stage, todo, reads_on, auth_pending,
                 write_failed, writes, sent_early, orders, heartbeats>>

Close ==
  /\ should_reconnect /\ stage # "new"
  /\ \A t \in Senders : pc[t] = "idle"
  /\ should_reconnect' = FALSE
  /\ IF connected
       THEN connected' = FALSE /\ authenticated' = FALSE /\ dead' = TRUE
       ELSE UNCHANGED <<connected, authenticated, dead>>
  /\ UNCHANGED <<retryVars, sendVars, stage, todo, reads_on, auth_pending, write_failed,
                 writes, sent_early, boundVars>>

-----------------------------------------------------------------------------
SendStep(t) == Push(t) \/ TryStart(t) \/ Pop(t) \/ StartWrite(t)

\* What the I/O thread does by itself; an answer of the exchange is not owed.
IoStep ==
  \/ OnTimer \/ OnResolve \/ OnConnect \/ OnSslHandshake \/ OnHandshake \/ StepFails
  \/ HandlerReturns \/ OnReadError \/ HandlerSends
  \/ \E w \in writes : OnWrite(w) \/ OnWriteError(w)
  \/ SendStep(IO)

Next ==
  \/ Connect \/ Close \/ Break
  \/ IoStep
  \/ OnHeartbeat \/ OnAuthenticated \/ OnAuthenticationFailed
  \/ \E t \in Senders : SendOrder(t) \/ SendStep(t)

Spec == Init /\ [][Next]_vars

\* Threads run on, and every asynchronous operation completes: those of the
\* chain have timeouts, and a handler that can run is not passed over forever.
Fairness ==
  /\ WF_vars(Connect)
  /\ WF_vars(OnTimer) /\ WF_vars(OnResolve \/ OnConnect \/ OnSslHandshake \/ OnHandshake \/ StepFails)
  /\ WF_vars(HandlerReturns) /\ WF_vars(OnReadError) /\ WF_vars(HandlerSends)
  /\ WF_vars(\E w \in writes : OnWrite(w) \/ OnWriteError(w))
  /\ \A t \in Threads : WF_vars(SendStep(t))

FairSpec == Spec /\ Fairness

-----------------------------------------------------------------------------
(* Properties.  The last two do not hold; the README says why. *)

\* sending_ is a lock: at most one thread is in do_send or one async_write is
\* under way, across reconnections and aborted writes, as ws_ demands.
SingleWriter ==
  LET busy == {t \in Threads : pc[t] \in {"pop", "write"}}
  IN /\ Cardinality(busy) + Cardinality(writes) <= 1
     /\ busy # {} \/ writes # {} => sending

\* A client that is not connected connects, gives up, or is closed.
ConnectsOrStops == (stage # "new" /\ ~connected) ~> (connected \/ stage = "stopped")

\* What is queued leaves while the connection lasts.
QueueDrains ==
  send_queue # <<>> ~> (send_queue = <<>> \/ dead \/ write_failed \/ ~connected)

\* The delay before the n-th attempt in a row doubles with every attempt.
ExponentialBackoff ==
  stage = "waiting" => delay = 2 ^ (reconnect_attempts - 1)

\* An order reaches the exchange only on an authenticated connection.
OrdersAreAuthenticated == "order" \notin sent_early
=============================================================================

-------------------------- MODULE UnixDomainServer --------------------------
(***************************************************************************)
(* UnixDomainCommandServer, include/ipc/unix_domain_server.hpp: one thread   *)
(* accepts clients and answers one command of each, while its owner starts   *)
(* and stops it.  Sockets are external: a client connects while the server   *)
(* listens, and shutting the listening socket down ends a blocked accept.    *)
(* A request is what parse_command_line makes of it, and an answer fits the  *)
(* socket's buffer.  The callbacks, which are not in the repository, return. *)
(* What ends the program, an exception that leaves accept_loop or the signal *)
(* of a write to a client that has closed, ends the owner, too.              *)
(***************************************************************************)
EXTENDS Naturals

CONSTANTS
  Clients,
  None,
  HasCallbacks,  \* set_subscribe_callback and set_snapshot_callback were called
  MaxStarts      \* bound: calls of start

ASSUME ServerAssumption == HasCallbacks \in BOOLEAN /\ MaxStarts \in Nat

VARIABLES
  running,    \* running_
  listening,  \* listen_fd_ is open
  path,       \* the socket file exists
  thread,     \* thread_: where accept_loop is, or "none"
  serving,    \* its client
  owner,      \* where the owner is in stop; "dead" when the program has ended
  client,     \* each client: "away", "queued", "served", "reset", "closed"
  request,    \* what it has sent
  answer,     \* what it has got
  gone,       \* clients that closed before they were answered
  (* history *)
  starts,     \* calls of start
  threw       \* did the last of them throw?

startVars == <<starts, threw>>
clientVars == <<client, request, answer, gone>>
vars == <<running, listening, path, thread, serving, owner, startVars, clientVars>>

Requests == {"ping", "subscribe", "snapshot", "no_ticker", "unknown", "malformed", "too_large",
             "cmd_not_a_string"}

Init ==
  /\ running = FALSE /\ listening = FALSE /\ path = FALSE
  /\ thread = "none" /\ serving = None /\ owner = "idle"
  /\ starts = 0 /\ threw = FALSE /\ gone = {}
  /\ client = [c \in Clients |-> "away"]
  /\ request = [c \in Clients |-> None]
  /\ answer = [c \in Clients |-> None]

-----------------------------------------------------------------------------
(* The owner *)

MayStart == owner = "idle" /\ ~running /\ starts < MaxStarts

Start ==
  /\ MayStart
  /\ starts' = starts + 1 /\ threw' = FALSE
  /\ running' = TRUE /\ listening' = TRUE /\ path' = TRUE
  /\ thread' = "test"
  /\ UNCHANGED <<serving, owner, clientVars>>

\* start throws: when socket, bind or listen fails it undoes what it did, but a
\* socket file that bind has made stays; when the thread cannot be made it undoes
\* nothing.
StartFails ==
  /\ MayStart
  /\ starts' = starts + 1 /\ threw' = TRUE
  /\ \/ path' \in BOOLEAN /\ UNCHANGED <<running, listening>>
     \/ running' = TRUE /\ listening' = TRUE /\ path' = TRUE
  /\ UNCHANGED <<thread, serving, owner, clientVars>>

CallStop ==
  /\ owner = "idle" /\ running
  /\ running' = FALSE
  /\ owner' = "close"
  /\ UNCHANGED <<listening, path, thread, serving, startVars, clientVars>>

\* close_listen_socket: clients that wait to be accepted are reset.
CloseListenSocket ==
  /\ owner = "close"
  /\ listening' = FALSE
  /\ client' = [c \in Clients |-> IF client[c] = "queued" THEN "reset" ELSE client[c]]
  /\ owner' = "join"
  /\ UNCHANGED <<running, path, thread, serving, startVars, request, answer, gone>>

\* Mutant of MayJoin: stop does not wait for the thread.
MayJoinAlways == TRUE

\* There is no thread to join, or it has ended.
MayJoin == thread \in {"none", "ended"}

Join ==
  /\ owner = "join" /\ MayJoin
  /\ thread' = IF thread = "ended" THEN "none" ELSE thread
  /\ path' = FALSE
  /\ owner' = "idle"
  /\ UNCHANGED <<running, listening, serving, startVars, clientVars>>

-----------------------------------------------------------------------------
(* accept_loop *)

TestRunning ==
  /\ thread = "test"
  /\ thread' = IF running THEN "accept" ELSE "ended"
  /\ UNCHANGED <<running, listening, path, serving, owner, startVars, clientVars>>

Accept(c) ==
  /\ thread = "accept" /\ listening /\ client[c] = "queued"
  /\ client' = [client EXCEPT ![c] = "served"]
  /\ serving' = c
  /\ thread' = "read"
  /\ UNCHANGED <<running, listening, path, owner, startVars, request, answer, gone>>

\* Mutant of AcceptEnds: close without shutdown leaves accept blocked.
AcceptEndsNever == FALSE

AcceptEnds == ~listening

\* accept fails, and the loop tests running_ again.
AcceptFails ==
  /\ thread = "accept" /\ AcceptEnds
  /\ thread' = "test"
  /\ UNCHANGED <<running, listening, path, serving, owner, startVars, clientVars>>

\* parse_command_line and the switch of handle_client.
Answer(r) ==
  IF r = "ping" \/ (r \in {"subscribe", "snapshot"} /\ HasCallbacks) THEN "ok" ELSE "error"

\* Mutant of ReadEnds: the size of a request is not looked at.
ReadEndsAtLine(c) == request[c] \notin {None, "too_large"} \/ c \in gone

\* handle_client has read a line, the end of the stream or too much.
ReadEnds(c) == request[c] # None \/ c \in gone

\* The JSON library throws in parse_command_line, or the answer's write meets a
\* client that has closed, and the signal is not handled.
Fatal(c) == request[c] = "cmd_not_a_string" \/ c \in gone

HandleClient ==
  /\ thread = "read" /\ ReadEnds(serving)
  /\ IF Fatal(serving)
       THEN thread' = "dead" /\ owner' = "dead" /\ UNCHANGED answer
       ELSE /\ answer' = [answer EXCEPT ![serving] = Answer(request[serving])]
            /\ thread' = "close" /\ UNCHANGED owner
  /\ UNCHANGED <<running, listening, path, serving, startVars, client, request, gone>>

CloseClient ==
  /\ thread = "close"
  /\ client' = [client EXCEPT ![serving] = "closed"]
  /\ serving' = None
  /\ thread' = "test"
  /\ UNCHANGED <<running, listening, path, owner, startVars, request, answer, gone>>

-----------------------------------------------------------------------------
(* Clients *)

Connect(c) ==
  /\ client[c] = "away" /\ listening /\ owner # "dead"
  /\ client' = [client EXCEPT ![c] = "queued"]
  /\ UNCHANGED <<running, listening, path, thread, serving, owner, startVars, request, answer, gone>>

IsWaiting(c) == client[c] \in {"queued", "served"} /\ answer[c] = None /\ c \notin gone

\* The client sends its command, or shuts its sending side down after part of one,
\* which reads as a malformed one.
Send(c) ==
  /\ IsWaiting(c) /\ request[c] = None
  /\ \E r \in Requests : request' = [request EXCEPT ![c] = r]
  /\ UNCHANGED <<running, listening, path, thread, serving, owner, startVars, client, answer, gone>>

\* It closes, with or without having sent anything.
Leave(c) ==
  /\ IsWaiting(c)
  /\ gone' = gone \cup {c}
  /\ UNCHANGED <<running, listening, path, thread, serving, owner, startVars, client, request, answer>>

ThreadStep ==
  \/ TestRunning \/ AcceptFails \/ HandleClient \/ CloseClient
  \/ \E c \in Clients : Accept(c)

Next ==
  \/ Start \/ StartFails \/ CallStop \/ CloseListenSocket \/ Join
  \/ ThreadStep
  \/ \E c \in Clients : Connect(c) \/ Send(c) \/ Leave(c)

Spec == Init /\ [][Next]_vars

\* The threads run on, and the queue of accept is fair to its clients.  Clients
\* need not do anything.
FairSpec ==
  /\ Spec
  /\ WF_vars(ThreadStep) /\ WF_vars(CloseListenSocket) /\ WF_vars(Join)
  /\ \A c \in Clients : SF_vars(Accept(c))

-----------------------------------------------------------------------------
(* Properties *)

\* Between calls of start and stop the server is there or it is not: running_
\* goes with a listening socket, its file and a thread that has not ended; without
\* it thread_ is not joinable (a later start would end the program by assigning to
\* it), the socket is closed and its file is gone.  Only a start that threw may
\* leave the file, or a socket that nobody serves, which stop clears away.
AllOrNothing ==
  owner = "idle" =>
    IF running THEN /\ listening /\ path
                    /\ thread \notin {"none", "ended"} \/ (threw /\ thread = "none")
               ELSE /\ ~listening /\ thread = "none"
                    /\ path => threw

\* A client that neither sends nor closes holds up the thread, whose read has no
\* deadline.
Silent == thread = "read" /\ request[serving] = None /\ serving \notin gone

\* Nobody is served for now: for that reason, or start could not make a thread.
Held == Silent \/ (thread = "none" /\ listening)

\* The program has ended, and for one of the two reasons that the client being
\* served can give it.
EndedByClient == owner = "dead" /\ Fatal(serving)

\* stop returns: the thread leaves a blocked accept and ends, unless a client that
\* keeps silent holds it up for good or one ends the program.
StopReturns ==
  []<>~Silent => (owner \in {"close", "join"} ~> owner = "idle" \/ EndedByClient)

\* Every client that connects is answered, or reset by stop, though clients are
\* served one at a time: as long as no client keeps the thread for good, and
\* unless one ends the program.
EveryClientAnswered ==
  []<>~Held =>
    \A c \in Clients :
      client[c] = "queued" ~> \/ client[c] = "closed" /\ answer[c] # None
                              \/ client[c] = "reset"
                              \/ EndedByClient
=============================================================================

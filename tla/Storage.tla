------------------------------ MODULE Storage ------------------------------
(***************************************************************************)
(* What IStorage promises its users while a process runs: a log to which   *)
(* accepted events are appended with consecutive offsets, of which replay  *)
(* sees a prefix that only grows, and all of which it sees when close has  *)
(* returned.  JsonlAsyncStorage, with its flusher thread, is shown to      *)
(* implement it.                                                           *)
(***************************************************************************)
EXTENDS Naturals, Sequences

CONSTANT Payloads  \* what users append

VARIABLES
  log,      \* accepted events: [offset, payload]
  visible,  \* how many of them replay sees
  closed    \* has close returned?

vars == <<log, visible, closed>>

Init == log = <<>> /\ visible = 0 /\ closed = FALSE

\* append returns true; an implementation may show the event at once.
Accept(p) ==
  /\ ~closed
  /\ log' = Append(log, [offset |-> Len(log), payload |-> p])
  /\ visible' \in {visible, Len(log')}
  /\ UNCHANGED closed

Commit ==
  /\ visible < Len(log)
  /\ visible' \in (visible + 1)..Len(log)
  /\ UNCHANGED <<log, closed>>

\* close returns: nothing is left behind.
Close ==
  /\ visible = Len(log)
  /\ closed' = TRUE
  /\ UNCHANGED <<log, visible>>

Next == (\E p \in Payloads : Accept(p)) \/ Commit \/ Close

Spec == Init /\ [][Next]_vars
=============================================================================

--------------------------- MODULE MPSCTradeQueue ---------------------------
(***************************************************************************)
(* MPSCTradeQueue of include/core/trade_queue.hpp: a ring of Capacity      *)
(* slots, each with a sequence number that says whose turn the slot is.    *)
(* Producers draw tickets from enqueue_pos_ with a compare-and-swap, write *)
(* the slot and publish it; the one consumer reads the slot of             *)
(* dequeue_pos_, releases it for the next lap and moves on.                *)
(*                                                                         *)
(* Every atomic access, and every access to the unprotected slot.data, is  *)
(* a step of its own.  The positions are 64-bit counters that the code     *)
(* compares by signed difference; they are natural numbers here, which     *)
(* agrees with the code for the first 2^63 tickets.                        *)
(***************************************************************************)
EXTENDS Integers, Sequences

CONSTANTS
  Capacity,   \* slots of the ring
  Producers,  \* threads that may call try_push
  Trades,     \* the trades they push
  NoTrade,    \* std::nullopt
  MaxTicket   \* bound: no call starts once this many tickets are drawn

\* The static_assert asks for a power of two, of which the algorithm only
\* uses that pos & MASK is pos % Capacity.  It admits Capacity = 1, for which
\* the sequence numbers "published" and "free for the next lap" coincide.
ASSUME CapacityAssumption == Capacity \in Nat /\ Capacity >= 2
ASSUME TradesAssumption == NoTrade \notin Trades
ASSUME MaxTicketAssumption == MaxTicket \in Nat

VARIABLES
  sequence,     \* slot -> Slot::sequence
  data,         \* slot -> Slot::data
  enqueue_pos,  \* enqueue_pos_: the next ticket
  dequeue_pos,  \* dequeue_pos_: the consumer's next ticket
  pc,           \* where each producer is in try_push
  pos,          \* its local pos
  arg,          \* the trade it is pushing
  result,       \* what its latest completed call returned
  consumer_pc,  \* where the consumer is in try_pop
  trade,        \* its local copy of the slot's data
  popped        \* what its latest completed call returned

producerVars == <<pc, pos, arg, result>>
consumerVars == <<dequeue_pos, consumer_pc, trade, popped>>
vars == <<sequence, data, enqueue_pos, producerVars, consumerVars>>

Slots == 0..(Capacity - 1)
SlotOf(ticket) == ticket % Capacity

Init ==
  /\ sequence = [i \in Slots |-> i]
  /\ data = [i \in Slots |-> NoTrade]
  /\ enqueue_pos = 0
  /\ dequeue_pos = 0
  /\ pc = [p \in Producers |-> "idle"]
  /\ pos = [p \in Producers |-> 0]
  /\ arg = [p \in Producers |-> NoTrade]
  /\ result = [p \in Producers |-> FALSE]
  /\ consumer_pc = "poll"
  /\ trade = NoTrade
  /\ popped = NoTrade

Goto(p, label) == pc' = [pc EXCEPT ![p] = label]

-----------------------------------------------------------------------------
(* try_push *)

\* The call, and its first load of enqueue_pos_.
BeginPush(p, t) ==
  /\ pc[p] = "idle"
  /\ enqueue_pos < MaxTicket
  /\ Goto(p, "load")
  /\ pos' = [pos EXCEPT ![p] = enqueue_pos]
  /\ arg' = [arg EXCEPT ![p] = t]
  /\ UNCHANGED <<sequence, data, enqueue_pos, result, consumerVars>>

\* diff == 0: the slot is free for this ticket.
SeeFree(p) ==
  /\ pc[p] = "load"
  /\ sequence[SlotOf(pos[p])] = pos[p]
  /\ Goto(p, "cas")
  /\ UNCHANGED <<sequence, data, enqueue_pos, pos, arg, result, consumerVars>>

\* diff < 0: the slot still holds the trade of the previous lap; return false.
SeeFull(p) ==
  /\ pc[p] = "load"
  /\ sequence[SlotOf(pos[p])] < pos[p]
  /\ Goto(p, "idle")
  /\ result' = [result EXCEPT ![p] = FALSE]
  /\ UNCHANGED <<sequence, data, enqueue_pos, pos, arg, consumerVars>>

\* diff > 0: the ticket was drawn by another producer; reload enqueue_pos_.
SeeTaken(p) ==
  /\ pc[p] = "load"
  /\ sequence[SlotOf(pos[p])] > pos[p]
  /\ Goto(p, "reload")
  /\ UNCHANGED <<sequence, data, enqueue_pos, pos, arg, result, consumerVars>>

\* Mutant of Reload: the loop goes on with the same pos.
ReloadNothing(p) ==
  /\ pc[p] = "reload"
  /\ Goto(p, "load")
  /\ UNCHANGED <<sequence, data, enqueue_pos, pos, arg, result, consumerVars>>

Reload(p) ==
  /\ pc[p] = "reload"
  /\ Goto(p, "load")
  /\ pos' = [pos EXCEPT ![p] = enqueue_pos]
  /\ UNCHANGED <<sequence, data, enqueue_pos, arg, result, consumerVars>>

\* Mutant of Claim: a store instead of the compare-and-swap.
ClaimBlindly(p) ==
  /\ pc[p] = "cas"
  /\ enqueue_pos' = pos[p] + 1
  /\ Goto(p, "write")
  /\ UNCHANGED <<sequence, data, pos, arg, result, consumerVars>>

Claim(p) ==
  /\ pc[p] = "cas"
  /\ enqueue_pos = pos[p]
  /\ enqueue_pos' = pos[p] + 1
  /\ Goto(p, "write")
  /\ UNCHANGED <<sequence, data, pos, arg, result, consumerVars>>

\* compare_exchange_weak may also fail spuriously; either way it loads
\* enqueue_pos_ into pos.
FailClaim(p) ==
  /\ pc[p] = "cas"
  /\ pos' = [pos EXCEPT ![p] = enqueue_pos]
  /\ Goto(p, "load")
  /\ UNCHANGED <<sequence, data, enqueue_pos, arg, result, consumerVars>>

WriteData(p) ==
  /\ pc[p] = "write"
  /\ data' = [data EXCEPT ![SlotOf(pos[p])] = arg[p]]
  /\ Goto(p, "publish")
  /\ UNCHANGED <<sequence, enqueue_pos, pos, arg, result, consumerVars>>

Publish(p) ==
  /\ pc[p] = "publish"
  /\ sequence' = [sequence EXCEPT ![SlotOf(pos[p])] = pos[p] + 1]
  /\ Goto(p, "idle")
  /\ result' = [result EXCEPT ![p] = TRUE]
  /\ UNCHANGED <<data, enqueue_pos, pos, arg, consumerVars>>

-----------------------------------------------------------------------------
(* try_pop *)

\* Mutants of HeadPublished: off by one, either way.
HeadPublishedTooSoon == sequence[SlotOf(dequeue_pos)] >= dequeue_pos
HeadPublishedTooLate == sequence[SlotOf(dequeue_pos)] > dequeue_pos + 1

\* The test of try_pop, peek and empty: the slot of dequeue_pos_ is published.
HeadPublished == sequence[SlotOf(dequeue_pos)] >= dequeue_pos + 1

PopNothing ==
  /\ consumer_pc = "poll"
  /\ ~HeadPublished
  /\ popped' = NoTrade
  /\ UNCHANGED <<sequence, data, enqueue_pos, producerVars,
                 dequeue_pos, consumer_pc, trade>>

BeginPop ==
  /\ consumer_pc = "poll"
  /\ HeadPublished
  /\ consumer_pc' = "read"
  /\ UNCHANGED <<sequence, data, enqueue_pos, producerVars,
                 dequeue_pos, trade, popped>>

ReadData ==
  /\ consumer_pc = "read"
  /\ trade' = data[SlotOf(dequeue_pos)]
  /\ consumer_pc' = "release"
  /\ UNCHANGED <<sequence, data, enqueue_pos, producerVars, dequeue_pos, popped>>

ReleaseSlot ==
  /\ consumer_pc = "release"
  /\ sequence' = [sequence EXCEPT ![SlotOf(dequeue_pos)] = dequeue_pos + Capacity]
  /\ consumer_pc' = "advance"
  /\ UNCHANGED <<data, enqueue_pos, producerVars, dequeue_pos, trade, popped>>

\* ++dequeue_pos_ and return the trade: both are the consumer's own.
Advance ==
  /\ consumer_pc = "advance"
  /\ dequeue_pos' = dequeue_pos + 1
  /\ popped' = trade
  /\ consumer_pc' = "poll"
  /\ UNCHANGED <<sequence, data, enqueue_pos, producerVars, trade>>

-----------------------------------------------------------------------------
\* What a producer inside try_push does next.
PushStep(p) ==
  \/ SeeFree(p) \/ SeeFull(p) \/ SeeTaken(p) \/ Reload(p)
  \/ Claim(p) \/ FailClaim(p) \/ WriteData(p) \/ Publish(p)

\* What the consumer does next.
PopStep == PopNothing \/ BeginPop \/ ReadData \/ ReleaseSlot \/ Advance

Next ==
  \/ \E p \in Producers : (\E t \in Trades : BeginPush(p, t)) \/ PushStep(p)
  \/ PopStep

Spec == Init /\ [][Next]_vars

\* A producer inside try_push keeps running, and its compare-and-swap does not
\* fail spuriously for ever; the executor thread keeps polling
\* (order_executor.hpp, execution_loop).  Nobody has to push.
Fairness ==
  /\ \A p \in Producers : WF_vars(PushStep(p)) /\ SF_vars(Claim(p))
  /\ WF_vars(PopStep)

FairSpec == Spec /\ Fairness

-----------------------------------------------------------------------------
(* Correctness *)

\* Tickets below this one are done with: their slots are released.
Released == IF consumer_pc = "advance" THEN dequeue_pos + 1 ELSE dequeue_pos

\* p has drawn its ticket and not published it yet.
Holds(p) == pc[p] \in {"write", "publish"}
Holders(t) == {p \in Producers : Holds(p) /\ pos[p] = t}

\* Every variable has its type.
TypeOK ==
  /\ sequence \in [Slots -> Nat]
  /\ data \in [Slots -> Trades \cup {NoTrade}]
  /\ enqueue_pos \in Nat
  /\ dequeue_pos \in Nat
  /\ pc \in [Producers -> {"idle", "load", "reload", "cas", "write", "publish"}]
  /\ pos \in [Producers -> Nat]
  /\ arg \in [Producers -> Trades \cup {NoTrade}]
  /\ result \in [Producers -> BOOLEAN]
  /\ consumer_pc \in {"poll", "read", "release", "advance"}
  /\ trade \in Trades \cup {NoTrade}
  /\ popped \in Trades \cup {NoTrade}

\* The unprotected slot.data is never accessed by two threads at once: a
\* producer about to write a slot (trade_queue.hpp:146) is alone with it, be
\* it with other producers or with the consumer about to read it (line 168).
NoDataRace ==
  \A p \in Producers : pc[p] = "write" =>
    /\ \A q \in Producers \ {p} :
         pc[q] = "write" => SlotOf(pos[q]) # SlotOf(pos[p])
    /\ consumer_pc = "read" => SlotOf(dequeue_pos) # SlotOf(pos[p])

\* The tickets drawn and not released fit in the ring: a claim that succeeds on
\* a sequence number read earlier (the load of line 140, the CAS of line 144)
\* never laps the consumer.
TicketsFit == Released <= enqueue_pos /\ enqueue_pos <= Released + Capacity

\* The slot of a ticket that is drawn but not released says who may touch it:
\* its number is the ticket while one producer writes it, the ticket plus one
\* once it is published.
DrawnSlots ==
  \A t \in Released..(enqueue_pos - 1) :
    \/ sequence[SlotOf(t)] = t /\ \E p \in Producers : Holders(t) = {p}
    \/ sequence[SlotOf(t)] = t + 1 /\ Holders(t) = {}

\* The slots no ticket is drawn for carry the ticket they wait for.
FreeSlots ==
  \A t \in enqueue_pos..(Released + Capacity - 1) : sequence[SlotOf(t)] = t

\* What each producer knows: its ticket, once drawn, is outstanding, and before
\* that the ticket it tries for was drawn or is the next; a slot it saw free for
\* its ticket is not set back behind it while it prepares its compare-and-swap.
ProducerKnows ==
  \A p \in Producers :
    /\ pos[p] <= enqueue_pos
    /\ Holds(p) => Released <= pos[p] /\ pos[p] < enqueue_pos
    /\ pc[p] = "cas" => sequence[SlotOf(pos[p])] >= pos[p]
    /\ pc[p] = "publish" => data[SlotOf(pos[p])] = arg[p]

\* What the consumer knows: the slot it reads stays published and unchanged.
ConsumerKnows ==
  /\ consumer_pc \in {"read", "release"} =>
       sequence[SlotOf(dequeue_pos)] = dequeue_pos + 1
  /\ consumer_pc = "release" => trade = data[SlotOf(dequeue_pos)]

\* The inductive invariant.
Inv ==
  /\ TypeOK
  /\ TicketsFit
  /\ DrawnSlots
  /\ FreeSlots
  /\ ProducerKnows
  /\ ConsumerKnows

\* A slot's number only grows, so a producer that sleeps between its load of the
\* number and its compare-and-swap cannot mistake a later lap for its own.
SequenceGrows == [][\A i \in Slots : sequence'[i] >= sequence[i]]_vars

\* The queue the ring stands for: a place for each ticket that is drawn and not
\* released, the state of each call, and what the consumer has obtained.
Place(t) ==
  [trade |-> IF Holders(t) = {} THEN data[SlotOf(t)] ELSE NoTrade,
   writing |-> Holders(t)]
Places == [i \in 1..(enqueue_pos - Released) |-> Place(Released + i - 1)]
Calls ==
  [p \in Producers |->
    IF pc[p] = "idle" THEN "idle" ELSE IF Holds(p) THEN "reserved" ELSE "calling"]
Delivered == IF consumer_pc = "advance" THEN trade ELSE popped

\* The ring implements the bounded FIFO: trades come out in ticket order, each
\* exactly once; false means Capacity tickets were outstanding at the load of
\* line 140; nullopt means the oldest ticket was not published at line 161.
Queue ==
  INSTANCE BoundedTradeQueue WITH
    contents <- Places,
    calls <- Calls,
    args <- arg,
    results <- result,
    delivered <- Delivered
ImplementsBoundedTradeQueue == Queue!Spec

\* A call of try_push returns, whatever the other producers do between its load
\* and its compare-and-swap.
EveryPushReturns ==
  \A p \in Producers : pc[p] # "idle" ~> pc[p] = "idle"

\* Every ticket drawn is popped: a trade whose push returned true is not stuck
\* behind a ticket that is never published.
EveryTicketIsPopped ==
  \A t \in 0..(MaxTicket - 1) : enqueue_pos > t ~> dequeue_pos > t
=============================================================================

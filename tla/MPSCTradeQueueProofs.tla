------------------------ MODULE MPSCTradeQueueProofs ------------------------
(***************************************************************************)
(* Proofs about MPSCTradeQueue, for every capacity of at least two, every  *)
(* set of producers and of trades, and every bound on the tickets.         *)
(***************************************************************************)
EXTENDS MPSCTradeQueue, TLAPS

-----------------------------------------------------------------------------
(* The ring: pos & MASK *)

\* Division with remainder, for a ring of n slots.
LEMMA DivMod ==
  ASSUME NEW n \in Nat \ {0}, NEW a \in Nat
  PROVE  /\ a = (n * (a \div n)) + (a % n)
         /\ a \div n \in Int
         /\ a % n \in 0..(n - 1)
OBVIOUS

\* A multiple of n that lies strictly between -n and n is 0.
LEMMA SmallMultiple ==
  ASSUME NEW n \in Nat \ {0}, NEW k \in Int, NEW d \in Int,
         n * k = d, -n < d, d < n
  PROVE  k = 0
<1>1. ~(k >= 1)
  OBVIOUS
<1>2. ~(k <= -1)
  OBVIOUS
<1>. QED
  BY <1>1, <1>2

\* Two tickets less than a lap apart have different slots.
LEMMA SlotsDiffer ==
  ASSUME NEW a \in Nat, NEW b \in Nat, a < b, b < a + Capacity
  PROVE  SlotOf(a) # SlotOf(b)
<1>. SUFFICES ASSUME a % Capacity = b % Capacity
              PROVE  FALSE
  BY Zenon DEF SlotOf
<1>. DEFINE qa == a \div Capacity
            qb == b \div Capacity
            r == a % Capacity
<1>1. a = (Capacity * qa) + r /\ qa \in Int /\ r \in Int
  BY DivMod, CapacityAssumption
<1>2. b = (Capacity * qb) + r /\ qb \in Int
  BY DivMod, CapacityAssumption
<1>. HIDE DEF qa, qb, r
<1>3. Capacity * (qb - qa) = b - a
  BY <1>1, <1>2, CapacityAssumption
<1>4. qb - qa = 0
  BY <1>1, <1>2, <1>3, SmallMultiple, CapacityAssumption
<1>. QED
  BY <1>1, <1>2, <1>4

\* A ticket and the one a lap later share their slot.
LEMMA NextLap ==
  ASSUME NEW a \in Nat
  PROVE  SlotOf(a + Capacity) = SlotOf(a)
<1>. DEFINE b == a + Capacity
            qa == a \div Capacity
            qb == b \div Capacity
            r == a % Capacity
            s == b % Capacity
<1>1. a = (Capacity * qa) + r /\ qa \in Int /\ r \in 0..(Capacity - 1)
  BY DivMod, CapacityAssumption
<1>2. b \in Nat
  BY CapacityAssumption
<1>3. b = (Capacity * qb) + s /\ qb \in Int /\ s \in 0..(Capacity - 1)
  <2>. HIDE DEF b
  <2>. QED
    BY <1>2, DivMod, CapacityAssumption
<1>. SUFFICES r = s
  BY Zenon DEF SlotOf
<1>. HIDE DEF qa, qb, r, s
<1>4. Capacity * (qb - qa - 1) = r - s
  BY <1>1, <1>3, CapacityAssumption
<1>5. qb - qa - 1 = 0
  BY <1>1, <1>3, <1>4, SmallMultiple, CapacityAssumption
<1>. QED
  BY <1>1, <1>3, <1>4, <1>5, CapacityAssumption

\* Every ticket has a slot.
LEMMA SlotExists ==
  ASSUME NEW a \in Nat
  PROVE  SlotOf(a) \in Slots
BY DivMod, CapacityAssumption DEF SlotOf, Slots

-----------------------------------------------------------------------------
(* The inductive invariant *)

\* In the initial state no ticket is drawn and every slot waits for its own.
LEMMA InitInv == Init => Inv
<1>. SUFFICES ASSUME Init
              PROVE  Inv
  BY Zenon
<1>1. TypeOK
  BY CapacityAssumption DEF Init, TypeOK, Slots
<1>2. Released = 0
  BY Zenon DEF Init, Released
<1>3. TicketsFit
  BY <1>2, CapacityAssumption DEF Init, TicketsFit
<1>4. DrawnSlots
  BY <1>2 DEF Init, DrawnSlots
<1>5. FreeSlots
  <2>. SUFFICES ASSUME NEW t \in 0..(Capacity - 1)
                PROVE  sequence[SlotOf(t)] = t
    BY <1>2, CapacityAssumption DEF Init, FreeSlots
  <2>1. SlotOf(t) = t
    BY CapacityAssumption DEF SlotOf
  <2>. QED
    BY <2>1, Zenon DEF Init, Slots
<1>6. ProducerKnows
  BY DEF Init, ProducerKnows, Holds
<1>7. ConsumerKnows
  BY Zenon DEF Init, ConsumerKnows
<1>. QED
  BY <1>1, <1>3, <1>4, <1>5, <1>6, <1>7, Zenon DEF Inv

\* Two producers never hold the same ticket (from DrawnSlots).
LEMMA OneHolder ==
  ASSUME Inv, NEW p \in Producers, NEW q \in Producers,
         Holds(p), Holds(q), pos[p] = pos[q]
  PROVE  p = q
<1>1. pos[p] \in Released..(enqueue_pos - 1)
  BY DEF Inv, ProducerKnows, TypeOK, Released
<1>2. p \in Holders(pos[p]) /\ q \in Holders(pos[p])
  BY Zenon DEF Holders
<1>. QED
  BY <1>1, <1>2 DEF Inv, DrawnSlots

\* The slot of a ticket that is held carries that ticket's number.
LEMMA HeldSlot ==
  ASSUME Inv, NEW p \in Producers, Holds(p)
  PROVE  /\ pos[p] \in Released..(enqueue_pos - 1)
         /\ sequence[SlotOf(pos[p])] = pos[p]
         /\ Holders(pos[p]) = {p}
<1>1. pos[p] \in Released..(enqueue_pos - 1)
  BY DEF Inv, ProducerKnows, TypeOK, Released
<1>2. p \in Holders(pos[p])
  BY Zenon DEF Holders
<1>. QED
  BY <1>1, <1>2, Zenon DEF Inv, DrawnSlots

\* Two outstanding tickets that share a slot are the same ticket.
LEMMA OutstandingDistinct ==
  ASSUME Inv, NEW a \in Released..(enqueue_pos - 1), NEW b \in Released..(enqueue_pos - 1),
         SlotOf(a) = SlotOf(b)
  PROVE  a = b
<1>1. a \in Nat /\ b \in Nat
  BY DEF Inv, TypeOK, Released
<1>2. a < b + Capacity /\ b < a + Capacity
  BY CapacityAssumption DEF Inv, TicketsFit, TypeOK, Released
<1>. QED
  BY <1>1, <1>2, SlotsDiffer

\* Steps of a producer that touch neither the ring nor enqueue_pos_ nor a
\* ticket: pos moves only to the present enqueue_pos_.
LEMMA LookingAround ==
  ASSUME Inv, NEW p \in Producers,
         ~Holds(p), pc'[p] \in {"idle", "load", "reload", "cas"},
         pc' = [pc EXCEPT ![p] = pc'[p]],
         \/ pos' = pos
         \/ pos' = [pos EXCEPT ![p] = enqueue_pos],
         pc'[p] = "cas" => sequence[SlotOf(pos'[p])] >= pos'[p],
         arg' \in [Producers -> Trades \cup {NoTrade}],
         \A q \in Producers : q # p => arg'[q] = arg[q],
         result' \in [Producers -> BOOLEAN],
         UNCHANGED <<sequence, data, enqueue_pos, consumerVars>>
  PROVE  Inv'
<1>. USE DEF Inv, consumerVars
<1>1. TypeOK'
  BY ZenonT(60) DEF TypeOK
<1>2. Released' = Released
  BY Zenon DEF Released
<1>3. \A q \in Producers : Holds(q)' <=> Holds(q)
  BY Zenon DEF Holds, TypeOK
<1>4. \A q \in Producers : Holds(q) => pos'[q] = pos[q]
  BY Zenon DEF TypeOK
<1>5. \A t : Holders(t)' = Holders(t)
  BY <1>3, <1>4, Zenon DEF Holders
<1>6. TicketsFit'
  BY <1>2, Zenon DEF TicketsFit
<1>7. DrawnSlots'
  BY <1>2, <1>5, Zenon DEF DrawnSlots
<1>8. FreeSlots'
  BY <1>2, Zenon DEF FreeSlots
<1>9. ProducerKnows'
  BY <1>2, <1>3 DEF ProducerKnows, TypeOK, Holds
<1>10. ConsumerKnows'
  BY Zenon DEF ConsumerKnows
<1>. QED
  BY <1>1, <1>6, <1>7, <1>8, <1>9, <1>10, Zenon

\* The compare-and-swap: its slot was seen free, and that is still so, because
\* sequence numbers only grow and a full ring would show a smaller one.  This is
\* the step that needs Capacity >= 2.
LEMMA ClaimInv ==
  ASSUME Inv, NEW p \in Producers, Claim(p)
  PROVE  Inv'
<1>. USE DEF Claim, Goto, consumerVars
<1>. PICK e \in Nat : e = enqueue_pos
  BY Zenon DEF Inv, TypeOK
<1>1. TypeOK'
  BY DEF Inv, TypeOK
<1>2. Released' = Released /\ Released \in Nat /\ e \in Nat
  BY DEF Inv, Released, TypeOK
<1>3. e < Released + Capacity
  <2>. SUFFICES ASSUME e = Released + Capacity
                PROVE  FALSE
    BY <1>2, CapacityAssumption DEF Inv, TicketsFit
  <2>1. SlotOf(e) = SlotOf(Released)
    BY <1>2, NextLap, Zenon
  <2>2. sequence[SlotOf(Released)] <= Released + 1
    BY <1>2, CapacityAssumption DEF Inv, DrawnSlots
  <2>3. sequence[SlotOf(e)] >= e /\ sequence[SlotOf(e)] \in Nat
    BY <1>2, SlotExists, ZenonT(60) DEF Inv, ProducerKnows, TypeOK
  <2>. QED
    BY <1>2, <2>1, <2>2, <2>3, CapacityAssumption
<1>4. sequence[SlotOf(e)] = e
  BY <1>2, <1>3, CapacityAssumption DEF Inv, FreeSlots
<1>5. Holders(e)' = {p}
  <2>1. \A q \in Producers : Holds(q) => pos[q] # e
    BY <1>2 DEF Inv, ProducerKnows, TypeOK
  <2>2. Holds(p)' /\ \A q \in Producers \ {p} : Holds(q)' <=> Holds(q)
    BY Zenon DEF Inv, TypeOK, Holds
  <2>. QED
    BY <2>1, <2>2, Zenon DEF Holders
<1>6. \A t \in Released..(e - 1) : Holders(t)' = Holders(t)
  BY <1>2 DEF Inv, Holders, Holds, TypeOK
<1>7. TicketsFit'
  BY <1>2, <1>3, CapacityAssumption DEF Inv, TicketsFit
<1>8. DrawnSlots'
  <2>. SUFFICES ASSUME NEW t \in Released..e
                PROVE  \/ sequence[SlotOf(t)] = t /\ \E q \in Producers : Holders(t)' = {q}
                       \/ sequence[SlotOf(t)] = t + 1 /\ Holders(t)' = {}
    BY <1>2 DEF DrawnSlots
  <2>1. CASE t = e
    BY <2>1, <1>4, <1>5, Zenon
  <2>2. CASE t # e
    BY <2>2, <1>2, <1>6 DEF Inv, DrawnSlots
  <2>. QED
    BY <2>1, <2>2, Zenon
<1>9. FreeSlots'
  BY <1>2, CapacityAssumption DEF Inv, FreeSlots
<1>10. ProducerKnows'
  BY <1>2 DEF Inv, ProducerKnows, Holds, TypeOK, TicketsFit
<1>11. ConsumerKnows'
  BY Zenon DEF Inv, ConsumerKnows
<1>. QED
  BY <1>1, <1>7, <1>8, <1>9, <1>10, <1>11, Zenon DEF Inv

\* Writing slot.data disturbs neither a slot waiting to be published by somebody
\* else nor the slot the consumer has copied.
LEMMA WriteDataInv ==
  ASSUME Inv, NEW p \in Producers, WriteData(p)
  PROVE  Inv'
<1>. USE DEF WriteData, Goto, consumerVars
<1>1. TypeOK'
  BY SlotExists, Zenon DEF Inv, TypeOK
<1>2. Released' = Released /\ Released \in Nat
  BY DEF Inv, Released, TypeOK
<1>3. Holds(p) /\ \A q \in Producers : Holds(q)' <=> Holds(q)
  BY Zenon DEF Inv, Holds, TypeOK
<1>4. \A t : Holders(t)' = Holders(t)
  BY <1>3, Zenon DEF Holders
<1>5. TicketsFit' /\ DrawnSlots' /\ FreeSlots'
  BY <1>2, <1>4, Zenon DEF Inv, TicketsFit, DrawnSlots, FreeSlots
<1>6. ProducerKnows'
  <2>. SUFFICES ASSUME NEW q \in Producers, pc'[q] = "publish"
                PROVE  data'[SlotOf(pos[q])] = arg[q]
    BY <1>2, <1>3, Zenon DEF Inv, ProducerKnows, TypeOK
  <2>1. CASE q = p
    BY <2>1, SlotExists, Zenon DEF Inv, TypeOK
  <2>2. CASE q # p
    <3>1. pc[q] = "publish" /\ Holds(q)
      BY <2>2, Zenon DEF Inv, TypeOK, Holds
    <3>2. pos[q] # pos[p]
      BY <2>2, <3>1, <1>3, OneHolder, Zenon
    <3>3. SlotOf(pos[q]) # SlotOf(pos[p])
      BY <3>1, <3>2, <1>3, HeldSlot, OutstandingDistinct, Zenon
    <3>. QED
      BY <3>1, <3>3, SlotExists, Zenon DEF Inv, TypeOK, ProducerKnows
  <2>. QED
    BY <2>1, <2>2, Zenon
<1>7. ConsumerKnows'
  <2>1. sequence[SlotOf(pos[p])] = pos[p] /\ pos[p] >= Released /\ pos[p] \in Nat
    BY <1>2, <1>3, HeldSlot DEF Inv, TypeOK
  <2>2. CASE consumer_pc = "release"
    <3>1. sequence[SlotOf(dequeue_pos)] = dequeue_pos + 1 /\ Released = dequeue_pos
      BY <2>2, Zenon DEF Inv, ConsumerKnows, Released
    <3>2. TicketsFit /\ dequeue_pos \in Nat /\ enqueue_pos \in Nat
      BY Zenon DEF Inv, TypeOK
    <3>3. SlotOf(dequeue_pos) # SlotOf(pos[p])
      <4>1. CASE pos[p] = dequeue_pos
        BY <4>1, <3>1, <2>1
      <4>2. CASE pos[p] # dequeue_pos
        <5>1. dequeue_pos < pos[p] /\ pos[p] < dequeue_pos + Capacity
          BY <4>2, <2>1, <3>1, <3>2, <1>3, HeldSlot, CapacityAssumption DEF TicketsFit
        <5>. QED
          BY <5>1, <3>2, <2>1, SlotsDiffer, Zenon
      <4>. QED
        BY <4>1, <4>2, Zenon
    <3>. QED
      BY <2>2, <3>1, <3>3, <3>2, SlotExists, Zenon DEF Inv, ConsumerKnows, TypeOK
  <2>3. CASE consumer_pc # "release"
    BY <2>3, Zenon DEF Inv, ConsumerKnows
  <2>. QED
    BY <2>2, <2>3, Zenon
<1>. QED
  BY <1>1, <1>5, <1>6, <1>7, Zenon DEF Inv

\* Publishing moves one slot from held to published.
LEMMA PublishInv ==
  ASSUME Inv, NEW p \in Producers, Publish(p)
  PROVE  Inv'
<1>. USE DEF Publish, Goto, consumerVars
<1>. PICK m \in Nat : m = pos[p]
  BY Zenon DEF Inv, TypeOK
<1>1. TypeOK'
  BY SlotExists DEF Inv, TypeOK
<1>2. Released' = Released /\ Released \in Nat /\ m \in Nat /\ enqueue_pos \in Nat
  BY DEF Inv, Released, TypeOK
<1>3. Holds(p) /\ Holds(p)' = FALSE /\ \A q \in Producers \ {p} : Holds(q)' <=> Holds(q)
  BY DEF Inv, Holds, TypeOK
<1>4. m \in Released..(enqueue_pos - 1) /\ sequence[SlotOf(m)] = m /\ Holders(m) = {p}
  BY <1>3, HeldSlot, Zenon
<1>5. Holders(m)' = {} /\ \A t : t # m => Holders(t)' = Holders(t)
  BY <1>3, <1>4, Zenon DEF Holders
<1>6. sequence' = [sequence EXCEPT ![SlotOf(m)] = m + 1]
  BY Zenon
<1>7. \A t \in Nat : SlotOf(t) # SlotOf(m) => sequence'[SlotOf(t)] = sequence[SlotOf(t)]
  BY <1>6, SlotExists, Zenon DEF Inv, TypeOK
<1>8. sequence'[SlotOf(m)] = m + 1
  BY <1>2, <1>6, SlotExists, Zenon DEF Inv, TypeOK
<1>9. TicketsFit'
  BY <1>2, Zenon DEF Inv, TicketsFit
<1>10. DrawnSlots'
  <2>. SUFFICES ASSUME NEW t \in Released..(enqueue_pos - 1)
                PROVE  \/ sequence'[SlotOf(t)] = t /\ \E q \in Producers : Holders(t)' = {q}
                       \/ sequence'[SlotOf(t)] = t + 1 /\ Holders(t)' = {}
    BY <1>2, Zenon DEF DrawnSlots
  <2>1. CASE t = m
    BY <2>1, <1>5, <1>8, Zenon
  <2>2. CASE t # m
    BY <2>2, <1>2, <1>4, <1>5, <1>7, OutstandingDistinct DEF Inv, DrawnSlots
  <2>. QED
    BY <2>1, <2>2, Zenon
<1>11. FreeSlots'
  <2>. SUFFICES ASSUME NEW t \in enqueue_pos..(Released + Capacity - 1)
                PROVE  sequence'[SlotOf(t)] = t
    BY <1>2, Zenon DEF FreeSlots
  <2>1. m < t /\ t < m + Capacity /\ t \in Nat
    BY <1>2, <1>4, CapacityAssumption
  <2>. QED
    BY <2>1, <1>2, <1>7, SlotsDiffer, Zenon DEF Inv, FreeSlots
<1>12. ProducerKnows'
  <2>. SUFFICES ASSUME NEW q \in Producers, pc[q] = "cas", q # p
                PROVE  sequence'[SlotOf(pos[q])] >= pos[q]
    BY <1>2, <1>3, Zenon DEF Inv, ProducerKnows, TypeOK, Holds
  <2>1. sequence[SlotOf(pos[q])] >= pos[q] /\ pos[q] \in Nat
    BY Zenon DEF Inv, ProducerKnows, TypeOK
  <2>2. CASE SlotOf(pos[q]) = SlotOf(m)
    BY <2>1, <2>2, <1>2, <1>4, <1>8
  <2>3. CASE SlotOf(pos[q]) # SlotOf(m)
    BY <2>1, <2>3, <1>7, Zenon
  <2>. QED
    BY <2>2, <2>3, Zenon
<1>13. ConsumerKnows'
  <2>. SUFFICES ASSUME consumer_pc \in {"read", "release"}
                PROVE  sequence'[SlotOf(dequeue_pos)] = dequeue_pos + 1
    BY Zenon DEF Inv, ConsumerKnows
  <2>1. sequence[SlotOf(dequeue_pos)] = dequeue_pos + 1 /\ dequeue_pos \in Nat
        /\ Released = dequeue_pos
    BY Zenon DEF Inv, ConsumerKnows, TypeOK, Released
  <2>2. SlotOf(dequeue_pos) # SlotOf(m)
    <3>1. m # dequeue_pos
      BY <2>1, <1>4, <1>2
    <3>2. dequeue_pos < m /\ m < dequeue_pos + Capacity
      BY <3>1, <2>1, <1>2, <1>4, CapacityAssumption DEF Inv, TicketsFit
    <3>. QED
      BY <3>2, <2>1, <1>2, SlotsDiffer, Zenon
  <2>. QED
    BY <2>1, <2>2, <1>7, Zenon
<1>. QED
  BY <1>1, <1>9, <1>10, <1>11, <1>12, <1>13, Zenon DEF Inv

\* Consumer steps that leave the ring alone and release nothing.
LEMMA ConsumerLooks ==
  ASSUME Inv, PopNothing \/ BeginPop \/ ReadData
  PROVE  Inv'
<1>. USE DEF PopNothing, BeginPop, ReadData, producerVars
<1>1. TypeOK'
  BY SlotExists, Zenon DEF Inv, TypeOK
<1>2. Released' = Released /\ Released = dequeue_pos /\ dequeue_pos \in Nat /\ enqueue_pos \in Nat
  BY Zenon DEF Inv, Released, TypeOK
<1>3. \A t : Holders(t)' = Holders(t)
  BY Zenon DEF Holders, Holds
<1>4. TicketsFit' /\ DrawnSlots' /\ FreeSlots'
  BY <1>2, <1>3, Zenon DEF Inv, TicketsFit, DrawnSlots, FreeSlots
<1>5. ProducerKnows'
  BY <1>2, Zenon DEF Inv, ProducerKnows, Holds
<1>6. ConsumerKnows'
  <2>1. HeadPublished => sequence[SlotOf(dequeue_pos)] = dequeue_pos + 1
    <3>1. CASE dequeue_pos < enqueue_pos
      BY <3>1, <1>2 DEF Inv, DrawnSlots, HeadPublished
    <3>2. CASE dequeue_pos = enqueue_pos
      BY <3>2, <1>2, CapacityAssumption DEF Inv, FreeSlots, HeadPublished
    <3>. QED
      BY <3>1, <3>2, <1>2 DEF Inv, TicketsFit
  <2>. QED
    BY <2>1, Zenon DEF Inv, ConsumerKnows
<1>. QED
  BY <1>1, <1>4, <1>5, <1>6, Zenon DEF Inv

\* Releasing the slot makes it free for the ticket one lap later.
LEMMA ReleaseSlotInv ==
  ASSUME Inv, ReleaseSlot
  PROVE  Inv'
<1>. USE DEF ReleaseSlot, producerVars
<1>. PICK d \in Nat : d = dequeue_pos
  BY Zenon DEF Inv, TypeOK
<1>1. TypeOK'
  BY SlotExists, CapacityAssumption DEF Inv, TypeOK
<1>2. Released = d /\ Released' = d + 1 /\ enqueue_pos \in Nat
  BY Zenon DEF Inv, Released, TypeOK
<1>3. sequence[SlotOf(d)] = d + 1
  BY Zenon DEF Inv, ConsumerKnows
<1>4. d < enqueue_pos
  <2>. SUFFICES ASSUME d = enqueue_pos
                PROVE  FALSE
    BY <1>2 DEF Inv, TicketsFit
  <2>. QED
    BY <1>2, <1>3, CapacityAssumption DEF Inv, FreeSlots
<1>5. Holders(d) = {}
  BY <1>2, <1>3, <1>4 DEF Inv, DrawnSlots
<1>6. \A t : Holders(t)' = Holders(t)
  BY Zenon DEF Holders, Holds
<1>7. sequence'[SlotOf(d)] = d + Capacity
  BY SlotExists, Zenon DEF Inv, TypeOK
<1>8. \A t \in Nat : SlotOf(t) # SlotOf(d) => sequence'[SlotOf(t)] = sequence[SlotOf(t)]
  BY SlotExists, Zenon DEF Inv, TypeOK
<1>9. TicketsFit'
  BY <1>2, <1>4, CapacityAssumption DEF Inv, TicketsFit
<1>10. DrawnSlots'
  <2>. SUFFICES ASSUME NEW t \in (d + 1)..(enqueue_pos - 1)
                PROVE  \/ sequence'[SlotOf(t)] = t /\ \E q \in Producers : Holders(t)' = {q}
                       \/ sequence'[SlotOf(t)] = t + 1 /\ Holders(t)' = {}
    BY <1>2, Zenon DEF DrawnSlots
  <2>1. t \in Nat /\ d < t /\ t < d + Capacity
    BY <1>2, CapacityAssumption DEF Inv, TicketsFit
  <2>2. sequence'[SlotOf(t)] = sequence[SlotOf(t)]
    BY <2>1, <1>8, SlotsDiffer, Zenon
  <2>. QED
    BY <2>1, <2>2, <1>2, <1>6 DEF Inv, DrawnSlots
<1>11. FreeSlots'
  <2>. SUFFICES ASSUME NEW t \in enqueue_pos..(d + Capacity)
                PROVE  sequence'[SlotOf(t)] = t
    BY <1>2, CapacityAssumption DEF FreeSlots
  <2>1. CASE t = d + Capacity
    BY <2>1, <1>7, NextLap, Zenon
  <2>2. CASE t # d + Capacity
    <3>1. t \in Nat /\ d < t /\ t < d + Capacity
      BY <2>2, <1>2, <1>4, CapacityAssumption
    <3>2. sequence'[SlotOf(t)] = sequence[SlotOf(t)]
      BY <3>1, <1>8, SlotsDiffer, Zenon
    <3>. QED
      BY <3>1, <3>2, <1>2, CapacityAssumption DEF Inv, FreeSlots
  <2>. QED
    BY <2>1, <2>2, Zenon
<1>12. ProducerKnows'
  <2>. SUFFICES ASSUME NEW q \in Producers
                PROVE  /\ Holds(q) => d + 1 <= pos[q]
                       /\ pc[q] = "cas" => sequence'[SlotOf(pos[q])] >= pos[q]
    BY <1>2, Zenon DEF Inv, ProducerKnows, Holds
  <2>1. pos[q] \in Nat
    BY Zenon DEF Inv, TypeOK
  <2>2. Holds(q) => d + 1 <= pos[q]
    BY <2>1, <1>2, <1>5 DEF Inv, ProducerKnows, Holders
  <2>3. ASSUME pc[q] = "cas"
        PROVE  sequence'[SlotOf(pos[q])] >= pos[q]
    <3>1. sequence[SlotOf(pos[q])] >= pos[q]
      BY <2>3, Zenon DEF Inv, ProducerKnows
    <3>2. CASE SlotOf(pos[q]) = SlotOf(d)
      BY <3>1, <3>2, <1>3, <1>7, <2>1, CapacityAssumption
    <3>3. CASE SlotOf(pos[q]) # SlotOf(d)
      BY <3>1, <3>3, <1>8, <2>1, Zenon
    <3>. QED
      BY <3>2, <3>3, Zenon
  <2>. QED
    BY <2>2, <2>3, Zenon
<1>13. ConsumerKnows'
  BY Zenon DEF ConsumerKnows
<1>. QED
  BY <1>1, <1>9, <1>10, <1>11, <1>12, <1>13, Zenon DEF Inv

\* ++dequeue_pos_ only lets the consumer forget the released ticket.
LEMMA AdvanceInv ==
  ASSUME Inv, Advance
  PROVE  Inv'
<1>. USE DEF Advance, producerVars
<1>1. TypeOK'
  BY DEF Inv, TypeOK
<1>2. Released' = Released
  BY Zenon DEF Inv, Released, TypeOK
<1>3. \A t : Holders(t)' = Holders(t)
  BY Zenon DEF Holders, Holds
<1>4. TicketsFit' /\ DrawnSlots' /\ FreeSlots'
  BY <1>2, <1>3, Zenon DEF Inv, TicketsFit, DrawnSlots, FreeSlots
<1>5. ProducerKnows' /\ ConsumerKnows'
  BY <1>2, Zenon DEF Inv, ProducerKnows, ConsumerKnows, Holds
<1>. QED
  BY <1>1, <1>4, <1>5, Zenon DEF Inv

\* Every step of every thread preserves the invariant.
LEMMA NextInv == Inv /\ [Next]_vars => Inv'
<1>. SUFFICES ASSUME Inv, [Next]_vars
              PROVE  Inv'
  BY Zenon
<1>1. ASSUME NEW p \in Producers, NEW t \in Trades, BeginPush(p, t)
      PROVE  Inv'
  BY <1>1, LookingAround, ZenonT(60) DEF BeginPush, Goto, Holds, Inv, TypeOK
<1>2. ASSUME NEW p \in Producers, SeeFree(p) \/ SeeFull(p) \/ SeeTaken(p)
      PROVE  Inv'
  <2>1. CASE SeeFree(p)
    <3>1. sequence[SlotOf(pos'[p])] >= pos'[p] /\ pc'[p] = "cas" /\ ~Holds(p)
      BY <2>1 DEF SeeFree, Goto, Holds, Inv, TypeOK
    <3>. QED
      BY <2>1, <3>1, LookingAround, ZenonT(60) DEF SeeFree, Goto, Inv, TypeOK
  <2>2. CASE SeeFull(p)
    BY <2>2, LookingAround, ZenonT(60) DEF SeeFull, Goto, Holds, Inv, TypeOK
  <2>3. CASE SeeTaken(p)
    BY <2>3, LookingAround, ZenonT(60) DEF SeeTaken, Goto, Holds, Inv, TypeOK
  <2>. QED
    BY <1>2, <2>1, <2>2, <2>3, Zenon
<1>3. ASSUME NEW p \in Producers, Reload(p) \/ FailClaim(p)
      PROVE  Inv'
  BY <1>3, LookingAround, SMTT(60) DEF Reload, FailClaim, Goto, Holds, Inv, TypeOK
<1>4. ASSUME NEW p \in Producers, Claim(p) \/ WriteData(p) \/ Publish(p)
      PROVE  Inv'
  BY <1>4, ClaimInv, WriteDataInv, PublishInv, Zenon
<1>5. CASE PopStep
  BY <1>5, ConsumerLooks, ReleaseSlotInv, AdvanceInv, Zenon DEF PopStep
<1>6. CASE UNCHANGED vars
  BY <1>6, SMTT(60) DEF vars, producerVars, consumerVars, Inv, TypeOK, TicketsFit, DrawnSlots,
              FreeSlots, ProducerKnows, ConsumerKnows, Released, Holders, Holds
<1>. QED
  BY <1>1, <1>2, <1>3, <1>4, <1>5, <1>6, Zenon DEF Next, PushStep

\* The slots' numbers always tell, for every outstanding ticket, whether one
\* producer holds it or the consumer may take it (trade_queue.hpp, try_push and
\* try_pop).
THEOREM Invariance == Spec => []Inv
BY InitInv, NextInv, PTL DEF Spec

\* No two threads ever access slot.data of one slot at once, although nothing
\* but the slot's sequence number protects it.
THEOREM DataRaceFreedom == Spec => []NoDataRace
<1>1. Inv => NoDataRace
  <2>. SUFFICES ASSUME Inv, NEW p \in Producers, pc[p] = "write"
                PROVE  /\ \A q \in Producers \ {p} :
                            pc[q] = "write" => SlotOf(pos[q]) # SlotOf(pos[p])
                       /\ consumer_pc = "read" => SlotOf(dequeue_pos) # SlotOf(pos[p])
    BY Zenon DEF NoDataRace
  <2>1. Holds(p) /\ pos[p] \in Nat /\ dequeue_pos \in Nat /\ enqueue_pos \in Nat
    BY Zenon DEF Holds, Inv, TypeOK
  <2>2. ASSUME NEW q \in Producers \ {p}, pc[q] = "write"
        PROVE  SlotOf(pos[q]) # SlotOf(pos[p])
    <3>1. Holds(q)
      BY <2>2, Zenon DEF Holds
    <3>. QED
      BY <2>1, <2>2, <3>1, OneHolder, HeldSlot, OutstandingDistinct, Zenon
  <2>3. ASSUME consumer_pc = "read"
        PROVE  SlotOf(dequeue_pos) # SlotOf(pos[p])
    <3>1. Released = dequeue_pos /\ sequence[SlotOf(dequeue_pos)] = dequeue_pos + 1
      BY <2>3, Zenon DEF Released, Inv, ConsumerKnows
    <3>2. pos[p] >= dequeue_pos /\ pos[p] < dequeue_pos + Capacity
          /\ sequence[SlotOf(pos[p])] = pos[p]
      BY <2>1, <3>1, HeldSlot, CapacityAssumption, SMTT(60) DEF Inv, TicketsFit
    <3>3. pos[p] # dequeue_pos
      BY <2>1, <3>1, <3>2
    <3>. QED
      BY <2>1, <3>2, <3>3, SlotsDiffer
  <2>. QED
    BY <2>2, <2>3, Zenon
<1>. QED
  BY <1>1, Invariance, PTL

\* No slot's number ever goes back, so the load of line 140 stays good until the
\* compare-and-swap of line 144 however long the producer sleeps in between.
THEOREM SequenceMonotone == Spec => SequenceGrows
<1>. DEFINE Grows == \A i \in Slots : sequence'[i] >= sequence[i]
<1>1. ASSUME Inv, [Next]_vars
      PROVE  [Grows]_vars
  <2>. SUFFICES ASSUME NEW i \in Slots
                PROVE  sequence'[i] >= sequence[i]
    BY Zenon
  <2>1. sequence[i] \in Nat
    BY <1>1, Zenon DEF Inv, TypeOK
  <2>2. ASSUME NEW p \in Producers, Publish(p)
        PROVE  sequence'[i] >= sequence[i]
    <3>1. sequence[SlotOf(pos[p])] = pos[p] /\ pos[p] \in Nat
      BY <1>1, <2>2, HeldSlot, Zenon DEF Publish, Holds, Inv, TypeOK
    <3>. QED
      BY <1>1, <2>1, <2>2, <3>1 DEF Publish, Inv, TypeOK
  <2>3. CASE ReleaseSlot
    <3>1. sequence[SlotOf(dequeue_pos)] = dequeue_pos + 1 /\ dequeue_pos \in Nat
      BY <1>1, <2>3, Zenon DEF ReleaseSlot, Inv, ConsumerKnows, TypeOK
    <3>. QED
      BY <1>1, <2>1, <2>3, <3>1, CapacityAssumption DEF ReleaseSlot, Inv, TypeOK
  <2>4. ASSUME UNCHANGED sequence
        PROVE  sequence'[i] >= sequence[i]
    BY <2>1, <2>4
  <2>. QED
    BY <1>1, <2>2, <2>3, <2>4
      , Zenon DEF Next, PushStep, PopStep, BeginPush, SeeFree, SeeFull, SeeTaken, Reload, Claim,
           FailClaim, WriteData, PopNothing, BeginPop, ReadData, Advance, vars
<1>. QED
  BY <1>1, Invariance, PTL DEF Spec, SequenceGrows

-----------------------------------------------------------------------------
(* The ring implements the bounded queue *)

\* Every slot is the slot of one of any Capacity tickets in a row.
LEMMA SlotInLap ==
  ASSUME NEW a \in Nat, NEW r \in Nat
  PROVE  \E t \in r..(r + Capacity - 1) : SlotOf(t) = SlotOf(a)
<1>. DEFINE qa == a \div Capacity
            ra == a % Capacity
            qr == r \div Capacity
            rr == r % Capacity
            k == IF ra >= rr THEN qr ELSE qr + 1
            t == (Capacity * k) + ra
            qt == t \div Capacity
            rt == t % Capacity
<1>1. a = (Capacity * qa) + ra /\ qa \in Int /\ ra \in 0..(Capacity - 1)
  BY DivMod, CapacityAssumption
<1>2. r = (Capacity * qr) + rr /\ qr \in Int /\ rr \in 0..(Capacity - 1)
  BY DivMod, CapacityAssumption
<1>3. t \in r..(r + Capacity - 1)
  <2>. HIDE DEF qa, ra, qr, rr
  <2>1. Capacity * (qr + 1) = (Capacity * qr) + Capacity /\ Capacity * qr \in Int
    BY <1>2, CapacityAssumption
  <2>. QED
    BY <1>1, <1>2, <2>1, CapacityAssumption
<1>4. t = (Capacity * qt) + rt /\ qt \in Int /\ rt \in 0..(Capacity - 1)
  <2>1. t \in Nat
    BY <1>3
  <2>. HIDE DEF t
  <2>. QED
    BY <2>1, DivMod, CapacityAssumption
<1>5. k \in Int
  BY <1>2
<1>6. t = (Capacity * k) + ra
  BY Zenon
<1>. HIDE DEF qa, ra, qr, rr, k, t, qt, rt
<1>7. Capacity * (qt - k) = ra - rt
  <2>1. Capacity * (qt - k) = (Capacity * qt) - (Capacity * k)
    BY <1>4, <1>5, CapacityAssumption
  <2>. QED
    BY <1>1, <1>4, <1>5, <1>6, <2>1, CapacityAssumption
<1>8. qt - k = 0
  BY <1>1, <1>4, <1>5, <1>7, SmallMultiple, CapacityAssumption
<1>9. ra = rt
  BY <1>1, <1>4, <1>5, <1>7, <1>8, CapacityAssumption
<1>. QED
  BY <1>3, <1>9, Zenon DEF SlotOf, rt, ra

\* A sequence of n + 1 elements that starts with the n of another is that one
\* with an element appended.
LEMMA AppendIs ==
  ASSUME NEW n \in Nat, NEW s, NEW t,
         s = [i \in 1..n |-> s[i]],
         t = [i \in 1..(n + 1) |-> t[i]],
         \A i \in 1..n : t[i] = s[i]
  PROVE  Len(s) = n /\ t = Append(s, t[n + 1])
<1>1. Len(s) = n
  OBVIOUS
<1>. QED
  BY <1>1

\* A sequence of n elements that has the last n of another's n + 1 is its tail.
LEMMA TailIs ==
  ASSUME NEW n \in Nat, NEW s, NEW t,
         s = [i \in 1..(n + 1) |-> s[i]],
         t = [i \in 1..n |-> t[i]],
         \A i \in 1..n : t[i] = s[i + 1]
  PROVE  s # <<>> /\ Head(s) = s[1] /\ t = Tail(s)
<1>1. Len(s) = n + 1
  OBVIOUS
<1>2. s # <<>> /\ Head(s) = s[1]
  BY <1>1
<1>3. Tail(s) = [i \in 1..n |-> s[i + 1]]
  BY <1>1
<1>. QED
  BY <1>2, <1>3, ZenonT(30)

\* There are as many places as tickets that are drawn and not released.
LEMMA PlacesLength ==
  Inv => /\ Released \in Nat /\ enqueue_pos \in Nat /\ enqueue_pos - Released \in Nat
         /\ Places = [i \in 1..(enqueue_pos - Released) |-> Places[i]]
         /\ Len(Places) = enqueue_pos - Released
         /\ \A i \in 1..(enqueue_pos - Released) : Places[i] = Place(Released + i - 1)
<1>. SUFFICES ASSUME Inv
              PROVE  /\ Released \in Nat /\ enqueue_pos \in Nat /\ enqueue_pos - Released \in Nat
                     /\ Places = [i \in 1..(enqueue_pos - Released) |-> Places[i]]
                     /\ Len(Places) = enqueue_pos - Released
                     /\ \A i \in 1..(enqueue_pos - Released) :
                          Places[i] = Place(Released + i - 1)
  BY Zenon
<1>1. Released \in Nat /\ enqueue_pos \in Nat
  BY DEF Inv, TypeOK, Released
<1>2. enqueue_pos - Released \in Nat
  BY <1>1 DEF Inv, TicketsFit
<1>. QED
  BY <1>1, <1>2 DEF Places

\* A successful compare-and-swap takes the next place.
LEMMA ClaimReserves ==
  ASSUME Inv, Inv', NEW p \in Producers, Claim(p)
  PROVE  Queue!Reserve(p)
<1>. PICK e \in Nat, r \in Nat : e = enqueue_pos /\ r = Released
  BY PlacesLength, Zenon
<1>. DEFINE n == e - r
<1>1. Released' = r /\ enqueue_pos' = e + 1 /\ pos[p] = e
  BY Zenon DEF Claim, Released, consumerVars
<1>2. Holders(e)' = {p} /\ \A t \in Nat : t # e => Holders(t)' = Holders(t)
  <2>1. \A q \in Producers : Holds(q) => pos[q] < e
    BY Zenon DEF Inv, ProducerKnows
  <2>2. pos' = pos /\ Holds(p)' /\ ~Holds(p) /\ \A q \in Producers \ {p} : Holds(q)' <=> Holds(q)
    BY Zenon DEF Claim, Goto, Holds, Inv, TypeOK
  <2>3. pos \in [Producers -> Nat]
    BY Zenon DEF Inv, TypeOK
  <2> QED
    BY <1>1, <2>1, <2>2, <2>3 DEF Holders
<1>3. \A t \in Nat : t # e => Place(t)' = Place(t)
  BY <1>2, Zenon DEF Place, Claim
<1>4. Place(e)' = [trade |-> NoTrade, writing |-> {p}]
  BY <1>2, Zenon DEF Place
<1>5. n \in Nat /\ Len(Places) = n /\ e = r + n
  BY PlacesLength
<1>6. Places = [i \in 1..n |-> Places[i]] /\ \A i \in 1..n : Places[i] = Place(r + i - 1)
  BY PlacesLength, Zenon
<1>7. Places' = [i \in 1..(n + 1) |-> Place(r + i - 1)']
  BY <1>1, <1>5 DEF Places
<1>8. Len(Places) < Capacity
  BY <1>1, <1>5, CapacityAssumption DEF Inv, TicketsFit
<1>. HIDE DEF n
<1>9. Places' = Append(Places, [trade |-> NoTrade, writing |-> {p}])
  <2>1. Places' = [i \in 1..(n + 1) |-> Places'[i]]
    BY <1>7, <1>5, Zenon
  <2>2. \A i \in 1..n : Places'[i] = Places[i]
    BY <1>3, <1>5, <1>6, <1>7, SMTT(30)
  <2>3. Places'[n + 1] = [trade |-> NoTrade, writing |-> {p}]
    BY <1>4, <1>5, <1>7
  <2>. QED
    BY <1>5, <1>6, <2>1, <2>2, <2>3, AppendIs
<1>10. Calls[p] = "calling" /\ Calls' = [Calls EXCEPT ![p] = "reserved"]
  BY ZenonT(30) DEF Calls, Claim, Goto, Holds, Inv, TypeOK
<1>11. UNCHANGED <<arg, result, Delivered>>
  BY Zenon DEF Claim, Delivered, consumerVars
<1>. QED
  BY <1>8, <1>9, <1>10, <1>11, Zenon DEF Queue!Reserve

\* A slot whose number is behind the ticket is a full ring: the ticket is the
\* next one, and Capacity tickets are outstanding.
LEMMA FullRing ==
  ASSUME Inv, NEW p \in Producers, sequence[SlotOf(pos[p])] < pos[p]
  PROVE  enqueue_pos = Released + Capacity
<1>. PICK m \in Nat : m = pos[p]
  BY Zenon DEF Inv, TypeOK
<1>1. Released \in Nat /\ enqueue_pos \in Nat /\ m <= enqueue_pos
  BY DEF Inv, TypeOK, Released, ProducerKnows
<1>2. enqueue_pos <= Released + Capacity /\ Released <= enqueue_pos
  BY Zenon DEF Inv, TicketsFit
<1>3. \A t \in Released..(Released + Capacity - 1) : sequence[SlotOf(t)] >= t
  <2>. SUFFICES ASSUME NEW t \in Released..(Released + Capacity - 1)
                PROVE  sequence[SlotOf(t)] >= t
    BY Zenon
  <2>1. t \in Released..(enqueue_pos - 1) \/ t \in enqueue_pos..(Released + Capacity - 1)
    BY <1>1, CapacityAssumption
  <2>. QED
    BY <1>1, <2>1, CapacityAssumption DEF Inv, DrawnSlots, FreeSlots
<1>4. ~(m \in Released..(Released + Capacity - 1))
  <2>1. sequence[SlotOf(m)] < m /\ sequence[SlotOf(m)] \in Nat
    BY SlotExists, Zenon DEF Inv, TypeOK
  <2>. QED
    BY <1>3, <2>1
<1>5. ~(m < Released)
  <2>. SUFFICES ASSUME m < Released
                PROVE  FALSE
    BY Zenon
  <2>. PICK t \in Released..(Released + Capacity - 1) : SlotOf(t) = SlotOf(m)
    BY <1>1, SlotInLap, Zenon
  <2>1. sequence[SlotOf(m)] >= t
    BY <1>3, Zenon
  <2>2. sequence[SlotOf(m)] \in Nat
    BY SlotExists, Zenon DEF Inv, TypeOK
  <2>. QED
    BY <1>1, <2>1, <2>2, CapacityAssumption
<1>. QED
  BY <1>1, <1>2, <1>4, <1>5, CapacityAssumption

\* try_push returns false only when every place is taken.
LEMMA SeeFullRefuses ==
  ASSUME Inv, NEW p \in Producers, SeeFull(p)
  PROVE  Queue!Refuse(p)
<1>1. Len(Places) = Capacity
  BY FullRing, PlacesLength, CapacityAssumption DEF SeeFull
<1>2. Calls[p] = "calling" /\ Calls' = [Calls EXCEPT ![p] = "idle"]
  BY ZenonT(30) DEF Calls, SeeFull, Goto, Holds, Inv, TypeOK
<1>3. Released' = Released /\ \A t : Holders(t)' = Holders(t)
  BY Zenon DEF SeeFull, Goto, Released, Holders, Holds, consumerVars, Inv, TypeOK
<1>4. Places' = Places
  BY <1>3, Zenon DEF Places, Place, SeeFull
<1>5. UNCHANGED <<arg, Delivered>> /\ result' = [result EXCEPT ![p] = FALSE]
  BY Zenon DEF SeeFull, Delivered, consumerVars
<1>. QED
  BY <1>1, <1>2, <1>4, <1>5, Zenon DEF Queue!Refuse

\* The store of the slot's number makes the trade of one place available.
LEMMA PublishPublishes ==
  ASSUME Inv, Inv', NEW p \in Producers, Publish(p)
  PROVE  Queue!Publish(p)
<1>. PICK e \in Nat, r \in Nat, m \in Nat : e = enqueue_pos /\ r = Released /\ m = pos[p]
  BY PlacesLength, Zenon DEF Inv, TypeOK
<1>. DEFINE n == e - r
            i == m - r + 1
<1>1. Released' = r /\ enqueue_pos' = e
  BY Zenon DEF Publish, Released, consumerVars
<1>2. m \in r..(e - 1) /\ Holders(m) = {p}
  BY HeldSlot, Zenon DEF Publish, Holds
<1>3. Holders(m)' = {} /\ \A t \in Nat : t # m => Holders(t)' = Holders(t)
  <2>1. pos' = pos /\ ~Holds(p)' /\ \A q \in Producers \ {p} : Holds(q)' <=> Holds(q)
    BY Zenon DEF Publish, Goto, Holds, Inv, TypeOK
  <2> QED
    BY <1>2, <2>1 DEF Holders
<1>4. \A t \in Nat : t # m => Place(t)' = Place(t)
  BY <1>3, Zenon DEF Place, Publish
<1>5. Place(m)' = [trade |-> arg[p], writing |-> {}]
  <2>1. data' = data /\ data[SlotOf(m)] = arg[p]
    BY Zenon DEF Publish, Inv, ProducerKnows
  <2> QED
    BY <1>3, <2>1, Zenon DEF Place
<1>6. n \in Nat /\ e = r + n /\ i \in 1..n /\ m = r + i - 1
  BY <1>2, PlacesLength, SMTT(30)
<1>7. Places = [j \in 1..n |-> Place(r + j - 1)] /\ Places' = [j \in 1..n |-> Place(r + j - 1)']
  BY <1>1, Zenon DEF Places
<1>. HIDE DEF n, i
<1>8. i \in DOMAIN Places /\ Places[i].writing = {p}
  BY <1>2, <1>6, <1>7, Zenon DEF Place
<1>9. Places' = [Places EXCEPT ![i] = [trade |-> arg[p], writing |-> {}]]
  <2>1. ASSUME NEW j \in 1..n, j # i
        PROVE  Places'[j] = Places[j]
    BY <1>4, <1>6, <1>7, <2>1
  <2>2. Places'[i] = [trade |-> arg[p], writing |-> {}]
    BY <1>5, <1>6, <1>7, Zenon
  <2> QED
    BY <1>7, <2>1, <2>2, ZenonT(30)
<1>10. Calls[p] = "reserved" /\ Calls' = [Calls EXCEPT ![p] = "idle"]
  BY ZenonT(30) DEF Calls, Publish, Goto, Holds, Inv, TypeOK
<1>11. UNCHANGED <<arg, Delivered>> /\ result' = [result EXCEPT ![p] = TRUE]
  BY Zenon DEF Publish, Delivered, consumerVars
<1>. QED
  BY <1>8, <1>9, <1>10, <1>11, ZenonT(30) DEF Queue!Publish

\* The store that releases a slot takes the trade of the oldest place.
LEMMA ReleaseTakes ==
  ASSUME Inv, Inv', ReleaseSlot
  PROVE  Queue!Take
<1>. PICK e \in Nat, d \in Nat : e = enqueue_pos /\ d = dequeue_pos
  BY Zenon DEF Inv, TypeOK
<1>. DEFINE n == e - (d + 1)
<1>1. Released = d /\ Released' = d + 1 /\ enqueue_pos' = e
  BY Zenon DEF ReleaseSlot, Released
<1>2. n \in Nat /\ e = d + 1 + n
  BY <1>1 DEF Inv, TicketsFit
<1>3. \A t : Holders(t)' = Holders(t) /\ Place(t)' = Place(t)
  BY Zenon DEF ReleaseSlot, Holders, Holds, producerVars, Place
<1>4. Places = [i \in 1..(n + 1) |-> Place(d + i - 1)]
  BY <1>1, <1>2 DEF Places
<1>5. Places' = [i \in 1..n |-> Place(d + 1 + i - 1)]
  BY <1>1, <1>2, <1>3, Zenon DEF Places
<1>6. sequence[SlotOf(d)] = d + 1 /\ trade = data[SlotOf(d)] /\ trade' = trade
  BY Zenon DEF ReleaseSlot, Inv, ConsumerKnows
<1>7. Holders(d) = {}
  BY <1>1, <1>2, <1>6 DEF Inv, DrawnSlots
<1>8. Place(d) = [trade |-> trade, writing |-> {}]
  BY <1>6, <1>7, Zenon DEF Place
<1>. HIDE DEF n
<1>9. Places # <<>> /\ Head(Places) = Place(d) /\ Places' = Tail(Places)
  <2>1. \A i \in 1..n : Places'[i] = Places[i + 1]
    BY <1>2, <1>4, <1>5
  <2>2. Places = [i \in 1..(n + 1) |-> Places[i]] /\ Places' = [i \in 1..n |-> Places'[i]]
    BY <1>4, <1>5, Zenon
  <2>3. Places[1] = Place(d)
    BY <1>2, <1>4
  <2>4. n \in Nat
    BY <1>2, Zenon
  <2>5. Places # <<>> /\ Head(Places) = Places[1] /\ Places' = Tail(Places)
    BY <2>1, <2>2, <2>4, TailIs, Zenon
  <2> QED
    BY <2>3, <2>5, Zenon
<1>10. Delivered' = trade
  BY <1>6, Zenon DEF Delivered, ReleaseSlot
<1>11. UNCHANGED <<Calls, arg, result>>
  BY Zenon DEF ReleaseSlot, Calls, Holds, producerVars
<1>12. Head(Places).writing = {} /\ Head(Places).trade = trade
  BY <1>8, <1>9
<1>. QED
  BY <1>9, <1>10, <1>11, <1>12, Zenon DEF Queue!Take

\* try_pop returns nullopt only when nothing is queued or the oldest place is
\* still being written.
LEMMA PopNothingFinds ==
  ASSUME Inv, PopNothing
  PROVE  Queue!FindNothing
<1>. PICK e \in Nat, d \in Nat : e = enqueue_pos /\ d = dequeue_pos
  BY Zenon DEF Inv, TypeOK
<1>1. Released = d /\ Released' = d
  BY Zenon DEF PopNothing, Released
<1>2. Places' = Places
  BY <1>1, Zenon DEF Places, Place, Holders, Holds, PopNothing, producerVars
<1>3. ASSUME Places # <<>>
      PROVE  Head(Places).writing # {}
  <2>1. Places = [i \in 1..(e - d) |-> Place(d + i - 1)]
    BY <1>1, Zenon DEF Places
  <2>2. e - d \in Nat /\ e - d # 0
    BY <1>1, <1>3, <2>1, PlacesLength
  <2>3. Head(Places) = Place(d)
    BY <2>1, <2>2
  <2>4. d \in Released..(enqueue_pos - 1) /\ sequence[SlotOf(d)] # d + 1
    BY <1>1, <2>2 DEF PopNothing, HeadPublished
  <2>5. Holders(d) # {}
    BY <2>4, Zenon DEF Inv, DrawnSlots
  <2> QED
    BY <2>3, <2>5 DEF Place
<1>4. Delivered' = NoTrade /\ UNCHANGED <<Calls, arg, result>>
  BY Zenon DEF PopNothing, Delivered, Calls, Holds, producerVars
<1>. QED
  BY <1>2, <1>3, <1>4, Zenon DEF Queue!FindNothing

\* The steps in between change nothing the queue's users can tell.
LEMMA InnerStutters ==
  ASSUME Inv,
         \/ \E p \in Producers : SeeFree(p) \/ SeeTaken(p) \/ Reload(p) \/ FailClaim(p)
         \/ \E p \in Producers : WriteData(p)
         \/ BeginPop \/ ReadData \/ Advance
         \/ UNCHANGED vars
  PROVE  UNCHANGED Queue!queueVars
<1>1. ASSUME NEW p \in Producers, SeeFree(p) \/ SeeTaken(p) \/ Reload(p) \/ FailClaim(p)
      PROVE  UNCHANGED Queue!queueVars
  <2>1. Released' = Released /\ UNCHANGED <<enqueue_pos, data, arg, result, Delivered>>
    BY <1>1, Zenon DEF SeeFree, SeeTaken, Reload, FailClaim, consumerVars, Released, Delivered
  <2>2. ~Holds(p) /\ ~Holds(p)' /\ pc[p] # "idle" /\ pc'[p] # "idle"
    BY <1>1, Zenon DEF SeeFree, SeeTaken, Reload, FailClaim, Goto, Holds, Inv, TypeOK
  <2>3. \A q \in Producers : q # p => pc'[q] = pc[q] /\ pos'[q] = pos[q]
    BY <1>1, Zenon DEF SeeFree, SeeTaken, Reload, FailClaim, Goto, Inv, TypeOK
  <2>4. Calls' = Calls
    BY <2>2, <2>3, Zenon DEF Calls, Holds
  <2>5. \A t : Holders(t)' = Holders(t)
    BY <2>2, <2>3, Zenon DEF Holders, Holds
  <2>6. Places' = Places
    BY <2>1, <2>5, Zenon DEF Places, Place
  <2> QED
    BY <2>1, <2>4, <2>6, Zenon DEF Queue!queueVars
<1>2. ASSUME NEW p \in Producers, WriteData(p)
      PROVE  UNCHANGED Queue!queueVars
  <2>1. Released' = Released /\ UNCHANGED <<enqueue_pos, pos, arg, result, Delivered>>
    BY <1>2, Zenon DEF WriteData, consumerVars, Released, Delivered
  <2>2. \A q \in Producers : (Holds(q)' <=> Holds(q)) /\ (pc'[q] = "idle" <=> pc[q] = "idle")
    BY <1>2, Zenon DEF WriteData, Goto, Holds, Inv, TypeOK
  <2>3. Calls' = Calls
    BY <2>2, Zenon DEF Calls
  <2>4. \A t : Holders(t)' = Holders(t)
    BY <2>1, <2>2, ZenonT(30) DEF Holders
  <2>5. ASSUME NEW t \in Released..(enqueue_pos - 1)
        PROVE  Place(t)' = Place(t)
    <3>1. CASE t = pos[p]
      <4>1. Holders(t) # {}
        BY <1>2, <3>1, Zenon DEF Holders, Holds, WriteData
      <4> QED
        BY <2>4, <4>1, Zenon DEF Place
    <3>2. CASE t # pos[p]
      <4>1. Holds(p)
        BY <1>2, Zenon DEF WriteData, Holds
      <4>2. SlotOf(t) # SlotOf(pos[p])
        BY <3>2, <4>1, HeldSlot, OutstandingDistinct, Zenon
      <4>3. data'[SlotOf(t)] = data[SlotOf(t)]
        BY <1>2, <4>2 DEF WriteData, Inv, TypeOK
      <4> QED
        BY <2>4, <4>3, Zenon DEF Place
    <3> QED
      BY <3>1, <3>2, Zenon
  <2>6. Places' = Places
    <3>. PICK e \in Nat, r \in Nat : e = enqueue_pos /\ r = Released
      BY PlacesLength, Zenon
    <3>1. Places = [i \in 1..(e - r) |-> Place(r + i - 1)]
          /\ Places' = [i \in 1..(e - r) |-> Place(r + i - 1)']
      BY <2>1, Zenon DEF Places
    <3>2. ASSUME NEW i \in 1..(e - r)
          PROVE  Place(r + i - 1)' = Place(r + i - 1)
      <4>1. r + i - 1 \in Released..(enqueue_pos - 1)
        OBVIOUS
      <4> QED
        BY <2>5, <4>1, Zenon
    <3> QED
      BY <3>1, <3>2, ZenonT(30)
  <2> QED
    BY <2>1, <2>3, <2>6, Zenon DEF Queue!queueVars
<1>3. ASSUME BeginPop \/ ReadData \/ Advance \/ UNCHANGED vars
      PROVE  UNCHANGED Queue!queueVars
  <2>1. UNCHANGED <<enqueue_pos, data, pc, pos, arg, result>>
    BY <1>3, Zenon DEF BeginPop, ReadData, Advance, producerVars, vars
  <2>2. Released' = Released /\ Delivered' = Delivered
    BY <1>3, Zenon DEF BeginPop, ReadData, Advance, vars, consumerVars, Released, Delivered
  <2>3. Calls' = Calls /\ \A t : Holders(t)' = Holders(t)
    BY <2>1, Zenon DEF Calls, Holders, Holds
  <2>4. Places' = Places
    BY <2>1, <2>2, <2>3, Zenon DEF Places, Place
  <2> QED
    BY <2>1, <2>2, <2>3, <2>4, Zenon DEF Queue!queueVars
<1>. QED
  BY <1>1, <1>2, <1>3, Zenon

\* The lock-free ring implements the bounded FIFO queue: what the consumer pops is
\* what was pushed, in ticket order and once each; try_push returns false only
\* with Capacity tickets outstanding; try_pop returns nullopt only when the oldest
\* outstanding ticket is not published.
THEOREM RingIsAQueue == Spec => ImplementsBoundedTradeQueue
<1>1. Init => Queue!Init
  <2>. SUFFICES ASSUME Init
                PROVE  Queue!Init
    BY Zenon
  <2>1. Released = 0 /\ enqueue_pos = 0
    BY Zenon DEF Init, Released
  <2>2. Places = <<>>
    BY <2>1 DEF Places
  <2>3. Calls = [p \in Producers |-> "idle"] /\ Delivered = NoTrade
    BY Zenon DEF Init, Calls, Delivered
  <2> QED
    BY <2>2, <2>3, Zenon DEF Init, Queue!Init
<1>2. ASSUME Inv, Inv', [Next]_vars
      PROVE  [Queue!Next]_(Queue!queueVars)
  <2>1. ASSUME NEW p \in Producers, NEW t \in Trades, BeginPush(p, t)
        PROVE  Queue!Call(p, t)
    <3>1. Calls[p] = "idle" /\ Calls' = [Calls EXCEPT ![p] = "calling"]
      BY <1>2, <2>1, ZenonT(30) DEF Calls, BeginPush, Goto, Holds, Inv, TypeOK
    <3>2. Released' = Released /\ UNCHANGED <<enqueue_pos, data, result, Delivered>>
          /\ arg' = [arg EXCEPT ![p] = t]
      BY <2>1, Zenon DEF BeginPush, consumerVars, Released, Delivered
    <3>3. ~Holds(p) /\ ~Holds(p)' /\ \A q \in Producers : q # p => pos'[q] = pos[q] /\ pc'[q] = pc[q]
      BY <1>2, <2>1, Zenon DEF BeginPush, Goto, Holds, Inv, TypeOK
    <3>4. \A u : Holders(u)' = Holders(u)
      BY <3>3, Zenon DEF Holders, Holds
    <3>5. Places' = Places
      BY <3>2, <3>4, Zenon DEF Places, Place
    <3> QED
      BY <3>1, <3>2, <3>5, Zenon DEF Queue!Call
  <2>2. ASSUME NEW p \in Producers, PushStep(p)
        PROVE  \/ Queue!Refuse(p) \/ Queue!Reserve(p) \/ Queue!Publish(p)
               \/ UNCHANGED Queue!queueVars
    BY <1>2, <2>2, SeeFullRefuses, ClaimReserves, PublishPublishes, InnerStutters, Zenon DEF PushStep
  <2>3. CASE PopStep
    BY <1>2, <2>3, PopNothingFinds, ReleaseTakes, InnerStutters, Zenon DEF PopStep, Queue!Next
  <2>4. CASE UNCHANGED vars
    BY <1>2, <2>4, InnerStutters, Zenon
  <2>. QED
    BY <1>2, <2>1, <2>2, <2>3, <2>4, Zenon DEF Next, Queue!Next
<1>. QED
  BY <1>1, <1>2, Invariance, PTL DEF Spec, ImplementsBoundedTradeQueue, Queue!Spec
=============================================================================

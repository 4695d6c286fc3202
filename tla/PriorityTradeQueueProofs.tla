---------------------- MODULE PriorityTradeQueueProofs ----------------------
(***************************************************************************)
(* Proofs about PriorityTradeQueue, for every capacity, every set of       *)
(* trades and any number of pushes.                                        *)
(***************************************************************************)
EXTENDS PriorityTradeQueue, TLAPS

\* The next slot is a slot.
LEMMA AfterType == \A i \in Slots : After(i) \in Slots
<1>1. CapacityPerLevel \in Nat \ {0}
  BY QueueAssumption
<1> QED
  BY <1>1, Z3 DEF Slots, After

\* The next slot, without the remainder.
LEMMA AfterCases ==
  ASSUME NEW i \in Slots
  PROVE  After(i) = IF i = CapacityPerLevel - 1 THEN 0 ELSE i + 1
<1>1. CapacityPerLevel \in Nat \ {0}
  BY QueueAssumption
<1> QED
  BY <1>1, Z3 DEF Slots, After

\* Two slots have different next slots.
LEMMA AfterInjective ==
  \A i, j \in Slots : After(i) = After(j) => i = j
  BY AfterCases, QueueAssumption DEF Slots

\* A trade goes to one of the levels.
LEMMA LevelType == \A p \in 0..255 : priority_to_level(p) \in Levels
<1> SUFFICES ASSUME NEW p \in 0..255 PROVE priority_to_level(p) \in Levels
  OBVIOUS
<1>1. {0, 1, 2, 3} \subseteq Levels
  BY DEF Levels, NumLevels
<1>2. priority_to_level(p) \in {0, 1, 2, 3}
  BY Zenon DEF priority_to_level
<1> QED
  BY <1>1, <1>2

TypeInv ==
  /\ head \in [Levels -> Slots] /\ tail \in [Levels -> Slots]
  /\ level \in Levels /\ scanned \in Levels
  /\ nonempty \subseteq Levels

Scans == consumer_pc \in {"scan", "read", "release"}

\* Inductive: the level the producer has found room in keeps room until the
\* producer uses it, and a level that the consumer has found a trade in, or that
\* had one when try_pop was called, keeps a trade.  Each of the two needs the
\* other: an index that moves must not meet the one that does not.
QueueInv ==
  /\ TypeInv
  /\ pc \in {"write", "publish"} => ~Full(level)
  /\ consumer_pc \in {"read", "release"} => HasTrade(scanned)
  /\ Scans => \A l \in nonempty : scanned <= l /\ HasTrade(l)
  /\ consumer_pc = "nothing" => nonempty = {}

\* The queue starts empty.
LEMMA QueueInvInit == Init => QueueInv
<1> SUFFICES ASSUME Init PROVE QueueInv
  OBVIOUS
<1>1. 0 \in Levels /\ 0 \in Slots
  BY QueueAssumption DEF Levels, NumLevels, Slots
<1> QED
  BY <1>1 DEF Init, QueueInv, TypeInv, Scans

\* The producer's steps keep it.
LEMMA ProducerKeepsInv ==
  ASSUME QueueInv, (\E t \in Trades : Call(t)) \/ Check \/ WriteSlot \/ Publish
  PROVE  QueueInv'
<1>1. ASSUME NEW t \in Trades, Call(t) PROVE QueueInv'
  <2>1. priority_to_level(Priority[t]) \in Levels
    BY LevelType, QueueAssumption
  <2> QED
    BY <1>1, <2>1 DEF Call, consumerVars, QueueInv, TypeInv, Scans, HasTrade
<1>2. CASE Check
  <2>1. UNCHANGED <<tail, level, head, consumer_pc, scanned, nonempty>>
    BY <1>2 DEF Check, consumerVars
  <2>2. pc' \in {"write", "publish"} => ~Full(level)
    BY <1>2 DEF Check
  <2> QED
    BY <2>1, <2>2 DEF QueueInv, TypeInv, Scans, HasTrade, Full
<1>3. CASE WriteSlot
  BY <1>3 DEF WriteSlot, consumerVars, QueueInv, TypeInv, Scans, HasTrade, Full
<1>4. CASE Publish
  <2>1. /\ UNCHANGED <<level, head, consumer_pc, scanned, nonempty>>
        /\ tail' = [tail EXCEPT ![level] = After(tail[level])]
        /\ pc = "publish" /\ pc' = "idle"
    BY <1>4 DEF Publish, consumerVars
  <2>2. tail' \in [Levels -> Slots]
    BY <2>1, AfterType DEF QueueInv, TypeInv
  <2>3. \A l \in Levels : HasTrade(l) => HasTrade(l)'
    BY <2>1 DEF QueueInv, TypeInv, HasTrade, Full
  <2> QED
    BY <2>1, <2>2, <2>3 DEF QueueInv, TypeInv, Scans
<1> QED
  BY <1>1, <1>2, <1>3, <1>4

\* The consumer's steps keep it.
LEMMA ConsumerKeepsInv ==
  ASSUME QueueInv, Pop \/ Skip \/ Find \/ ReadSlot \/ Release \/ ReturnNothing
  PROVE  QueueInv'
<1>1. CASE Pop
  <2>1. FirstLevel \in Levels /\ \A l \in Levels : FirstLevel <= l
    BY DEF FirstLevel, Levels, NumLevels
  <2> QED
    BY <1>1, <2>1 DEF Pop, producerVars, QueueInv, TypeInv, Scans, HasTrade, Full
<1>2. CASE Skip
  <2>1. /\ UNCHANGED <<head, tail, pc, level, nonempty>>
        /\ consumer_pc = "scan" /\ ~HasTrade(scanned)
    BY <1>2 DEF Skip, producerVars
  <2>2. \A l \in nonempty : l \in Levels /\ HasTrade(l) /\ scanned + 1 <= l
    BY <2>1 DEF QueueInv, TypeInv, Scans, Levels, NumLevels
  <2>3. CASE scanned + 1 < NumLevels
    <3>1. scanned' = scanned + 1 /\ consumer_pc' = "scan" /\ scanned' \in Levels
      BY <1>2, <2>1, <2>3 DEF Skip, QueueInv, TypeInv, Levels, NumLevels
    <3> QED
      BY <2>1, <2>2, <3>1 DEF QueueInv, TypeInv, Scans, HasTrade, Full
  <2>4. CASE ~(scanned + 1 < NumLevels)
    <3>1. scanned' = scanned /\ consumer_pc' = "nothing"
      BY <1>2, <2>4 DEF Skip
    <3>2. nonempty = {}
      BY <2>2, <2>4 DEF QueueInv, TypeInv, Levels, NumLevels
    <3> QED
      BY <2>1, <3>1, <3>2 DEF QueueInv, TypeInv, Scans, HasTrade, Full
  <2> QED
    BY <2>3, <2>4
<1>3. CASE Find
  BY <1>3 DEF Find, producerVars, QueueInv, TypeInv, Scans, HasTrade, Full
<1>4. CASE ReadSlot
  BY <1>4 DEF ReadSlot, producerVars, QueueInv, TypeInv, Scans, HasTrade, Full
<1>5. CASE Release
  <2>1. /\ UNCHANGED <<tail, pc, level, scanned, nonempty>>
        /\ head' = [head EXCEPT ![scanned] = After(head[scanned])]
        /\ consumer_pc = "release" /\ consumer_pc' = "idle"
    BY <1>5 DEF Release, Released, producerVars
  <2>2. head' \in [Levels -> Slots]
    BY <2>1, AfterType DEF QueueInv, TypeInv
  <2>3. \A l \in Levels : ~Full(l) => ~Full(l)'
    BY <2>1, AfterInjective DEF QueueInv, TypeInv, HasTrade, Full
  <2> QED
    BY <2>1, <2>2, <2>3 DEF QueueInv, TypeInv, Scans
<1>6. CASE ReturnNothing
  BY <1>6 DEF ReturnNothing, producerVars, QueueInv, TypeInv, Scans, HasTrade, Full
<1> QED
  BY <1>1, <1>2, <1>3, <1>4, <1>5, <1>6

\* QueueInv holds at every moment.
THEOREM QueueInvariance == Spec => []QueueInv
<1>1. QueueInv /\ [Next]_vars => QueueInv'
  <2> SUFFICES ASSUME QueueInv, [Next]_vars PROVE QueueInv'
    OBVIOUS
  <2>1. CASE UNCHANGED vars
    BY <2>1 DEF vars, producerVars, consumerVars, QueueInv, TypeInv, Scans, HasTrade, Full
  <2> QED
    BY <2>1, ProducerKeepsInv, ConsumerKeepsInv DEF Next
<1> QED
  BY <1>1, QueueInvInit, PTL DEF Spec

\* The producer never writes a slot the consumer may be reading, for every
\* capacity of at least two slots.
THEOREM SlotRaceFreedom == Spec => []NoDataRace
<1>1. QueueInv => NoDataRace
  BY DEF QueueInv, NoDataRace, HasTrade
<1> QED
  BY <1>1, QueueInvariance, PTL

\* try_pop takes from the highest level that had a trade when it was called, and
\* returns nullopt only if none had.
THEOREM HighestFirst == Spec => []PopsTheHighest
<1>1. QueueInv => PopsTheHighest
  BY DEF QueueInv, PopsTheHighest, Scans
<1> QED
  BY <1>1, QueueInvariance, PTL

-----------------------------------------------------------------------------
(* Each level implements the bounded queue *)

\* A number below two laps, modulo the ring.
LEMMA Wrap ==
  ASSUME NEW x \in 0..(2 * CapacityPerLevel - 1)
  PROVE  x % CapacityPerLevel = IF x < CapacityPerLevel THEN x ELSE x - CapacityPerLevel
<1>1. CapacityPerLevel \in Nat \ {0}
  BY QueueAssumption
<1> QED
  BY <1>1, Z3

\* How many trades lie between head_ and tail_, and that capacity() of them fill
\* the ring while none of them is an empty one.
LEMMA QueuedCases ==
  ASSUME TypeInv, NEW l \in Levels
  PROVE  /\ Queued(l) = IF tail[l] >= head[l] THEN tail[l] - head[l]
                        ELSE tail[l] + CapacityPerLevel - head[l]
         /\ Queued(l) \in 0..(CapacityPerLevel - 1)
         /\ Full(l) <=> Queued(l) = CapacityPerLevel - 1
         /\ HasTrade(l) <=> Queued(l) # 0
<1>1. tail[l] \in Slots /\ head[l] \in Slots
  BY DEF TypeInv
<1>2. CapacityPerLevel \in Nat \ {0, 1}
  BY QueueAssumption
<1>3. tail[l] + CapacityPerLevel - head[l] \in 0..(2 * CapacityPerLevel - 1)
  BY <1>1, <1>2 DEF Slots
<1>4. Queued(l) = IF tail[l] >= head[l] THEN tail[l] - head[l]
                  ELSE tail[l] + CapacityPerLevel - head[l]
  BY <1>1, <1>2, <1>3, Wrap DEF Queued, Slots
<1>5. After(tail[l]) = IF tail[l] = CapacityPerLevel - 1 THEN 0 ELSE tail[l] + 1
  BY <1>1, AfterCases
<1> QED
  BY <1>1, <1>2, <1>4, <1>5 DEF Full, HasTrade, Slots

\* The slot of the i-th trade, without the remainder.
LEMMA SlotCases ==
  ASSUME NEW h \in Slots, NEW i \in 1..CapacityPerLevel
  PROVE  (h + i - 1) % CapacityPerLevel
           = IF h + i - 1 < CapacityPerLevel THEN h + i - 1 ELSE h + i - 1 - CapacityPerLevel
<1>1. h + i - 1 \in 0..(2 * CapacityPerLevel - 1)
  BY QueueAssumption DEF Slots
<1>. PICK x \in 0..(2 * CapacityPerLevel - 1) : x = h + i - 1
  BY <1>1
<1>2. x % CapacityPerLevel = IF x < CapacityPerLevel THEN x ELSE x - CapacityPerLevel
  BY Wrap
<1> QED
  BY <1>2, QueueAssumption DEF Slots

\* Inductive, with QueueInv: what the producer has written in the slot of tail_ is
\* there when it moves tail_.
RingInv ==
  /\ buffer \in [Levels -> [Slots -> Trades \cup {NoTrade}]]
  /\ arg \in [Levels -> Trades \cup {NoTrade}]
  /\ result \in [Levels -> BOOLEAN]
  /\ got \in [Levels -> Trades \cup {NoTrade}]
  /\ pc \in {"idle", "check", "write", "publish"}
  /\ pc = "publish" => buffer[level][tail[level]] = arg[level]

\* RingInv holds at every moment.
LEMMA RingInvariance == Spec => []RingInv
<1>1. Init => RingInv
  BY Zenon DEF Init, RingInv
<1>2. ASSUME QueueInv, RingInv, [Next]_vars
      PROVE  RingInv'
  <2>. USE DEF producerVars, consumerVars
  <2>0. TypeInv
    BY <1>2 DEF QueueInv
  <2>1. ASSUME NEW t \in Trades, Call(t)
        PROVE  RingInv'
    <3>1. level' \in Levels
      BY <2>1, LevelType, QueueAssumption DEF Call
    <3>. QED
      BY <1>2, <2>1, <3>1 DEF Call, RingInv
  <2>2. CASE Check
    BY <1>2, <2>0, <2>2, ZenonT(30) DEF Check, RingInv, TypeInv
  <2>3. CASE WriteSlot
    BY <1>2, <2>0, <2>3 DEF WriteSlot, RingInv, TypeInv
  <2>4. CASE Publish
    BY <1>2, <2>0, <2>4 DEF Publish, RingInv, TypeInv
  <2>5. CASE Pop \/ Find \/ ReadSlot \/ ReturnNothing \/ UNCHANGED vars
    BY <1>2, <2>5 DEF Pop, Find, ReadSlot, ReturnNothing, vars, RingInv
  <2>6. CASE Skip
    BY <1>2, <2>0, <2>6 DEF Skip, RingInv, TypeInv
  <2>7. CASE Release
    BY <1>2, <2>0, <2>7 DEF Release, RingInv, TypeInv
  <2> QED
    BY <1>2, <2>1, <2>2, <2>3, <2>4, <2>5, <2>6, <2>7 DEF Next
<1> QED
  BY <1>1, <1>2, QueueInvariance, PTL DEF Spec

\* What a level's users cannot tell apart is a stuttering step of its queue.
LEMMA LevelStutters ==
  ASSUME NEW l \in Levels, Stored(l)' = Stored(l),
         (level = l /\ pc \in {"write", "publish"}) <=> (level' = l /\ pc' \in {"write", "publish"}),
         CallAt(l)' = CallAt(l), arg'[l] = arg[l], result'[l] = result[l], got'[l] = got[l]
  PROVE  UNCHANGED Level(l)!queueVars
<1>1. Contents(l)' = Contents(l)
  BY DEF Contents
<1> QED
  BY <1>1 DEF Level!queueVars

\* A level whose indices and slots stay as they are stores the same trades.
LEMMA StoredSame ==
  ASSUME NEW l \in Levels, UNCHANGED <<head[l], tail[l], buffer[l]>>
  PROVE  Stored(l)' = Stored(l)
BY DEF Stored, Queued

\* Nothing else is stored while the producer writes the slot of tail_.
LEMMA WriteStutters ==
  ASSUME QueueInv, RingInv, WriteSlot, NEW l \in Levels
  PROVE  UNCHANGED Level(l)!queueVars
<1>. USE DEF WriteSlot, consumerVars
<1>0. TypeInv
  BY DEF QueueInv
<1>1. CASE l = level
  <2>. PICK h \in Slots, t \in Slots : h = head[l] /\ t = tail[l]
    BY <1>0 DEF TypeInv
  <2>. PICK n \in 0..(CapacityPerLevel - 1) : n = Queued(l)
    BY <1>0, QueuedCases
  <2>1. \A i \in 1..n : (h + i - 1) % CapacityPerLevel # t
    <3>. TAKE i \in 1..n
    <3>1. i \in 1..CapacityPerLevel
      BY QueueAssumption
    <3>. PICK x : x = (h + i - 1) % CapacityPerLevel
      OBVIOUS
    <3>2. x = IF h + i - 1 < CapacityPerLevel THEN h + i - 1 ELSE h + i - 1 - CapacityPerLevel
      BY <3>1, SlotCases
    <3>3. n = IF t >= h THEN t - h ELSE t + CapacityPerLevel - h
      BY <1>0, QueuedCases
    <3>4. x # t
      BY <3>2, <3>3, QueueAssumption DEF Slots
    <3>. QED
      BY <3>4
  <2>2. Queued(l)' = Queued(l) /\ head'[l] = head[l]
    BY DEF Queued
  <2>3. \A s \in Slots : s # t => buffer'[l][s] = buffer[l][s]
    BY <1>0, <1>1 DEF RingInv, TypeInv
  <2>4. \A i \in 1..n : (h + i - 1) % CapacityPerLevel \in Slots
    <3>. TAKE i \in 1..n
    <3>1. h + i - 1 \in Nat /\ CapacityPerLevel \in Nat \ {0}
      BY QueueAssumption DEF Slots
    <3>. QED
      BY <3>1, Z3 DEF Slots
  <2>5. Stored(l)' = Stored(l)
    <3>. DEFINE before(i) == buffer[l][(h + i - 1) % CapacityPerLevel]
                after(i) == buffer'[l][(h + i - 1) % CapacityPerLevel]
    <3>1. Stored(l) = [i \in 1..n |-> [trade |-> before(i), writing |-> {}]]
      BY DEF Stored
    <3>2. Stored(l)' = [i \in 1..n |-> [trade |-> after(i), writing |-> {}]]
      BY <2>2 DEF Stored
    <3>3. \A i \in 1..n : after(i) = before(i)
      BY <2>1, <2>3, <2>4
    <3>. HIDE DEF before, after
    <3>4. [i \in 1..n |-> [trade |-> after(i), writing |-> {}]] = [i \in 1..n |-> [trade |-> before(i), writing |-> {}]]
      BY <3>3, SMTT(30)
    <3>. QED
      BY <3>1, <3>2, <3>4, Zenon
  <2>. QED
    BY <1>1, <2>5, LevelStutters DEF CallAt
<1>2. CASE l # level
  <2>1. UNCHANGED <<head[l], tail[l], buffer[l]>>
    BY <1>0, <1>2 DEF RingInv, TypeInv
  <2>. QED
    BY <1>2, <2>1, StoredSame, LevelStutters DEF CallAt
<1>. QED
  BY <1>1, <1>2

\* Calling try_push is a call at the trade's level.
LEMMA CallCalls ==
  ASSUME QueueInv, RingInv, NEW t \in Trades, Call(t), NEW l \in Levels
  PROVE  Level(l)!Call(Producer, t) \/ UNCHANGED Level(l)!queueVars
<1>. USE DEF Call, consumerVars
<1>1. Stored(l)' = Stored(l)
  BY StoredSame
<1>2. CASE l = level'
  <2>1. CallAt(l) = "idle" /\ CallAt(l)' = "calling" /\ Contents(l)' = Contents(l)
    BY <1>1, <1>2 DEF CallAt, Contents
  <2>2. arg'[l] = t /\ UNCHANGED <<result, got>>
    BY <1>2 DEF RingInv
  <2>. QED
    BY <2>1, <2>2, ZenonT(30) DEF Level!Call
<1>3. CASE l # level'
  <2>1. arg'[l] = arg[l] /\ UNCHANGED <<result, got>>
    BY <1>3 DEF RingInv
  <2>. QED
    BY <1>1, <1>3, <2>1, LevelStutters DEF CallAt
<1>. QED
  BY <1>2, <1>3

\* The test for room refuses the call when capacity() trades are stored, and
\* else reserves the slot of tail_.
LEMMA CheckDecides ==
  ASSUME QueueInv, RingInv, Check, NEW l \in Levels
  PROVE  \/ Level(l)!Refuse(Producer) \/ Level(l)!Reserve(Producer)
         \/ UNCHANGED Level(l)!queueVars
<1>. USE DEF Check, consumerVars
<1>0. TypeInv /\ Stored(l)' = Stored(l)
  BY StoredSame DEF QueueInv
<1>. PICK n \in 0..(CapacityPerLevel - 1) :
       /\ n = Queued(l)
       /\ Full(l) <=> n = CapacityPerLevel - 1
  BY <1>0, QueuedCases
<1>1. Len(Stored(l)) = n
  BY DEF Stored
<1>2. Contents(l) = Stored(l)
  BY DEF Contents
<1>3. CASE l = level /\ Full(l)
  <2>1. CallAt(l) = "calling" /\ CallAt(l)' = "idle" /\ Contents(l)' = Contents(l)
    BY <1>0, <1>2, <1>3 DEF CallAt, Contents
  <2>2. Len(Contents(l)) = CapacityPerLevel - 1
    BY <1>1, <1>2, <1>3
  <2>3. result'[l] = FALSE /\ UNCHANGED <<arg, got>>
    BY <1>3 DEF RingInv
  <2>. QED
    BY <2>1, <2>2, <2>3, ZenonT(30) DEF Level!Refuse
<1>4. CASE l = level /\ ~Full(l)
  <2>1. CallAt(l) = "calling" /\ CallAt(l)' = "reserved"
    BY <1>4 DEF CallAt
  <2>2. Contents(l)' = Append(Contents(l), [trade |-> NoTrade, writing |-> {Producer}])
    BY <1>0, <1>2, <1>4 DEF Contents
  <2>3. Len(Contents(l)) < CapacityPerLevel - 1
    BY <1>1, <1>2, <1>4, QueueAssumption
  <2>4. UNCHANGED <<arg, result, got>>
    BY <1>4
  <2>. QED
    BY <2>1, <2>2, <2>3, <2>4, SMTT(30) DEF Level!Reserve
<1>5. CASE l # level
  <2>1. result'[l] = result[l] /\ UNCHANGED <<arg, got, level>>
    BY <1>5 DEF RingInv
  <2>. QED
    BY <1>0, <1>5, <2>1, LevelStutters DEF CallAt
<1>. QED
  BY <1>3, <1>4, <1>5

\* Moving tail_ makes the trade of the reserved place available.
LEMMA PublishPublishes ==
  ASSUME QueueInv, RingInv, Publish, NEW l \in Levels
  PROVE  Level(l)!Publish(Producer) \/ UNCHANGED Level(l)!queueVars
<1>. USE DEF Publish, consumerVars
<1>0. TypeInv
  BY DEF QueueInv
<1>1. CASE l = level
  <2>. PICK h \in Slots, t \in Slots : h = head[l] /\ t = tail[l]
    BY <1>0 DEF TypeInv
  <2>. PICK n \in 0..(CapacityPerLevel - 1) : n = Queued(l) /\ n # CapacityPerLevel - 1
    BY <1>0, <1>1, QueuedCases DEF QueueInv
  <2>1. n = IF t >= h THEN t - h ELSE t + CapacityPerLevel - h
    BY <1>0, QueuedCases
  <2>2. Queued(l)' = n + 1
    <3>. PICK u \in Slots : u = After(t)
      BY AfterType
    <3>1. tail'[l] = u /\ head'[l] = h
      BY <1>0, <1>1 DEF TypeInv
    <3>2. u = IF t = CapacityPerLevel - 1 THEN 0 ELSE t + 1
      BY AfterCases
    <3>3. u + CapacityPerLevel - h \in 0..(2 * CapacityPerLevel - 1)
      BY QueueAssumption DEF Slots
    <3>. PICK y \in 0..(2 * CapacityPerLevel - 1) : y = u + CapacityPerLevel - h
      BY <3>3
    <3>4. Queued(l)' = y % CapacityPerLevel
      BY <3>1 DEF Queued
    <3>5. y % CapacityPerLevel = IF y < CapacityPerLevel THEN y ELSE y - CapacityPerLevel
      BY Wrap
    <3>6. (IF y < CapacityPerLevel THEN y ELSE y - CapacityPerLevel) = n + 1
      BY <2>1, <3>2, QueueAssumption DEF Slots
    <3>. QED
      BY <3>4, <3>5, <3>6
  <2>3. (h + (n + 1) - 1) % CapacityPerLevel = t
    <3>1. n + 1 \in 1..CapacityPerLevel
      BY QueueAssumption
    <3>. PICK x : x = (h + (n + 1) - 1) % CapacityPerLevel
      OBVIOUS
    <3>2. x = IF h + (n + 1) - 1 < CapacityPerLevel THEN h + (n + 1) - 1
              ELSE h + (n + 1) - 1 - CapacityPerLevel
      BY <3>1, SlotCases
    <3>3. x = t
      BY <2>1, <3>2, QueueAssumption DEF Slots
    <3>. QED
      BY <3>3
  <2>. DEFINE At(i) == [trade |-> buffer[l][(h + i - 1) % CapacityPerLevel], writing |-> {}]
  <2>4. Stored(l) = [i \in 1..n |-> At(i)]
    BY DEF Stored
  <2>5. Stored(l)' = [i \in 1..(n + 1) |-> At(i)]
    BY <2>2 DEF Stored
  <2>6. At(n + 1) = [trade |-> arg[l], writing |-> {}]
    BY <1>1, <2>3, ZenonT(30) DEF RingInv
  <2>. HIDE DEF At
  <2>7. Contents(l) = Append(Stored(l), [trade |-> NoTrade, writing |-> {Producer}])
        /\ Contents(l)' = Stored(l)'
    BY <1>1 DEF Contents
  <2>8. Contents(l) = [i \in 1..(n + 1) |-> IF i = n + 1 THEN [trade |-> NoTrade, writing |-> {Producer}]
                                            ELSE At(i)]
    BY <2>4, <2>7, SMTT(30)
  <2>9. /\ n + 1 \in DOMAIN Contents(l) /\ Contents(l)[n + 1].writing = {Producer}
        /\ Contents(l)' = [Contents(l) EXCEPT ![n + 1] = [trade |-> arg[l], writing |-> {}]]
    <3>1. n + 1 \in DOMAIN Contents(l) /\ Contents(l)[n + 1].writing = {Producer}
      BY <2>8, SMTT(30)
    <3>2. \A i \in 1..(n + 1) :
            Contents(l)'[i] = IF i = n + 1 THEN [trade |-> arg[l], writing |-> {}] ELSE Contents(l)[i]
      BY <2>5, <2>6, <2>7, <2>8, ZenonT(30)
    <3>3. DOMAIN Contents(l) = 1..(n + 1) /\ Contents(l)' = [i \in 1..(n + 1) |-> Contents(l)'[i]]
      BY <2>5, <2>7, <2>8
    <3>. QED
      BY <3>1, <3>2, <3>3, ZenonT(30)
  <2>10. CallAt(l) = "reserved" /\ CallAt(l)' = "idle"
    BY <1>1 DEF CallAt
  <2>11. result'[l] = TRUE /\ UNCHANGED <<arg, got>>
    BY <1>1 DEF RingInv
  <2>. QED
    BY <2>9, <2>10, <2>11, ZenonT(30) DEF Level!Publish
<1>2. CASE l # level
  <2>1. UNCHANGED <<head[l], tail[l], buffer[l], result[l], arg[l], got[l], level>>
    BY <1>0, <1>2 DEF RingInv, TypeInv
  <2>. QED
    BY <1>2, <2>1, StoredSame, LevelStutters, ZenonT(30) DEF CallAt
<1>. QED
  BY <1>1, <1>2

\* A level found empty has nothing that could be taken.
LEMMA SkipFindsNothing ==
  ASSUME QueueInv, RingInv, Skip, NEW l \in Levels
  PROVE  Level(l)!FindNothing \/ UNCHANGED Level(l)!queueVars
<1>. USE DEF Skip, producerVars
<1>0. TypeInv /\ Stored(l)' = Stored(l)
  BY StoredSame DEF QueueInv
<1>1. CASE l = scanned
  <2>1. Queued(l) = 0
    BY <1>0, <1>1, QueuedCases
  <2>2. Stored(l) = <<>>
    BY <2>1 DEF Stored
  <2>3. Contents(l)' = Contents(l) /\ CallAt(l)' = CallAt(l)
    BY <1>0 DEF Contents, CallAt
  <2>4. Contents(l) # <<>> => Head(Contents(l)).writing # {}
    BY <2>2 DEF Contents
  <2>5. got'[l] = NoTrade /\ UNCHANGED <<arg, result>>
    BY <1>1 DEF RingInv
  <2>. QED
    BY <2>3, <2>4, <2>5 DEF Level!FindNothing
<1>2. CASE l # scanned
  <2>1. got'[l] = got[l]
    BY <1>2 DEF RingInv
  <2>. QED
    BY <1>0, <2>1, LevelStutters DEF CallAt
<1>. QED
  BY <1>1, <1>2

\* Moving head_ takes the oldest trade.
LEMMA ReleaseTakes ==
  ASSUME QueueInv, RingInv, Release, NEW l \in Levels
  PROVE  Level(l)!Take \/ UNCHANGED Level(l)!queueVars
<1>. USE DEF Release, producerVars
<1>0. TypeInv
  BY SMTT(30) DEF QueueInv
<1>1. CASE l = scanned
  <2>. PICK h \in Slots, t \in Slots : h = head[l] /\ t = tail[l]
    BY <1>0, SMTT(30) DEF TypeInv
  <2>. PICK n \in 0..(CapacityPerLevel - 1) : n = Queued(l) /\ n # 0
    BY <1>0, <1>1, QueuedCases DEF QueueInv
  <2>. PICK k \in Slots : k = After(h)
    BY AfterType
  <2>0. k = IF h = CapacityPerLevel - 1 THEN 0 ELSE h + 1
    BY AfterCases
  <2>1. head'[l] = k /\ tail'[l] = t
    BY <1>0, <1>1 DEF TypeInv, Released
  <2>2. Queued(l)' = n - 1
    <3>1. n = IF t >= h THEN t - h ELSE t + CapacityPerLevel - h
      BY <1>0, QueuedCases
    <3>2. t + CapacityPerLevel - k \in 0..(2 * CapacityPerLevel - 1)
      BY QueueAssumption DEF Slots
    <3>. PICK y \in 0..(2 * CapacityPerLevel - 1) : y = t + CapacityPerLevel - k
      BY <3>2
    <3>3. Queued(l)' = y % CapacityPerLevel
      BY <2>1 DEF Queued
    <3>4. y % CapacityPerLevel = IF y < CapacityPerLevel THEN y ELSE y - CapacityPerLevel
      BY Wrap
    <3>5. (IF y < CapacityPerLevel THEN y ELSE y - CapacityPerLevel) = n - 1
      BY <2>0, <3>1, QueueAssumption DEF Slots
    <3>. QED
      BY <3>3, <3>4, <3>5
  <2>. DEFINE At(i) == [trade |-> buffer[l][(h + i - 1) % CapacityPerLevel], writing |-> {}]
  <2>3. \A i \in 1..(n - 1) : (k + i - 1) % CapacityPerLevel = (h + (i + 1) - 1) % CapacityPerLevel
    <3>. TAKE i \in 1..(n - 1)
    <3>1. i \in 1..CapacityPerLevel /\ i + 1 \in 1..CapacityPerLevel
      BY QueueAssumption
    <3>. PICK x, y : x = (k + i - 1) % CapacityPerLevel /\ y = (h + (i + 1) - 1) % CapacityPerLevel
      OBVIOUS
    <3>2. x = IF k + i - 1 < CapacityPerLevel THEN k + i - 1 ELSE k + i - 1 - CapacityPerLevel
      BY <3>1, SlotCases
    <3>3. y = IF h + (i + 1) - 1 < CapacityPerLevel THEN h + (i + 1) - 1
              ELSE h + (i + 1) - 1 - CapacityPerLevel
      BY <3>1, SlotCases
    <3>4. x = y
      BY <2>0, <3>2, <3>3, QueueAssumption DEF Slots
    <3>. QED
      BY <3>4
  <2>4. Stored(l) = [i \in 1..n |-> At(i)]
    BY SMTT(30) DEF Stored
  <2>5. Stored(l)' = [i \in 1..(n - 1) |-> At(i + 1)]
    <3>1. Stored(l)' = [i \in 1..(n - 1) |->
                         [trade |-> buffer[l][(k + i - 1) % CapacityPerLevel], writing |-> {}]]
      BY <2>1, <2>2, ZenonT(30) DEF Stored
    <3>. QED
      BY <2>3, <3>1, ZenonT(30)
  <2>6. At(1).trade = buffer[l][h] /\ At(1).writing = {}
    <3>1. (h + 1 - 1) % CapacityPerLevel = h
      BY SlotCases, QueueAssumption DEF Slots
    <3>. QED
      BY <3>1
  <2>. HIDE DEF At
  <2>7. Stored(l) # <<>> /\ Head(Stored(l)) = At(1) /\ Stored(l)' = Tail(Stored(l))
    BY <2>4, <2>5
  <2>8. Contents(l) # <<>> /\ Head(Contents(l)) = At(1) /\ Contents(l)' = Tail(Contents(l))
    <3>. DEFINE x == [trade |-> NoTrade, writing |-> {Producer}]
    <3>1. Append(Stored(l), x) # <<>> /\ Head(Append(Stored(l), x)) = At(1)
          /\ Append(Stored(l)', x) = Tail(Append(Stored(l), x))
      <4>. HIDE DEF x
      <4>. QED
        BY <2>4, <2>5, SMTT(30)
    <3>. QED
      BY <2>7, <3>1, ZenonT(30) DEF Contents
  <2>9. got'[l] = At(1).trade /\ UNCHANGED <<arg, result>> /\ CallAt(l)' = CallAt(l)
    BY <1>1, <2>6, SMTT(30) DEF RingInv, CallAt
  <2>. QED
    BY <2>6, <2>8, <2>9 DEF Level!Take
<1>2. CASE l # scanned
  <2>1. UNCHANGED <<head[l], tail[l], buffer[l], result[l], arg[l], got[l]>>
    BY <1>0, <1>2 DEF RingInv, TypeInv
  <2>. QED
    BY <1>2, <2>1, StoredSame, LevelStutters DEF CallAt
<1>. QED
  BY <1>1, <1>2

\* Each level of the priority queue implements the bounded FIFO queue, with one
\* place less than it has slots: its trades come out in the order pushed and once
\* each, a push is refused only when capacity() are stored, and the scan passes a
\* level over only when it has no trade.
THEOREM LevelsAreQueues == Spec => EachLevelIsAQueue
<1>1. Init => \A l \in Levels : Level(l)!Init
  <2>. SUFFICES ASSUME Init, NEW l \in Levels
                PROVE  Level(l)!Init
    OBVIOUS
  <2>1. TypeInv /\ ~HasTrade(l)
    BY QueueInvInit DEF QueueInv, Init, HasTrade
  <2>2. Queued(l) = 0
    BY <2>1, QueuedCases
  <2>3. Contents(l) = <<>> /\ CallAt(l) = "idle"
    BY <2>2 DEF Init, Contents, Stored, CallAt
  <2>. QED
    BY <2>3 DEF Init, Level!Init
<1>2. ASSUME QueueInv, RingInv, [Next]_vars
      PROVE  \A l \in Levels : [Level(l)!Next]_(Level(l)!queueVars)
  <2>. TAKE l \in Levels
  <2>1. CASE Pop \/ Find \/ ReadSlot \/ ReturnNothing \/ UNCHANGED vars
    <3>1. UNCHANGED <<head, tail, buffer, pc, level, arg, result, got>>
      BY <2>1 DEF Pop, Find, ReadSlot, ReturnNothing, vars, producerVars, consumerVars
    <3>. QED
      BY <3>1, StoredSame, LevelStutters DEF CallAt
  <2>2. ASSUME NEW t \in Trades, Call(t)
        PROVE  [Level(l)!Next]_(Level(l)!queueVars)
    BY <1>2, <2>2, CallCalls DEF Level!Next
  <2>3. CASE Check \/ WriteSlot \/ Publish \/ Skip \/ Release
    BY <1>2, <2>3, CheckDecides, WriteStutters, PublishPublishes, SkipFindsNothing, ReleaseTakes
       DEF Level!Next
  <2>. QED
    BY <1>2, <2>1, <2>2, <2>3 DEF Next
<1>. QED
  BY <1>1, <1>2, QueueInvariance, RingInvariance, PTL DEF Spec, EachLevelIsAQueue
=============================================================================

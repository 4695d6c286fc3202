------------------------- MODULE PriorityTradeQueue -------------------------
(***************************************************************************)
(* PriorityTradeQueue and the SPSCTradeQueue it keeps for each priority     *)
(* level, include/core/trade_queue.hpp: one thread pushes, one pops, and    *)
(* the levels are scanned one after the other while pushes go on.          *)
(*                                                                         *)
(* A step is an access to an atomic index or to a slot of buffer_; the load *)
(* of an index that only the loading thread stores goes with the next step. *)
(* The interleaving is sequentially consistent.  peek, empty, size and      *)
(* clear, which nothing calls, are left out.                               *)
(***************************************************************************)
EXTENDS Naturals, Sequences

CONSTANTS
  CapacityPerLevel,  \* slots per level, one of which stays free
  Trades, NoTrade,
  Priority,          \* Trade::priority of each trade
  Producer,          \* the thread that pushes
  MaxPushes          \* bound: calls of try_push

ASSUME QueueAssumption ==
  /\ CapacityPerLevel \in Nat \ {0, 1}
  /\ Priority \in [Trades -> 0..255]
  /\ NoTrade \notin Trades

NumLevels == 4
Levels == 0..(NumLevels - 1)
Slots == 0..(CapacityPerLevel - 1)
After(i) == (i + 1) % CapacityPerLevel

VARIABLES
  head, tail, buffer,  \* head_, tail_ and buffer_ of each level
  pc, level, arg,      \* the producer: its step, its level, its trade at each level
  result,              \* what its latest try_push at each level returned
  consumer_pc,         \* the consumer: its step
  scanned,             \* the level it looks at
  got,                 \* what its latest try_pop of each level obtained
  nonempty,            \* history: the levels with a trade when try_pop was called
  pushes               \* history: calls of try_push

producerVars == <<tail, buffer, pc, level, arg, result, pushes>>
consumerVars == <<head, consumer_pc, scanned, got, nonempty>>
vars == <<producerVars, consumerVars>>

Init ==
  /\ head = [l \in Levels |-> 0]
  /\ tail = [l \in Levels |-> 0]
  /\ buffer = [l \in Levels |-> [i \in Slots |-> NoTrade]]
  /\ pc = "idle" /\ level = 0
  /\ arg = [l \in Levels |-> NoTrade]
  /\ result = [l \in Levels |-> FALSE]
  /\ consumer_pc = "idle" /\ scanned = 0
  /\ got = [l \in Levels |-> NoTrade]
  /\ nonempty = {} /\ pushes = 0

-----------------------------------------------------------------------------
(* The producer *)

priority_to_level(priority) ==
  CASE priority < 32  -> 0
    [] priority < 96  -> 1
    [] priority < 192 -> 2
    [] OTHER          -> 3

Call(t) ==
  /\ pc = "idle" /\ pushes < MaxPushes
  /\ pushes' = pushes + 1
  /\ level' = priority_to_level(Priority[t])
  /\ arg' = [arg EXCEPT ![level'] = t]
  /\ pc' = "check"
  /\ UNCHANGED <<tail, buffer, result, consumerVars>>

\* Mutant of Full: the ring is filled to its last slot.
FullNever(l) == FALSE

Full(l) == After(tail[l]) = head[l]

Check ==
  /\ pc = "check"
  /\ IF Full(level)
       THEN pc' = "idle" /\ result' = [result EXCEPT ![level] = FALSE]
       ELSE pc' = "write" /\ UNCHANGED result
  /\ UNCHANGED <<tail, buffer, level, arg, pushes, consumerVars>>

WriteSlot ==
  /\ pc = "write"
  /\ buffer' = [buffer EXCEPT ![level][tail[level]] = arg[level]]
  /\ pc' = "publish"
  /\ UNCHANGED <<tail, level, arg, result, pushes, consumerVars>>

Publish ==
  /\ pc = "publish"
  /\ tail' = [tail EXCEPT ![level] = After(tail[level])]
  /\ result' = [result EXCEPT ![level] = TRUE]
  /\ pc' = "idle"
  /\ UNCHANGED <<buffer, level, arg, pushes, consumerVars>>

-----------------------------------------------------------------------------
(* The consumer *)

HasTrade(l) == head[l] # tail[l]

\* Mutant of FirstLevel: the scan skips the highest priority.
FirstLevelSkipped == 1

FirstLevel == 0

Pop ==
  /\ consumer_pc = "idle"
  /\ nonempty' = {l \in Levels : HasTrade(l)}
  /\ scanned' = FirstLevel
  /\ consumer_pc' = "scan"
  /\ UNCHANGED <<head, got, producerVars>>

\* The level is empty: the scan goes on, or try_pop returns nullopt.
Skip ==
  /\ consumer_pc = "scan" /\ ~HasTrade(scanned)
  /\ got' = [got EXCEPT ![scanned] = NoTrade]
  /\ IF scanned + 1 < NumLevels
       THEN scanned' = scanned + 1 /\ UNCHANGED consumer_pc
       ELSE consumer_pc' = "nothing" /\ UNCHANGED scanned
  /\ UNCHANGED <<head, nonempty, producerVars>>

Find ==
  /\ consumer_pc = "scan" /\ HasTrade(scanned)
  /\ consumer_pc' = "read"
  /\ UNCHANGED <<head, scanned, got, nonempty, producerVars>>

\* The copy of the slot; the trade is got when head_ moves on.
ReadSlot ==
  /\ consumer_pc = "read"
  /\ consumer_pc' = "release"
  /\ UNCHANGED <<head, scanned, got, nonempty, producerVars>>

\* Mutant of Released: the slot is not given back.
ReleasedNot(l) == head[l]

Released(l) == After(head[l])

Release ==
  /\ consumer_pc = "release"
  /\ got' = [got EXCEPT ![scanned] = buffer[scanned][head[scanned]]]
  /\ head' = [head EXCEPT ![scanned] = Released(scanned)]
  /\ consumer_pc' = "idle"
  /\ UNCHANGED <<scanned, nonempty, producerVars>>

ReturnNothing ==
  /\ consumer_pc = "nothing"
  /\ consumer_pc' = "idle"
  /\ UNCHANGED <<head, scanned, got, nonempty, producerVars>>

Next ==
  \/ \E t \in Trades : Call(t)
  \/ Check \/ WriteSlot \/ Publish
  \/ Pop \/ Skip \/ Find \/ ReadSlot \/ Release \/ ReturnNothing

Spec == Init /\ [][Next]_vars

-----------------------------------------------------------------------------
(* Properties *)

\* The unprotected slot of buffer_ that the producer writes (trade_queue.hpp:51)
\* is not the one the consumer reads (line 63), however full the ring.
NoDataRace ==
  pc = "write" /\ consumer_pc \in {"read", "release"} /\ level = scanned =>
    tail[level] # head[level]

\* try_pop takes a trade of the highest priority among those queued when it was
\* called, and returns nullopt only if there was none: the scan of lines 223-227
\* misses nothing but what is pushed behind its back.
PopsTheHighest ==
  /\ consumer_pc \in {"read", "release"} => \A l \in nonempty : scanned <= l
  /\ consumer_pc = "nothing" => nonempty = {}

\* The queue a level stands for: its trades from head_ to tail_, and the place
\* its producer has found room for.
Queued(l) == (tail[l] + CapacityPerLevel - head[l]) % CapacityPerLevel
Stored(l) ==
  [i \in 1..Queued(l) |->
    [trade |-> buffer[l][(head[l] + i - 1) % CapacityPerLevel], writing |-> {}]]
Contents(l) ==
  IF level = l /\ pc \in {"write", "publish"}
    THEN Append(Stored(l), [trade |-> NoTrade, writing |-> {Producer}])
    ELSE Stored(l)
CallAt(l) ==
  IF level # l \/ pc = "idle" THEN "idle" ELSE IF pc = "check" THEN "calling" ELSE "reserved"

\* Each level is a bounded FIFO of CapacityPerLevel - 1 places: capacity() of
\* line 90, a full ring told from an empty one.
Level(l) ==
  INSTANCE BoundedTradeQueue WITH
    Capacity <- CapacityPerLevel - 1,
    Producers <- {Producer},
    contents <- Contents(l),
    calls <- [p \in {Producer} |-> CallAt(l)],
    args <- [p \in {Producer} |-> arg[l]],
    results <- [p \in {Producer} |-> result[l]],
    delivered <- got[l]
EachLevelIsAQueue ==
  /\ \A l \in Levels : Level(l)!Init
  /\ [][\A l \in Levels : [Level(l)!Next]_(Level(l)!queueVars)]_vars
=============================================================================

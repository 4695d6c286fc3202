-------------------------- MODULE OrderGatesProofs --------------------------
(***************************************************************************)
(* Proofs about RateLimiter and OrderGates, for every limit, every clock   *)
(* resolution and any number of orders.                                    *)
(***************************************************************************)
EXTENDS OrderGates, SequenceTheorems, TLAPS

-----------------------------------------------------------------------------
(* The clock *)

\* A number is between the multiples of the divisor around its quotient.
LEMMA Quotient ==
  ASSUME NEW a \in Nat, NEW d \in Nat \ {0}
  PROVE  /\ a \div d \in Nat
         /\ d * (a \div d) <= a
         /\ a < d * ((a \div d) + 1)
  BY Z3

\* Division keeps the order of numbers: time never falls back into an earlier
\* second or interval.
LEMMA QuotientsGrow ==
  ASSUME NEW a \in Nat, NEW b \in Nat, a <= b, NEW d \in Nat \ {0}
  PROVE  a \div d <= b \div d
<1> DEFINE qa == a \div d
           qb == b \div d
<1>1. /\ qa \in Nat /\ qb \in Nat
      /\ d * qa <= a /\ b < d * (qb + 1)
  BY Quotient
<1>2. d * qa < d * (qb + 1)
  BY <1>1
<1> HIDE DEF qa, qb
<1>3. qa < qb + 1
  BY <1>1, <1>2
<1> QED
  BY <1>1, <1>3 DEF qa, qb

\* The windows of the clock's readings are those the histories have, in order.
LEMMA Windows ==
  ASSUME NEW t \in 0..MaxTime, NEW u \in 0..MaxTime, t <= u
  PROVE  /\ Second(t) \in 0..Second(MaxTime) /\ Second(t) <= Second(u)
         /\ Interval(t) \in 0..Interval(MaxTime) /\ Interval(t) <= Interval(u)
<1>1. /\ TicksPer100ms \in Nat \ {0} /\ TicksPerSecond \in Nat \ {0} /\ MaxTime \in Nat
  BY LimiterAssumption DEF TicksPerSecond
<1> QED
  BY <1>1, Quotient, QuotientsGrow DEF Second, Interval
-----------------------------------------------------------------------------
(* RateLimiter *)

\* Inductive: each counter has the requests granted in the window it was last
\* set for, and nothing was granted in a later window.
LimiterInv ==
  /\ now \in 0..MaxTime
  /\ current_second \in Nat /\ current_second <= Second(now)
  /\ current_100ms \in Nat /\ current_100ms <= Interval(now)
  /\ granted_in_second \in [0..Second(MaxTime) -> 0..MaxPerSecond]
  /\ granted_in_100ms \in [0..Interval(MaxTime) -> 0..MaxPer100ms]
  /\ requests_this_second = granted_in_second[current_second]
  /\ requests_this_100ms = granted_in_100ms[current_100ms]
  /\ \A t \in 0..Second(MaxTime) : t > current_second => granted_in_second[t] = 0
  /\ \A t \in 0..Interval(MaxTime) : t > current_100ms => granted_in_100ms[t] = 0

\* What try_acquire compares with the limits, after its resets, is the number of
\* requests granted in the second and in the interval that the clock is in.
LEMMA CountersAreExact ==
  ASSUME LimiterInv
  PROVE  /\ InThisSecond = granted_in_second[Second(now)]
         /\ InThisInterval = granted_in_100ms[Interval(now)]
<1>1. Second(now) \in 0..Second(MaxTime) /\ Interval(now) \in 0..Interval(MaxTime)
  BY Windows DEF LimiterInv
<1>2. InThisSecond = granted_in_second[Second(now)]
  <2>1. CASE Second(now) = current_second
    BY <2>1 DEF LimiterInv, InThisSecond
  <2>2. CASE Second(now) # current_second
    BY <1>1, <2>2 DEF LimiterInv, InThisSecond
  <2> QED
    BY <2>1, <2>2
<1>3. InThisInterval = granted_in_100ms[Interval(now)]
  <2>1. CASE Interval(now) = current_100ms
    BY <2>1 DEF LimiterInv, InThisInterval
  <2>2. CASE Interval(now) # current_100ms
    BY <1>1, <2>2 DEF LimiterInv, InThisInterval
  <2> QED
    BY <2>1, <2>2
<1> QED
  BY <1>2, <1>3

\* The invariant holds when the limiter is made, whatever the clock reads.
LEMMA LimiterInvInit ==
  LimiterInit => LimiterInv
<1> SUFFICES ASSUME LimiterInit PROVE LimiterInv
  OBVIOUS
<1>1. /\ now \in 0..MaxTime
      /\ Second(now) \in Nat /\ Interval(now) \in Nat
      /\ Second(MaxTime) \in Nat /\ Interval(MaxTime) \in Nat
  <2>1. now \in 0..MaxTime /\ MaxTime \in 0..MaxTime
    BY LimiterAssumption DEF LimiterInit
  <2>2. now <= MaxTime
    BY <2>1, LimiterAssumption
  <2> QED
    BY <2>1, <2>2, Windows
<1>2. MaxPerSecond \in Nat /\ MaxPer100ms \in Nat
  BY LimiterAssumption
<1> QED
  BY <1>1, <1>2 DEF LimiterInit, LimiterInv

\* Every step of the clock and every call of try_acquire keeps it.
LEMMA LimiterInvNext ==
  LimiterInv /\ [LimiterNext]_limiterVars => LimiterInv'
<1> SUFFICES ASSUME LimiterInv, [LimiterNext]_limiterVars PROVE LimiterInv'
  OBVIOUS
<1>1. CASE UNCHANGED limiterVars
  BY <1>1 DEF LimiterInv, limiterVars, counterVars, grantVars, Second, Interval
<1>2. CASE Tick
  <2>1. now' \in 0..MaxTime /\ now <= now'
    BY <1>2, LimiterAssumption DEF LimiterInv, Tick
  <2>2. Second(now) <= Second(now') /\ Interval(now) <= Interval(now')
        /\ Second(now) \in Nat /\ Second(now') \in Nat
        /\ Interval(now) \in Nat /\ Interval(now') \in Nat
    <3>1. now \in 0..MaxTime
      BY DEF LimiterInv
    <3> QED
      BY <2>1, <3>1, Windows
  <2>3. /\ UNCHANGED <<requests_this_second, requests_this_100ms, current_second, current_100ms>>
        /\ UNCHANGED <<granted_in_second, granted_in_100ms>>
    BY <1>2 DEF Tick, counterVars, grantVars
  <2>4. current_second' <= Second(now') /\ current_100ms' <= Interval(now')
    BY <2>2, <2>3 DEF LimiterInv
  <2> QED
    BY <2>1, <2>3, <2>4 DEF LimiterInv, Second, Interval
<1>3. ASSUME NEW ok \in BOOLEAN, TryAcquire(ok) PROVE LimiterInv'
  <2> DEFINE one == IF ok THEN 1 ELSE 0
             s == Second(now)
             i == Interval(now)
  <2>1. /\ s \in 0..Second(MaxTime) /\ i \in 0..Interval(MaxTime)
    BY Windows DEF LimiterInv
  <2>2. /\ InThisSecond = granted_in_second[s] /\ InThisInterval = granted_in_100ms[i]
    BY CountersAreExact
  <2>3. /\ now' = now /\ current_second' = s /\ current_100ms' = i
        /\ requests_this_second' = InThisSecond + one
        /\ requests_this_100ms' = InThisInterval + one
        /\ granted_in_second' = [granted_in_second EXCEPT ![s] = @ + one]
        /\ granted_in_100ms' = [granted_in_100ms EXCEPT ![i] = @ + one]
    BY <1>3 DEF TryAcquire
  <2>4. /\ ok => InThisSecond < MaxPerSecond
        /\ ok => InThisInterval < MaxPer100ms
    BY <1>3, ZenonT(60) DEF TryAcquire, MayAcquire, Below
  <2>5. /\ Second(now') = s /\ Interval(now') = i
    BY <2>3
  <2>6. MaxPerSecond \in Nat /\ MaxPer100ms \in Nat
    BY LimiterAssumption
  <2>7. one \in {0, 1} /\ (one = 1 => ok)
    OBVIOUS
  <2>8. /\ granted_in_second \in [0..Second(MaxTime) -> 0..MaxPerSecond]
        /\ granted_in_100ms \in [0..Interval(MaxTime) -> 0..MaxPer100ms]
        /\ now \in 0..MaxTime
        /\ current_second \in Nat /\ current_second <= s
        /\ current_100ms \in Nat /\ current_100ms <= i
        /\ \A t \in 0..Second(MaxTime) : t > current_second => granted_in_second[t] = 0
        /\ \A t \in 0..Interval(MaxTime) : t > current_100ms => granted_in_100ms[t] = 0
    BY DEF LimiterInv
  <2> HIDE DEF one, s, i
  <2>9. /\ granted_in_second' \in [0..Second(MaxTime) -> 0..MaxPerSecond]
        /\ requests_this_second' = granted_in_second'[current_second']
        /\ \A t \in 0..Second(MaxTime) : t > current_second' => granted_in_second'[t] = 0
    BY <2>1, <2>2, <2>3, <2>4, <2>6, <2>7, <2>8, SMTT(60)
  <2>10. /\ granted_in_100ms' \in [0..Interval(MaxTime) -> 0..MaxPer100ms]
         /\ requests_this_100ms' = granted_in_100ms'[current_100ms']
         /\ \A t \in 0..Interval(MaxTime) : t > current_100ms' => granted_in_100ms'[t] = 0
    BY <2>1, <2>2, <2>3, <2>4, <2>6, <2>7, <2>8, SMTT(60)
  <2>11. /\ now' \in 0..MaxTime
         /\ current_second' \in Nat /\ current_second' <= Second(now')
         /\ current_100ms' \in Nat /\ current_100ms' <= Interval(now')
    BY <2>1, <2>3, <2>5, <2>8
  <2>12. Second(MaxTime)' = Second(MaxTime) /\ Interval(MaxTime)' = Interval(MaxTime)
    BY DEF Second, Interval, TicksPerSecond
  <2> QED
    BY <2>9, <2>10, <2>11, <2>12, SMTT(60) DEF LimiterInv
<1> QED
  BY <1>1, <1>2, <1>3 DEF LimiterNext

\* Whoever calls try_acquire, and whenever: no second and no 100 ms interval ever
\* has more requests than its limit.
THEOREM LimiterWindows == LimiterSpec => []AlignedWindowsRespected
<1>1. LimiterInv => AlignedWindowsRespected
  BY LimiterAssumption, SMTT(60) DEF LimiterInv, AlignedWindowsRespected
<1> QED
  BY <1>1, LimiterInvInit, LimiterInvNext, PTL DEF LimiterSpec

\* Whoever calls try_acquire: it would refuse only when the second or the interval
\* that the clock is in has had all its requests.
THEOREM LimiterRefusals == LimiterSpec => []RefusalsAreDue
<1>1. LimiterInv => RefusalsAreDue
  <2> SUFFICES ASSUME LimiterInv, ~MayAcquire
               PROVE  \/ granted_in_second[Second(now)] = MaxPerSecond
                      \/ granted_in_100ms[Interval(now)] = MaxPer100ms
    BY DEF RefusalsAreDue
  <2>1. /\ Second(now) \in 0..Second(MaxTime) /\ Interval(now) \in 0..Interval(MaxTime)
    BY Windows DEF LimiterInv
  <2>2. ~(Below(InThisSecond, MaxPerSecond) /\ Below(InThisInterval, MaxPer100ms))
    BY DEF MayAcquire
  <2>3. /\ granted_in_second[Second(now)] \in 0..MaxPerSecond
        /\ granted_in_100ms[Interval(now)] \in 0..MaxPer100ms
    BY <2>1 DEF LimiterInv
  <2> QED
    BY <2>2, <2>3, CountersAreExact, LimiterAssumption DEF Below
<1> QED
  BY <1>1, LimiterInvInit, LimiterInvNext, PTL DEF LimiterSpec
-----------------------------------------------------------------------------
(* OrderGates *)

\* The order path uses the limiter as it is meant to be used: its steps are steps
\* of the clock, calls of try_acquire, or none of the limiter's business.
THEOREM GatesImplementLimiter == Spec => LimiterSpec
<1>1. Init => LimiterInit
  BY DEF Init
<1>2. [Next]_vars => [LimiterNext]_limiterVars
  <2> SUFFICES ASSUME [Next]_vars PROVE [LimiterNext]_limiterVars
    OBVIOUS
  <2>1. CASE UNCHANGED vars
    BY <2>1 DEF vars
  <2>2. CASE Tick /\ UNCHANGED gateVars
    BY <2>2 DEF LimiterNext
  <2>3. CASE UpdateQuote
    BY <2>3 DEF UpdateQuote
  <2>4. CASE \E t \in Trades : Submit(t)
    BY <2>4 DEF Submit
  <2>5. CASE Execute
    BY <2>5, ZenonT(60) DEF Execute, LimiterNext
  <2>6. CASE \E i \in DOMAIN sent : Respond(i)
    BY <2>6 DEF Respond
  <2> QED
    BY <2>1, <2>2, <2>3, <2>4, <2>5, <2>6 DEF Next
<1> QED
  BY <1>1, <1>2, PTL DEF Spec, LimiterSpec

\* In the composition, whatever strategies place and however fast: the windows
\* are respected.
THEOREM GatesRespectWindows == Spec => []AlignedWindowsRespected
  BY GatesImplementLimiter, LimiterWindows, PTL

\* In the composition, no order is held back without need: whenever the limiter
\* would refuse, a limit has been used up.
THEOREM GatesRefuseWhenDue == Spec => []RefusalsAreDue
  BY GatesImplementLimiter, LimiterRefusals, PTL

PositionType == [net_quantity : Int, avg_entry_price : Int, realized_pnl : Int]

\* If order t is filled in any part, the position stays within its limit.
Fits(t, net) ==
  MaxNetPosition > 0 => AbsoluteValue(net + SignedQuantity(t.side, t.quantity)) <= MaxNetPosition

\* Inductive: as long as orders did not overlap, at most one is under way, and
\* the position is within its limit with it and without it.
GatesInv ==
  /\ position \in PositionType
  /\ trade_queue \in Seq(Trades) /\ sent \in Seq(Trades)
  /\ overlapped \in BOOLEAN
  /\ MaxNetPosition > 0 /\ ~overlapped =>
       /\ AbsoluteValue(position.net_quantity) <= MaxNetPosition
       /\ Len(trade_queue) + Len(sent) <= 1
       /\ \A i \in 1..Len(trade_queue) : Fits(trade_queue[i], position.net_quantity)
       /\ \A i \in 1..Len(sent) : Fits(sent[i], position.net_quantity)

\* An order has a side and a natural quantity.
LEMMA TradeType ==
  ASSUME NEW t \in Trades
  PROVE  /\ t.side \in {"BUY", "SELL"} /\ t.quantity \in Nat /\ t.price \in Nat
         /\ SignedQuantity(t.side, t.quantity) \in Int
  BY GatesAssumption DEF SignedQuantity

\* on_fill keeps the types of a position and adds the signed fill to it.
LEMMA OnFillType ==
  ASSUME NEW old \in PositionType, NEW t \in Trades,
         NEW r, r.filled_quantity \in Nat, r.avg_price \in Nat
  PROVE  /\ FillQuantity(t, r) \in Int
         /\ OnFill(old, t, r) \in PositionType
         /\ OnFill(old, t, r).net_quantity = old.net_quantity + FillQuantity(t, r)
<1> DEFINE quantity == FillQuantity(t, r)
           price == FillPrice(t, r)
           net == old.net_quantity + quantity
           held == AbsoluteValue(old.net_quantity)
           traded == AbsoluteValue(quantity)
           closing == IF held < traded THEN held ELSE traded
           gain == (price - old.avg_entry_price) * closing
           average == (old.avg_entry_price * held + price * traded) \div (held + traded)
<1>1. /\ old.net_quantity \in Int /\ old.avg_entry_price \in Int /\ old.realized_pnl \in Int
  BY DEF PositionType
<1>2. quantity \in Int /\ price \in Int
  BY TradeType DEF FillQuantity, FillPrice, SignedQuantity
<1>3. net \in Int /\ held \in Nat /\ traded \in Nat
  BY <1>1, <1>2 DEF AbsoluteValue
<1>4. quantity # 0 => traded > 0
  BY <1>2 DEF AbsoluteValue
<1>5. gain \in Int
  <2>1. closing \in Int /\ price - old.avg_entry_price \in Int
    BY <1>1, <1>2, <1>3
  <2> HIDE DEF closing, price
  <2> QED
    BY <2>1
<1>6. quantity # 0 => average \in Int
  <2> HIDE DEF held, traded, price, quantity
  <2>1. old.avg_entry_price * held + price * traded \in Int
    BY <1>1, <1>2, <1>3
  <2>2. quantity # 0 => held + traded \in Nat \ {0}
    BY <1>3, <1>4
  <2> QED
    BY <2>1, <2>2
<1>7. EntryPriceAfterClosing(old, net, price) \in Int
  BY <1>1, <1>2 DEF EntryPriceAfterClosing
<1>8. OnFill(old, t, r) =
        CASE quantity = 0 -> old
          [] quantity # 0 /\ (old.net_quantity = 0 \/ SameSide(old.net_quantity, quantity)) ->
               [old EXCEPT !.net_quantity = net, !.avg_entry_price = average]
          [] OTHER ->
               [net_quantity |-> net,
                avg_entry_price |-> EntryPriceAfterClosing(old, net, price),
                realized_pnl |-> old.realized_pnl + (IF old.net_quantity > 0 THEN gain ELSE -gain)]
  BY DEF OnFill
<1> DEFINE adds == old.net_quantity = 0 \/ SameSide(old.net_quantity, quantity)
<1>9. net = old.net_quantity + quantity
  OBVIOUS
<1> HIDE DEF quantity, price, net, held, traded, closing, gain, average, adds
<1>10. CASE quantity = 0
  <2>1. OnFill(old, t, r) = old
    BY <1>8, <1>10
  <2> QED
    BY <1>1, <1>2, <1>9, <1>10, <2>1 DEF quantity
<1>11. CASE quantity # 0 /\ adds
  <2>1. OnFill(old, t, r) = [old EXCEPT !.net_quantity = net, !.avg_entry_price = average]
    BY <1>8, <1>11 DEF adds
  <2>2. OnFill(old, t, r) \in PositionType /\ OnFill(old, t, r).net_quantity = net
    BY <1>3, <1>6, <1>11, <2>1, ZenonT(60) DEF PositionType
  <2> QED
    BY <1>2, <1>9, <2>2 DEF quantity
<1>12. CASE quantity # 0 /\ ~adds
  <2>1. OnFill(old, t, r) =
          [net_quantity |-> net,
           avg_entry_price |-> EntryPriceAfterClosing(old, net, price),
           realized_pnl |-> old.realized_pnl + (IF old.net_quantity > 0 THEN gain ELSE -gain)]
    BY <1>8, <1>12 DEF adds
  <2>2. old.realized_pnl + (IF old.net_quantity > 0 THEN gain ELSE -gain) \in Int
    BY <1>1, <1>5
  <2>3. OnFill(old, t, r) \in PositionType /\ OnFill(old, t, r).net_quantity = net
    BY <1>3, <1>7, <2>1, <2>2 DEF PositionType
  <2> QED
    BY <1>2, <1>9, <2>3 DEF quantity
<1> QED
  BY <1>10, <1>11, <1>12

\* A part of an order that fits fits as well.
LEMMA PartsFit ==
  ASSUME NEW t \in Trades, NEW net \in Int, NEW q \in Int,
         MaxNetPosition > 0, AbsoluteValue(net) <= MaxNetPosition, Fits(t, net),
         q = 0 \/ \E filled \in 0..t.quantity : q = SignedQuantity(t.side, filled)
  PROVE  AbsoluteValue(net + q) <= MaxNetPosition
<1>1. MaxNetPosition \in Nat
  BY LimitsAssumption
<1>2. CASE q = 0
  BY <1>2
<1>3. ASSUME NEW filled \in 0..t.quantity, q = SignedQuantity(t.side, filled)
      PROVE  AbsoluteValue(net + q) <= MaxNetPosition
  BY <1>1, <1>3, TradeType DEF AbsoluteValue, SignedQuantity, Fits
<1> QED
  BY <1>2, <1>3

\* The invariant holds at the start: there is no position and no order.
LEMMA GatesInvInit == Init => GatesInv
<1> SUFFICES ASSUME Init PROVE GatesInv
  OBVIOUS
<1>1. /\ trade_queue \in Seq(Trades) /\ Len(trade_queue) = 0
      /\ sent \in Seq(Trades) /\ Len(sent) = 0
  BY EmptySeq DEF Init
<1>2. /\ position \in PositionType
      /\ AbsoluteValue(position.net_quantity) = 0
  BY DEF Init, PositionType, AbsoluteValue
<1>3. overlapped \in BOOLEAN
  BY Zenon DEF Init
<1> QED
  BY <1>1, <1>2, <1>3, LimitsAssumption DEF GatesInv

\* Every step of the gates keeps it.
LEMMA GatesInvNext == GatesInv /\ [Next]_vars => GatesInv'
<1> SUFFICES ASSUME GatesInv, [Next]_vars PROVE GatesInv'
  OBVIOUS
<1>1. CASE UNCHANGED gateVars
  BY <1>1 DEF GatesInv, gateVars
<1>2. CASE UpdateQuote
  BY <1>2 DEF UpdateQuote, GatesInv
<1>3. ASSUME NEW t \in Trades, Submit(t) PROVE GatesInv'
  <2>1. CASE ~CheckOrder(t, mid_price, position.net_quantity)
    BY <1>3, <2>1 DEF Submit, GatesInv
  <2>2. CASE CheckOrder(t, mid_price, position.net_quantity)
    <3>1. /\ trade_queue' = Append(trade_queue, t)
          /\ overlapped' = (overlapped \/ trade_queue # <<>> \/ sent # <<>>)
          /\ UNCHANGED <<position, sent>>
      BY <1>3, <2>2 DEF Submit
    <3>2. Fits(t, position.net_quantity)
      BY <2>2 DEF CheckOrder, PositionAllowed, Fits
    <3>3. trade_queue' \in Seq(Trades) /\ overlapped' \in BOOLEAN
      BY <3>1 DEF GatesInv
    <3>4. ASSUME MaxNetPosition > 0, ~overlapped'
          PROVE  /\ AbsoluteValue(position.net_quantity) <= MaxNetPosition
                 /\ Len(trade_queue') + Len(sent) <= 1
                 /\ \A i \in 1..Len(trade_queue') : Fits(trade_queue'[i], position.net_quantity)
                 /\ \A i \in 1..Len(sent) : Fits(sent[i], position.net_quantity)
      <4>1. ~overlapped /\ trade_queue = <<>> /\ sent = <<>>
        BY <3>1, <3>4, ZenonT(60)
      <4>2. trade_queue' = <<t>>
        BY <3>1, <4>1
      <4> QED
        BY <3>2, <3>4, <4>1, <4>2 DEF GatesInv
    <3> QED
      BY <3>1, <3>3, <3>4 DEF GatesInv, Fits
  <2> QED
    BY <2>1, <2>2
<1>4. CASE Execute
  <2> DEFINE first == Head(trade_queue)
             rest == Tail(trade_queue)
  <2>1. trade_queue \in Seq(Trades) /\ sent \in Seq(Trades)
    BY DEF GatesInv
  <2>2. trade_queue # <<>> /\ UNCHANGED <<position, overlapped>>
    BY <1>4, Zenon DEF Execute
  <2>3. \/ trade_queue' = rest /\ sent' = Append(sent, first)
        \/ trade_queue' = Append(rest, first) /\ sent' = sent
    BY <1>4, Zenon DEF Execute
  <2>4. /\ first \in Trades /\ rest \in Seq(Trades)
        /\ Len(rest) = Len(trade_queue) - 1 /\ Len(trade_queue) \in Nat \ {0}
        /\ first = trade_queue[1]
    BY <2>1, <2>2, HeadTailProperties, EmptySeq
  <2> HIDE DEF first, rest
  <2>5. trade_queue' \in Seq(Trades) /\ sent' \in Seq(Trades)
    <3>1. Append(sent, first) \in Seq(Trades) /\ Append(rest, first) \in Seq(Trades)
      BY <2>1, <2>4, AppendProperties
    <3> QED
      BY <2>1, <2>3, <2>4, <3>1, Zenon
  <2>6. ASSUME MaxNetPosition > 0, ~overlapped
        PROVE  /\ AbsoluteValue(position.net_quantity) <= MaxNetPosition
               /\ Len(trade_queue') + Len(sent') <= 1
               /\ \A i \in 1..Len(trade_queue') : Fits(trade_queue'[i], position.net_quantity)
               /\ \A i \in 1..Len(sent') : Fits(sent'[i], position.net_quantity)
    <3>1. /\ AbsoluteValue(position.net_quantity) <= MaxNetPosition
          /\ Len(trade_queue) + Len(sent) <= 1
          /\ \A i \in 1..Len(trade_queue) : Fits(trade_queue[i], position.net_quantity)
      BY <2>6 DEF GatesInv
    <3>2. Len(trade_queue) = 1 /\ Len(sent) = 0 /\ Len(rest) = 0
      BY <2>1, <2>4, <3>1, LenProperties
    <3>3. Fits(first, position.net_quantity)
      BY <2>4, <3>1, <3>2
    <3>4. ASSUME NEW s \in Seq(Trades), Len(s) = 0
          PROVE  Len(Append(s, first)) = 1 /\ Append(s, first)[1] = first
      BY <2>4, <3>4, AppendProperties
    <3>5. CASE trade_queue' = rest /\ sent' = Append(sent, first)
      BY <2>1, <3>1, <3>2, <3>3, <3>4, <3>5
    <3>6. CASE trade_queue' = Append(rest, first) /\ sent' = sent
      BY <2>4, <3>1, <3>2, <3>3, <3>4, <3>6
    <3> QED
      BY <2>3, <3>5, <3>6, SMTT(60)
  <2>7. position' \in PositionType /\ overlapped' \in BOOLEAN
    BY <2>2, Zenon DEF GatesInv
  <2> QED
    BY <2>2, <2>5, <2>6, <2>7 DEF GatesInv, Fits
<1>5. ASSUME NEW i \in DOMAIN sent, Respond(i) PROVE GatesInv'
  <2> DEFINE t == sent[i]
  <2>1. t \in Trades /\ sent \in Seq(Trades) /\ position \in PositionType
    BY <1>5 DEF GatesInv
  <2>2. PICK filled \in 0..t.quantity, avg_price \in FillPrices :
          position' = OnFill(position, t,
                        [status |-> CASE filled = 0 -> "CANCELED"
                                      [] filled = t.quantity -> "FILLED"
                                      [] OTHER -> "PARTIALLY_FILLED",
                         filled_quantity |-> filled, avg_price |-> avg_price])
    BY <1>5, Zenon DEF Respond
  <2> DEFINE status == CASE filled = 0 -> "CANCELED"
                         [] filled = t.quantity -> "FILLED"
                         [] OTHER -> "PARTIALLY_FILLED"
             r == [status |-> status, filled_quantity |-> filled, avg_price |-> avg_price]
             q == FillQuantity(t, r)
  <2>3. filled \in Nat /\ avg_price \in Nat
    BY <2>1, TradeType, GatesAssumption
  <2>4. r.filled_quantity = filled /\ r.avg_price = avg_price
    <3> HIDE DEF status
    <3> QED
      OBVIOUS
  <2>6. position' = OnFill(position, t, r)
    BY <2>2, Zenon
  <2> HIDE DEF t, r
  <2>7. /\ q \in Int /\ position' \in PositionType
        /\ position'.net_quantity = position.net_quantity + q
    BY <2>1, <2>3, <2>4, <2>6, OnFillType, SMTT(60)
  <2>8. q = 0 \/ q = SignedQuantity(t.side, filled)
    BY <2>4 DEF FillQuantity
  <2>9. /\ sent' = Without(i) /\ UNCHANGED <<trade_queue, overlapped>>
    BY <1>5 DEF Respond
  <2>10. /\ sent' \in Seq(Trades) /\ Len(sent') = Len(sent) - 1
    <3> DEFINE before == SubSeq(sent, 1, i - 1)
               after == SubSeq(sent, i + 1, Len(sent))
    <3>1. before \in Seq(Trades) /\ Len(before) = i - 1
      BY <2>1
    <3>2. after \in Seq(Trades) /\ Len(after) = Len(sent) - i
      BY <2>1
    <3>3. sent' = before \o after
      BY <2>9 DEF Without
    <3>4. i \in Int /\ Len(sent) \in Nat
      BY <2>1
    <3> HIDE DEF before, after
    <3> QED
      BY <3>1, <3>2, <3>3, <3>4, SMTT(60)
  <2>11. ASSUME MaxNetPosition > 0, ~overlapped
         PROVE  /\ AbsoluteValue(position'.net_quantity) <= MaxNetPosition
                /\ Len(trade_queue) = 0 /\ Len(sent') = 0
    <3>1. /\ AbsoluteValue(position.net_quantity) <= MaxNetPosition
          /\ Len(trade_queue) + Len(sent) <= 1
          /\ Fits(t, position.net_quantity)
      BY <2>11, <1>5, <2>1 DEF GatesInv, t
    <3>2. AbsoluteValue(position.net_quantity + q) <= MaxNetPosition
      <4>1. position.net_quantity \in Int
        BY <2>1 DEF PositionType
      <4> HIDE DEF q
      <4> QED
        BY <2>1, <2>7, <2>8, <2>11, <3>1, <4>1, PartsFit
    <3>3. Len(trade_queue) \in Nat /\ Len(sent) >= 1 /\ Len(sent) \in Nat
      BY <1>5, <2>1 DEF GatesInv
    <3> QED
      BY <2>7, <2>10, <3>1, <3>2, <3>3
  <2>12. trade_queue' \in Seq(Trades) /\ overlapped' \in BOOLEAN
    BY <2>9 DEF GatesInv
  <2>13. MaxNetPosition > 0 /\ ~overlapped' =>
           /\ AbsoluteValue(position'.net_quantity) <= MaxNetPosition
           /\ Len(trade_queue') = 0 /\ Len(sent') = 0
    BY <2>9, <2>11
  <2> QED
    BY <2>7, <2>10, <2>12, <2>13, SMTT(60) DEF GatesInv
<1> QED
  BY <1>1, <1>2, <1>3, <1>4, <1>5 DEF Next, vars

\* An order is checked against the position it can lead to: as long as no order
\* is accepted while another is under way, no fill, whole or partial, takes the
\* position past max_net_position_abs.
THEOREM PositionLimit == Spec => []PositionWithinLimit
<1>1. GatesInv => PositionWithinLimit
  BY DEF GatesInv, PositionWithinLimit
<1> QED
  BY <1>1, GatesInvInit, GatesInvNext, PTL DEF Spec

-----------------------------------------------------------------------------
(* The books of a position *)

\* The average entry price that on_fill takes of the position and `filled` units
\* at a price leaves no remainder, if it takes one.
Divides(t, filled, price) ==
  LET held == AbsoluteValue(position.net_quantity)
      quantity == SignedQuantity(t.side, filled)
  IN filled > 0 /\ (position.net_quantity = 0 \/ SameSide(position.net_quantity, quantity)) =>
       (position.avg_entry_price * held + price * filled) % (held + filled) = 0

\* So it is whichever fill comes next.  Entry prices are doubles in the code and
\* quotients of integers here: this leaves rounding out of account.
AveragesExactly ==
  \A i \in DOMAIN sent : \A filled \in 0..sent[i].quantity :
    \A price \in FillPrices \cup {sent[i].price} : Divides(sent[i], filled, price)

\* The books with n units held at an average of a: profit against cash.
Books(n, a, pnl, c) == pnl = c + n * a

\* A fill that adds to the position.
LEMMA AddingBalances ==
  ASSUME NEW n \in Int, NEW a \in Int, NEW q \in Int, NEW p \in Int, NEW c \in Int, NEW pnl \in Int,
         NEW average \in Int,
         Books(n, a, pnl, c), (n >= 0 /\ q > 0) \/ (n <= 0 /\ q < 0),
         average * (AbsoluteValue(n) + AbsoluteValue(q)) = a * AbsoluteValue(n) + p * AbsoluteValue(q)
  PROVE  Books(n + q, average, pnl, c - q * p)
<1>1. CASE n >= 0 /\ q > 0
  <2>1. AbsoluteValue(n) = n /\ AbsoluteValue(q) = q
    BY <1>1 DEF AbsoluteValue
  <2>2. average * (n + q) = a * n + p * q
    BY <2>1
  <2> QED
    BY <2>2 DEF Books
<1>2. CASE n <= 0 /\ q < 0
  <2>1. AbsoluteValue(n) = -n /\ AbsoluteValue(q) = -q
    BY <1>2 DEF AbsoluteValue
  <2>2. average * ((-n) + (-q)) = a * (-n) + p * (-q)
    BY <2>1
  <2>3. (n + q) * average = a * n + p * q
    BY <2>2
  <2> QED
    BY <2>3 DEF Books
<1> QED
  BY <1>1, <1>2

\* The units a fill of q closes, and the entry price of what is left.
Closed(n, q) == IF AbsoluteValue(n) < AbsoluteValue(q) THEN AbsoluteValue(n) ELSE AbsoluteValue(q)
Entry(n, a, q, p) == IF n + q = 0 THEN 0 ELSE IF SameSide(n + q, n) THEN a ELSE p
Gain(n, a, q, p) ==
  IF n > 0 THEN (p - a) * Closed(n, q) ELSE -((p - a) * Closed(n, q))

\* A fill that reduces, closes or turns the position.
LEMMA ClosingBalances ==
  ASSUME NEW n \in Int, NEW a \in Int, NEW q \in Int, NEW p \in Int, NEW c \in Int, NEW pnl \in Int,
         Books(n, a, pnl, c), (n > 0 /\ q < 0) \/ (n < 0 /\ q > 0)
  PROVE  Books(n + q, Entry(n, a, q, p), pnl + Gain(n, a, q, p), c - q * p)
<1>1. CASE n > 0 /\ q < 0
  <2>1. AbsoluteValue(n) = n /\ AbsoluteValue(q) = -q
    BY <1>1 DEF AbsoluteValue
  <2>2. CASE n + q = 0
    <3>1. ~(n < -q)
      BY <1>1, <2>2
    <3>2. Closed(n, q) = -q
      BY <2>1, <3>1, Zenon DEF Closed
    <3>3. Gain(n, a, q, p) = (p - a) * (-q)
      BY <1>1, <3>2 DEF Gain
    <3>5. Entry(n, a, q, p) = 0
      BY <2>2, Zenon DEF Entry
    <3> QED
      BY <2>2, <3>3, <3>5 DEF Books
  <2>3. CASE n + q > 0
    <3>1. ~(n < -q)
      BY <1>1, <2>3
    <3>2. Closed(n, q) = -q
      BY <2>1, <3>1, Zenon DEF Closed
    <3>3. Gain(n, a, q, p) = (p - a) * (-q)
      BY <1>1, <3>2 DEF Gain
    <3>4. SameSide(n + q, n) /\ ~(n + q = 0)
      BY <1>1, <2>3 DEF SameSide
    <3>5. Entry(n, a, q, p) = a
      BY <3>4, Zenon DEF Entry
    <3> QED
      BY <2>3, <3>3, <3>5 DEF Books
  <2>4. CASE n + q < 0
    <3>1. n < -q
      BY <1>1, <2>4
    <3>2. Closed(n, q) = n
      BY <2>1, <3>1, Zenon DEF Closed
    <3>3. Gain(n, a, q, p) = (p - a) * n
      BY <1>1, <3>2 DEF Gain
    <3>4. ~SameSide(n + q, n) /\ ~(n + q = 0)
      BY <1>1, <2>4 DEF SameSide
    <3>5. Entry(n, a, q, p) = p
      BY <3>4, Zenon DEF Entry
    <3> QED
      BY <2>4, <3>3, <3>5 DEF Books
  <2> QED
    BY <2>2, <2>3, <2>4
<1>2. CASE n < 0 /\ q > 0
  <2>1. AbsoluteValue(n) = -n /\ AbsoluteValue(q) = q
    BY <1>2 DEF AbsoluteValue
  <2>2. CASE n + q = 0
    <3>1. ~(-n < q)
      BY <1>2, <2>2
    <3>2. Closed(n, q) = q
      BY <2>1, <3>1, Zenon DEF Closed
    <3>3. Gain(n, a, q, p) = -((p - a) * q)
      BY <1>2, <3>2 DEF Gain
    <3>5. Entry(n, a, q, p) = 0
      BY <2>2, Zenon DEF Entry
    <3> QED
      BY <2>2, <3>3, <3>5 DEF Books
  <2>3. CASE n + q < 0
    <3>1. ~(-n < q)
      BY <1>2, <2>3
    <3>2. Closed(n, q) = q
      BY <2>1, <3>1, Zenon DEF Closed
    <3>3. Gain(n, a, q, p) = -((p - a) * q)
      BY <1>2, <3>2 DEF Gain
    <3>4. SameSide(n + q, n) /\ ~(n + q = 0)
      BY <1>2, <2>3 DEF SameSide
    <3>5. Entry(n, a, q, p) = a
      BY <3>4, Zenon DEF Entry
    <3> QED
      BY <2>3, <3>3, <3>5 DEF Books
  <2>4. CASE n + q > 0
    <3>1. -n < q
      BY <1>2, <2>4
    <3>2. Closed(n, q) = -n
      BY <2>1, <3>1, Zenon DEF Closed
    <3>3. Gain(n, a, q, p) = -((p - a) * (-n))
      BY <1>2, <3>2 DEF Gain
    <3>4. ~SameSide(n + q, n) /\ ~(n + q = 0)
      BY <1>2, <2>4 DEF SameSide
    <3>5. Entry(n, a, q, p) = p
      BY <3>4, Zenon DEF Entry
    <3> QED
      BY <2>4, <3>3, <3>5 DEF Books
  <2> QED
    BY <2>2, <2>3, <2>4
<1> QED
  BY <1>1, <1>2

\* A quotient that leaves no remainder.
LEMMA ExactQuotient ==
  ASSUME NEW x \in Int, NEW d \in Nat \ {0}, x % d = 0
  PROVE  x \div d \in Int /\ (x \div d) * d = x
<1>1. x \div d \in Int /\ x = d * (x \div d) + (x % d)
  BY Z3
<1> QED
  BY <1>1

\* on_fill keeps the books of a position, whatever the fill does to it.
LEMMA FillBalances ==
  ASSUME NEW old \in PositionType, NEW t \in Trades,
         NEW r, r.filled_quantity \in Nat, r.avg_price \in Nat, NEW c \in Int,
         Books(old.net_quantity, old.avg_entry_price, old.realized_pnl, c),
         LET quantity == FillQuantity(t, r)
             held == AbsoluteValue(old.net_quantity)
             traded == AbsoluteValue(quantity)
         IN quantity # 0 /\ (old.net_quantity = 0 \/ SameSide(old.net_quantity, quantity)) =>
              (old.avg_entry_price * held + FillPrice(t, r) * traded) % (held + traded) = 0,
         NEW new, new = OnFill(old, t, r)
  PROVE  Books(new.net_quantity, new.avg_entry_price, new.realized_pnl,
               c - FillQuantity(t, r) * FillPrice(t, r))
<1>1. PICK n, a, pnl, q, p : /\ n = old.net_quantity /\ a = old.avg_entry_price
                             /\ pnl = old.realized_pnl
                             /\ q = FillQuantity(t, r) /\ p = FillPrice(t, r)
  BY Zenon
<1>2. n \in Int /\ a \in Int /\ pnl \in Int
  BY <1>1 DEF PositionType
<1>3. q \in Int /\ p \in Int
  BY <1>1, TradeType DEF FillQuantity, FillPrice, SignedQuantity
<1>4. Books(n, a, pnl, c)
  BY <1>1, Zenon
<1> DEFINE x == a * AbsoluteValue(n) + p * AbsoluteValue(q)
           d == AbsoluteValue(n) + AbsoluteValue(q)
           adds == n = 0 \/ SameSide(n, q)
<1>5. q # 0 /\ adds => x % d = 0
  BY <1>1, Zenon
<1>6. SUFFICES Books(new.net_quantity, new.avg_entry_price, new.realized_pnl, c - q * p)
  BY <1>1, Zenon
<1>7. CASE q = 0
  <2>1. new = old
    BY <1>1, <1>7, Zenon DEF OnFill
  <2>2. c - q * p = c
    BY <1>3, <1>7
  <2> QED
    BY <1>1, <1>4, <2>1, <2>2, Zenon
<1>8. CASE q # 0 /\ adds
  <2>1. new = [old EXCEPT !.net_quantity = n + q, !.avg_entry_price = x \div d]
    BY <1>1, <1>8 DEF OnFill
  <2>2. new.net_quantity = n + q /\ new.avg_entry_price = x \div d /\ new.realized_pnl = pnl
    BY <1>1, <2>1, ZenonT(60) DEF PositionType
  <2>3. AbsoluteValue(n) \in Nat /\ AbsoluteValue(q) \in Nat \ {0}
    BY <1>2, <1>3, <1>8 DEF AbsoluteValue
  <2>4. x \in Int /\ d \in Nat \ {0} /\ x % d = 0
    BY <1>2, <1>3, <1>5, <1>8, <2>3
  <2>5. PICK average : average = x \div d
    BY Zenon
  <2>6. average \in Int /\ average * d = x
    <3> HIDE DEF x, d
    <3> QED
      BY <2>4, <2>5, ExactQuotient
  <2>7. (n >= 0 /\ q > 0) \/ (n <= 0 /\ q < 0)
    BY <1>2, <1>3, <1>8 DEF SameSide
  <2>8. Books(n + q, average, pnl, c - q * p)
    BY <1>2, <1>3, <1>4, <2>6, <2>7, AddingBalances
  <2> QED
    BY <2>2, <2>5, <2>8, Zenon
<1>9. CASE q # 0 /\ ~adds
  <2>1. new = [net_quantity |-> n + q,
               avg_entry_price |-> EntryPriceAfterClosing(old, n + q, p),
               realized_pnl |-> pnl + Gain(n, a, q, p)]
    <3>1. Gain(n, a, q, p) =
            IF old.net_quantity > 0 THEN (p - a) * Closed(n, q) ELSE -((p - a) * Closed(n, q))
      BY <1>1, Zenon DEF Gain
    <3> DEFINE gain == (p - old.avg_entry_price) * Closed(old.net_quantity, q)
    <3>2. new = CASE q = 0 -> old
                  [] q # 0 /\ (old.net_quantity = 0 \/ SameSide(old.net_quantity, q)) ->
                       [old EXCEPT !.net_quantity = old.net_quantity + q,
                                   !.avg_entry_price =
                                      (@ * AbsoluteValue(old.net_quantity) + p * AbsoluteValue(q))
                                        \div (AbsoluteValue(old.net_quantity) + AbsoluteValue(q))]
                  [] OTHER ->
                       [net_quantity |-> old.net_quantity + q,
                        avg_entry_price |-> EntryPriceAfterClosing(old, old.net_quantity + q, p),
                        realized_pnl |-> old.realized_pnl
                                           + (IF old.net_quantity > 0 THEN gain ELSE -gain)]
      BY <1>1, Zenon DEF OnFill, Closed
    <3>3. q # 0 /\ ~(old.net_quantity = 0 \/ SameSide(old.net_quantity, q))
      BY <1>1, <1>9, Zenon
    <3>4. new = [net_quantity |-> old.net_quantity + q,
                 avg_entry_price |-> EntryPriceAfterClosing(old, old.net_quantity + q, p),
                 realized_pnl |-> old.realized_pnl
                                    + (IF old.net_quantity > 0 THEN gain ELSE -gain)]
      BY <3>2, <3>3
    <3> QED
      BY <1>1, <3>1, <3>4, Zenon
  <2>2. EntryPriceAfterClosing(old, n + q, p) = Entry(n, a, q, p)
    <3>1. CASE n + q = 0
      <4>1. ~SameSide(n + q, old.net_quantity)
        BY <3>1 DEF SameSide
      <4> QED
        BY <3>1, <4>1, Zenon DEF EntryPriceAfterClosing, Entry
    <3>2. CASE n + q # 0 /\ SameSide(n + q, n)
      BY <1>1, <3>2, Zenon DEF EntryPriceAfterClosing, Entry
    <3>3. CASE n + q # 0 /\ ~SameSide(n + q, n)
      BY <1>1, <3>3, Zenon DEF EntryPriceAfterClosing, Entry
    <3> QED
      BY <3>1, <3>2, <3>3
  <2>3. /\ new.net_quantity = n + q /\ new.avg_entry_price = Entry(n, a, q, p)
        /\ new.realized_pnl = pnl + Gain(n, a, q, p)
    <3>1. PICK entry, profit : entry = Entry(n, a, q, p) /\ profit = pnl + Gain(n, a, q, p)
      BY Zenon
    <3>2. new = [net_quantity |-> n + q, avg_entry_price |-> entry, realized_pnl |-> profit]
      BY <2>1, <2>2, <3>1, Zenon
    <3> QED
      BY <3>1, <3>2
  <2>4. (n > 0 /\ q < 0) \/ (n < 0 /\ q > 0)
    BY <1>2, <1>3, <1>9 DEF SameSide
  <2>5. Books(n + q, Entry(n, a, q, p), pnl + Gain(n, a, q, p), c - q * p)
    BY <1>2, <1>3, <1>4, <2>4, ClosingBalances
  <2> QED
    BY <2>3, <2>5, Zenon
<1> QED
  BY <1>7, <1>8, <1>9

\* Inductive: the types, and the books.
BooksInv == GatesInv /\ cash \in Int /\ AccountingBalances

\* Every step keeps the books, if the average it may take is exact.
LEMMA BooksInvNext == BooksInv /\ AveragesExactly /\ [Next]_vars => BooksInv'
<1> SUFFICES ASSUME BooksInv, AveragesExactly, [Next]_vars PROVE cash' \in Int /\ AccountingBalances'
  BY GatesInvNext, Zenon DEF BooksInv
<1>1. CASE UNCHANGED <<position, cash>>
  BY <1>1 DEF BooksInv, AccountingBalances
<1>2. ASSUME NEW i \in DOMAIN sent, Respond(i) PROVE cash' \in Int /\ AccountingBalances'
  <2> DEFINE t == sent[i]
  <2>1. t \in Trades /\ position \in PositionType /\ cash \in Int
    BY <1>2 DEF BooksInv, GatesInv
  <2>2. PICK filled \in 0..t.quantity, avg_price \in FillPrices :
          LET r == [status |-> CASE filled = 0 -> "CANCELED"
                                 [] filled = t.quantity -> "FILLED"
                                 [] OTHER -> "PARTIALLY_FILLED",
                    filled_quantity |-> filled, avg_price |-> avg_price]
          IN /\ position' = OnFill(position, t, r)
             /\ cash' = cash - FillQuantity(t, r) * FillPrice(t, r)
    BY <1>2, Zenon DEF Respond
  <2> DEFINE status == CASE filled = 0 -> "CANCELED"
                         [] filled = t.quantity -> "FILLED"
                         [] OTHER -> "PARTIALLY_FILLED"
  <2>3. PICK r : /\ r = [status |-> status, filled_quantity |-> filled, avg_price |-> avg_price]
                 /\ position' = OnFill(position, t, r)
                 /\ cash' = cash - FillQuantity(t, r) * FillPrice(t, r)
    BY <2>2, Zenon
  <2>4. filled \in Nat /\ avg_price \in Nat
    BY <2>1, TradeType, GatesAssumption
  <2>5. r.filled_quantity = filled /\ r.avg_price = avg_price
    <3> HIDE DEF status
    <3> QED
      BY <2>3
  <2>6. FillPrice(t, r) \in FillPrices \cup {t.price}
    BY <2>5 DEF FillPrice
  <2>7. Divides(t, filled, FillPrice(t, r))
    BY <2>6, Zenon DEF AveragesExactly
  <2>8. PICK q, p : q = FillQuantity(t, r) /\ p = FillPrice(t, r)
    BY Zenon
  <2> HIDE DEF t, status
  <2>9. q \in Int /\ p \in Int /\ q * p \in Int
    <3>1. q \in Int /\ p \in Int
      BY <2>1, <2>4, <2>5, <2>8, TradeType DEF FillQuantity, FillPrice, SignedQuantity
    <3> QED
      BY <3>1
  <2>10. q # 0 => filled > 0 /\ q = SignedQuantity(t.side, filled)
    BY <2>5, <2>8 DEF FillQuantity
  <2>11. q # 0 => AbsoluteValue(q) = filled
    BY <2>1, <2>4, <2>10, TradeType DEF SignedQuantity, AbsoluteValue
  <2> DEFINE held == AbsoluteValue(position.net_quantity)
             adds == position.net_quantity = 0 \/ SameSide(position.net_quantity, q)
  <2>12. q # 0 /\ adds =>
           (position.avg_entry_price * held + p * AbsoluteValue(q)) % (held + AbsoluteValue(q)) = 0
    BY <2>7, <2>8, <2>10, <2>11, Zenon DEF Divides
  <2>13. Books(position.net_quantity, position.avg_entry_price, position.realized_pnl, cash)
    BY DEF BooksInv, AccountingBalances, Books
  <2>14. Books(position'.net_quantity, position'.avg_entry_price, position'.realized_pnl,
               cash - FillQuantity(t, r) * FillPrice(t, r))
    BY <2>1, <2>3, <2>4, <2>5, <2>8, <2>12, <2>13, FillBalances, Zenon
  <2> QED
    BY <2>1, <2>3, <2>8, <2>9, <2>14 DEF Books, AccountingBalances
<1>3. CASE Tick /\ UNCHANGED gateVars
  BY <1>1, <1>3, Zenon DEF gateVars
<1>4. CASE UpdateQuote
  BY <1>1, <1>4, Zenon DEF UpdateQuote
<1>5. ASSUME NEW t \in Trades, Submit(t) PROVE UNCHANGED <<position, cash>>
  BY <1>5, Zenon DEF Submit
<1>6. CASE Execute
  BY <1>1, <1>6, Zenon DEF Execute
<1>7. CASE UNCHANGED vars
  BY <1>1, <1>7, Zenon DEF vars, gateVars
<1> QED
  BY <1>1, <1>2, <1>3, <1>4, <1>5, <1>6, <1>7, Zenon DEF Next

\* on_fill keeps the books: whatever orders are placed and in whatever parts and
\* at whatever prices they are filled, through additions, reductions, closings and
\* turns from long to short, realized profit is the cash that the fills moved with
\* the open position valued at its average entry price.  The average itself is
\* taken to be exact.
THEOREM PositionBooks == Spec /\ []AveragesExactly => []AccountingBalances
<1>1. Init => BooksInv
  <2>1. Init => cash \in Int /\ AccountingBalances
    BY DEF Init, AccountingBalances
  <2> QED
    BY <2>1, GatesInvInit DEF BooksInv
<1>2. BooksInv => AccountingBalances
  BY DEF BooksInv
<1> QED
  BY <1>1, <1>2, BooksInvNext, PTL DEF Spec
=============================================================================

---------------------------- MODULE RateLimiter ----------------------------
(***************************************************************************)
(* RateLimiter of include/core/order_executor.hpp, called by the executor  *)
(* thread: two counters, one per second and one per 100 ms, each set back  *)
(* when the clock enters a new second or a new interval.  The clock is     *)
(* discrete and a call takes no time.                                      *)
(***************************************************************************)
EXTENDS Integers

CONSTANTS
  MaxPerSecond,        \* max_requests_per_second_
  MaxPer100ms,         \* max_requests_per_100ms_
  TicksPer100ms,       \* how fine the clock is
  IntervalsPerSecond,  \* 10 in the code
  MaxTime              \* bound on the clock

ASSUME LimiterAssumption ==
  /\ {MaxPerSecond, MaxPer100ms, TicksPer100ms, IntervalsPerSecond} \subseteq Nat \ {0}
  /\ MaxTime \in Nat

VARIABLES
  now,                    \* steady_clock
  requests_this_second,   \* requests_this_second_
  requests_this_100ms,    \* requests_this_100ms_
  current_second,         \* current_second_
  current_100ms,          \* current_100ms_
  (* history: calls that returned true, by second, by interval and by tick *)
  granted_in_second, granted_in_100ms, granted

grantVars == <<granted_in_second, granted_in_100ms, granted>>
counterVars == <<requests_this_second, requests_this_100ms, current_second, current_100ms>>
limiterVars == <<now, counterVars, grantVars>>

TicksPerSecond == TicksPer100ms * IntervalsPerSecond
Interval(t) == t \div TicksPer100ms
Second(t) == t \div TicksPerSecond

\* The clock may read anything when the limiter is made.
LimiterInit ==
  /\ now \in 0..MaxTime
  /\ requests_this_second = 0 /\ requests_this_100ms = 0
  /\ current_second = 0 /\ current_100ms = 0
  /\ granted_in_second = [t \in 0..Second(MaxTime) |-> 0]
  /\ granted_in_100ms = [t \in 0..Interval(MaxTime) |-> 0]
  /\ granted = [t \in 0..MaxTime |-> 0]

Tick ==
  /\ now < MaxTime
  /\ now' = now + 1
  /\ UNCHANGED <<counterVars, grantVars>>

\* Mutant of Below: one request too many.
AtMost(count, max) == count <= max

Below(count, max) == count < max

\* Mutant of InThisSecond: the count goes on from second to second.
NeverReset == requests_this_second

\* The counters after a change of second or of interval has set them back.
InThisSecond == IF Second(now) = current_second THEN requests_this_second ELSE 0
InThisInterval == IF Interval(now) = current_100ms THEN requests_this_100ms ELSE 0

MayAcquire == Below(InThisSecond, MaxPerSecond) /\ Below(InThisInterval, MaxPer100ms)

\* try_acquire returns ok.
TryAcquire(ok) ==
  LET one == IF ok THEN 1 ELSE 0
  IN /\ ok = MayAcquire
     /\ current_second' = Second(now)
     /\ current_100ms' = Interval(now)
     /\ requests_this_second' = InThisSecond + one
     /\ requests_this_100ms' = InThisInterval + one
     /\ granted_in_second' = [granted_in_second EXCEPT ![Second(now)] = @ + one]
     /\ granted_in_100ms' = [granted_in_100ms EXCEPT ![Interval(now)] = @ + one]
     /\ granted' = [granted EXCEPT ![now] = @ + one]
     /\ UNCHANGED now

LimiterNext == Tick \/ \E ok \in BOOLEAN : TryAcquire(ok)

LimiterSpec == LimiterInit /\ [][LimiterNext]_limiterVars

-----------------------------------------------------------------------------
(* Properties *)

\* A refusal is due: whenever try_acquire would refuse, the first time or again and
\* whatever the clock reads, the limit of the second or of the interval that the
\* clock is in has been used up by requests really made there.
RefusalsAreDue ==
  ~MayAcquire => \/ granted_in_second[Second(now)] = MaxPerSecond
                 \/ granted_in_100ms[Interval(now)] = MaxPer100ms

\* No second and no 100 ms interval, as the clock divides time, has more requests
\* than its limit.
AlignedWindowsRespected ==
  /\ \A t \in DOMAIN granted_in_second : granted_in_second[t] <= MaxPerSecond
  /\ \A t \in DOMAIN granted_in_100ms : granted_in_100ms[t] <= MaxPer100ms

\* Requests granted in the 100 ms from a tick on.
GrantedFrom(first) ==
  LET sum[t \in (first - 1)..MaxTime] == IF t < first THEN 0 ELSE sum[t - 1] + granted[t]
      last == first + TicksPer100ms - 1
  IN sum[IF last < MaxTime THEN last ELSE MaxTime]

\* No 100 ms at all have more requests than the limit.  This does not hold; the
\* README says why.
Any100msRespected == \A t \in 0..MaxTime : GrantedFrom(t) <= MaxPer100ms
=============================================================================

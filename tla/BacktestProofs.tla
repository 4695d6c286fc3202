--------------------------- MODULE BacktestProofs ---------------------------
(***************************************************************************)
(* What holds of Backtest for any strategies, orders, recordings and       *)
(* requests.  The sink gives every order one outcome however its calls     *)
(* nest; the drivers page through the storage, while it grows, without     *)
(* skipping or repeating an event.                                         *)
(***************************************************************************)
EXTENDS Backtest, WellFoundedInduction, TLAPS

Resting == [trade : Orders, id : Nat, exchange_order_id : Nat]
Answers == [trade : Orders, id : Nat, status : {"FILLED", "CANCELED", "REJECTED"},
            avg_price : Nat, exchange_order_id : Nat]
Logged == [type : {"TradeSubmitted", "OrderResponse"}, id : Nat]
Quotes == [bid : Nat, ask : Nat]

SinkTypes ==
  /\ quotes \in [Tickers -> Quotes \cup {NoQuote}]
  /\ resting_orders \in Seq(Resting)
  /\ deliveries \in Seq(Answers) /\ published \in Seq(Answers)
  /\ next_exchange_order_id \in Nat /\ submitted \in Nat

IdsAt(s, places) == {s[i].id : i \in places}
IdsIn(s) == {s[i].id : i \in DOMAIN s}
Distinct(s) == \A i, j \in DOMAIN s : s[i].id = s[j].id => i = j

\* An order is in one place: it rests, or its response is to be delivered, or it
\* has been published.
Outcome(rest, deliver, publish, n) ==
  /\ Distinct(rest) /\ Distinct(deliver) /\ Distinct(publish)
  /\ IdsIn(rest) \cap IdsIn(deliver) = {}
  /\ IdsIn(rest) \cap IdsIn(publish) = {}
  /\ IdsIn(deliver) \cap IdsIn(publish) = {}
  /\ IdsIn(rest) \cup IdsIn(deliver) \cup IdsIn(publish) = 0..(n - 1)

\* What ResponsesFollowSubmissions says of the order of any log.
Follows(log) ==
  \A i \in DOMAIN log : log[i].type = "OrderResponse" =>
    \A j \in DOMAIN log : /\ log[j] = Submission(log[i].id) => j < i
                          /\ log[j] = log[i] => j = i

\* A log of submissions and of responses to these orders.
LogOf(log, ids) ==
  /\ log \in Seq(Logged)
  /\ \A i \in DOMAIN log : log[i].type = "OrderResponse" => log[i].id \in ids
  /\ Follows(log)

\* A log in which no submission of the first n orders is missing.
AllLogged(log, n) == \A id \in 0..(n - 1) : \E j \in DOMAIN log : log[j] = Submission(id)

\* The log of n submissions and these responses, of which some were refused.
LogInv(log, failures, n, publish) ==
  /\ LogOf(log, IdsIn(publish)) /\ failures \in Nat
  /\ ~HasStorage => log = <<>>
  /\ HasStorage => /\ failures + Len(log) = n + Len(publish)
                   /\ failures = 0 => AllLogged(log, n)

\* What one append_storage_event adds to storage_append_failures_.
Refused(taken) == IF HasStorage /\ ~taken THEN 1 ELSE 0

\* The sink's inductive invariant: submissions are logged as orders are numbered,
\* responses as they are published.
SinkInv ==
  /\ SinkTypes
  /\ Outcome(resting_orders, deliveries, published, submitted)
  /\ LogInv(execution_log, storage_append_failures, submitted, published)

-----------------------------------------------------------------------------
(* Sequences *)

\* A sequence is the function of its elements.
LEMMA Elements ==
  ASSUME NEW S, NEW s \in Seq(S)
  PROVE  Len(s) \in Nat /\ DOMAIN s = 1..Len(s) /\ \A i \in 1..Len(s) : s[i] \in S
  OBVIOUS

\* A function on 1..n is a sequence.
LEMMA IsSequence ==
  ASSUME NEW S, NEW n \in Nat, NEW f \in [1..n -> S]
  PROVE  f \in Seq(S) /\ Len(f) = n /\ DOMAIN f = 1..n
  OBVIOUS

\* Concatenation takes the elements of both, in order.
LEMMA Joined ==
  ASSUME NEW S, NEW a \in Seq(S), NEW b \in Seq(S)
  PROVE  /\ a \o b \in Seq(S) /\ Len(a \o b) = Len(a) + Len(b)
         /\ Len(a) \in Nat /\ Len(b) \in Nat
         /\ \A i \in 1..Len(a) : (a \o b)[i] = a[i]
         /\ \A i \in 1..Len(b) : (a \o b)[Len(a) + i] = b[i]
  OBVIOUS

\* One element more.
LEMMA Appended ==
  ASSUME NEW S, NEW s \in Seq(S), NEW e \in S
  PROVE  /\ Append(s, e) \in Seq(S) /\ Len(Append(s, e)) = Len(s) + 1 /\ Len(s) \in Nat
         /\ Append(s, e)[Len(s) + 1] = e
         /\ \A i \in 1..Len(s) : Append(s, e)[i] = s[i]
  OBVIOUS

\* All elements but the first.
LEMMA Tails ==
  ASSUME NEW S, NEW s \in Seq(S), s # <<>>
  PROVE  /\ Tail(s) \in Seq(S) /\ Len(Tail(s)) = Len(s) - 1 /\ Len(s) \in Nat \ {0}
         /\ Head(s) = s[1] /\ s[1] \in S
         /\ \A i \in 1..(Len(s) - 1) : Tail(s)[i] = s[i + 1]
  OBVIOUS

\* Sequences of the same elements are the same.
LEMMA SameElements ==
  ASSUME NEW S, NEW s \in Seq(S), NEW t \in Seq(S), Len(s) = Len(t),
         \A i \in 1..Len(s) : s[i] = t[i]
  PROVE  s = t
  OBVIOUS

\* The ids in a concatenation.
LEMMA IdsJoined ==
  ASSUME NEW S, NEW a \in Seq(S), NEW b \in Seq(S)
  PROVE  /\ IdsIn(a \o b) = IdsIn(a) \cup IdsIn(b)
         /\ Distinct(a) /\ Distinct(b) /\ IdsIn(a) \cap IdsIn(b) = {} => Distinct(a \o b)
<1> DEFINE ab == a \o b
           n == Len(a)
           m == Len(b)
<1>1. /\ ab \in Seq(S) /\ Len(ab) = n + m /\ n \in Nat /\ m \in Nat
      /\ \A i \in 1..n : ab[i] = a[i]
      /\ \A i \in 1..m : ab[n + i] = b[i]
  BY SMTT(30)
<1>2. DOMAIN a = 1..n /\ DOMAIN b = 1..m /\ DOMAIN ab = 1..(n + m)
  BY <1>1, Elements, Zenon
<1> HIDE DEF ab, n, m
<1>3. \A i \in 1..n : i \in 1..(n + m)
  BY <1>1
<1>4. \A i \in 1..m : n + i \in 1..(n + m)
  BY <1>1
<1>5. ASSUME NEW i \in 1..(n + m), i \notin 1..n PROVE \E k \in 1..m : i = n + k
  <2>1. i - n \in 1..m /\ i = n + (i - n)
    BY <1>1, <1>5
  <2> QED
    BY <2>1, Zenon
<1>6. ASSUME NEW i \in DOMAIN ab
      PROVE  \/ i \in DOMAIN a /\ ab[i].id = a[i].id
             \/ \E k \in DOMAIN b : i = n + k /\ ab[i].id = b[k].id
  <2>1. CASE i \in 1..n
    BY <1>1, <1>2, <2>1, Zenon
  <2>2. CASE i \notin 1..n
    <3>1. PICK k \in 1..m : i = n + k
      BY <1>2, <1>5, <2>2, Zenon
    <3>2. ab[i] = b[k]
      BY <1>1, <3>1, Zenon
    <3> QED
      BY <1>2, <3>1, <3>2, Zenon
  <2> QED
    BY <2>1, <2>2, Zenon
<1>7. \A k \in DOMAIN a : k \in DOMAIN ab /\ ab[k].id = a[k].id
  BY <1>1, <1>2, <1>3, Zenon
<1>8. \A k \in DOMAIN b : n + k \in DOMAIN ab /\ ab[n + k].id = b[k].id
  BY <1>1, <1>2, <1>4, Zenon
<1>9. IdsIn(ab) = IdsIn(a) \cup IdsIn(b)
  <2>1. \A i \in DOMAIN ab : ab[i].id \in IdsIn(a) \cup IdsIn(b)
    BY <1>6, Zenon DEF IdsIn
  <2>2. \A k \in DOMAIN a : a[k].id \in IdsIn(ab)
    BY <1>7, Zenon DEF IdsIn
  <2>3. \A k \in DOMAIN b : b[k].id \in IdsIn(ab)
    BY <1>8, Zenon DEF IdsIn
  <2> QED
    BY <2>1, <2>2, <2>3, Zenon DEF IdsIn
<1>10. ASSUME Distinct(a), Distinct(b), IdsIn(a) \cap IdsIn(b) = {}, NEW i \in DOMAIN ab,
              NEW j \in DOMAIN ab, ab[i].id = ab[j].id
       PROVE  i = j
  <2>1. ASSUME NEW k \in DOMAIN a, NEW l \in DOMAIN b PROVE a[k].id # b[l].id
    BY <1>10, Zenon DEF IdsIn
  <2>2. CASE i \in DOMAIN a /\ ab[i].id = a[i].id
    <3>1. j \in DOMAIN a /\ ab[j].id = a[j].id
      BY <1>6, <1>10, <2>1, <2>2, Zenon
    <3> QED
      BY <1>10, <2>2, <3>1, Zenon DEF Distinct
  <2>3. ASSUME NEW k \in DOMAIN b, i = n + k, ab[i].id = b[k].id PROVE i = j
    BY <1>6, <1>10, <2>1, <2>3, Zenon DEF Distinct
  <2> QED
    BY <1>6, <2>2, <2>3, Zenon
<1>11. Distinct(a) /\ Distinct(b) /\ IdsIn(a) \cap IdsIn(b) = {} => Distinct(ab)
  BY <1>10, Zenon DEF Distinct
<1> QED
  BY <1>9, <1>11, Zenon DEF ab

\* The ids of a sequence with one element more.
LEMMA IdsAppended ==
  ASSUME NEW S, NEW s \in Seq(S), NEW e \in S
  PROVE  /\ IdsIn(Append(s, e)) = IdsIn(s) \cup {e.id}
         /\ Distinct(s) /\ e.id \notin IdsIn(s) => Distinct(Append(s, e))
<1>1. <<e>> \in Seq(S) /\ Append(s, e) = s \o <<e>>
  OBVIOUS
<1>2. DOMAIN <<e>> = {1} /\ <<e>>[1] = e
  OBVIOUS
<1>3. IdsIn(<<e>>) = {e.id} /\ Distinct(<<e>>)
  BY <1>2, Zenon DEF IdsIn, Distinct
<1>4. /\ IdsIn(s \o <<e>>) = IdsIn(s) \cup IdsIn(<<e>>)
      /\ Distinct(s) /\ Distinct(<<e>>) /\ IdsIn(s) \cap IdsIn(<<e>>) = {} => Distinct(s \o <<e>>)
  BY <1>1, IdsJoined, Zenon
<1> QED
  BY <1>1, <1>3, <1>4, Zenon

\* A sequence is its first element and its tail.
LEMMA IdsOfTail ==
  ASSUME NEW S, NEW s \in Seq(S), s # <<>>
  PROVE  /\ Tail(s) \in Seq(S) /\ Head(s) \in S
         /\ IdsIn(s) = {Head(s).id} \cup IdsIn(Tail(s))
         /\ Distinct(s) => Distinct(Tail(s)) /\ Head(s).id \notin IdsIn(Tail(s))
<1> DEFINE t == Tail(s)
           n == Len(s)
<1>1. /\ t \in Seq(S) /\ Len(t) = n - 1 /\ n \in Nat \ {0} /\ Head(s) = s[1] /\ s[1] \in S
      /\ \A i \in 1..(n - 1) : t[i] = s[i + 1]
  BY Tails, Zenon
<1>2. DOMAIN s = 1..n /\ DOMAIN t = 1..(n - 1)
  BY <1>1, Elements, Zenon
<1> HIDE DEF t, n
<1>3. 1 \in DOMAIN s /\ \A i \in DOMAIN t : i + 1 \in DOMAIN s /\ i + 1 # 1 /\ s[i + 1].id = t[i].id
  BY <1>1, <1>2
<1>4. ASSUME NEW i \in DOMAIN s, i # 1 PROVE \E k \in DOMAIN t : i = k + 1
  <2>1. i - 1 \in 1..(n - 1) /\ i = (i - 1) + 1
    BY <1>1, <1>2, <1>4
  <2> QED
    BY <1>2, <2>1, Zenon
<1>5. IdsIn(s) = {s[1].id} \cup IdsIn(t)
  <2>1. \A i \in DOMAIN s : s[i].id \in {s[1].id} \cup IdsIn(t)
    <3> SUFFICES ASSUME NEW i \in DOMAIN s, i # 1 PROVE s[i].id \in IdsIn(t)
      BY Zenon
    <3>1. PICK k \in DOMAIN t : i = k + 1
      BY <1>4, Zenon
    <3> QED
      BY <1>3, <3>1, Zenon DEF IdsIn
  <2>2. \A i \in DOMAIN t : t[i].id \in IdsIn(s)
    BY <1>3, Zenon DEF IdsIn
  <2> QED
    BY <1>3, <2>1, <2>2, Zenon DEF IdsIn
<1>6. ASSUME Distinct(s), NEW i \in DOMAIN t, NEW j \in DOMAIN t, t[i].id = t[j].id PROVE i = j
  <2>1. i + 1 = j + 1
    BY <1>3, <1>6, Zenon DEF Distinct
  <2> QED
    BY <1>1, <1>2, <2>1
<1>7. ASSUME Distinct(s) PROVE s[1].id \notin IdsIn(t)
  <2>1. \A i \in DOMAIN t : s[1].id # t[i].id
    BY <1>3, <1>7, Zenon DEF Distinct
  <2> QED
    BY <2>1, Zenon DEF IdsIn
<1>8. Distinct(s) => Distinct(t)
  BY <1>6, Zenon DEF Distinct
<1> QED
  BY <1>1, <1>5, <1>7, <1>8, Zenon DEF t

\* A walk passes these places, n of them, in order.
Passes(at, n, places) ==
  /\ at \in [1..n -> places]
  /\ \A k, l \in 1..n : k < l => at[k] < at[l]
  /\ \A i \in places : \E k \in 1..n : at[k] = i

\* What a walk finds.
Found(s, at, n) == [k \in 1..n |-> s[at[k]]]

Collects(f, S, r, at, n, places) ==
  /\ f \in Seq(S) /\ Len(f) = n /\ DOMAIN f = 1..n
  /\ \A k \in 1..n : at[k] \in places /\ f[k] = r[at[k]]
  /\ IdsIn(f) = IdsAt(r, places)
  /\ Distinct(r) => Distinct(f)

\* The orders at places that a walk passes one by one.
LEMMA Picked ==
  ASSUME NEW S, NEW r \in Seq(S), NEW places, places \subseteq DOMAIN r,
         NEW n \in Nat, NEW at, Passes(at, n, places), NEW f, f = Found(r, at, n)
  PROVE  Collects(f, S, r, at, n, places)
<1>0. /\ at \in [1..n -> places]
      /\ \A k, l \in 1..n : k < l => at[k] < at[l]
      /\ \A i \in places : \E k \in 1..n : at[k] = i
      /\ f = [k \in 1..n |-> r[at[k]]]
  BY Zenon DEF Passes, Found
<1>1. \A i \in DOMAIN r : r[i] \in S
  BY Elements, Zenon
<1>2. f \in [1..n -> S]
  BY <1>0, <1>1, Zenon
<1>3. f \in Seq(S) /\ Len(f) = n /\ DOMAIN f = 1..n
  BY <1>2, IsSequence, Zenon
<1>4. \A k \in 1..n : at[k] \in places /\ f[k] = r[at[k]]
  BY <1>0, Zenon
<1>5. \A k, l \in 1..n : at[k] = at[l] => k = l
  <2> SUFFICES ASSUME NEW k \in 1..n, NEW l \in 1..n, at[k] = at[l], k # l PROVE FALSE
    BY Zenon
  <2>1. at[k] \in Int
    BY <1>0, Elements
  <2> QED
    BY <1>0, <2>1
<1>6. IdsIn(f) = {r[i].id : i \in places}
  <2>1. \A k \in 1..n : f[k].id \in {r[i].id : i \in places}
    BY <1>4, Zenon
  <2>2. ASSUME NEW i \in places PROVE r[i].id \in {f[k].id : k \in 1..n}
    <3>1. PICK k \in 1..n : at[k] = i
      BY <1>0, Zenon
    <3>2. f[k].id = r[i].id
      BY <1>4, <3>1, Zenon
    <3> QED
      BY <3>2, Zenon
  <2>3. IdsIn(f) = {f[k].id : k \in 1..n}
    BY <1>3, Zenon DEF IdsIn
  <2>4. {f[k].id : k \in 1..n} = {r[i].id : i \in places}
    BY <2>1, <2>2, Zenon
  <2> QED
    BY <2>3, <2>4, Zenon
<1>7. ASSUME Distinct(r), NEW k \in 1..n, NEW l \in 1..n, f[k].id = f[l].id PROVE k = l
  <2>1. r[at[k]].id = r[at[l]].id
    BY <1>4, <1>7, Zenon
  <2>2. at[k] = at[l]
    BY <1>4, <1>7, <2>1, Zenon DEF Distinct
  <2> QED
    BY <1>5, <2>2, Zenon
<1>8. Distinct(r) => Distinct(f)
  BY <1>3, <1>7, Zenon DEF Distinct
<1> QED
  BY <1>3, <1>4, <1>6, <1>8, Zenon DEF IdsAt, Collects

\* Walk says so.
LEMMA WalkPasses ==
  ASSUME resting_orders \in Seq(Resting), NEW places, NEW at \in Walk(places)
  PROVE  \E n \in Nat : Passes(at, n, places) /\ DOMAIN at = 1..n
<1>1. /\ \A k, l \in DOMAIN at : k < l => at[k] < at[l]
      /\ \A i \in places : \E k \in DOMAIN at : at[k] = i
  BY Zenon DEF Walk
<1>2. PICK n \in 0..Len(resting_orders) : at \in [1..n -> places]
  BY Zenon DEF Walk
<1>3. n \in Nat
  OBVIOUS
<1>4. DOMAIN at = 1..n
  BY <1>2, Zenon
<1> QED
  BY <1>1, <1>2, <1>3, <1>4, Zenon DEF Passes

\* The responses to these orders.
LEMMA AnswersAre ==
  ASSUME NEW orders \in Seq(Resting), NEW prices, \A k \in 1..Len(orders) : prices[k] \in Nat,
         NEW status \in {"FILLED", "CANCELED", "REJECTED"},
         NEW answers, answers = Responses(orders, status, prices)
  PROVE  /\ answers \in Seq(Answers) /\ IdsIn(answers) = IdsIn(orders)
         /\ Distinct(orders) => Distinct(answers)
<1> PICK n \in Nat : n = Len(orders)
  OBVIOUS
<1>1. DOMAIN orders = 1..n /\ \A k \in 1..n : orders[k] \in Resting
  BY Elements, Zenon
<1>2. /\ answers \in [1..n -> Answers]
      /\ \A k \in 1..n : answers[k].id = orders[k].id
  BY <1>1, Zenon DEF Responses, Answers, Resting
<1>3. answers \in Seq(Answers) /\ DOMAIN answers = 1..n
  BY <1>2, IsSequence, Zenon
<1>4. IdsIn(answers) = IdsIn(orders)
  <2>1. \A k \in DOMAIN answers : answers[k].id \in IdsIn(orders)
    BY <1>1, <1>2, <1>3, Zenon DEF IdsIn
  <2>2. \A k \in DOMAIN orders : orders[k].id \in IdsIn(answers)
    <3> SUFFICES ASSUME NEW k \in DOMAIN orders PROVE orders[k].id \in IdsIn(answers)
      BY Zenon
    <3>1. k \in DOMAIN answers /\ answers[k].id = orders[k].id
      BY <1>1, <1>2, <1>3, Zenon
    <3> QED
      BY <3>1, Zenon DEF IdsIn
  <2> QED
    BY <2>1, <2>2, ZenonT(30) DEF IdsIn
<1>5. ASSUME Distinct(orders), NEW k \in DOMAIN answers, NEW l \in DOMAIN answers,
             answers[k].id = answers[l].id
      PROVE  k = l
  <2>1. k \in DOMAIN orders /\ l \in DOMAIN orders /\ orders[k].id = orders[l].id
    BY <1>1, <1>2, <1>3, <1>5, Zenon
  <2> QED
    BY <1>5, <2>1, Zenon DEF Distinct
<1>6. Distinct(orders) => Distinct(answers)
  BY <1>5, Zenon DEF Distinct
<1> QED
  BY <1>3, <1>4, <1>6, Zenon

\* The ids at these places and at the others.
LEMMA Parted ==
  ASSUME NEW r, Distinct(r), NEW places \in SUBSET DOMAIN r, NEW rest, rest = DOMAIN r \ places
  PROVE  /\ IdsAt(r, rest) \cap IdsAt(r, places) = {}
         /\ IdsAt(r, rest) \cup IdsAt(r, places) = IdsIn(r)
         /\ rest \subseteq DOMAIN r /\ places \subseteq DOMAIN r
<1>1. \A i \in rest, j \in places : i \in DOMAIN r /\ j \in DOMAIN r /\ i # j
  BY Zenon
<1>2. \A i \in rest, j \in places : r[i].id # r[j].id
  BY <1>1, Zenon DEF Distinct
<1>3. {r[i].id : i \in rest} \cap {r[i].id : i \in places} = {}
  BY <1>2, Zenon
<1>4. \A i \in DOMAIN r : r[i].id \in {r[k].id : k \in rest} \cup {r[k].id : k \in places}
  BY Zenon
<1>5. /\ \A i \in rest : r[i].id \in IdsIn(r)
      /\ \A i \in places : r[i].id \in IdsIn(r)
  BY Zenon DEF IdsIn
<1>6. {r[i].id : i \in rest} \cup {r[i].id : i \in places} = IdsIn(r)
  BY <1>4, <1>5, Zenon DEF IdsIn
<1> QED
  BY <1>3, <1>6, Zenon DEF IdsAt

\* A walk that takes the orders at these places leaves the others resting and
\* answers those it takes.
Takes(at, n, left, m, places, status, price) ==
  /\ Passes(at, n, places) /\ Passes(left, m, DOMAIN resting_orders \ places)
  /\ resting_orders' = Found(resting_orders, left, m)
  /\ deliveries' = Responses(Found(resting_orders, at, n), status, Found(price, at, n)) \o deliveries
  /\ next_exchange_order_id' = next_exchange_order_id + Len(Found(resting_orders, at, n))

\* What Take does.
LEMMA TakeIs ==
  ASSUME resting_orders \in Seq(Resting), NEW places, NEW status, NEW price,
         Take(places, status, price)
  PROVE  \E n, m \in Nat : \E at, left : Takes(at, n, left, m, places, status, price)
<1>1. PICK at \in Walk(places), left \in Walk(LeftBy(places)) :
        /\ resting_orders' = [k \in DOMAIN left |-> resting_orders[left[k]]]
        /\ deliveries' = Responses([k \in DOMAIN at |-> resting_orders[at[k]]], status,
                                   [k \in DOMAIN at |-> price[at[k]]]) \o deliveries
        /\ next_exchange_order_id' = next_exchange_order_id + Len([k \in DOMAIN at |-> resting_orders[at[k]]])
  BY Zenon DEF Take, MakeResponses
<1>2. PICK n \in Nat : Passes(at, n, places) /\ DOMAIN at = 1..n
  BY <1>1, WalkPasses, Zenon
<1>3. PICK m \in Nat : Passes(left, m, LeftBy(places)) /\ DOMAIN left = 1..m
  BY <1>1, WalkPasses, Zenon
<1>4. /\ resting_orders' = Found(resting_orders, left, m)
      /\ deliveries' = Responses(Found(resting_orders, at, n), status, Found(price, at, n)) \o deliveries
      /\ next_exchange_order_id' = next_exchange_order_id + Len(Found(resting_orders, at, n))
  BY <1>1, <1>2, <1>3, Zenon DEF Found
<1>5. Passes(left, m, DOMAIN resting_orders \ places)
  BY <1>3, Zenon DEF LeftBy
<1>6. Takes(at, n, left, m, places, status, price)
  BY <1>2, <1>4, <1>5, Zenon DEF Takes
<1> QED
  BY <1>6, Zenon

\* A walk over resting_orders_ moves the orders it takes, each one once, to the
\* responses to deliver, and leaves the others.
LEMMA Taken ==
  ASSUME SinkTypes, Distinct(resting_orders), Distinct(deliveries),
         IdsIn(resting_orders) \cap IdsIn(deliveries) = {},
         NEW places \in SUBSET DOMAIN resting_orders,
         NEW status \in {"FILLED", "CANCELED", "REJECTED"}, NEW price \in [places -> Nat],
         Take(places, status, price)
  PROVE  /\ resting_orders' \in Seq(Resting) /\ deliveries' \in Seq(Answers)
         /\ next_exchange_order_id' \in Nat
         /\ Distinct(resting_orders)' /\ Distinct(deliveries)'
         /\ IdsIn(resting_orders)' \cap IdsIn(deliveries)' = {}
         /\ IdsIn(resting_orders)' \cup IdsIn(deliveries)' = IdsIn(resting_orders) \cup IdsIn(deliveries)
         /\ IdsIn(deliveries)' = IdsAt(resting_orders, places) \cup IdsIn(deliveries)
         /\ \A k \in DOMAIN resting_orders' :
              \E i \in DOMAIN resting_orders \ places : resting_orders'[k] = resting_orders[i]
<1>1. resting_orders \in Seq(Resting) /\ deliveries \in Seq(Answers) /\ next_exchange_order_id \in Nat
  BY Zenon DEF SinkTypes
<1>2. PICK n \in Nat, m \in Nat : \E at, left : Takes(at, n, left, m, places, status, price)
  BY <1>1, TakeIs, Zenon
<1>3. PICK at, left : Takes(at, n, left, m, places, status, price)
  BY <1>2, Zenon
<1>4. PICK rest : rest = DOMAIN resting_orders \ places
  BY Zenon
<1>5. /\ IdsAt(resting_orders, rest) \cap IdsAt(resting_orders, places) = {}
      /\ IdsAt(resting_orders, rest) \cup IdsAt(resting_orders, places) = IdsIn(resting_orders)
      /\ rest \subseteq DOMAIN resting_orders /\ places \subseteq DOMAIN resting_orders
  BY <1>4, Parted, Zenon
<1>6. PICK orders : orders = Found(resting_orders, at, n)
  BY Zenon
<1>7. PICK staying : staying = Found(resting_orders, left, m)
  BY Zenon
<1>8. PICK prices : prices = Found(price, at, n)
  BY Zenon
<1>9. PICK answers : answers = Responses(orders, status, prices)
  BY Zenon
<1>10. Passes(at, n, places) /\ Passes(left, m, rest)
  BY <1>3, <1>4, Zenon DEF Takes
<1>11. /\ orders \in Seq(Resting) /\ Len(orders) = n
       /\ \A k \in 1..n : at[k] \in places
       /\ IdsIn(orders) = IdsAt(resting_orders, places) /\ Distinct(orders)
  <2>1. Collects(orders, Resting, resting_orders, at, n, places)
    BY <1>1, <1>5, <1>6, <1>10, Picked, Zenon
  <2> QED
    BY <2>1, Zenon DEF Collects
<1>12. /\ staying \in Seq(Resting) /\ DOMAIN staying = 1..m
       /\ \A k \in 1..m : left[k] \in rest /\ staying[k] = resting_orders[left[k]]
       /\ IdsIn(staying) = IdsAt(resting_orders, rest) /\ Distinct(staying)
  <2>1. Collects(staying, Resting, resting_orders, left, m, rest)
    BY <1>1, <1>5, <1>7, <1>10, Picked, Zenon
  <2> QED
    BY <2>1, Zenon DEF Collects
<1>13. \A k \in 1..Len(orders) : prices[k] \in Nat
  BY <1>8, <1>11, Zenon DEF Found
<1>14. answers \in Seq(Answers) /\ IdsIn(answers) = IdsIn(orders) /\ Distinct(answers)
  BY <1>9, <1>11, <1>13, AnswersAre, Zenon
<1>15. resting_orders' = staying /\ deliveries' = answers \o deliveries
  BY <1>3, <1>6, <1>7, <1>8, <1>9, Zenon DEF Takes
<1>16. next_exchange_order_id' \in Nat
  <2>1. next_exchange_order_id' = next_exchange_order_id + n
    BY <1>3, <1>6, <1>11, Zenon DEF Takes
  <2> QED
    BY <1>1, <2>1
<1>17. answers \o deliveries \in Seq(Answers)
  BY <1>1, <1>14, Joined, Zenon
<1>18. IdsIn(answers) \cap IdsIn(deliveries) = {}
  BY <1>5, <1>11, <1>14, Zenon
<1>19. IdsIn(answers \o deliveries) = IdsIn(answers) \cup IdsIn(deliveries) /\ Distinct(answers \o deliveries)
  BY <1>1, <1>14, <1>18, IdsJoined
<1>20. /\ IdsIn(resting_orders)' = IdsIn(staying) /\ Distinct(resting_orders)' = Distinct(staying)
       /\ IdsIn(deliveries)' = IdsIn(answers \o deliveries)
       /\ Distinct(deliveries)' = Distinct(answers \o deliveries)
  BY <1>15, Zenon DEF IdsIn, Distinct
<1>21. /\ IdsIn(resting_orders)' = IdsAt(resting_orders, rest)
       /\ IdsIn(deliveries)' = IdsAt(resting_orders, places) \cup IdsIn(deliveries)
  BY <1>11, <1>12, <1>14, <1>19, <1>20, Zenon
<1>22. /\ IdsIn(resting_orders)' \cap IdsIn(deliveries)' = {}
       /\ IdsIn(resting_orders)' \cup IdsIn(deliveries)' = IdsIn(resting_orders) \cup IdsIn(deliveries)
  BY <1>5, <1>21, Zenon
<1>23. \A k \in DOMAIN resting_orders' :
         \E i \in DOMAIN resting_orders \ places : resting_orders'[k] = resting_orders[i]
  BY <1>4, <1>12, <1>15, Zenon
<1>24. resting_orders' \in Seq(Resting) /\ deliveries' \in Seq(Answers)
  BY <1>12, <1>15, <1>17, Zenon
<1>25. Distinct(resting_orders)' /\ Distinct(deliveries)'
  BY <1>12, <1>19, <1>20, Zenon
<1> QED
  BY <1>16, <1>21, <1>22, <1>23, <1>24, <1>25, Zenon


\* The log grows by a submission.
LEMMA LogSubmission ==
  ASSUME NEW log, NEW n \in Nat, NEW ids, LogOf(log, ids), n \notin ids
  PROVE  /\ LogOf(Append(log, Submission(n)), ids)
         /\ AllLogged(log, n) => AllLogged(Append(log, Submission(n)), n + 1)
         /\ Len(Append(log, Submission(n))) = Len(log) + 1 /\ Len(log) \in Nat
<1> DEFINE e == Submission(n)
           log2 == Append(log, e)
           m == Len(log)
<1>1. e \in Logged /\ e.type = "TradeSubmitted" /\ e.id = n
  BY Zenon DEF Submission, Logged
<1>2. log \in Seq(Logged)
  BY Zenon DEF LogOf
<1>3. /\ log2 \in Seq(Logged) /\ Len(log2) = m + 1 /\ m \in Nat /\ log2[m + 1] = e
      /\ \A i \in 1..m : log2[i] = log[i]
  BY <1>1, <1>2, Appended
<1>4. DOMAIN log = 1..m /\ DOMAIN log2 = 1..(m + 1)
  BY <1>2, <1>3, Elements, Zenon
<1> HIDE DEF e, log2, m
<1>5. \A i \in 1..(m + 1) : i \in 1..m \/ i = m + 1
  BY <1>3
<1>6. \A i \in 1..m : i \in 1..(m + 1)
  BY <1>3
<1>7. m + 1 \in 1..(m + 1)
  BY <1>3
<1>8. \A id \in 0..((n + 1) - 1) : id = n \/ id \in 0..(n - 1)
  OBVIOUS
<1>9. ASSUME AllLogged(log, n) PROVE AllLogged(log2, n + 1)
  <2>1. \A id \in 0..(n - 1) : \E j \in DOMAIN log2 : log2[j] = Submission(id)
    BY <1>3, <1>4, <1>6, <1>9, Zenon DEF AllLogged
  <2>2. \E j \in DOMAIN log2 : log2[j] = Submission(n)
    BY <1>3, <1>4, <1>7, Zenon DEF e
  <2> QED
    BY <1>8, <2>1, <2>2, Zenon DEF AllLogged
<1>10. ASSUME NEW i \in DOMAIN log2, log2[i].type = "OrderResponse"
       PROVE  i \in 1..m /\ log[i].type = "OrderResponse" /\ log[i] = log2[i] /\ log2[i].id \in ids
  <2>1. i \in 1..m /\ log[i].type = "OrderResponse" /\ log[i] = log2[i]
    BY <1>1, <1>3, <1>4, <1>5, <1>10, Zenon
  <2> QED
    BY <1>4, <2>1, Zenon DEF LogOf
<1>11. ASSUME NEW i \in DOMAIN log2, log2[i].type = "OrderResponse", NEW j \in DOMAIN log2
       PROVE  /\ log2[j] = Submission(log2[i].id) => j < i
              /\ log2[j] = log2[i] => j = i
  <2>1. /\ i \in 1..m /\ log[i].type = "OrderResponse" /\ log[i] = log2[i] /\ log2[i].id \in ids
    BY <1>10, <1>11, Zenon
  <2>2. CASE j \in 1..m
    BY <1>3, <1>4, <2>1, <2>2, Zenon DEF LogOf, Follows
  <2>3. CASE j = m + 1
    <3>1. Submission(log2[i].id).id = log2[i].id
      BY Zenon DEF Submission
    <3>2. log2[j] # Submission(log2[i].id)
      BY <1>1, <1>3, <2>1, <2>3, <3>1, Zenon
    <3>3. log2[j] # log2[i]
      BY <1>1, <1>3, <1>11, <2>3, Zenon
    <3> QED
      BY <3>2, <3>3, Zenon
  <2> QED
    BY <1>4, <1>5, <2>2, <2>3, Zenon
<1>12. Follows(log2)
  BY <1>11, Zenon DEF Follows
<1>13. LogOf(log2, ids)
  BY <1>3, <1>10, <1>12, Zenon DEF LogOf
<1> QED
  BY <1>3, <1>9, <1>13, Zenon DEF log2, e, m

\* The log grows by the first response to an order.
LEMMA LogResponse ==
  ASSUME NEW log, NEW n \in Nat, NEW ids, LogOf(log, ids), NEW id \in Nat, id \notin ids
  PROVE  /\ LogOf(Append(log, Response(id)), ids \cup {id})
         /\ AllLogged(log, n) => AllLogged(Append(log, Response(id)), n)
         /\ Len(Append(log, Response(id))) = Len(log) + 1 /\ Len(log) \in Nat
<1> DEFINE e == Response(id)
           log2 == Append(log, e)
           m == Len(log)
<1>1. e \in Logged /\ e.type = "OrderResponse" /\ e.id = id
  BY Zenon DEF Response, Logged
<1>2. log \in Seq(Logged)
  BY Zenon DEF LogOf
<1>3. /\ log2 \in Seq(Logged) /\ Len(log2) = m + 1 /\ m \in Nat /\ log2[m + 1] = e
      /\ \A i \in 1..m : log2[i] = log[i]
  BY <1>1, <1>2, Appended
<1>4. DOMAIN log = 1..m /\ DOMAIN log2 = 1..(m + 1)
  BY <1>2, <1>3, Elements, Zenon
<1> HIDE DEF e, log2, m
<1>5. \A i \in 1..(m + 1) : i \in 1..m \/ i = m + 1
  BY <1>3
<1>6. \A i \in 1..m : i \in 1..(m + 1) /\ i < m + 1
  BY <1>3
<1>7. ASSUME AllLogged(log, n) PROVE AllLogged(log2, n)
  BY <1>3, <1>4, <1>6, <1>7, Zenon DEF AllLogged
<1>8. ASSUME NEW i \in 1..m, log2[i].type = "OrderResponse"
      PROVE  /\ log[i].type = "OrderResponse" /\ log[i] = log2[i] /\ log2[i].id \in ids
             /\ log2[i] # e
  BY <1>1, <1>3, <1>4, <1>8, Zenon DEF LogOf
<1>9. \A i \in DOMAIN log2 : log2[i].type = "OrderResponse" => log2[i].id \in ids \cup {id}
  BY <1>1, <1>3, <1>4, <1>5, <1>8, Zenon
<1>10. \A x : Submission(x).type = "TradeSubmitted"
  BY Zenon DEF Submission
<1>11. ASSUME NEW i \in 1..m, log2[i].type = "OrderResponse", NEW j \in DOMAIN log2
       PROVE  /\ log2[j] = Submission(log2[i].id) => j < i
              /\ log2[j] = log2[i] => j = i
  <2>1. log[i].type = "OrderResponse" /\ log[i] = log2[i] /\ log2[i] # e
    BY <1>8, <1>11, Zenon
  <2>2. CASE j \in 1..m
    BY <1>3, <1>4, <2>1, <2>2, Zenon DEF LogOf, Follows
  <2>3. CASE j = m + 1
    BY <1>1, <1>3, <1>10, <2>1, <2>3, Zenon
  <2> QED
    BY <1>4, <1>5, <2>2, <2>3, Zenon
<1>12. ASSUME NEW j \in DOMAIN log2
       PROVE  /\ log2[j] = Submission(log2[m + 1].id) => j < m + 1
              /\ log2[j] = log2[m + 1] => j = m + 1
  <2>1. CASE j \in 1..m
    <3>1. log2[j] # e
      BY <1>1, <1>8, <2>1, Zenon
    <3> QED
      BY <1>3, <1>6, <2>1, <3>1, Zenon
  <2>2. CASE j = m + 1
    BY <1>1, <1>3, <1>10, <2>2, Zenon
  <2> QED
    BY <1>4, <1>5, <2>1, <2>2, Zenon
<1>13. Follows(log2)
  BY <1>4, <1>5, <1>11, <1>12, Zenon DEF Follows
<1>14. LogOf(log2, ids \cup {id})
  BY <1>3, <1>9, <1>13, Zenon DEF LogOf
<1> QED
  BY <1>3, <1>7, <1>14, Zenon DEF log2, e, m

\* append_storage_event of a TradeSubmitted, taken by the storage or refused.
LEMMA SubmissionLogged ==
  ASSUME NEW log, NEW failures, NEW n \in Nat, NEW publish \in Seq(Answers),
         LogInv(log, failures, n, publish), n \notin IdsIn(publish), NEW taken \in BOOLEAN
  PROVE  LogInv(AppendStorageEvent(log, Submission(n), taken), failures + Refused(taken), n + 1, publish)
<1> DEFINE log2 == Append(log, Submission(n))
<1>1. LogOf(log, IdsIn(publish)) /\ failures \in Nat
  BY Zenon DEF LogInv
<1>2. /\ LogOf(log2, IdsIn(publish))
      /\ AllLogged(log, n) => AllLogged(log2, n + 1)
      /\ Len(log2) = Len(log) + 1 /\ Len(log) \in Nat
  BY <1>1, LogSubmission, Zenon
<1> HIDE DEF log2
<1>3. Len(publish) \in Nat
  OBVIOUS
<1>4. CASE ~HasStorage
  <2>1. Refused(taken) = 0 /\ AppendStorageEvent(log, Submission(n), taken) = log
    BY <1>4, Zenon DEF Refused, AppendStorageEvent
  <2>2. failures + 0 = failures
    BY <1>1
  <2> QED
    BY <1>1, <1>4, <2>1, <2>2, Zenon DEF LogInv
<1>5. CASE HasStorage /\ ~taken
  <2>1. Refused(taken) = 1 /\ AppendStorageEvent(log, Submission(n), taken) = log
    BY <1>5, Zenon DEF Refused, AppendStorageEvent
  <2>2. failures + Len(log) = n + Len(publish)
    BY <1>5, Zenon DEF LogInv
  <2>3. /\ failures + 1 \in Nat /\ failures + 1 # 0
        /\ (failures + 1) + Len(log) = (n + 1) + Len(publish)
    BY <1>1, <1>2, <1>3, <2>2
  <2> QED
    BY <1>1, <1>5, <2>1, <2>3, Zenon DEF LogInv
<1>6. CASE HasStorage /\ taken
  <2>1. Refused(taken) = 0 /\ AppendStorageEvent(log, Submission(n), taken) = log2
    BY <1>6, Zenon DEF Refused, AppendStorageEvent, log2
  <2>2. failures + Len(log) = n + Len(publish) /\ (failures = 0 => AllLogged(log, n))
    BY <1>6, Zenon DEF LogInv
  <2>3. failures + 0 = failures /\ failures + Len(log2) = (n + 1) + Len(publish)
    BY <1>1, <1>2, <1>3, <2>2
  <2> QED
    BY <1>1, <1>2, <1>6, <2>1, <2>2, <2>3, Zenon DEF LogInv
<1> QED
  BY <1>4, <1>5, <1>6, Zenon

\* append_storage_event of an OrderResponse, taken by the storage or refused.
LEMMA ResponseLogged ==
  ASSUME NEW log, NEW failures, NEW n \in Nat, NEW publish \in Seq(Answers), NEW r \in Answers,
         LogInv(log, failures, n, publish), r.id \notin IdsIn(publish), NEW taken \in BOOLEAN
  PROVE  LogInv(AppendStorageEvent(log, Response(r.id), taken), failures + Refused(taken), n,
                Append(publish, r))
<1> DEFINE log2 == Append(log, Response(r.id))
           more == Append(publish, r)
<1>1. LogOf(log, IdsIn(publish)) /\ failures \in Nat
  BY Zenon DEF LogInv
<1>2. r.id \in Nat
  BY Zenon DEF Answers
<1>3. /\ LogOf(log2, IdsIn(publish) \cup {r.id})
      /\ AllLogged(log, n) => AllLogged(log2, n)
      /\ Len(log2) = Len(log) + 1 /\ Len(log) \in Nat
  BY <1>1, <1>2, LogResponse, Zenon
<1> HIDE DEF log2
<1>4. IdsIn(more) = IdsIn(publish) \cup {r.id}
  BY IdsAppended, Zenon
<1>5. Len(publish) \in Nat /\ Len(more) = Len(publish) + 1
  OBVIOUS
<1>6. LogOf(log, IdsIn(more))
  BY <1>1, <1>4, Zenon DEF LogOf
<1> HIDE DEF more
<1>7. CASE ~HasStorage
  <2>1. Refused(taken) = 0 /\ AppendStorageEvent(log, Response(r.id), taken) = log
    BY <1>7, Zenon DEF Refused, AppendStorageEvent
  <2>2. failures + 0 = failures
    BY <1>1
  <2> QED
    BY <1>1, <1>6, <1>7, <2>1, <2>2, Zenon DEF LogInv, more
<1>8. CASE HasStorage /\ ~taken
  <2>1. Refused(taken) = 1 /\ AppendStorageEvent(log, Response(r.id), taken) = log
    BY <1>8, Zenon DEF Refused, AppendStorageEvent
  <2>2. failures + Len(log) = n + Len(publish)
    BY <1>8, Zenon DEF LogInv
  <2>3. failures + 1 \in Nat /\ failures + 1 # 0 /\ (failures + 1) + Len(log) = n + Len(more)
    BY <1>1, <1>3, <1>5, <2>2
  <2> QED
    BY <1>6, <1>8, <2>1, <2>3, Zenon DEF LogInv, more
<1>9. CASE HasStorage /\ taken
  <2>1. Refused(taken) = 0 /\ AppendStorageEvent(log, Response(r.id), taken) = log2
    BY <1>9, Zenon DEF Refused, AppendStorageEvent, log2
  <2>2. failures + Len(log) = n + Len(publish) /\ (failures = 0 => AllLogged(log, n))
    BY <1>9, Zenon DEF LogInv
  <2>3. failures + 0 = failures /\ failures + Len(log2) = n + Len(more)
    BY <1>1, <1>3, <1>5, <2>2
  <2> QED
    BY <1>1, <1>3, <1>4, <1>9, <2>1, <2>2, <2>3, Zenon DEF LogInv, more
<1> QED
  BY <1>7, <1>8, <1>9, Zenon

\* What the sink's invariant says of one order.
LEMMA OutcomeIsOne ==
  ASSUME SinkInv
  PROVE  OneOutcome
<1> DEFINE S == Resting \cup Answers
           answered == published \o deliveries
           all == resting_orders \o answered
<1>1. resting_orders \in Seq(S) /\ deliveries \in Seq(S) /\ published \in Seq(S)
  BY DEF SinkInv, SinkTypes
<1>2. Outcome(resting_orders, deliveries, published, submitted)
  BY Zenon DEF SinkInv
<1> HIDE DEF S
<1>3. answered \in Seq(S)
  BY <1>1
<1>4. /\ IdsIn(answered) = IdsIn(published) \cup IdsIn(deliveries)
      /\ Distinct(published) /\ Distinct(deliveries) /\ IdsIn(published) \cap IdsIn(deliveries) = {}
           => Distinct(answered)
  BY <1>1, IdsJoined, Zenon
<1> HIDE DEF answered
<1>5. /\ IdsIn(all) = IdsIn(resting_orders) \cup IdsIn(answered)
      /\ Distinct(resting_orders) /\ Distinct(answered) /\ IdsIn(resting_orders) \cap IdsIn(answered) = {}
           => Distinct(all)
  BY <1>1, <1>3, IdsJoined, Zenon
<1> HIDE DEF all
<1>6. Distinct(answered)
  BY <1>2, <1>4, Zenon DEF Outcome
<1>7. Distinct(all) /\ IdsIn(all) = 0..(submitted - 1)
  BY <1>2, <1>4, <1>5, <1>6, Zenon DEF Outcome
<1>8. ASSUME NEW id \in 0..(submitted - 1)
      PROVE  \E i \in DOMAIN all : \A j \in DOMAIN all : all[j].id = id <=> j = i
  <2>1. PICK i \in DOMAIN all : all[i].id = id
    BY <1>7, Zenon DEF IdsIn
  <2> QED
    BY <1>7, <2>1, Zenon DEF Distinct
<1> QED
  BY <1>8, Zenon DEF OneOutcome, Answered, all, answered


-----------------------------------------------------------------------------
(* The sink *)

\* The sink starts with nothing.
LEMMA SinkStarts ==
  ASSUME SinkInit
  PROVE  SinkInv
<1>1. IdsIn(<<>>) = {} /\ Distinct(<<>>)
  BY DEF IdsIn, Distinct
<1>2. 0..(0 - 1) = {}
  OBVIOUS
<1>3. Outcome(<<>>, <<>>, <<>>, 0)
  BY <1>1, <1>2, Zenon DEF Outcome
<1>4. LogOf(<<>>, {}) /\ AllLogged(<<>>, 0)
  BY <1>2 DEF LogOf, Follows, AllLogged
<1>5. Len(<<>>) = 0 /\ 0 + 0 = 0 /\ 0 \in Nat
  OBVIOUS
<1>6. LogInv(<<>>, 0, 0, <<>>)
  BY <1>1, <1>4, <1>5, Zenon DEF LogInv
<1>7. SinkTypes
  BY DEF SinkInit, SinkTypes
<1> QED
  BY <1>3, <1>6, <1>7, Zenon DEF SinkInit, SinkInv

\* SinkInv after a step, from what the step makes of the sink.
LEMMA SinkAfter ==
  ASSUME SinkTypes', NEW rest, NEW deliver, NEW publish, NEW log, NEW failures, NEW n,
         resting_orders' = rest, deliveries' = deliver, published' = publish,
         execution_log' = log, storage_append_failures' = failures, submitted' = n,
         Outcome(rest, deliver, publish, n), LogInv(log, failures, n, publish)
  PROVE  SinkInv'
<1>1. Outcome(resting_orders, deliveries, published, submitted)'
  BY Zenon
<1>2. LogInv(execution_log, storage_append_failures, submitted, published)'
  BY Zenon
<1> QED
  BY <1>1, <1>2, Zenon DEF SinkInv

\* A new order that is answered.
LEMMA AnsweredAtOnce ==
  ASSUME SinkInv, NEW r \in Answers, r.id = submitted, NEW taken \in [1..2 -> BOOLEAN]
  PROVE  /\ Append(published, r) \in Seq(Answers)
         /\ Outcome(resting_orders, deliveries, Append(published, r), submitted + 1)
         /\ LogInv(SubmissionLog(submitted, TRUE, taken),
                   (storage_append_failures + Refused(taken[1])) + Refused(taken[2]),
                   submitted + 1, Append(published, r))
<1> PICK n \in Nat : n = submitted
  BY Zenon DEF SinkInv, SinkTypes
<1> DEFINE more == Append(published, r)
<1>1. published \in Seq(Answers)
  BY Zenon DEF SinkInv, SinkTypes
<1>2. more \in Seq(Answers)
  BY <1>1
<1>3. IdsIn(more) = IdsIn(published) \cup {n} /\ (Distinct(published) /\ n \notin IdsIn(published) => Distinct(more))
  BY <1>1, IdsAppended
<1> HIDE DEF more
<1>4. n \notin 0..(n - 1) /\ 0..((n + 1) - 1) = 0..(n - 1) \cup {n} /\ n \in 0..((n + 1) - 1)
  OBVIOUS
<1>5. /\ Outcome(resting_orders, deliveries, published, n)
      /\ LogInv(execution_log, storage_append_failures, n, published)
  BY Zenon DEF SinkInv
<1>6. n \notin IdsIn(resting_orders) /\ n \notin IdsIn(deliveries) /\ n \notin IdsIn(published)
  BY <1>4, <1>5, Zenon DEF Outcome
<1>7. Outcome(resting_orders, deliveries, more, n + 1)
  <2>1. Distinct(resting_orders) /\ Distinct(deliveries) /\ Distinct(more)
    BY <1>3, <1>5, <1>6, Zenon DEF Outcome
  <2>2. /\ IdsIn(resting_orders) \cap IdsIn(deliveries) = {}
        /\ IdsIn(resting_orders) \cap IdsIn(more) = {}
        /\ IdsIn(deliveries) \cap IdsIn(more) = {}
    <3>1. /\ IdsIn(resting_orders) \cap IdsIn(deliveries) = {}
          /\ IdsIn(resting_orders) \cap IdsIn(published) = {}
          /\ IdsIn(deliveries) \cap IdsIn(published) = {}
      BY <1>5, Zenon DEF Outcome
    <3> QED
      BY <1>3, <1>6, <3>1, Zenon
  <2>3. IdsIn(resting_orders) \cup IdsIn(deliveries) \cup IdsIn(more) = 0..((n + 1) - 1)
    <3>1. IdsIn(resting_orders) \cup IdsIn(deliveries) \cup IdsIn(published) = 0..(n - 1)
      BY <1>5, Zenon DEF Outcome
    <3> QED
      BY <1>3, <1>4, <3>1, Zenon
  <2> QED
    BY <2>1, <2>2, <2>3, Zenon DEF Outcome
<1>8. PICK log, failures : /\ log = AppendStorageEvent(execution_log, Submission(n), taken[1])
                           /\ failures = storage_append_failures + Refused(taken[1])
  BY Zenon
<1>9. taken[1] \in BOOLEAN /\ taken[2] \in BOOLEAN /\ n + 1 \in Nat
  OBVIOUS
<1>10. LogInv(log, failures, n + 1, published)
  BY <1>1, <1>5, <1>6, <1>8, <1>9, SubmissionLogged, Zenon
<1>11. LogInv(AppendStorageEvent(log, Response(n), taken[2]), failures + Refused(taken[2]), n + 1, more)
  BY <1>1, <1>6, <1>9, <1>10, ResponseLogged, Zenon DEF more
<1>12. SubmissionLog(n, TRUE, taken) = AppendStorageEvent(log, Response(n), taken[2])
  BY <1>8, Zenon DEF SubmissionLog
<1> QED
  BY <1>2, <1>7, <1>8, <1>11, <1>12, Zenon DEF more

\* A new order that is left resting.
LEMMA LeftResting ==
  ASSUME SinkInv, NEW o \in Resting, o.id = submitted, NEW taken \in [1..2 -> BOOLEAN]
  PROVE  /\ Append(resting_orders, o) \in Seq(Resting)
         /\ Outcome(Append(resting_orders, o), deliveries, published, submitted + 1)
         /\ LogInv(SubmissionLog(submitted, FALSE, taken), storage_append_failures + Refused(taken[1]),
                   submitted + 1, published)
<1> PICK n \in Nat : n = submitted
  BY Zenon DEF SinkInv, SinkTypes
<1> DEFINE more == Append(resting_orders, o)
<1>1. resting_orders \in Seq(Resting)
  BY Zenon DEF SinkInv, SinkTypes
<1>2. more \in Seq(Resting)
  BY <1>1
<1>3. /\ IdsIn(more) = IdsIn(resting_orders) \cup {n}
      /\ Distinct(resting_orders) /\ n \notin IdsIn(resting_orders) => Distinct(more)
  BY <1>1, IdsAppended
<1> HIDE DEF more
<1>4. n \notin 0..(n - 1) /\ 0..((n + 1) - 1) = 0..(n - 1) \cup {n}
  OBVIOUS
<1>5. /\ Outcome(resting_orders, deliveries, published, n)
      /\ LogInv(execution_log, storage_append_failures, n, published)
  BY Zenon DEF SinkInv
<1>6. n \notin IdsIn(resting_orders) /\ n \notin IdsIn(deliveries) /\ n \notin IdsIn(published)
  BY <1>4, <1>5, Zenon DEF Outcome
<1>7. Outcome(more, deliveries, published, n + 1)
  <2>1. Distinct(more) /\ Distinct(deliveries) /\ Distinct(published)
    BY <1>3, <1>5, <1>6, Zenon DEF Outcome
  <2>2. /\ IdsIn(more) \cap IdsIn(deliveries) = {}
        /\ IdsIn(more) \cap IdsIn(published) = {}
        /\ IdsIn(deliveries) \cap IdsIn(published) = {}
    <3>1. /\ IdsIn(resting_orders) \cap IdsIn(deliveries) = {}
          /\ IdsIn(resting_orders) \cap IdsIn(published) = {}
          /\ IdsIn(deliveries) \cap IdsIn(published) = {}
      BY <1>5, Zenon DEF Outcome
    <3> QED
      BY <1>3, <1>6, <3>1, Zenon
  <2>3. IdsIn(more) \cup IdsIn(deliveries) \cup IdsIn(published) = 0..((n + 1) - 1)
    <3>1. IdsIn(resting_orders) \cup IdsIn(deliveries) \cup IdsIn(published) = 0..(n - 1)
      BY <1>5, Zenon DEF Outcome
    <3> QED
      BY <1>3, <1>4, <3>1, Zenon
  <2> QED
    BY <2>1, <2>2, <2>3, Zenon DEF Outcome
<1>8. taken[1] \in BOOLEAN /\ published \in Seq(Answers)
  BY DEF SinkInv, SinkTypes
<1>9. LogInv(AppendStorageEvent(execution_log, Submission(n), taken[1]),
             storage_append_failures + Refused(taken[1]), n + 1, published)
  BY <1>5, <1>6, <1>8, SubmissionLogged, Zenon
<1>10. SubmissionLog(n, FALSE, taken) = AppendStorageEvent(execution_log, Submission(n), taken[1])
  BY Zenon DEF SubmissionLog
<1> QED
  BY <1>2, <1>7, <1>9, <1>10, Zenon DEF more

\* What submit_trade makes of the log and of storage_append_failures_.
LEMMA SubmissionRecorded ==
  ASSUME storage_append_failures \in Nat, NEW answered \in BOOLEAN, RecordSubmission(answered)
  PROVE  \E taken \in [1..2 -> BOOLEAN] :
           /\ execution_log' = SubmissionLog(submitted, answered, taken)
           /\ storage_append_failures' =
                IF answered THEN (storage_append_failures + Refused(taken[1])) + Refused(taken[2])
                            ELSE storage_append_failures + Refused(taken[1])
<1> DEFINE refused(k, taken) == IF taken[k] THEN 0 ELSE 1
<1>1. PICK taken \in [1..2 -> BOOLEAN] :
        /\ execution_log' = SubmissionLog(submitted, answered, taken)
        /\ CountFailures(IF answered THEN refused(1, taken) + refused(2, taken) ELSE refused(1, taken))
  BY Zenon DEF RecordSubmission
<1>2. storage_append_failures' =
        storage_append_failures +
          (IF HasStorage THEN IF answered THEN refused(1, taken) + refused(2, taken) ELSE refused(1, taken)
                         ELSE 0)
  BY <1>1, Zenon DEF CountFailures
<1>3. storage_append_failures' =
        IF answered THEN (storage_append_failures + Refused(taken[1])) + Refused(taken[2])
                    ELSE storage_append_failures + Refused(taken[1])
  BY <1>2 DEF Refused
<1> QED
  BY <1>1, <1>3, Zenon

\* submit_trade answers an order.
Answer(order, status, price) ==
  /\ MakeResponses(<<order>>, status, <<price>>)
  /\ published' = published \o Responses(<<order>>, status, <<price>>)
  /\ RecordSubmission(TRUE)
  /\ UNCHANGED resting_orders

\* submit_trade.
LEMMA SubmitKeeps ==
  ASSUME SinkInv, NEW t \in Orders, Submit(t)
  PROVE  SinkInv'
<1> DEFINE order == [trade |-> t, id |-> submitted, exchange_order_id |-> next_exchange_order_id]
           answer(status, price) ==
             [trade |-> t, id |-> submitted, status |-> status, avg_price |-> price,
              exchange_order_id |-> next_exchange_order_id]
<1>1. /\ submitted \in Nat /\ next_exchange_order_id \in Nat
      /\ quotes \in [Tickers -> Quotes \cup {NoQuote}]
      /\ resting_orders \in Seq(Resting) /\ published \in Seq(Answers) /\ deliveries \in Seq(Answers)
      /\ storage_append_failures \in Nat
  BY Zenon DEF SinkInv, SinkTypes, LogInv
<1>2. submitted' = submitted + 1 /\ UNCHANGED <<quotes, deliveries>>
  BY Zenon DEF Submit
<1>3. order \in Resting /\ order.id = submitted
  BY <1>1, Zenon DEF Resting
<1>4. ASSUME NEW status \in {"FILLED", "REJECTED"}, NEW price \in Nat, Answer(order, status, price)
      PROVE  SinkInv'
  <2> DEFINE r == answer(status, price)
  <2>0. /\ MakeResponses(<<order>>, status, <<price>>)
        /\ published' = published \o Responses(<<order>>, status, <<price>>)
        /\ RecordSubmission(TRUE)
        /\ UNCHANGED resting_orders
    BY <1>4, Zenon DEF Answer
  <2>1. r \in Answers /\ r.id = submitted
    BY <1>1, Zenon DEF Answers
  <2>2. Responses(<<order>>, status, <<price>>) = <<r>>
    BY DEF Responses
  <2>3. published' = Append(published, r)
    <3> HIDE DEF r
    <3>1. \A x \in Answers : published \o <<x>> = Append(published, x)
      BY <1>1
    <3> QED
      BY <2>0, <2>1, <2>2, <3>1, Zenon
  <2>4. PICK taken \in [1..2 -> BOOLEAN] :
          /\ execution_log' = SubmissionLog(submitted, TRUE, taken)
          /\ storage_append_failures' =
               (storage_append_failures + Refused(taken[1])) + Refused(taken[2])
    BY <1>1, <2>0, SubmissionRecorded, Zenon
  <2> HIDE DEF r
  <2>5. /\ Append(published, r) \in Seq(Answers)
        /\ Outcome(resting_orders, deliveries, Append(published, r), submitted + 1)
        /\ LogInv(SubmissionLog(submitted, TRUE, taken),
                  (storage_append_failures + Refused(taken[1])) + Refused(taken[2]),
                  submitted + 1, Append(published, r))
    BY <2>1, AnsweredAtOnce, Zenon
  <2>6. next_exchange_order_id' \in Nat
    BY <1>1, <2>0 DEF MakeResponses
  <2>7. submitted' \in Nat
    BY <1>1, <1>2
  <2>8. SinkTypes'
    BY <1>1, <1>2, <2>0, <2>3, <2>5, <2>6, <2>7, Zenon DEF SinkTypes
  <2> QED
    BY <1>2, <2>0, <2>3, <2>4, <2>5, <2>8, SinkAfter, Zenon
<1>5. CASE ~Valid(t)
  <2>1. Answer(order, "REJECTED", 0)
    BY <1>5, Zenon DEF Submit, Answer
  <2>2. "REJECTED" \in {"FILLED", "REJECTED"} /\ 0 \in Nat
    BY Zenon
  <2> HIDE DEF order
  <2> QED
    BY <1>4, <2>1, <2>2, Zenon
<1>6. CASE Valid(t) /\ FillsAtOnce(t)
  <2> DEFINE price == QuotePrice(t, quotes[t.ticker])
  <2>1. Answer(order, "FILLED", price)
    BY <1>6, Zenon DEF Submit, Answer
  <2>2. t.ticker \in Tickers
    BY SimulatorAssumption, Zenon
  <2>3. quotes[t.ticker] \in Quotes
    BY <1>1, <1>6, <2>2, Zenon DEF FillsAtOnce
  <2>4. price \in Nat
    BY <2>3, Zenon DEF QuotePrice, Quotes
  <2>5. "FILLED" \in {"FILLED", "REJECTED"}
    BY Zenon
  <2> HIDE DEF order, price
  <2> QED
    BY <1>4, <2>1, <2>4, <2>5, Zenon
<1>7. CASE Valid(t) /\ ~FillsAtOnce(t)
  <2>1. /\ resting_orders' = Append(resting_orders, order)
        /\ next_exchange_order_id' = next_exchange_order_id + 1
        /\ RecordSubmission(FALSE)
        /\ UNCHANGED published
    BY <1>7, Zenon DEF Submit
  <2>2. PICK taken \in [1..2 -> BOOLEAN] :
          /\ execution_log' = SubmissionLog(submitted, FALSE, taken)
          /\ storage_append_failures' = storage_append_failures + Refused(taken[1])
    BY <1>1, <2>1, SubmissionRecorded, Zenon
  <2> HIDE DEF order
  <2>3. /\ Append(resting_orders, order) \in Seq(Resting)
        /\ Outcome(Append(resting_orders, order), deliveries, published, submitted + 1)
        /\ LogInv(SubmissionLog(submitted, FALSE, taken), storage_append_failures + Refused(taken[1]),
                  submitted + 1, published)
    BY <1>3, LeftResting, Zenon
  <2>4. submitted' \in Nat /\ next_exchange_order_id' \in Nat
    BY <1>1, <1>2, <2>1
  <2>5. SinkTypes'
    BY <1>1, <1>2, <2>1, <2>3, <2>4, Zenon DEF SinkTypes
  <2> QED
    BY <1>2, <2>1, <2>2, <2>3, <2>5, SinkAfter, Zenon
<1> QED
  BY <1>5, <1>6, <1>7, Zenon


\* A walk over resting_orders_ by on_quote, on_trade, cancel_order or
\* cancel_all_orders.
LEMMA TakeKeeps ==
  ASSUME SinkInv, NEW places \in SUBSET DOMAIN resting_orders,
         NEW status \in {"FILLED", "CANCELED", "REJECTED"}, NEW price \in [places -> Nat],
         Take(places, status, price), UNCHANGED <<submitted, published, execution_log, storage_append_failures>>,
         quotes' \in [Tickers -> Quotes \cup {NoQuote}]
  PROVE  /\ SinkInv'
         /\ IdsIn(deliveries)' = IdsAt(resting_orders, places) \cup IdsIn(deliveries)
         /\ \A k \in DOMAIN resting_orders' :
              \E i \in DOMAIN resting_orders \ places : resting_orders'[k] = resting_orders[i]
<1>1. /\ SinkTypes /\ Outcome(resting_orders, deliveries, published, submitted)
      /\ LogInv(execution_log, storage_append_failures, submitted, published)
  BY Zenon DEF SinkInv
<1>2. /\ Distinct(resting_orders) /\ Distinct(deliveries)
      /\ IdsIn(resting_orders) \cap IdsIn(deliveries) = {}
  BY <1>1, Zenon DEF Outcome
<1>3. /\ resting_orders' \in Seq(Resting) /\ deliveries' \in Seq(Answers)
      /\ next_exchange_order_id' \in Nat
      /\ Distinct(resting_orders)' /\ Distinct(deliveries)'
      /\ IdsIn(resting_orders)' \cap IdsIn(deliveries)' = {}
      /\ IdsIn(resting_orders)' \cup IdsIn(deliveries)' = IdsIn(resting_orders) \cup IdsIn(deliveries)
      /\ IdsIn(deliveries)' = IdsAt(resting_orders, places) \cup IdsIn(deliveries)
      /\ \A k \in DOMAIN resting_orders' :
           \E i \in DOMAIN resting_orders \ places : resting_orders'[k] = resting_orders[i]
  BY <1>1, <1>2, Taken, SMTT(30)
<1>4. SinkTypes'
  BY <1>1, <1>3, Zenon DEF SinkTypes
<1>5. IdsIn(published)' = IdsIn(published) /\ Distinct(published)' = Distinct(published)
  BY Zenon
<1>6. Outcome(resting_orders, deliveries, published, submitted)'
  <2>1. /\ IdsIn(resting_orders)' \cap IdsIn(published)' = {}
        /\ IdsIn(deliveries)' \cap IdsIn(published)' = {}
    BY <1>1, <1>3, <1>5, Zenon DEF Outcome
  <2>2. IdsIn(resting_orders)' \cup IdsIn(deliveries)' \cup IdsIn(published)' = 0..(submitted' - 1)
    BY <1>1, <1>3, <1>5, Zenon DEF Outcome
  <2> QED
    BY <1>1, <1>3, <1>5, <2>1, <2>2, Zenon DEF Outcome
<1>7. LogInv(execution_log, storage_append_failures, submitted, published)'
  BY <1>1, Zenon
<1> QED
  BY <1>3, <1>4, <1>6, <1>7, Zenon DEF SinkInv

\* publish_response.
LEMMA DeliverKeeps ==
  ASSUME SinkInv, Deliver
  PROVE  SinkInv'
<1>1. /\ deliveries # <<>>
      /\ published' = Append(published, Head(deliveries))
      /\ deliveries' = Tail(deliveries)
      /\ UNCHANGED <<quotes, resting_orders, next_exchange_order_id, submitted>>
  BY Zenon DEF Deliver
<1>2. /\ deliveries \in Seq(Answers) /\ published \in Seq(Answers) /\ submitted \in Nat
      /\ Outcome(resting_orders, deliveries, published, submitted)
      /\ LogInv(execution_log, storage_append_failures, submitted, published)
  BY Zenon DEF SinkInv, SinkTypes
<1> DEFINE r == Head(deliveries)
           rest == Tail(deliveries)
           more == Append(published, r)
<1>3. /\ rest \in Seq(Answers) /\ r \in Answers
      /\ IdsIn(deliveries) = {r.id} \cup IdsIn(rest)
      /\ Distinct(deliveries) => Distinct(rest) /\ r.id \notin IdsIn(rest)
  BY <1>1, <1>2, IdsOfTail, Zenon
<1> HIDE DEF r, rest
<1>4. /\ IdsIn(more) = IdsIn(published) \cup {r.id}
      /\ Distinct(published) /\ r.id \notin IdsIn(published) => Distinct(more)
  BY <1>2, <1>3, IdsAppended, Zenon
<1>5. more \in Seq(Answers)
  BY <1>2, <1>3
<1> HIDE DEF more
<1>6. r.id \notin IdsIn(published) /\ r.id \notin IdsIn(resting_orders) /\ r.id \in 0..(submitted - 1)
  BY <1>2, <1>3, Zenon DEF Outcome
<1>7. Outcome(resting_orders, rest, more, submitted)
  <2>1. Distinct(resting_orders) /\ Distinct(rest) /\ Distinct(more)
    BY <1>2, <1>3, <1>4, <1>6, Zenon DEF Outcome
  <2>2. /\ IdsIn(resting_orders) \cap IdsIn(rest) = {}
        /\ IdsIn(resting_orders) \cap IdsIn(more) = {}
        /\ IdsIn(rest) \cap IdsIn(more) = {}
    <3>1. /\ IdsIn(resting_orders) \cap IdsIn(deliveries) = {}
          /\ IdsIn(resting_orders) \cap IdsIn(published) = {}
          /\ IdsIn(deliveries) \cap IdsIn(published) = {}
          /\ Distinct(deliveries)
      BY <1>2, Zenon DEF Outcome
    <3> QED
      BY <1>3, <1>4, <1>6, <3>1, Zenon
  <2>3. IdsIn(resting_orders) \cup IdsIn(rest) \cup IdsIn(more) = 0..(submitted - 1)
    <3>1. IdsIn(resting_orders) \cup IdsIn(deliveries) \cup IdsIn(published) = 0..(submitted - 1)
      BY <1>2, Zenon DEF Outcome
    <3> QED
      BY <1>3, <1>4, <3>1, Zenon
  <2> QED
    BY <2>1, <2>2, <2>3, Zenon DEF Outcome
<1>8. PICK taken \in BOOLEAN :
        /\ execution_log' = AppendStorageEvent(execution_log, Response(r.id), taken)
        /\ storage_append_failures' = storage_append_failures + Refused(taken)
  <2>1. PICK taken \in BOOLEAN :
          /\ execution_log' = AppendStorageEvent(execution_log, Response(r.id), taken)
          /\ CountFailures(IF taken THEN 0 ELSE 1)
    BY Zenon DEF Deliver, r
  <2>2. storage_append_failures' =
          storage_append_failures + (IF HasStorage THEN IF taken THEN 0 ELSE 1 ELSE 0)
    BY <2>1, Zenon DEF CountFailures
  <2>3. storage_append_failures' = storage_append_failures + Refused(taken)
    BY <2>2 DEF Refused
  <2> QED
    BY <2>1, <2>3, Zenon
<1>11. LogInv(AppendStorageEvent(execution_log, Response(r.id), taken),
              storage_append_failures + Refused(taken), submitted, more)
  BY <1>2, <1>3, <1>6, <1>8, ResponseLogged, Zenon DEF more
<1>9. SinkTypes'
  BY <1>1, <1>3, <1>5, Zenon DEF SinkInv, SinkTypes, r, rest, more
<1>10. published' = more /\ deliveries' = rest
  BY <1>1, Zenon DEF more, rest, r
<1> QED
  BY <1>1, <1>7, <1>8, <1>9, <1>10, <1>11, SinkAfter, Zenon

\* A step that leaves the sink alone, but for who is running.
LEMMA SinkFrame ==
  ASSUME SinkInv, UNCHANGED <<quotes, resting_orders, next_exchange_order_id, deliveries, submitted,
                              published, execution_log, storage_append_failures>>
  PROVE  SinkInv'
  BY SinkAfter, Zenon DEF SinkInv, SinkTypes

\* No order rests that the quotes would fill, and none but limit orders.
FillInv ==
  \A k \in DOMAIN resting_orders :
    resting_orders[k].trade.type = "LIMIT" /\ ~FillsAtOnce(resting_orders[k].trade)

\* FillInv is about quotes and resting orders.
LEMMA FillFrame ==
  ASSUME FillInv, UNCHANGED <<quotes, resting_orders>>
  PROVE  FillInv'
  BY Zenon DEF FillInv, FillsAtOnce

\* Orders that go on resting while the quotes stay.
LEMMA FillFewer ==
  ASSUME FillInv, UNCHANGED quotes, NEW rest, rest \subseteq DOMAIN resting_orders,
         \A k \in DOMAIN resting_orders' : \E i \in rest : resting_orders'[k] = resting_orders[i]
  PROVE  FillInv'
<1> SUFFICES ASSUME NEW k \in DOMAIN resting_orders'
             PROVE  resting_orders'[k].trade.type = "LIMIT" /\ ~FillsAtOnce(resting_orders[k].trade)'
  BY Zenon DEF FillInv
<1>1. PICK i \in rest : resting_orders'[k] = resting_orders[i]
  BY Zenon
<1>2. resting_orders[i].trade.type = "LIMIT" /\ ~FillsAtOnce(resting_orders[i].trade)
  BY Zenon DEF FillInv
<1> QED
  BY <1>1, <1>2, Zenon DEF FillsAtOnce

\* The orders at some places are filled, or cancelled.
Walks ==
  \E places \in SUBSET DOMAIN resting_orders, status \in {"FILLED", "CANCELED", "REJECTED"} :
    \E price \in [places -> Nat] : Take(places, status, price) /\ UNCHANGED published

\* on_quote.
LEMMA OnQuoteKeeps ==
  ASSUME SinkInv, NEW ticker \in Tickers, NEW q \in Quotes, OnQuote(ticker, q)
  PROVE  SinkInv' /\ (FillInv => FillInv') /\ Walks
<1>1. PICK crossed : crossed = {i \in DOMAIN resting_orders :
                                 resting_orders[i].trade.ticker = ticker /\ Crossed(resting_orders[i].trade, q)}
  BY Zenon
<1>2. PICK price : price = [i \in crossed |-> QuotePrice(resting_orders[i].trade, q)]
  BY Zenon
<1>3. /\ quotes' = [quotes EXCEPT ![ticker] = q] /\ Take(crossed, "FILLED", price)
      /\ UNCHANGED <<submitted, published, execution_log, storage_append_failures>>
  BY <1>1, <1>2, Zenon DEF OnQuote, recordVars
<1>4. quotes \in [Tickers -> Quotes \cup {NoQuote}]
  BY Zenon DEF SinkInv, SinkTypes
<1>5. quotes' \in [Tickers -> Quotes \cup {NoQuote}]
  BY <1>3, <1>4, Zenon
<1>6. crossed \in SUBSET DOMAIN resting_orders
  BY <1>1, Zenon
<1>7. price \in [crossed -> Nat]
  BY <1>2, Zenon DEF QuotePrice, Quotes
<1>8. /\ SinkInv'
      /\ \A k \in DOMAIN resting_orders' :
           \E i \in DOMAIN resting_orders \ crossed : resting_orders'[k] = resting_orders[i]
  BY <1>3, <1>5, <1>6, <1>7, TakeKeeps
<1>9. ASSUME FillInv, NEW k \in DOMAIN resting_orders'
      PROVE  resting_orders'[k].trade.type = "LIMIT" /\ ~FillsAtOnce(resting_orders[k].trade)'
  <2>1. PICK i \in DOMAIN resting_orders \ crossed : resting_orders'[k] = resting_orders[i]
    BY <1>8, Zenon
  <2>2. PICK t : t = resting_orders[i].trade
    BY Zenon
  <2>3. t.type = "LIMIT" /\ ~FillsAtOnce(t) /\ i \notin crossed /\ i \in DOMAIN resting_orders
    BY <1>9, <2>1, <2>2, Zenon DEF FillInv
  <2>4. ~FillsAtOnce(t)'
    <3>1. CASE t.ticker = ticker
      <4>1. quotes'[t.ticker] = q
        BY <1>3, <1>4, <3>1, Zenon
      <4>2. ~Reaches(t, QuotePrice(t, q))
        BY <1>1, <2>2, <2>3, <3>1, Zenon DEF Crossed
      <4>3. t.type # "MARKET"
        BY <2>3, Zenon
      <4> QED
        BY <4>1, <4>2, <4>3, Zenon DEF FillsAtOnce
    <3>2. CASE t.ticker # ticker
      <4>1. t.ticker \in Tickers
        <5>1. resting_orders \in Seq(Resting)
          BY Zenon DEF SinkInv, SinkTypes
        <5>2. resting_orders[i] \in Resting
          BY <2>3, <5>1, Elements, Zenon
        <5>3. t \in Orders
          BY <2>2, <5>2, Zenon DEF Resting
        <5> QED
          BY <5>3, SimulatorAssumption, Zenon
      <4>2. quotes'[t.ticker] = quotes[t.ticker]
        BY <1>3, <1>4, <3>2, <4>1, Zenon
      <4> QED
        BY <2>3, <4>2, Zenon DEF FillsAtOnce
    <3> QED
      BY <3>1, <3>2, Zenon
  <2> QED
    BY <2>1, <2>2, <2>3, <2>4, Zenon DEF FillsAtOnce
<1>10. FillInv => FillInv'
  BY <1>9, Zenon DEF FillInv
<1>11. Walks
  BY <1>3, <1>6, <1>7, Zenon DEF Walks
<1> QED
  BY <1>8, <1>10, <1>11, Zenon

\* on_trade.
LEMMA OnTradeKeeps ==
  ASSUME SinkInv, NEW ticker, NEW p \in Nat, OnTrade(ticker, p)
  PROVE  SinkInv' /\ (FillInv => FillInv') /\ Walks
<1>1. PICK crossed : crossed = {i \in DOMAIN resting_orders :
                                 /\ resting_orders[i].trade.ticker = ticker
                                 /\ resting_orders[i].trade.type = "LIMIT"
                                 /\ Reaches(resting_orders[i].trade, p)}
  BY Zenon
<1>2. PICK price : price = [i \in crossed |-> p]
  BY Zenon
<1>3. /\ Take(crossed, "FILLED", price)
      /\ UNCHANGED <<quotes, submitted, published, execution_log, storage_append_failures>>
  BY <1>1, <1>2, Zenon DEF OnTrade, recordVars
<1>4. quotes' \in [Tickers -> Quotes \cup {NoQuote}]
  BY <1>3, Zenon DEF SinkInv, SinkTypes
<1>5. crossed \in SUBSET DOMAIN resting_orders
  BY <1>1, Zenon
<1>6. price \in [crossed -> Nat]
  BY <1>2, Zenon
<1>7. /\ SinkInv'
      /\ \A k \in DOMAIN resting_orders' :
           \E i \in DOMAIN resting_orders \ crossed : resting_orders'[k] = resting_orders[i]
  BY <1>3, <1>4, <1>5, <1>6, TakeKeeps, Zenon
<1>8. FillInv => FillInv'
  BY <1>3, <1>7, FillFewer, Zenon
<1>9. Walks
  BY <1>3, <1>5, <1>6, Zenon DEF Walks
<1> QED
  BY <1>7, <1>8, <1>9, Zenon

\* cancel_order and cancel_all_orders.
LEMMA CancelKeeps ==
  ASSUME SinkInv, NEW places \in SUBSET DOMAIN resting_orders, Cancel(places)
  PROVE  SinkInv' /\ (FillInv => FillInv') /\ Walks
<1>1. PICK price : price = [i \in places |-> 0]
  BY Zenon
<1>2. /\ Take(places, "CANCELED", price)
      /\ UNCHANGED <<quotes, submitted, published, execution_log, storage_append_failures>>
  BY <1>1, Zenon DEF Cancel, recordVars
<1>3. quotes' \in [Tickers -> Quotes \cup {NoQuote}]
  BY <1>2, Zenon DEF SinkInv, SinkTypes
<1>4. price \in [places -> Nat]
  BY <1>1, Zenon
<1>5. /\ SinkInv'
      /\ \A k \in DOMAIN resting_orders' :
           \E i \in DOMAIN resting_orders \ places : resting_orders'[k] = resting_orders[i]
  BY <1>2, <1>3, <1>4, TakeKeeps, Zenon
<1>6. FillInv => FillInv'
  BY <1>2, <1>5, FillFewer, Zenon
<1>7. Walks
  BY <1>2, <1>4, Zenon DEF Walks
<1> QED
  BY <1>5, <1>6, <1>7, Zenon

\* The calls that cancel.
LEMMA CancelsKeep ==
  ASSUME SinkInv, NEW instrument,
         \/ CancelAll(instrument)
         \/ \E client_oid, order_id : CancelOrder(instrument, client_oid, order_id)
  PROVE  SinkInv' /\ (FillInv => FillInv') /\ Walks
<1>1. PlacesOn(instrument) \in SUBSET DOMAIN resting_orders
  BY Zenon DEF PlacesOn
<1>2. CASE CancelAll(instrument)
  BY <1>1, <1>2, CancelKeeps, Zenon DEF CancelAll
<1>3. ASSUME NEW client_oid, NEW order_id, CancelOrder(instrument, client_oid, order_id)
      PROVE  \E places \in SUBSET DOMAIN resting_orders : Cancel(places)
  BY <1>1, <1>3, Zenon DEF CancelOrder
<1> QED
  BY <1>2, <1>3, CancelKeeps, Zenon

\* An order that submit_trade leaves resting would not fill at once.  A market
\* order is rejected as long as there is no quote.
LEMMA SubmitFills ==
  ASSUME SinkInv, FillInv, RejectWithoutMarket, NEW t \in Orders, Submit(t)
  PROVE  FillInv'
<1>1. UNCHANGED quotes
  BY Zenon DEF Submit
<1>2. CASE UNCHANGED resting_orders
  BY <1>1, <1>2, FillFrame, Zenon
<1> DEFINE order == [trade |-> t, id |-> submitted, exchange_order_id |-> next_exchange_order_id]
<1>3. CASE resting_orders' = Append(resting_orders, order) /\ Valid(t) /\ ~FillsAtOnce(t)
  <2>1. order.trade = t /\ order \in Resting
    BY Zenon DEF SinkInv, SinkTypes, Resting
  <2>2. resting_orders \in Seq(Resting)
    BY Zenon DEF SinkInv, SinkTypes
  <2> HIDE DEF order
  <2>3. t.type = "LIMIT"
    BY <1>3, Zenon DEF Valid, FillsAtOnce
  <2>4. \A k \in DOMAIN resting_orders' :
          resting_orders'[k] = order \/ (k \in DOMAIN resting_orders /\ resting_orders'[k] = resting_orders[k])
    BY <1>3, <2>1, <2>2
  <2>5. ASSUME NEW k \in DOMAIN resting_orders'
        PROVE  resting_orders'[k].trade.type = "LIMIT" /\ ~FillsAtOnce(resting_orders[k].trade)'
    <3>1. \E u : u = resting_orders'[k].trade /\ u.type = "LIMIT" /\ ~FillsAtOnce(u)
      BY <1>3, <2>1, <2>3, <2>4, Zenon DEF FillInv
    <3> QED
      BY <1>1, <3>1, Zenon DEF FillsAtOnce
  <2> QED
    BY <2>5, Zenon DEF FillInv
<1> QED
  BY <1>2, <1>3, Zenon DEF Submit

-----------------------------------------------------------------------------
(* The books *)

\* A set of natural numbers has a least one.
LEMMA LeastOf ==
  ASSUME NEW T \in SUBSET Nat, T # {}
  PROVE  \E x \in T : \A y \in T : x <= y
<1> DEFINE R == {ss \in Nat \X Nat : ss[1] < ss[2]}
<1>1. IsWellFoundedOn(R, Nat)
  BY NatLessThanWellFounded, Zenon DEF OpToRel
<1>2. \A x, y \in T : <<y, x>> \notin R => x <= y
  OBVIOUS
<1> HIDE DEF R
<1>3. \E x \in T : \A y \in T : ~(<<y, x>> \in R)
  BY <1>1, WFMin, Zenon
<1> QED
  BY <1>2, <1>3, Zenon

\* Induction: what holds of 0 and of each number after one it holds of.
LEMMA UpTo ==
  ASSUME NEW n \in Nat, NEW S, 0 \in S, \A k \in 0..(n - 1) : k \in S => k + 1 \in S
  PROVE  \A k \in 0..n : k \in S
<1> SUFFICES ASSUME NEW j \in 0..n, j \notin S PROVE FALSE
  BY Zenon
<1> DEFINE T == {k \in 0..n : k \notin S}
<1>1. T \in SUBSET Nat /\ T # {}
  OBVIOUS
<1>2. PICK x \in T : \A y \in T : x <= y
  <2> HIDE DEF T
  <2> QED
    BY <1>1, LeastOf, Zenon
<1>3. x \in 0..n /\ x # 0 /\ x \notin S
  BY Zenon
<1>4. x - 1 \in 0..(n - 1) /\ x - 1 \in 0..n /\ (x - 1) + 1 = x /\ ~(x <= x - 1)
  BY <1>3
<1>5. x - 1 \in S
  BY <1>2, <1>4, Zenon
<1> QED
  BY <1>3, <1>4, <1>5, Zenon

\* The partial sums of a sequence.
Sums(sum, s, m) ==
  /\ \A n \in 0..m : sum[n] \in Int
  /\ sum[0] = 0 /\ \A n \in 1..m : sum[n] = sum[n - 1] + s[n]

\* A sequence of integers has partial sums.
LEMMA SumsExist ==
  ASSUME NEW s \in Seq(Int)
  PROVE  \E sum \in [0..Len(s) -> Int] : Sums(sum, s, Len(s))
<1> PICK m \in Nat : m = Len(s)
  OBVIOUS
<1>1. \A n \in 1..m : s[n] \in Int
  OBVIOUS
<1> DEFINE S == {k \in 0..m : \E sum \in [0..k -> Int] : Sums(sum, s, k)}
<1>2. 0 \in S
  <2>1. [k \in 0..0 |-> 0] \in [0..0 -> Int] /\ Sums([k \in 0..0 |-> 0], s, 0)
    BY DEF Sums
  <2> QED
    BY <2>1
<1>3. ASSUME NEW k \in 0..(m - 1), k \in S PROVE k + 1 \in S
  <2>1. PICK f \in [0..k -> Int] : Sums(f, s, k)
    BY <1>3, Zenon
  <2>2. PICK x \in Int : x = f[k] + s[k + 1]
    BY <1>1, <2>1 DEF Sums
  <2>3. PICK g : g = [n \in 0..(k + 1) |-> IF n = k + 1 THEN x ELSE f[n]]
    BY Zenon
  <2>4. g \in [0..(k + 1) -> Int] /\ g[0] = 0 /\ g[k + 1] = x /\ \A n \in 0..k : g[n] = f[n]
    BY <2>1, <2>3 DEF Sums
  <2>5. ASSUME NEW n \in 1..(k + 1) PROVE g[n] = g[n - 1] + s[n]
    <3>1. n - 1 \in 0..k /\ g[n - 1] = f[n - 1]
      BY <2>4
    <3>2. CASE n = k + 1
      BY <2>2, <2>4, <3>1, <3>2
    <3>3. CASE n # k + 1
      BY <2>1, <2>4, <3>1, <3>3 DEF Sums
    <3> QED
      BY <3>2, <3>3, Zenon
  <2>6. g \in [0..(k + 1) -> Int] /\ Sums(g, s, k + 1) /\ k + 1 \in 0..m
    BY <2>4, <2>5 DEF Sums
  <2> QED
    BY <2>6, Zenon
<1>4. \A k \in 0..m : k \in S
  <2> HIDE DEF S
  <2> QED
    BY <1>2, <1>3, UpTo, Zenon
<1> QED
  BY <1>4

\* SumOf is the last of them.
LEMMA SumIs ==
  ASSUME NEW s \in Seq(Int)
  PROVE  \E sum : Sums(sum, s, Len(s)) /\ SumOf(s) = sum[Len(s)]
<1> PICK m \in Nat : m = Len(s)
  OBVIOUS
<1>1. PICK sum \in [0..m -> Int] : Sums(sum, s, m)
  BY SumsExist, Zenon
<1> DEFINE Is(f) == f = [n \in 0..m |-> IF n = 0 THEN 0 ELSE f[n - 1] + s[n]]
<1>2. Is(sum)
  BY <1>1 DEF Sums
<1>3. PICK f : f = CHOOSE h : Is(h)
  BY Zenon
<1>4. Is(f)
  BY <1>2, <1>3, Zenon
<1>5. SumOf(s) = f[m]
  BY <1>3, Zenon DEF SumOf
<1>6. \A n \in 0..m : f[n] = sum[n]
  <2> DEFINE S == {n \in 0..m : f[n] = sum[n]}
  <2>1. 0 \in S
    BY <1>1, <1>4 DEF Sums
  <2>2. ASSUME NEW k \in 0..(m - 1), k \in S PROVE k + 1 \in S
    BY <1>1, <1>4, <2>2 DEF Sums
  <2>3. \A k \in 0..m : k \in S
    <3> HIDE DEF S
    <3> QED
      BY <2>1, <2>2, UpTo, Zenon
  <2> QED
    BY <2>3, Zenon
<1> QED
  BY <1>1, <1>5, <1>6

\* From d on, the elements of t are those of s.
EqualFrom(t, d, s, m) == \A n \in 1..m : t[d + n] = s[n] /\ s[n] \in Int

\* From d on, the partial sums g add what f does.
AddFrom(g, d, f, m) == g[d + m] = g[d] + f[m]

\* Two sequences of partial sums go together as long as the elements do.
LEMMA SumsAgree ==
  ASSUME NEW m \in Nat, NEW d \in Nat, NEW s, NEW t, NEW f, NEW g,
         Sums(f, s, m), Sums(g, t, d + m),
         EqualFrom(t, d, s, m)
  PROVE  AddFrom(g, d, f, m)
<1>1. /\ \A n \in 0..m : f[n] \in Int
      /\ f[0] = 0 /\ \A n \in 1..m : f[n] = f[n - 1] + s[n]
      /\ \A n \in 1..(d + m) : g[n] = g[n - 1] + t[n]
      /\ g[d] \in Int
  BY DEF Sums
<1> DEFINE S == {n \in 0..m : g[d + n] = g[d] + f[n]}
<1>2. 0 \in S
  BY <1>1
<1>3. ASSUME NEW k \in 0..(m - 1), k \in S PROVE k + 1 \in S
  <2>1. /\ k \in 0..m /\ k + 1 \in 0..m /\ k + 1 \in 1..m /\ (k + 1) - 1 = k
        /\ d + (k + 1) \in 1..(d + m) /\ (d + (k + 1)) - 1 = d + k
    OBVIOUS
  <2>2. g[d + k] = g[d] + f[k] /\ f[k] \in Int
    BY <1>1, <1>3, <2>1, Zenon
  <2>3. g[d + (k + 1)] = g[d + k] + t[d + (k + 1)]
    BY <1>1, <2>1, Zenon
  <2>4. t[d + (k + 1)] = s[k + 1] /\ s[k + 1] \in Int /\ f[k + 1] = f[k] + s[k + 1]
    BY <1>1, <2>1, Zenon DEF EqualFrom
  <2>5. g[d + (k + 1)] = g[d] + f[k + 1]
    BY <1>1, <2>2, <2>3, <2>4
  <2> QED
    BY <2>1, <2>5, Zenon
<1>4. \A k \in 0..m : k \in S
  <2> HIDE DEF S
  <2> QED
    BY <1>2, <1>3, UpTo, Zenon
<1> QED
  BY <1>4 DEF AddFrom

\* The sum of a concatenation.
LEMMA SumJoined ==
  ASSUME NEW a \in Seq(Int), NEW b \in Seq(Int)
  PROVE  /\ SumOf(a) \in Int /\ SumOf(b) \in Int
         /\ SumOf(a \o b) = SumOf(a) + SumOf(b)
<1> PICK n \in Nat, m \in Nat : n = Len(a) /\ m = Len(b)
  OBVIOUS
<1>1. PICK ab : ab = a \o b
  BY Zenon
<1>2. /\ ab \in Seq(Int) /\ Len(ab) = n + m
      /\ \A i \in 1..n : ab[i] = a[i] /\ a[i] \in Int
      /\ \A i \in 1..m : ab[n + i] = b[i] /\ b[i] \in Int
  BY <1>1
<1>3. PICK f : Sums(f, a, n) /\ SumOf(a) = f[n]
  BY SumIs, Zenon
<1>4. PICK g : Sums(g, b, m) /\ SumOf(b) = g[m]
  BY SumIs, Zenon
<1>5. PICK h : Sums(h, ab, n + m) /\ SumOf(ab) = h[n + m]
  BY <1>2, SumIs, Zenon
<1>6. f[n] \in Int /\ g[m] \in Int
  BY <1>3, <1>4 DEF Sums
<1>7. h[n] = f[n]
  <2>1. /\ \A i \in 0..n : i \in 0..(n + m)
        /\ \A i \in 1..n : i \in 1..(n + m)
        /\ 0 + n = n /\ 0 + f[n] = f[n] /\ \A i \in 1..n : 0 + i = i
    BY <1>6
  <2>2. Sums(h, ab, n) /\ h[0] = 0
    BY <1>5, <2>1, Zenon DEF Sums
  <2>3. EqualFrom(ab, 0, a, n)
    BY <1>2, <2>1, Zenon DEF EqualFrom
  <2>4. AddFrom(h, 0, f, n)
    <3>1. Sums(h, ab, 0 + n) /\ 0 \in Nat
      BY <2>1, <2>2, Zenon
    <3> QED
      BY <1>3, <2>3, <3>1, SumsAgree, Zenon
  <2> QED
    BY <2>1, <2>2, <2>4, Zenon DEF AddFrom
<1>8. h[n + m] = f[n] + g[m]
  <2>1. EqualFrom(ab, n, b, m)
    BY <1>2, Zenon DEF EqualFrom
  <2>2. AddFrom(h, n, g, m)
    BY <1>4, <1>5, <2>1, SumsAgree, Zenon
  <2> QED
    BY <1>7, <2>2, Zenon DEF AddFrom
<1> QED
  BY <1>1, <1>3, <1>4, <1>5, <1>6, <1>8, Zenon

\* Nothing adds up to nothing.
LEMMA SumOfZeros ==
  ASSUME NEW s \in Seq(Int), \A i \in 1..Len(s) : s[i] = 0
  PROVE  SumOf(s) = 0
<1> PICK m \in Nat : m = Len(s)
  OBVIOUS
<1>1. PICK f : Sums(f, s, m) /\ SumOf(s) = f[m]
  BY SumIs, Zenon
<1> DEFINE S == {n \in 0..m : f[n] = 0}
<1>2. 0 \in S
  BY <1>1 DEF Sums
<1>3. ASSUME NEW k \in 0..(m - 1), k \in S PROVE k + 1 \in S
  BY <1>1, <1>3 DEF Sums
<1>4. \A k \in 0..m : k \in S
  <2> HIDE DEF S
  <2> QED
    BY <1>2, <1>3, UpTo, Zenon
<1> QED
  BY <1>1, <1>4

\* What a response adds to gross_notional_ or to fees_.
AmountOf(r, which) ==
  IF r.status # "FILLED" THEN 0
  ELSE IF which = "notional" THEN Notional(r.trade, r.avg_price) ELSE Fee(r.trade, r.avg_price)

Amounts(s, which) == [i \in DOMAIN s |-> AmountOf(s[i], which)]
Total(s, which) == SumOf(Amounts(s, which))

\* The inductive form of BooksBalance.
BooksInv == gross_notional = Total(Answered, "notional") /\ fees = Total(Answered, "fees")

\* Every amount is a number.
LEMMA AmountsAre ==
  ASSUME NEW s \in Seq(Answers), NEW which, NEW a, a = Amounts(s, which)
  PROVE  /\ a \in Seq(Int) /\ Len(a) = Len(s)
         /\ \A i \in 1..Len(s) : a[i] = AmountOf(s[i], which)
<1> PICK n \in Nat : n = Len(s)
  OBVIOUS
<1>1. DOMAIN s = 1..n /\ \A i \in 1..n : s[i] \in Answers
  BY Elements, Zenon
<1>2. \A r \in Answers : AmountOf(r, which) \in Int
  <2> SUFFICES ASSUME NEW r \in Answers PROVE AmountOf(r, which) \in Int
    BY Zenon
  <2>1. r.avg_price \in Nat /\ r.trade \in Orders
    BY Zenon DEF Answers
  <2>2. r.trade.quantity \in Nat
    BY <2>1, SimulatorAssumption, Zenon
  <2>3. Notional(r.trade, r.avg_price) \in Int
    BY <2>1, <2>2 DEF Notional
  <2>4. Fee(r.trade, r.avg_price) \in Int
    <3>1. MakerFee \in Int /\ TakerFee \in Int
      BY SimulatorAssumption
    <3> QED
      BY <2>3, <3>1 DEF Fee
  <2>5. 0 \in Int
    OBVIOUS
  <2> QED
    BY <2>3, <2>4, <2>5, Zenon DEF AmountOf
<1>3. a \in [1..n -> Int] /\ \A i \in 1..n : a[i] = AmountOf(s[i], which)
  BY <1>1, <1>2, Zenon DEF Amounts
<1> QED
  BY <1>3, IsSequence, Zenon

\* Two sequences of responses add up.
AddUp(a, b, which) ==
  /\ Total(a, which) \in Int /\ Total(b, which) \in Int
  /\ Total(a \o b, which) = Total(a, which) + Total(b, which)

\* So do any two.
LEMMA TotalJoined ==
  ASSUME NEW a \in Seq(Answers), NEW b \in Seq(Answers), NEW which
  PROVE  AddUp(a, b, which)
<1> PICK n \in Nat, m \in Nat : n = Len(a) /\ m = Len(b)
  OBVIOUS
<1>1. PICK ab : ab = a \o b
  BY Zenon
<1>2. /\ ab \in Seq(Answers) /\ Len(ab) = n + m
      /\ \A i \in 1..n : ab[i] = a[i]
      /\ \A i \in 1..m : ab[n + i] = b[i]
  BY <1>1, Joined
<1>3. PICK x, y, z : /\ x = Amounts(a, which) /\ y = Amounts(b, which)
                     /\ z = Amounts(ab, which)
  BY Zenon
<1>4. /\ x \in Seq(Int) /\ Len(x) = n /\ \A i \in 1..n : x[i] = AmountOf(a[i], which)
      /\ y \in Seq(Int) /\ Len(y) = m /\ \A i \in 1..m : y[i] = AmountOf(b[i], which)
      /\ z \in Seq(Int) /\ Len(z) = n + m /\ \A i \in 1..(n + m) : z[i] = AmountOf(ab[i], which)
  <2>1. x \in Seq(Int) /\ Len(x) = n /\ \A i \in 1..n : x[i] = AmountOf(a[i], which)
    BY <1>3, AmountsAre, Zenon
  <2>2. y \in Seq(Int) /\ Len(y) = m /\ \A i \in 1..m : y[i] = AmountOf(b[i], which)
    BY <1>3, AmountsAre, Zenon
  <2>3. z \in Seq(Int) /\ Len(z) = n + m /\ \A i \in 1..(n + m) : z[i] = AmountOf(ab[i], which)
    <3>1. z \in Seq(Int) /\ Len(z) = Len(ab) /\ \A i \in 1..Len(ab) : z[i] = AmountOf(ab[i], which)
      BY <1>2, <1>3, AmountsAre, ZenonT(40)
    <3> QED
      BY <1>2, <3>1, Zenon
  <2> QED
    BY <2>1, <2>2, <2>3, Zenon
<1>5. z = x \o y
  <2>1. PICK w : w = x \o y
    BY Zenon
  <2>2. /\ w \in Seq(Int) /\ Len(w) = n + m
        /\ \A i \in 1..n : w[i] = x[i]
        /\ \A i \in 1..m : w[n + i] = y[i]
    <3>1. /\ w \in Seq(Int) /\ Len(w) = Len(x) + Len(y)
          /\ \A i \in 1..Len(x) : w[i] = x[i]
          /\ \A i \in 1..Len(y) : w[Len(x) + i] = y[i]
      <4>1. x \in Seq(Int) /\ y \in Seq(Int)
        BY <1>4, Zenon
      <4> QED
        BY <2>1, <4>1
    <3> QED
      BY <1>4, <3>1, Zenon
  <2>3. ASSUME NEW i \in 1..(n + m) PROVE w[i] = z[i]
    <3>1. CASE i \in 1..n
      BY <1>2, <1>4, <2>2, <3>1
    <3>2. CASE i \notin 1..n
      <4>1. PICK k \in 1..m : i = n + k
        <5>1. i - n \in 1..m /\ i = n + (i - n)
          BY <3>2
        <5> QED
          BY <5>1, Zenon
      <4>2. ab[i] = b[k] /\ w[i] = y[k] /\ y[k] = AmountOf(b[k], which) /\ z[i] = AmountOf(ab[i], which)
        BY <1>2, <1>4, <2>2, <4>1, Zenon
      <4> QED
        BY <4>2, Zenon
    <3> QED
      BY <3>1, <3>2, Zenon
  <2> QED
    BY <1>4, <2>1, <2>2, <2>3, SameElements, Zenon
<1>6. SumOf(x) \in Int /\ SumOf(y) \in Int /\ SumOf(z) = SumOf(x) + SumOf(y)
  BY <1>4, <1>5, SumJoined, Zenon
<1> QED
  BY <1>1, <1>3, <1>6, Zenon DEF Total, AddUp

\* An entry in the books is what these responses add up to.
Enters(booked, answers) ==
  booked.notional = Total(answers, "notional") /\ booked.fees = Total(answers, "fees")

\* What make_response_locked books for some orders is what their responses add up
\* to.
LEMMA BookedIs ==
  ASSUME NEW orders \in Seq(Resting), NEW prices, \A k \in 1..Len(orders) : prices[k] \in Nat,
         DOMAIN prices = DOMAIN orders,
         NEW status \in {"FILLED", "CANCELED", "REJECTED"},
         NEW answers, answers = Responses(orders, status, prices)
  PROVE  Enters(Booked(orders, status, prices), answers)
<1> PICK n \in Nat : n = Len(orders)
  OBVIOUS
<1>1. DOMAIN orders = 1..n
  BY Elements, Zenon
<1>2. answers \in Seq(Answers)
  BY AnswersAre, Zenon
<1>3. /\ DOMAIN answers = 1..n /\ Len(answers) = n
      /\ \A k \in 1..n : /\ answers[k].trade = orders[k].trade /\ answers[k].status = status
                         /\ answers[k].avg_price = prices[k]
  BY <1>1, <1>2, Elements DEF Responses
<1>4. PICK notional : notional = Amounts(answers, "notional")
  BY Zenon
<1>5. PICK fee : fee = Amounts(answers, "fees")
  BY Zenon
<1>6. /\ notional \in Seq(Int) /\ Len(notional) = n
      /\ \A k \in 1..n : notional[k] = AmountOf(answers[k], "notional")
      /\ fee \in Seq(Int) /\ Len(fee) = n
      /\ \A k \in 1..n : fee[k] = AmountOf(answers[k], "fees")
  BY <1>2, <1>3, <1>4, <1>5, AmountsAre
<1>7. CASE status = "FILLED"
  <2>1. notional = [k \in DOMAIN orders |-> Notional(orders[k].trade, prices[k])]
    BY <1>1, <1>3, <1>4, <1>7, Zenon DEF Amounts, AmountOf
  <2>2. fee = [k \in DOMAIN orders |-> Fee(orders[k].trade, prices[k])]
    BY <1>1, <1>3, <1>5, <1>7, Zenon DEF Amounts, AmountOf
  <2>3. /\ Booked(orders, status, prices).notional = SumOf(notional)
        /\ Booked(orders, status, prices).fees = SumOf(fee)
    BY <1>7, <2>1, <2>2, Zenon DEF Booked
  <2> QED
    BY <1>4, <1>5, <2>3, Zenon DEF Total, Enters
<1>8. CASE status # "FILLED"
  <2>1. /\ Booked(orders, status, prices).notional = 0
        /\ Booked(orders, status, prices).fees = 0
    BY <1>8, Zenon DEF Booked
  <2>2. \A k \in 1..n : notional[k] = 0 /\ fee[k] = 0
    BY <1>3, <1>6, <1>8, Zenon DEF AmountOf
  <2>3. SumOf(notional) = 0 /\ SumOf(fee) = 0
    BY <1>6, <2>2, SumOfZeros, Zenon
  <2> QED
    BY <1>4, <1>5, <2>1, <2>3, Zenon DEF Total, Enters
<1> QED
  BY <1>7, <1>8, Zenon

\* New responses are booked, at whichever end they join the others.
LEMMA BooksGrow ==
  ASSUME BooksInv, published \in Seq(Answers), deliveries \in Seq(Answers), NEW r \in Seq(Answers),
         gross_notional' = gross_notional + Total(r, "notional"),
         fees' = fees + Total(r, "fees"),
         \/ published' = published \o r /\ deliveries' = deliveries
         \/ published' = published /\ deliveries' = r \o deliveries
  PROVE  BooksInv'
<1>1. PICK p \in Seq(Answers), d \in Seq(Answers) : p = published /\ d = deliveries
  BY Zenon
<1>2. Answered = p \o d /\ (Answered' = (p \o r) \o d \/ Answered' = p \o (r \o d))
  BY <1>1, Zenon DEF Answered
<1>3. p \o r \in Seq(Answers) /\ r \o d \in Seq(Answers)
  BY Joined, Zenon
<1>4. ASSUME NEW which
      PROVE  /\ Total(p \o d, which) = Total(p, which) + Total(d, which)
             /\ Total((p \o r) \o d, which) = (Total(p, which) + Total(r, which)) + Total(d, which)
             /\ Total(p \o (r \o d), which) = Total(p, which) + (Total(r, which) + Total(d, which))
             /\ Total(p, which) \in Int /\ Total(r, which) \in Int /\ Total(d, which) \in Int
  <2>1. AddUp(p, d, which) /\ AddUp(p, r, which) /\ AddUp(r, d, which)
    BY TotalJoined, Zenon
  <2>2. AddUp(p \o r, d, which) /\ AddUp(p, r \o d, which)
    <3>1. PICK pr \in Seq(Answers), rd \in Seq(Answers) : pr = p \o r /\ rd = r \o d
      BY <1>3, Zenon
    <3>2. AddUp(pr, d, which) /\ AddUp(p, rd, which)
      BY TotalJoined, Zenon
    <3> QED
      BY <3>1, <3>2, Zenon
  <2> QED
    BY <2>1, <2>2, Zenon DEF AddUp
<1>5. ASSUME NEW which
      PROVE  Total(Answered', which) = Total(p \o d, which) + Total(r, which)
  <2>1. /\ Total((p \o r) \o d, which) = Total(p \o d, which) + Total(r, which)
        /\ Total(p \o (r \o d), which) = Total(p \o d, which) + Total(r, which)
    <3>1. PICK x \in Int, y \in Int, z \in Int :
            x = Total(p, which) /\ y = Total(d, which) /\ z = Total(r, which)
      BY <1>4, Zenon
    <3>2. (x + z) + y = (x + y) + z /\ x + (z + y) = (x + y) + z
      OBVIOUS
    <3> QED
      BY <1>4, <3>1, <3>2, Zenon
  <2> QED
    BY <1>2, <2>1, Zenon
<1>6. gross_notional = Total(p \o d, "notional") /\ fees = Total(p \o d, "fees")
  BY <1>2, Zenon DEF BooksInv
<1>7. gross_notional' = Total(Answered', "notional") /\ fees' = Total(Answered', "fees")
  BY <1>5, <1>6, Zenon
<1> QED
  BY <1>7, Zenon DEF BooksInv, Total, Amounts, AmountOf, Notional, Fee

\* A walk books what it fills.
LEMMA BooksWalk ==
  ASSUME SinkInv, BooksInv, Walks
  PROVE  BooksInv'
<1>1. /\ resting_orders \in Seq(Resting)
      /\ published \in Seq(Answers) /\ deliveries \in Seq(Answers)
  BY Zenon DEF SinkInv, SinkTypes
<1>2. PICK places \in SUBSET DOMAIN resting_orders, status \in {"FILLED", "CANCELED", "REJECTED"} :
        \E price \in [places -> Nat] : Take(places, status, price) /\ UNCHANGED published
  BY Zenon DEF Walks
<1>3. PICK price \in [places -> Nat] : Take(places, status, price) /\ UNCHANGED published
  BY <1>2, Zenon
<1>4. PICK at \in Walk(places) :
        \E orders, prices :
          /\ orders = [k \in DOMAIN at |-> resting_orders[at[k]]]
          /\ prices = [k \in DOMAIN at |-> price[at[k]]]
          /\ deliveries' = Responses(orders, status, prices) \o deliveries
          /\ MakeResponses(orders, status, prices)
  BY <1>3, Zenon DEF Take
<1>5. PICK orders, prices :
        /\ orders = [k \in DOMAIN at |-> resting_orders[at[k]]]
        /\ prices = [k \in DOMAIN at |-> price[at[k]]]
        /\ deliveries' = Responses(orders, status, prices) \o deliveries
        /\ MakeResponses(orders, status, prices)
  BY <1>4, Zenon
<1>6. PICK n \in Nat : Passes(at, n, places) /\ DOMAIN at = 1..n
  BY <1>1, WalkPasses, Zenon
<1>7. \A k \in 1..n : at[k] \in places /\ at[k] \in DOMAIN resting_orders
  BY <1>6, Zenon DEF Passes
<1>8. \A i \in DOMAIN resting_orders : resting_orders[i] \in Resting
  BY <1>1, Elements, Zenon
<1>9. orders \in [1..n -> Resting]
  BY <1>5, <1>6, <1>7, <1>8, Zenon
<1>10. DOMAIN prices = 1..n /\ \A k \in 1..n : prices[k] \in Nat
  BY <1>5, <1>6, <1>7, Zenon
<1>11. orders \in Seq(Resting) /\ Len(orders) = n /\ DOMAIN orders = 1..n
  BY <1>9, IsSequence, Zenon
<1>12. PICK r : r = Responses(orders, status, prices)
  BY Zenon
<1>13. r \in Seq(Answers)
  BY <1>10, <1>11, <1>12, AnswersAre, Zenon
<1>14. Enters(Booked(orders, status, prices), r)
  <2>1. DOMAIN prices = DOMAIN orders /\ \A k \in 1..Len(orders) : prices[k] \in Nat
    BY <1>10, <1>11, Zenon
  <2> QED
    BY <1>11, <1>12, <2>1, BookedIs, Zenon
<1>15. gross_notional' = gross_notional + Total(r, "notional") /\ fees' = fees + Total(r, "fees")
  BY <1>5, <1>14, Zenon DEF MakeResponses, Enters
<1> QED
  BY <1>1, <1>3, <1>5, <1>12, <1>13, <1>15, BooksGrow, Zenon

\* submit_trade books an order that fills at once.
LEMMA BooksSubmit ==
  ASSUME SinkInv, BooksInv, NEW t \in Orders, Submit(t)
  PROVE  BooksInv'
<1> DEFINE order == [trade |-> t, id |-> submitted, exchange_order_id |-> next_exchange_order_id]
<1>1. /\ submitted \in Nat /\ next_exchange_order_id \in Nat
      /\ quotes \in [Tickers -> Quotes \cup {NoQuote}]
      /\ published \in Seq(Answers) /\ deliveries \in Seq(Answers)
  BY Zenon DEF SinkInv, SinkTypes
<1>2. UNCHANGED deliveries
  BY Zenon DEF Submit
<1>3. order \in Resting
  BY <1>1, Zenon DEF Resting
<1>4. ASSUME NEW status \in {"FILLED", "REJECTED"}, NEW price \in Nat, Answer(order, status, price)
      PROVE  BooksInv'
  <2> HIDE DEF order
  <2>1. PICK orders, prices : orders = <<order>> /\ prices = <<price>>
    BY Zenon
  <2>2. /\ orders \in Seq(Resting) /\ DOMAIN orders = 1..1 /\ DOMAIN prices = 1..1
        /\ Len(orders) = 1 /\ \A k \in 1..1 : prices[k] \in Nat
    BY <1>3, <2>1
  <2>3. PICK r : r = Responses(orders, status, prices)
    BY Zenon
  <2>4. status \in {"FILLED", "CANCELED", "REJECTED"}
    BY Zenon
  <2>5. r \in Seq(Answers)
    BY <2>2, <2>3, <2>4, AnswersAre, Zenon
  <2>6. Enters(Booked(orders, status, prices), r)
    <3>1. DOMAIN prices = DOMAIN orders /\ \A k \in 1..Len(orders) : prices[k] \in Nat
      BY <2>2, Zenon
    <3> QED
      BY <2>2, <2>3, <2>4, <3>1, BookedIs, Zenon
  <2>7. MakeResponses(orders, status, prices) /\ published' = published \o r
    BY <1>4, <2>1, <2>3, Zenon DEF Answer
  <2>8. gross_notional' = gross_notional + Total(r, "notional") /\ fees' = fees + Total(r, "fees")
    BY <2>6, <2>7, Zenon DEF MakeResponses, Enters
  <2> QED
    BY <1>1, <1>2, <2>5, <2>7, <2>8, BooksGrow, Zenon
<1>5. CASE ~Valid(t)
  <2>1. Answer(order, "REJECTED", 0)
    BY <1>5, Zenon DEF Submit, Answer
  <2>2. "REJECTED" \in {"FILLED", "REJECTED"} /\ 0 \in Nat
    BY Zenon
  <2> HIDE DEF order
  <2> QED
    BY <1>4, <2>1, <2>2, Zenon
<1>6. CASE Valid(t) /\ FillsAtOnce(t)
  <2> DEFINE price == QuotePrice(t, quotes[t.ticker])
  <2>1. Answer(order, "FILLED", price)
    BY <1>6, Zenon DEF Submit, Answer
  <2>2. t.ticker \in Tickers
    BY SimulatorAssumption, Zenon
  <2>3. quotes[t.ticker] \in Quotes
    BY <1>1, <1>6, <2>2, Zenon DEF FillsAtOnce
  <2>4. price \in Nat
    BY <2>3, Zenon DEF QuotePrice, Quotes
  <2>5. "FILLED" \in {"FILLED", "REJECTED"}
    BY Zenon
  <2> HIDE DEF order, price
  <2> QED
    BY <1>4, <2>1, <2>4, <2>5, Zenon
<1>7. CASE Valid(t) /\ ~FillsAtOnce(t)
  <2>1. UNCHANGED <<published, gross_notional, fees>>
    BY <1>7, Zenon DEF Submit
  <2> QED
    BY <1>2, <2>1, Zenon DEF BooksInv, Answered, Total, Amounts, AmountOf, Notional, Fee
<1> QED
  BY <1>5, <1>6, <1>7, Zenon

\* publish_response moves a response that has been booked.
LEMMA BooksDeliver ==
  ASSUME SinkInv, BooksInv, Deliver
  PROVE  BooksInv'
<1>1. /\ deliveries # <<>> /\ deliveries \in Seq(Answers) /\ published \in Seq(Answers)
      /\ published' = Append(published, Head(deliveries)) /\ deliveries' = Tail(deliveries)
      /\ UNCHANGED <<gross_notional, fees>>
  BY Zenon DEF Deliver, SinkInv, SinkTypes
<1>2. \A p, d \in Seq(Answers) : d # <<>> => Append(p, Head(d)) \o Tail(d) = p \o d
  <2> SUFFICES ASSUME NEW p \in Seq(Answers), NEW d \in Seq(Answers), d # <<>>
               PROVE  Append(p, Head(d)) \o Tail(d) = p \o d
    BY Zenon
  <2> QED
    OBVIOUS
<1>3. Answered' = Answered
  BY <1>1, <1>2, Zenon DEF Answered
<1> QED
  BY <1>1, <1>3, Zenon DEF BooksInv, Total, Amounts, AmountOf, Notional, Fee

-----------------------------------------------------------------------------
(* The drivers *)

Calls == [strategy : {Strategies[i].id : i \in DOMAIN Strategies}, offset : Nat]

PageTypes ==
  /\ events \in Seq(Recordable) /\ filter \in Requests /\ page \in Seq(Nat)
  /\ handled \in Nat /\ horizon \in Nat

StepTypes ==
  /\ driver \in {"backtest", "replay"} /\ phase \in {"fetch", "page", "stop", "done"}
  /\ steps \in {<<>>, <<"sink", "strategies">>, <<"strategies">>}
  /\ offset \in Nat /\ todo \in SUBSET DOMAIN Strategies
  /\ calls \in Seq(Calls)
  /\ submitted_at \in Seq(Nat)

\* While an event is at hand it is the last one dealt with.
AtHand ==
  steps # <<>> => /\ phase = "page" /\ handled = offset + 1
                  /\ offset \in Matching(filter) /\ IsMarket(Event)

\* No strategy runs and no response is to be delivered when the sink sees an
\* event or the loop takes the next one; orders that rest when the sink sees an
\* event were submitted before.
Reaction ==
  /\ Len(submitted_at) = submitted
  /\ \A i \in DOMAIN submitted_at : submitted_at[i] <= handled
  /\ steps = <<>> /\ phase \in {"fetch", "page"} => ~calling /\ deliveries = <<>>
  /\ steps = <<"sink", "strategies">> =>
       /\ ~calling /\ deliveries = <<>>
       /\ \A i \in DOMAIN submitted_at : submitted_at[i] <= offset
  /\ \A f \in fills : f.id \in 0..(submitted - 1) /\ submitted_at[f.id + 1] <= f.offset

\* The next page starts here.
From == IF request.start_offset = None THEN 0 ELSE request.start_offset

\* The events before this offset have been asked for.
Limit == IF batch.end_of_stream THEN horizon ELSE batch.next_offset

\* Of what matches, all before an offset has been dealt with and nothing after it.
Complete(from, done, matching, length) ==
  /\ done <= from /\ from <= length
  /\ \A n \in matching : n < done \/ from <= n

\* What is still to be dealt with before the limit is on the page, in order.
OnPage(p, limit, done, matching, length) ==
  /\ limit \in Nat /\ done <= limit /\ limit <= length
  /\ \A k, l \in DOMAIN p : k < l => p[k] < p[l]
  /\ \A k \in DOMAIN p : p[k] \in matching /\ done <= p[k] /\ p[k] < limit
  /\ \A n \in matching : done <= n /\ n < limit => \E k \in DOMAIN p : p[k] = n

\* Nothing that matches lies between two pages, or between what was dealt with and
\* the rest of the page.
PageInv ==
  /\ request.start_offset \in Nat \cup {None}
  /\ request = [filter EXCEPT !.start_offset = request.start_offset]
  /\ phase = "fetch" => Complete(From, handled, Matching(filter), Len(events))
  /\ phase = "page" => OnPage(page, Limit, handled, Matching(filter), Len(events))
  /\ phase \in {"stop", "done"} => Complete(horizon, handled, Matching(filter), Len(events))

\* The submissions that have been dealt with.
Met == {n \in Matching(filter) : n < handled /\ events[n + 1].type = "TradeSubmitted"}

\* Of these submissions in a recording, every order's is in the map, with the
\* strategy of the last one.
Owners(met, log, map) ==
  /\ \A n \in met : log[n + 1].id \in DOMAIN map
  /\ \A id \in DOMAIN map :
       \E n \in met : /\ log[n + 1].id = id /\ log[n + 1].strategy = map[id]
                      /\ \A m \in met : log[m + 1].id = id => m <= n

OwnerInv == driver = "replay" => Owners(Met, events, order_to_strategy)

CallOf(i, at) == [strategy |-> Strategies[i].id, offset |-> at]

\* Strategy i has been called for the event at this offset.
Made(i, at) ==
  /\ at < handled /\ Called(Strategies[i], at)
  /\ ~(steps # <<>> /\ at = offset /\ i \in todo)

MadeCalls ==
  UNION {{CallOf(i, at) : i \in {j \in DOMAIN Strategies : Made(j, at)}} : at \in Matching(filter)}

\* These are the calls, in order.
Listed(list, made) ==
  /\ RangeOf(list) = made
  /\ \A k, l \in DOMAIN list : k < l => Precedes(list[k], list[l])

\* The strategies that are still to be called for the event at hand come after
\* those that were.
TodoInv ==
  steps # <<>> => /\ \A i \in todo : Tracks(Strategies[i], Event.ticker)
                  /\ \A i \in DOMAIN Strategies, j \in todo :
                       Tracks(Strategies[i], Event.ticker) /\ i \notin todo => i < j

\* The calls so far are those that the recording says.
CallsInv == Listed(calls, MadeCalls) /\ TodoInv

-----------------------------------------------------------------------------
(* Pages *)

\* The storage grows while a driver is between two pages.
LEMMA CompleteGrows ==
  ASSUME NEW from \in Nat, NEW done \in Nat, NEW matching, NEW length \in Nat, NEW more,
         Complete(from, done, matching, length), \A n \in more : n \in matching \/ n = length
  PROVE  Complete(from, done, more, length + 1)
  BY DEF Complete

\* The storage grows while a driver reads a page.
LEMMA PageGrows ==
  ASSUME NEW p, NEW limit, NEW done \in Nat, NEW matching, NEW length \in Nat, NEW more,
         OnPage(p, limit, done, matching, length), \A n \in more : n \in matching \/ n = length,
         matching \subseteq more
  PROVE  OnPage(p, limit, done, more, length + 1)
<1>1. /\ limit \in Nat /\ done <= limit /\ limit <= length
      /\ \A k, l \in DOMAIN p : k < l => p[k] < p[l]
      /\ \A k \in DOMAIN p : p[k] \in matching /\ done <= p[k] /\ p[k] < limit
      /\ \A n \in matching : done <= n /\ n < limit => \E k \in DOMAIN p : p[k] = n
  BY Zenon DEF OnPage
<1>2. limit <= length + 1 /\ ~(length < limit)
  BY <1>1
<1>3. \A n \in more : done <= n /\ n < limit => \E k \in DOMAIN p : p[k] = n
  BY <1>1, <1>2, Zenon
<1>4. \A k \in DOMAIN p : p[k] \in more /\ done <= p[k] /\ p[k] < limit
  BY <1>1, Zenon
<1> QED
  BY <1>1, <1>2, <1>3, <1>4, Zenon DEF OnPage

\* The loop takes the first event of a page.
LEMMA PageTaken ==
  ASSUME NEW p \in Seq(Nat), p # <<>>, NEW limit, NEW done \in Nat, NEW matching, NEW length \in Nat,
         OnPage(p, limit, done, matching, length), \A n \in matching : n \in Nat
  PROVE  /\ Head(p) \in matching /\ Head(p) \in Nat /\ done <= Head(p)
         /\ Tail(p) \in Seq(Nat)
         /\ OnPage(Tail(p), limit, Head(p) + 1, matching, length)
         /\ \A n \in matching : n < Head(p) + 1 => n < done \/ n = Head(p)
<1> DEFINE at == Head(p)
           q == Tail(p)
           m == Len(p)
<1>1. /\ q \in Seq(Nat) /\ Len(q) = m - 1 /\ m \in Nat \ {0} /\ at = p[1] /\ at \in Nat
      /\ \A i \in 1..(m - 1) : q[i] = p[i + 1]
  BY Tails, Zenon
<1>2. DOMAIN p = 1..m /\ DOMAIN q = 1..(m - 1) /\ \A k \in 1..m : p[k] \in Nat
  BY <1>1, Elements, Zenon
<1> HIDE DEF at, q, m
<1>3. /\ limit \in Nat /\ done <= limit /\ limit <= length
      /\ \A k, l \in 1..m : k < l => p[k] < p[l]
      /\ \A k \in 1..m : p[k] \in matching /\ done <= p[k] /\ p[k] < limit
      /\ \A n \in matching : done <= n /\ n < limit => \E k \in 1..m : p[k] = n
  BY <1>2, Zenon DEF OnPage
<1>4. 1 \in 1..m /\ \A k \in 1..(m - 1) : k + 1 \in 1..m /\ 1 < k + 1
  BY <1>1
<1>5. at \in matching /\ done <= at /\ at < limit
  BY <1>1, <1>3, <1>4, Zenon
<1>6. at + 1 <= limit
  BY <1>1, <1>3, <1>5
<1>7. \A k, l \in 1..(m - 1) : k < l => q[k] < q[l]
  <2> SUFFICES ASSUME NEW k \in 1..(m - 1), NEW l \in 1..(m - 1), k < l PROVE q[k] < q[l]
    BY Zenon
  <2>1. k + 1 < l + 1 /\ q[k] = p[k + 1] /\ q[l] = p[l + 1]
    BY <1>1, SMTT(30)
  <2> QED
    BY <1>3, <1>4, <2>1, Zenon
<1>8. ASSUME NEW k \in 1..(m - 1)
      PROVE  q[k] \in matching /\ at + 1 <= q[k] /\ q[k] < limit
  <2>1. q[k] = p[k + 1] /\ p[1] < p[k + 1] /\ p[k + 1] \in matching /\ p[k + 1] < limit
    BY <1>1, <1>3, <1>4, Zenon
  <2>2. p[1] \in Nat /\ p[k + 1] \in Nat
    BY <1>2, <1>4, Zenon
  <2>3. \A a, b \in Nat : a < b => a + 1 <= b
    OBVIOUS
  <2>4. p[1] + 1 <= p[k + 1]
    BY <2>1, <2>2, <2>3, Zenon
  <2> QED
    BY <1>1, <2>1, <2>4, Zenon
<1>9. ASSUME NEW n \in matching, at + 1 <= n, n < limit
      PROVE  \E k \in 1..(m - 1) : q[k] = n
  <2>1. n \in Nat /\ done <= n /\ n # at
    BY <1>1, <1>5, <1>9
  <2>2. PICK k \in 1..m : p[k] = n
    BY <1>3, <1>9, <2>1, Zenon
  <2>3. k # 1
    BY <1>1, <2>1, <2>2, Zenon
  <2>4. k - 1 \in 1..(m - 1) /\ (k - 1) + 1 = k
    BY <1>1, <2>3
  <2>5. q[k - 1] = p[(k - 1) + 1]
    BY <1>1, <2>4, Zenon
  <2>6. q[k - 1] = n
    BY <2>2, <2>4, <2>5, Zenon
  <2> QED
    BY <2>4, <2>6, Zenon
<1>10. OnPage(q, limit, at + 1, matching, length)
  BY <1>2, <1>3, <1>6, <1>7, <1>8, <1>9, Zenon DEF OnPage
<1>11. ASSUME NEW n \in matching, n < at + 1, ~(n < done), n # at
       PROVE  FALSE
  <2>1. n \in Nat /\ done <= n /\ n < at /\ n < limit
    BY <1>1, <1>3, <1>5, <1>11, SMTT(30)
  <2>2. PICK k \in 1..m : p[k] = n
    BY <1>3, <2>1, Zenon
  <2>3. 1 < k
    BY <1>1, <1>11, <2>2
  <2>4. at < n
    BY <1>1, <1>3, <1>4, <2>2, <2>3, Zenon
  <2> QED
    BY <1>1, <2>1, <2>4
<1> QED
  BY <1>1, <1>5, <1>10, <1>11, Zenon DEF at, q

\* A page ends.
LEMMA PageEnds ==
  ASSUME NEW limit, NEW done \in Nat, NEW matching, NEW length \in Nat,
         OnPage(<<>>, limit, done, matching, length), \A n \in matching : n \in Nat
  PROVE  Complete(limit, done, matching, length)
<1>1. /\ limit \in Nat /\ done <= limit /\ limit <= length
      /\ \A n \in matching : done <= n /\ n < limit => \E k \in DOMAIN <<>> : <<>>[k] = n
  BY Zenon DEF OnPage
<1>2. DOMAIN <<>> = {}
  OBVIOUS
<1>3. \A n \in matching : ~(done <= n /\ n < limit)
  BY <1>1, <1>2, Zenon
<1> QED
  BY <1>1, <1>3 DEF Complete

\* What replay makes a page of, up to a limit.
Fetched(p, m, rest, beyond, limit, length) ==
  /\ p \in [1..m -> rest]
  /\ \A k, l \in 1..m : k < l => p[k] < p[l]
  /\ beyond = rest \ {p[k] : k \in 1..m}
  /\ \A k \in 1..m : \A n \in beyond : p[k] < n
  /\ \/ beyond = {} /\ limit = length
     \/ beyond # {} /\ m # 0 /\ limit = p[m] + 1

\* A page of what matches from an offset on.
LEMMA PageFetched ==
  ASSUME NEW from \in Nat, NEW done \in Nat, NEW length \in Nat, NEW matching,
         \A n \in matching : n \in Nat /\ n < length, Complete(from, done, matching, length),
         NEW rest, rest = {n \in matching : from <= n},
         NEW m \in Nat, NEW p, NEW beyond, NEW limit, Fetched(p, m, rest, beyond, limit, length)
  PROVE  OnPage(p, limit, done, matching, length)
<1> USE DEF Fetched
<1>1. /\ done <= from /\ from <= length
      /\ \A n \in matching : n < done \/ from <= n
  BY Zenon DEF Complete
<1>2. \A k \in 1..m : p[k] \in matching /\ p[k] \in Nat /\ from <= p[k] /\ p[k] < length
  BY Zenon
<1>3. p \in [1..m -> Nat]
  BY <1>2, Zenon
<1>4. p \in Seq(Nat) /\ DOMAIN p = 1..m
  BY <1>3, IsSequence, Zenon
<1>5. \A k \in 1..m : done <= p[k]
  BY <1>1, <1>2
<1>6. ASSUME NEW n \in matching, done <= n, n < limit, n \in rest
      PROVE  \E k \in 1..m : p[k] = n
  <2> SUFFICES ASSUME n \in beyond PROVE FALSE
    BY <1>6, Zenon
  <2>1. m # 0 /\ limit = p[m] + 1 /\ m \in 1..m
    OBVIOUS
  <2>2. p[m] < n /\ p[m] \in Nat /\ n \in Nat
    BY <1>2, <2>1, Zenon
  <2> QED
    BY <1>6, <2>1, <2>2
<1>7. \A n \in matching : done <= n => n \in rest
  BY <1>1
<1>8. limit \in Nat /\ done <= limit /\ limit <= length /\ \A k \in 1..m : p[k] < limit
  <2>1. CASE beyond = {} /\ limit = length
    BY <1>1, <1>2, <2>1
  <2>2. CASE beyond # {} /\ m # 0 /\ limit = p[m] + 1
    <3>1. m \in 1..m /\ \A k \in 1..m : k = m \/ k < m
      BY <2>2
    <3>2. p[m] \in Nat /\ p[m] < length /\ done <= p[m]
      BY <1>2, <1>5, <3>1, Zenon
    <3>3. \A k \in 1..m : p[k] = p[m] \/ p[k] < p[m]
      BY <3>1, Zenon
    <3> QED
      BY <1>2, <2>2, <3>2, <3>3, SMTT(30)
  <2> QED
    BY <2>1, <2>2, Zenon
<1> QED
  BY <1>2, <1>4, <1>5, <1>6, <1>7, <1>8, Zenon DEF OnPage

\* Offsets of matching events are places in the storage.
LEMMA MatchingIs ==
  ASSUME events \in Seq(Recordable), NEW r
  PROVE  /\ Len(events) \in Nat
         /\ \A n \in Matching(r) : n \in Nat /\ n < Len(events) /\ n + 1 \in DOMAIN events
<1>1. Len(events) \in Nat /\ DOMAIN events = 1..Len(events)
  BY Elements, Zenon
<1>2. \A n \in Matching(r) : n \in 0..(Len(events) - 1)
  BY Zenon DEF Matching
<1> QED
  BY <1>1, <1>2

\* An event is recorded: what matched goes on matching.
LEMMA Recorded ==
  ASSUME events \in Seq(Recordable), NEW e \in Recordable, events' = Append(events, e), filter' = filter
  PROVE  /\ events' \in Seq(Recordable) /\ Len(events') = Len(events) + 1 /\ Len(events) \in Nat
         /\ \A n \in Nat : n < Len(events) => events'[n + 1] = events[n + 1]
         /\ Matching(filter) \subseteq Matching(filter)'
         /\ \A n \in Matching(filter)' : n \in Matching(filter) \/ n = Len(events)
<1>1. /\ events' \in Seq(Recordable) /\ Len(events') = Len(events) + 1 /\ Len(events) \in Nat
      /\ \A i \in 1..Len(events) : events'[i] = events[i]
  BY Appended
<1>2. \A n \in Nat : n < Len(events) => n + 1 \in 1..Len(events)
  BY <1>1
<1>3. \A n \in Nat : n < Len(events) => events'[n + 1] = events[n + 1]
  BY <1>1, <1>2, Zenon
<1>4. ASSUME NEW n \in Nat, n < Len(events)
      PROVE  Matches(n, filter)' <=> Matches(n, filter)
  BY <1>3, <1>4, Zenon DEF Matches
<1>5. \A n \in 0..(Len(events) - 1) : n \in Nat /\ n < Len(events) /\ n \in 0..(Len(events') - 1)
  BY <1>1
<1>6. \A n \in 0..(Len(events') - 1) : n \in 0..(Len(events) - 1) \/ n = Len(events)
  BY <1>1
<1>7. Matching(filter) \subseteq Matching(filter)'
  BY <1>4, <1>5, Zenon DEF Matching
<1>8. \A n \in Matching(filter)' : n \in Matching(filter) \/ n = Len(events)
  BY <1>4, <1>5, <1>6, Zenon DEF Matching
<1> QED
  BY <1>1, <1>3, <1>7, <1>8, Zenon

\* The request for a page asks for what the run's request asks for, from an offset on.
LEMMA RequestIs ==
  ASSUME events \in Seq(Recordable), filter \in Requests, request.start_offset \in Nat \cup {None},
         request = [filter EXCEPT !.start_offset = request.start_offset]
  PROVE  /\ From \in Nat
         /\ Matching(request) = {n \in Matching(filter) : From <= n}
         /\ request.max_events \in (Nat \ {0}) \cup {Unlimited}
<1>1. /\ filter \in [start_offset : {None}, start_ts : Nat \cup {None},
                     end_ts : Nat \cup {None}, ticker : Tickers \cup {None},
                     max_events : (Nat \ {0}) \cup {Unlimited}]
      /\ None \notin Nat
  BY DriverAssumption, Zenon
<1>2. PICK o \in Nat \cup {None} : o = request.start_offset
  BY Zenon
<1>3. request = [filter EXCEPT !.start_offset = o]
  BY <1>2, Zenon
<1>4. filter.start_offset = None /\ filter.max_events \in (Nat \ {0}) \cup {Unlimited}
  BY <1>1, Zenon
<1>5. /\ request.start_ts = filter.start_ts /\ request.end_ts = filter.end_ts
      /\ request.ticker = filter.ticker /\ request.max_events = filter.max_events
  BY <1>1, <1>3, Zenon
<1>6. From \in Nat
  BY <1>1, <1>2, Zenon DEF From
<1>7. ASSUME NEW n \in Nat
      PROVE  Matches(n, request) <=> Matches(n, filter) /\ From <= n
  <2>1. (request.start_offset # None => n >= request.start_offset) <=> From <= n
    BY <1>1, <1>2 DEF From
  <2> QED
    BY <1>4, <1>5, <2>1, Zenon DEF Matches
<1>8. \A n \in 0..(Len(events) - 1) : n \in Nat
  OBVIOUS
<1>9. \A n : n \in Matching(request) <=> n \in Matching(filter) /\ From <= n
  BY <1>7, <1>8, Zenon DEF Matching
<1> QED
  BY <1>4, <1>5, <1>6, <1>9, Zenon

\* Record keeps it.
LEMMA RecordPages ==
  ASSUME PageTypes, PageInv, NEW e \in Recordable, Record(e)
  PROVE  PageTypes' /\ PageInv'
<1>1. /\ events' = IF closed THEN events ELSE Append(events, e)
      /\ UNCHANGED <<request, filter, phase, page, batch, handled, horizon>>
  BY Zenon DEF Record, StorageAppend, driverVars
<1>2. From' = From /\ Limit' = Limit
  BY <1>1, Zenon DEF From, Limit
<1>3. CASE events' = events
  <2>1. Matching(filter)' = Matching(filter)
    BY <1>1, <1>3, Zenon DEF Matching, Matches
  <2> QED
    BY <1>1, <1>2, <1>3, <2>1, Zenon DEF PageInv, PageTypes
<1>4. CASE events' = Append(events, e)
  <2>1. /\ events' \in Seq(Recordable) /\ Len(events') = Len(events) + 1 /\ Len(events) \in Nat
        /\ Matching(filter) \subseteq Matching(filter)'
        /\ \A n \in Matching(filter)' : n \in Matching(filter) \/ n = Len(events)
    BY <1>1, <1>4, Recorded, Zenon DEF PageTypes
  <2>2. handled \in Nat /\ horizon \in Nat /\ From \in Nat
    BY RequestIs, Zenon DEF PageTypes, PageInv
  <2>3. PICK more : more = Matching(filter)'
    BY Zenon
  <2>4. phase = "fetch" => Complete(From, handled, more, Len(events) + 1)
    BY <2>1, <2>2, <2>3, CompleteGrows, Zenon DEF PageInv
  <2>5. phase = "page" => OnPage(page, Limit, handled, more, Len(events) + 1)
    BY <2>1, <2>2, <2>3, PageGrows, Zenon DEF PageInv
  <2>6. phase \in {"stop", "done"} => Complete(horizon, handled, more, Len(events) + 1)
    BY <2>1, <2>2, <2>3, CompleteGrows, Zenon DEF PageInv
  <2> QED
    BY <1>1, <1>2, <2>1, <2>3, <2>4, <2>5, <2>6, Zenon DEF PageInv, PageTypes
<1> QED
  BY <1>1, <1>3, <1>4, Zenon

\* Fetch keeps it.
LEMMA FetchPages ==
  ASSUME PageTypes, PageInv, Fetch
  PROVE  PageTypes' /\ PageInv'
<1>1. /\ phase = "fetch" /\ phase' = "page" /\ horizon' = Len(events)
      /\ UNCHANGED <<events, request, filter, handled>>
  BY Zenon DEF Fetch, storageVars
<1>2. PICK p \in UNION {[1..n -> Matching(request)] : n \in 0..Len(events)} :
        /\ IsPage(p, request) /\ page' = p
        /\ batch' = [end_of_stream |-> Beyond(p, request) = {},
                     next_offset |-> IF Beyond(p, request) = {} THEN None ELSE NextOffset(p)]
  <2>1. PICK r \in Replay(request) :
          /\ page' = r.events
          /\ batch' = [end_of_stream |-> r.end_of_stream, next_offset |-> r.next_offset]
    BY Zenon DEF Fetch
  <2>2. PICK p \in UNION {[1..n -> Matching(request)] : n \in 0..Len(events)} :
          /\ IsPage(p, request)
          /\ r = [events |-> p, end_of_stream |-> Beyond(p, request) = {},
                  next_offset |-> IF Beyond(p, request) = {} THEN None ELSE NextOffset(p)]
    BY Zenon DEF Replay
  <2>3. /\ r.events = p /\ r.end_of_stream = (Beyond(p, request) = {})
        /\ r.next_offset = IF Beyond(p, request) = {} THEN None ELSE NextOffset(p)
    BY <2>2, Zenon
  <2> QED
    BY <2>1, <2>2, <2>3, Zenon
<1>3. /\ Len(events) \in Nat
      /\ \A n \in Matching(filter) : n \in Nat /\ n < Len(events)
  BY MatchingIs, Zenon DEF PageTypes
<1>4. /\ From \in Nat /\ Matching(request) = {n \in Matching(filter) : From <= n}
      /\ request.max_events \in (Nat \ {0}) \cup {Unlimited}
  BY RequestIs, Zenon DEF PageTypes, PageInv
<1> PICK m \in 0..Len(events) : p \in [1..m -> Matching(request)]
  BY <1>2, Zenon
<1>5. m \in Nat /\ DOMAIN p = 1..m /\ p \in [1..m -> Matching(request)]
  BY <1>2, <1>3
<1>6. p \in [1..m -> Nat]
  BY <1>3, <1>4, <1>5
<1>7. p \in Seq(Nat) /\ Len(p) = m
  BY <1>5, <1>6, IsSequence
<1>8. PICK beyond : beyond = Matching(request) \ {p[k] : k \in 1..m}
  BY Zenon
<1>9. /\ Beyond(p, request) = beyond
      /\ \A k, l \in 1..m : k < l => p[k] < p[l]
      /\ \A k \in 1..m : \A n \in beyond : p[k] < n
      /\ beyond # {} => m = request.max_events
  <2>1. Beyond(p, request) = beyond
    BY <1>5, <1>8, Zenon DEF Beyond
  <2> QED
    BY <1>2, <1>5, <1>7, <2>1, Zenon DEF IsPage
<1>10. beyond # {} => m # 0
  <2>1. Unlimited \notin Nat
    BY DriverAssumption, Zenon
  <2> QED
    BY <1>4, <1>5, <1>9, <2>1, Zenon
<1>11. PICK limit : limit = IF beyond = {} THEN Len(events) ELSE p[m] + 1
  BY Zenon
<1>12. Limit' = limit
  <2>1. batch' = [end_of_stream |-> beyond = {}, next_offset |-> IF beyond = {} THEN None ELSE p[m] + 1]
    BY <1>2, <1>7, <1>9, Zenon DEF NextOffset
  <2>2. CASE beyond = {}
    <3>1. batch'.end_of_stream
      BY <2>1, <2>2, Zenon
    <3> QED
      BY <1>1, <1>11, <2>2, <3>1, Zenon DEF Limit
  <2>3. CASE beyond # {}
    <3>1. ~batch'.end_of_stream /\ batch'.next_offset = p[m] + 1
      BY <2>1, <2>3, Zenon
    <3> QED
      BY <1>11, <2>3, <3>1, Zenon DEF Limit
  <2> QED
    BY <2>2, <2>3, Zenon
<1>13. Complete(From, handled, Matching(filter), Len(events)) /\ handled \in Nat
  BY <1>1, Zenon DEF PageInv, PageTypes
<1>14. OnPage(p, limit, handled, Matching(filter), Len(events))
  <2>1. \/ beyond = {} /\ limit = Len(events)
        \/ beyond # {} /\ m # 0 /\ limit = p[m] + 1
    BY <1>10, <1>11, Zenon
  <2>2. Fetched(p, m, Matching(request), beyond, limit, Len(events))
    BY <1>5, <1>8, <1>9, <2>1, Zenon DEF Fetched
  <2> QED
    BY <1>3, <1>4, <1>5, <1>13, <2>2, PageFetched, Zenon
<1>15. Matching(filter)' = Matching(filter)
  BY <1>1, Zenon DEF Matching, Matches
<1>16. PageTypes'
  BY <1>1, <1>2, <1>3, <1>7, Zenon DEF PageTypes
<1> QED
  BY <1>1, <1>2, <1>12, <1>14, <1>15, <1>16, Zenon DEF PageInv

\* TakeEvent keeps it, and takes an event that matches.
LEMMA TakePages ==
  ASSUME PageTypes, PageInv, TakeEvent
  PROVE  /\ PageTypes' /\ PageInv'
         /\ Head(page) \in Matching(filter) /\ handled <= Head(page)
         /\ \A n \in Matching(filter) : n < Head(page) + 1 => n < handled \/ n = Head(page)
<1>1. /\ phase = "page" /\ page # <<>> /\ page' = Tail(page) /\ handled' = Head(page) + 1
      /\ UNCHANGED <<events, request, filter, phase, batch, horizon>>
  BY Zenon DEF TakeEvent, Idle, storageVars
<1>2. /\ Len(events) \in Nat /\ handled \in Nat /\ page \in Seq(Nat)
      /\ \A n \in Matching(filter) : n \in Nat
  BY MatchingIs, Zenon DEF PageTypes
<1>3. OnPage(page, Limit, handled, Matching(filter), Len(events))
  BY <1>1, Zenon DEF PageInv
<1>4. /\ Head(page) \in Matching(filter) /\ Head(page) \in Nat /\ handled <= Head(page)
      /\ Tail(page) \in Seq(Nat)
      /\ OnPage(Tail(page), Limit, Head(page) + 1, Matching(filter), Len(events))
      /\ \A n \in Matching(filter) : n < Head(page) + 1 => n < handled \/ n = Head(page)
  BY <1>1, <1>2, <1>3, PageTaken, Zenon
<1>5. Matching(filter)' = Matching(filter) /\ Limit' = Limit
  BY <1>1, Zenon DEF Matching, Matches, Limit
<1>6. Head(page) + 1 \in Nat
  BY <1>4
<1>7. PageTypes'
  BY <1>1, <1>4, <1>6, Zenon DEF PageTypes
<1>8. PageInv'
  BY <1>1, <1>4, <1>5, Zenon DEF PageInv
<1> QED
  BY <1>4, <1>7, <1>8, Zenon

\* EndPage keeps it.
LEMMA EndPages ==
  ASSUME PageTypes, PageInv, EndPage
  PROVE  PageTypes' /\ PageInv'
<1>1. /\ phase = "page" /\ page = <<>>
      /\ UNCHANGED <<events, filter, page, batch, handled, horizon>>
  BY Zenon DEF EndPage, Idle, storageVars
<1>2. /\ Len(events) \in Nat /\ handled \in Nat
      /\ \A n \in Matching(filter) : n \in Nat
  BY MatchingIs, Zenon DEF PageTypes
<1>3. OnPage(<<>>, Limit, handled, Matching(filter), Len(events))
  BY <1>1, Zenon DEF PageInv
<1>4. Complete(Limit, handled, Matching(filter), Len(events)) /\ Limit \in Nat
  BY <1>2, <1>3, PageEnds, Zenon DEF OnPage
<1>5. Matching(filter)' = Matching(filter) /\ PageTypes'
  BY <1>1, Zenon DEF Matching, Matches, PageTypes
<1>6. CASE batch.end_of_stream
  <2>1. phase' = "stop" /\ request' = request
    BY <1>6, Zenon DEF EndPage
  <2>2. Limit = horizon
    BY <1>6, Zenon DEF Limit
  <2> QED
    BY <1>1, <1>4, <1>5, <2>1, <2>2, Zenon DEF PageInv
<1>7. CASE ~batch.end_of_stream
  <2>1. phase' = "fetch" /\ request' = [request EXCEPT !.start_offset = batch.next_offset]
    BY <1>7, Zenon DEF EndPage
  <2>2. Limit = batch.next_offset
    BY <1>7, Zenon DEF Limit
  <2>3. PICK n \in Nat : n = batch.next_offset
    BY <1>4, <2>2, Zenon
  <2>4. /\ request.start_offset \in Nat \cup {None}
        /\ request = [filter EXCEPT !.start_offset = request.start_offset]
        /\ filter \in [start_offset : {None}, start_ts : Nat \cup {None},
                       end_ts : Nat \cup {None}, ticker : Tickers \cup {None},
                       max_events : (Nat \ {0}) \cup {Unlimited}]
        /\ None \notin Nat
    BY DriverAssumption, Zenon DEF PageInv, PageTypes
  <2>5. request' = [filter EXCEPT !.start_offset = n]
    BY <2>1, <2>3, <2>4
  <2>6. request'.start_offset = n
    BY <2>4, <2>5, Zenon
  <2>7. request' = [filter' EXCEPT !.start_offset = request'.start_offset]
    BY <1>1, <2>5, <2>6, Zenon
  <2>8. n # None
    BY <2>4, Zenon
  <2>9. From' = n
    BY <2>6, <2>8, Zenon DEF From
  <2> QED
    BY <1>1, <1>4, <1>5, <2>1, <2>2, <2>3, <2>6, <2>7, <2>9, Zenon DEF PageInv
<1> QED
  BY <1>6, <1>7, Zenon

\* So does a step that leaves the pages alone.
LEMMA PageFrame ==
  ASSUME PageTypes, PageInv,
         UNCHANGED <<events, request, filter, phase, page, batch, handled, horizon>>
  PROVE  PageTypes' /\ PageInv'
<1>1. Matching(filter)' = Matching(filter) /\ From' = From /\ Limit' = Limit
  BY Zenon DEF Matching, Matches, From, Limit
<1> QED
  BY <1>1, Zenon DEF PageTypes, PageInv

\* StopNext keeps it.
LEMMA StopPages ==
  ASSUME PageTypes, PageInv, StopNext
  PROVE  PageTypes' /\ PageInv'
<1>1. /\ phase = "stop" /\ phase' \in {"stop", "done"}
      /\ UNCHANGED <<events, request, filter, page, batch, handled, horizon>>
  BY Zenon DEF StopNext, storageVars, StorageClose
<1>2. Matching(filter)' = Matching(filter)
  BY <1>1, Zenon DEF Matching, Matches
<1> QED
  BY <1>1, <1>2, Zenon DEF PageTypes, PageInv

\* A run starts at the first event.
LEMMA PagesStart == Init => PageTypes /\ PageInv
<1> SUFFICES ASSUME Init PROVE PageTypes /\ PageInv
  BY Zenon
<1>1. /\ events = <<>> /\ filter = request /\ phase = "fetch"
      /\ page = <<>> /\ handled = 0 /\ horizon = 0
  BY Zenon DEF Init, StorageInit
<1>2. request \in Requests
  BY Zenon DEF Init, Requests
<1>3. /\ filter \in [start_offset : {None}, start_ts : Nat \cup {None},
                     end_ts : Nat \cup {None}, ticker : Tickers \cup {None},
                     max_events : (Nat \ {0}) \cup {Unlimited}]
  BY <1>1, <1>2, DriverAssumption, Zenon
<1>4. request.start_offset = None /\ request = [filter EXCEPT !.start_offset = request.start_offset]
  BY <1>1, <1>3, Zenon
<1>5. Matching(filter) = {} /\ Len(events) = 0
  BY <1>1 DEF Matching
<1>6. From = 0
  BY <1>4, Zenon DEF From
<1>7. PageTypes
  BY <1>1, <1>2 DEF PageTypes
<1>8. Complete(0, 0, {}, 0)
  BY DEF Complete
<1> QED
  BY <1>1, <1>4, <1>5, <1>6, <1>7, <1>8, Zenon DEF PageInv

\* Every step keeps what the pages rely on.
LEMMA PagesStep ==
  ASSUME PageTypes, PageInv, [Next]_vars
  PROVE  PageTypes' /\ PageInv'
<1> DEFINE Still == UNCHANGED <<events, request, filter, phase, page, batch, handled, horizon>>
<1>1. CASE \E e \in Recordable : Record(e)
  BY <1>1, RecordPages, Zenon
<1>2. CASE Fetch
  BY <1>2, FetchPages, Zenon
<1>3. CASE TakeEvent
  BY <1>3, TakePages, Zenon
<1>4. CASE EndPage
  BY <1>4, EndPages, Zenon
<1>5. CASE StopNext
  BY <1>5, StopPages, Zenon
<1>6. CASE Still
  BY <1>6, PageFrame, Zenon
<1>7. SinkSees => Still
  BY Zenon DEF SinkSees, storageVars
<1>8. StrategySees => Still
  BY Zenon DEF StrategySees, storageVars
<1>9. \A t \in Orders : StrategySubmits(t) => Still
  BY Zenon DEF StrategySubmits, storageVars
<1>10. StrategyCancels => Still
  BY Zenon DEF StrategyCancels, storageVars, driverVars
<1>11. SinkDelivers => Still
  BY Zenon DEF SinkDelivers, storageVars, driverVars
<1>12. UNCHANGED vars => Still
  BY Zenon DEF vars, storageVars, driverVars
<1> HIDE DEF Still
<1> QED
  BY <1>1, <1>2, <1>3, <1>4, <1>5, <1>6, <1>7, <1>8, <1>9, <1>10, <1>11, <1>12, Zenon DEF Next

-----------------------------------------------------------------------------
(* Steps of the drivers *)

\* Who is first to see an event, and who is left.
LEMMA FirstStep ==
  ASSUME StepTypes, steps # <<>>
  PROVE  /\ Head(steps) = "sink" => steps = <<"sink", "strategies">> /\ Tail(steps) = <<"strategies">>
         /\ Head(steps) = "strategies" => steps = <<"strategies">> /\ Tail(steps) = <<>>
<1>1. CASE steps = <<"sink", "strategies">>
  BY <1>1
<1>2. CASE steps = <<"strategies">>
  BY <1>2
<1> QED
  BY <1>1, <1>2, Zenon DEF StepTypes

\* One more call of a strategy.
LEMMA OneCallMore ==
  ASSUME calls \in Seq(Calls), NEW i \in DOMAIN Strategies, NEW at \in Nat
  PROVE  /\ CallOf(i, at) \in Calls
         /\ Append(calls, CallOf(i, at)) \in Seq(Calls)
  BY Appended DEF Calls, CallOf

\* TakeEvent keeps the types.
LEMMA TakeTypes ==
  ASSUME PageTypes, StepTypes, TakeEvent
  PROVE  StepTypes'
<1>1. /\ page # <<>> /\ offset' = Head(page) /\ UNCHANGED <<driver, phase, submitted_at>>
  BY Zenon DEF TakeEvent
<1>2. page \in Seq(Nat) /\ calls \in Seq(Calls) /\ todo \in SUBSET DOMAIN Strategies
  BY Zenon DEF PageTypes, StepTypes
<1>3. Head(page) \in Nat
  BY <1>1, <1>2
<1>4. /\ steps' \in {steps, MarketSteps}
      /\ MarketSteps \in {<<"sink", "strategies">>, <<"strategies">>}
  BY Zenon DEF TakeEvent, MarketSteps
<1>5. todo' \in SUBSET DOMAIN Strategies
  BY <1>2, Zenon DEF TakeEvent
<1>6. CASE calls' = calls
  BY <1>1, <1>2, <1>3, <1>4, <1>5, <1>6, Zenon DEF StepTypes
<1>7. CASE calls' # calls
  <2>1. PICK s : Known(s) /\ calls' = Append(calls, [strategy |-> s, offset |-> Head(page)])
    BY <1>7, Zenon DEF TakeEvent
  <2>2. PICK i \in DOMAIN Strategies : Strategies[i].id = s
    BY <2>1, Zenon DEF Known
  <2>3. calls' = Append(calls, CallOf(i, Head(page)))
    BY <2>1, <2>2, Zenon DEF CallOf
  <2>4. calls' \in Seq(Calls)
    BY <1>2, <1>3, <2>3, OneCallMore, Zenon
  <2> QED
    BY <1>1, <1>3, <1>4, <1>5, <2>4, Zenon DEF StepTypes
<1> QED
  BY <1>6, <1>7, Zenon

\* StrategySees keeps the types.
LEMMA SeesTypes ==
  ASSUME StepTypes, StrategySees
  PROVE  StepTypes'
<1>1. /\ steps # <<>> /\ Head(steps) = "strategies"
      /\ UNCHANGED <<driver, phase, offset, submitted_at>>
  BY Zenon DEF StrategySees
<1>2. Tail(steps) = <<>>
  BY <1>1, FirstStep, Zenon
<1>3. CASE steps' = Tail(steps) /\ UNCHANGED <<todo, calls>>
  BY <1>1, <1>2, <1>3, Zenon DEF StepTypes
<1>4. CASE steps' # Tail(steps) \/ ~UNCHANGED <<todo, calls>>
  <2>1. PICK i \in DOMAIN Strategies :
          /\ todo' = todo \ {i} /\ UNCHANGED steps
          /\ calls' = Append(calls, CallOf(i, offset))
    BY <1>4, Zenon DEF StrategySees, CallOf
  <2>2. calls' \in Seq(Calls)
    BY <2>1, OneCallMore, Zenon DEF StepTypes
  <2> QED
    BY <1>1, <2>1, <2>2, Zenon DEF StepTypes
<1> QED
  BY <1>3, <1>4, Zenon

\* Every step keeps the types.
LEMMA TypesStep ==
  ASSUME PageTypes, StepTypes, [Next]_vars
  PROVE  StepTypes'
<1> DEFINE Still == UNCHANGED <<driver, phase, steps, offset, todo, calls, submitted_at>>
<1>1. CASE Still
  BY <1>1, Zenon DEF StepTypes
<1>2. \A e \in Recordable : Record(e) => Still
  BY Zenon DEF Record, driverVars
<1>3. CASE Fetch
  BY <1>3, Zenon DEF Fetch, StepTypes
<1>4. CASE SinkSees
  <2>1. steps' = <<"strategies">> /\ UNCHANGED <<driver, phase, offset, todo, calls, submitted_at>>
    BY <1>4, FirstStep, Zenon DEF SinkSees
  <2> QED
    BY <2>1, Zenon DEF StepTypes
<1>5. CASE EndPage
  <2>1. todo' \in SUBSET DOMAIN Strategies
    BY <1>5, Zenon DEF EndPage, StepTypes
  <2> QED
    BY <1>5, <2>1, Zenon DEF EndPage, StepTypes
<1>6. CASE StopNext
  <2>1. todo' \in SUBSET DOMAIN Strategies
    BY <1>6, Zenon DEF StopNext, StepTypes
  <2> QED
    BY <1>6, <2>1, Zenon DEF StopNext, StepTypes
<1>7. CASE \E t \in Orders : StrategySubmits(t)
  <2>1. /\ submitted_at' = Append(submitted_at, handled)
        /\ UNCHANGED <<driver, phase, steps, offset, todo, calls>>
    BY <1>7, Zenon DEF StrategySubmits
  <2>2. submitted_at' \in Seq(Nat)
    BY <2>1, Appended, Zenon DEF PageTypes, StepTypes
  <2> QED
    BY <2>1, <2>2, Zenon DEF StepTypes
<1>8. StrategyCancels => Still
  BY Zenon DEF StrategyCancels, driverVars
<1>9. SinkDelivers => Still
  BY Zenon DEF SinkDelivers, driverVars
<1>10. UNCHANGED vars => Still
  BY Zenon DEF vars, driverVars
<1> HIDE DEF Still
<1> QED
  BY <1>1, <1>2, <1>3, <1>4, <1>5, <1>6, <1>7, <1>8, <1>9, <1>10, TakeTypes, SeesTypes, Zenon DEF Next

-----------------------------------------------------------------------------
(* The event at hand *)

\* Record keeps the event at hand.
LEMMA RecordAtHand ==
  ASSUME PageTypes, AtHand, NEW e \in Recordable, Record(e)
  PROVE  AtHand'
<1>1. /\ events' = IF closed THEN events ELSE Append(events, e)
      /\ UNCHANGED <<filter, phase, steps, offset, handled>>
  BY Zenon DEF Record, StorageAppend, driverVars
<1>2. SUFFICES ASSUME steps # <<>> PROVE AtHand'
  BY <1>1, Zenon DEF AtHand
<1>3. phase = "page" /\ handled = offset + 1 /\ offset \in Matching(filter) /\ IsMarket(Event)
  BY <1>2, Zenon DEF AtHand
<1>4. CASE events' = events
  <2>1. Matching(filter)' = Matching(filter) /\ Event' = Event
    BY <1>1, <1>4, Zenon DEF Matching, Matches, Event
  <2> QED
    BY <1>1, <1>3, <2>1, Zenon DEF AtHand, IsMarket
<1>5. CASE events' = Append(events, e)
  <2>1. offset \in Nat /\ offset < Len(events)
    BY <1>3, MatchingIs, Zenon DEF PageTypes
  <2>2. events'[offset + 1] = events[offset + 1] /\ Matching(filter) \subseteq Matching(filter)'
    BY <1>1, <1>5, <2>1, Recorded, Zenon DEF PageTypes
  <2>3. Event' = Event
    BY <1>1, <2>2, Zenon DEF Event
  <2> QED
    BY <1>1, <1>3, <2>2, <2>3, Zenon DEF AtHand, IsMarket
<1> QED
  BY <1>1, <1>4, <1>5, Zenon

\* Every step keeps the event at hand until all have seen it.
LEMMA AtHandStep ==
  ASSUME PageTypes, PageInv, AtHand, [Next]_vars
  PROVE  AtHand'
<1> DEFINE Still == UNCHANGED <<events, filter, phase, offset, handled>> /\ (steps = <<>> => steps' = <<>>)
<1>1. CASE Still
  <2>1. Matching(filter)' = Matching(filter) /\ Event' = Event
    BY <1>1, Zenon DEF Matching, Matches, Event
  <2> QED
    BY <1>1, <2>1, Zenon DEF AtHand, IsMarket
<1>2. CASE TakeEvent
  <2>1. Head(page) \in Matching(filter)
    BY <1>2, TakePages, Zenon
  <2>2. /\ phase = "page" /\ steps = <<>> /\ offset' = Head(page) /\ handled' = Head(page) + 1
        /\ UNCHANGED <<events, filter, phase>>
    BY <1>2, Zenon DEF TakeEvent, Idle, storageVars
  <2>3. Matching(filter)' = Matching(filter)
    BY <2>2, Zenon DEF Matching, Matches
  <2>4. Event' = events[Head(page) + 1]
    BY <2>2, Zenon DEF Event
  <2>5. steps' # <<>> => IsMarket(events[Head(page) + 1])
    BY <1>2, <2>2, Zenon DEF TakeEvent
  <2> QED
    BY <2>1, <2>2, <2>3, <2>4, <2>5, Zenon DEF AtHand, IsMarket
<1>3. Fetch \/ EndPage \/ StopNext => AtHand'
  <2>1. Fetch \/ EndPage \/ StopNext => steps = <<>> /\ steps' = <<>>
    BY Zenon DEF Fetch, EndPage, StopNext, Idle, AtHand
  <2> QED
    BY <2>1, Zenon DEF AtHand
<1>4. SinkSees => Still
  BY Zenon DEF SinkSees, storageVars
<1>5. StrategySees => Still
  BY Zenon DEF StrategySees, storageVars
<1>6. \A t \in Orders : StrategySubmits(t) => Still
  BY Zenon DEF StrategySubmits, storageVars
<1>7. StrategyCancels => Still
  BY Zenon DEF StrategyCancels, storageVars, driverVars
<1>8. SinkDelivers => Still
  BY Zenon DEF SinkDelivers, storageVars, driverVars
<1>9. UNCHANGED vars => Still
  BY Zenon DEF vars, storageVars, driverVars
<1> HIDE DEF Still
<1> QED
  BY <1>1, <1>2, <1>3, <1>4, <1>5, <1>6, <1>7, <1>8, <1>9, RecordAtHand, Zenon DEF Next

\* The drivers' inductive invariant, up to what is recorded of strategies.
DriverInv == PageTypes /\ StepTypes /\ PageInv /\ AtHand

\* A run of a driver starts with it.
LEMMA DriverStarts == Init => DriverInv
<1> SUFFICES ASSUME Init PROVE DriverInv
  BY Zenon
<1>1. /\ phase = "fetch" /\ steps = <<>> /\ offset = 0 /\ todo = {}
      /\ calls = <<>> /\ submitted_at = <<>>
  BY Zenon DEF Init
<1>2. driver \in {"backtest", "replay"}
  BY DriverAssumption, Zenon DEF Init
<1>3. <<>> \in Seq(Calls) /\ <<>> \in Seq(Nat) /\ 0 \in Nat
  OBVIOUS
<1>4. StepTypes
  BY <1>1, <1>2, <1>3, Zenon DEF StepTypes
<1>5. AtHand
  BY <1>1, Zenon DEF AtHand
<1> QED
  BY <1>4, <1>5, PagesStart, Zenon DEF DriverInv

\* Every step keeps it.
LEMMA DriverStep ==
  ASSUME DriverInv, [Next]_vars
  PROVE  DriverInv'
<1>1. PageTypes /\ StepTypes /\ PageInv /\ AtHand
  BY Zenon DEF DriverInv
<1>2. PageTypes' /\ PageInv'
  BY <1>1, PagesStep, Zenon
<1>3. StepTypes'
  BY <1>1, TypesStep, Zenon
<1>4. AtHand'
  BY <1>1, AtHandStep, Zenon
<1> QED
  BY <1>2, <1>3, <1>4, Zenon DEF DriverInv

-----------------------------------------------------------------------------
(* The sink and the drivers *)

\* The sink sees a recorded quote or trade.
LEMMA SeenBySink ==
  ASSUME DriverInv, SinkInv, SinkSees
  PROVE  SinkInv' /\ (FillInv => FillInv') /\ Walks
<1>1. steps # <<>> /\ events \in Seq(Recordable)
  BY Zenon DEF SinkSees, DriverInv, PageTypes
<1>2. offset \in Matching(filter) /\ IsMarket(Event)
  BY <1>1, Zenon DEF DriverInv, AtHand
<1>3. offset + 1 \in DOMAIN events
  BY <1>1, <1>2, MatchingIs, Zenon
<1>4. Event \in Recordable
  BY <1>1, <1>3, Elements, Zenon DEF Event
<1>5. /\ Event.type = "QuoteUpdate" => Event.ticker \in Tickers /\ Event.bid \in Nat /\ Event.ask \in Nat
      /\ Event.type = "MarketTrade" => Event.price \in Nat
  BY <1>4, DriverAssumption, Zenon
<1>6. CASE Event.type = "QuoteUpdate"
  <2>1. PICK q : q = [bid |-> Event.bid, ask |-> Event.ask]
    BY Zenon
  <2>2. q \in Quotes
    BY <1>5, <1>6, <2>1, Zenon DEF Quotes
  <2>3. OnQuote(Event.ticker, q)
    BY <1>6, <2>1, Zenon DEF SinkSees
  <2> QED
    BY <1>5, <1>6, <2>2, <2>3, OnQuoteKeeps, Zenon
<1>7. CASE Event.type # "QuoteUpdate"
  <2>1. OnTrade(Event.ticker, Event.price) /\ Event.type = "MarketTrade"
    BY <1>2, <1>7, Zenon DEF SinkSees, IsMarket
  <2> QED
    BY <1>5, <2>1, OnTradeKeeps, Zenon
<1> QED
  BY <1>6, <1>7, Zenon

\* What a step may do to the books.
BooksStep ==
  \/ UNCHANGED <<published, deliveries, gross_notional, fees>>
  \/ Walks \/ Deliver \/ \E t \in Orders : Submit(t)

\* Every step keeps the sink's invariant, and but for a submission what it says of
\* the orders that rest.
LEMMA SinkStep ==
  ASSUME DriverInv, SinkInv, [Next]_vars
  PROVE  /\ SinkInv'
         /\ FillInv => FillInv' \/ \E t \in Orders : Submit(t)
         /\ BooksStep
<1> DEFINE Still == UNCHANGED <<quotes, resting_orders, next_exchange_order_id, deliveries, submitted,
                                published, execution_log, storage_append_failures, gross_notional, fees>>
<1>1. Still => SinkInv' /\ (FillInv => FillInv') /\ BooksStep
  BY SinkFrame, FillFrame, Zenon DEF BooksStep
<1>2. \A e \in Recordable : Record(e) => Still
  BY Zenon DEF Record, sinkVars, recordVars
<1>3. Fetch => Still
  BY Zenon DEF Fetch, sinkVars, recordVars
<1>4. TakeEvent => Still
  BY Zenon DEF TakeEvent, sinkVars, recordVars
<1>5. StrategySees => Still
  BY Zenon DEF StrategySees, recordVars
<1>6. EndPage => Still
  BY Zenon DEF EndPage, sinkVars, recordVars
<1>7. StopNext => Still \/ \E instrument : CancelAll(instrument)
  BY Zenon DEF StopNext, sinkVars, recordVars
<1>8. UNCHANGED vars => Still
  BY Zenon DEF vars, sinkVars, recordVars
<1>9. StrategyCancels => \E instrument : \/ CancelAll(instrument)
                                         \/ \E client_oid, order_id : CancelOrder(instrument, client_oid, order_id)
  BY Zenon DEF StrategyCancels
<1>10. ASSUME NEW instrument, \/ CancelAll(instrument)
                              \/ \E client_oid, order_id : CancelOrder(instrument, client_oid, order_id)
       PROVE  SinkInv' /\ (FillInv => FillInv') /\ Walks
  BY <1>10, CancelsKeep, Zenon
<1>11. CASE \E t \in Orders : StrategySubmits(t)
  <2>1. PICK t \in Orders : Submit(t)
    BY <1>11, Zenon DEF StrategySubmits
  <2> QED
    BY <2>1, SubmitKeeps, Zenon DEF BooksStep
<1>12. CASE SinkDelivers
  <2>1. Deliver
    BY <1>12, Zenon DEF SinkDelivers
  <2>2. UNCHANGED <<quotes, resting_orders>>
    BY <2>1, Zenon DEF Deliver
  <2> QED
    BY <2>1, <2>2, DeliverKeeps, FillFrame, Zenon DEF BooksStep
<1>13. SinkSees => SinkInv' /\ (FillInv => FillInv') /\ Walks
  BY SeenBySink, Zenon
<1>14. Walks => BooksStep
  BY Zenon DEF BooksStep
<1> HIDE DEF Still
<1> QED
  BY <1>1, <1>2, <1>3, <1>4, <1>5, <1>6, <1>7, <1>8, <1>9, <1>10, <1>11, <1>12, <1>13, <1>14, Zenon DEF Next

\* Every step keeps what it says of orders that rest, where a market order is
\* rejected as long as there is no quote.
LEMMA FillStep ==
  ASSUME DriverInv, SinkInv, FillInv, RejectWithoutMarket, [Next]_vars
  PROVE  FillInv'
  BY SinkStep, SubmitFills, Zenon

\* A strategy's code runs for an event or a response, or when it is stopped.
LEMMA ItsTurn ==
  ASSUME StepTypes, Reaction, calling \/ deliveries # <<>>
  PROVE  steps = <<"strategies">> \/ (steps = <<>> /\ phase \in {"stop", "done"})
  BY Zenon DEF StepTypes, Reaction

\* Submissions are counted as they are made.
LEMMA SubmitReaction ==
  ASSUME DriverInv, SinkInv, Reaction, NEW t \in Orders, StrategySubmits(t)
  PROVE  Reaction'
<1>1. /\ submitted' = submitted + 1 /\ submitted_at' = Append(submitted_at, handled)
      /\ calling /\ UNCHANGED <<phase, steps, offset, handled, fills, calling, deliveries>>
  BY Zenon DEF StrategySubmits, Submit
<1>2. /\ submitted_at \in Seq(Nat) /\ handled \in Nat /\ StepTypes
  BY Zenon DEF DriverInv, PageTypes, StepTypes
<1>3. steps = <<"strategies">> \/ (steps = <<>> /\ phase \in {"stop", "done"})
  BY <1>1, <1>2, ItsTurn, Zenon
<1>4. PICK n \in Nat : n = Len(submitted_at) /\ n = submitted
  BY <1>2 DEF Reaction
<1>5. /\ Len(submitted_at') = n + 1 /\ submitted_at'[n + 1] = handled
      /\ \A i \in 1..n : submitted_at'[i] = submitted_at[i]
      /\ submitted_at' \in Seq(Nat)
  <2>1. PICK s : s = Append(submitted_at, handled)
    BY Zenon
  <2>2. /\ s \in Seq(Nat) /\ Len(s) = Len(submitted_at) + 1 /\ s[Len(submitted_at) + 1] = handled
        /\ \A i \in 1..Len(submitted_at) : s[i] = submitted_at[i]
    BY <1>2, <2>1, Appended
  <2> QED
    BY <1>1, <1>4, <2>1, <2>2, Zenon
<1>6. DOMAIN submitted_at = 1..n /\ DOMAIN submitted_at' = 1..(n + 1)
  BY <1>2, <1>4, <1>5, Elements, Zenon
<1>7. handled <= handled /\ \A i \in 1..(n + 1) : i \in 1..n \/ i = n + 1
  BY <1>2, <1>4
<1>8. \A i \in DOMAIN submitted_at' : submitted_at'[i] <= handled'
  BY <1>1, <1>5, <1>6, <1>7, Zenon DEF Reaction
<1>9. \A x \in 0..(n - 1) : x \in 0..((n + 1) - 1) /\ x + 1 \in 1..n
  BY <1>4
<1>10. \A f \in fills' : f.id \in 0..(submitted' - 1) /\ submitted_at'[f.id + 1] <= f.offset
  BY <1>1, <1>4, <1>5, <1>9, Zenon DEF Reaction
<1>11. Len(submitted_at') = submitted'
  BY <1>1, <1>4, <1>5, Zenon
<1>12. <<"strategies">> # <<>> /\ <<"strategies">> # <<"sink", "strategies">>
  BY Zenon
<1>13. <<>> # <<"sink", "strategies">>
  BY Zenon
<1> QED
  BY <1>1, <1>3, <1>8, <1>10, <1>11, <1>12, <1>13, Zenon DEF Reaction

\* The loop takes an event after whatever was submitted so far.
LEMMA TakeReaction ==
  ASSUME DriverInv, Reaction, TakeEvent
  PROVE  Reaction'
<1>1. /\ phase = "page" /\ steps = <<>> /\ offset' = Head(page) /\ handled' = Head(page) + 1
      /\ UNCHANGED <<submitted, submitted_at, calling, deliveries, fills>>
  BY Zenon DEF TakeEvent, Idle, sinkVars
<1>2. /\ handled <= Head(page) /\ handled \in Nat /\ submitted_at \in Seq(Nat)
      /\ Head(page) \in Matching(filter) /\ events \in Seq(Recordable)
  BY TakePages, Zenon DEF DriverInv, PageTypes, StepTypes
<1>3. Head(page) \in Nat
  BY <1>2, MatchingIs, Zenon
<1>4. \A i \in DOMAIN submitted_at : submitted_at[i] \in Nat /\ submitted_at[i] <= handled
  BY <1>2, Elements, Zenon DEF Reaction
<1>5. \A i \in DOMAIN submitted_at : submitted_at[i] <= Head(page) /\ submitted_at[i] <= Head(page) + 1
  BY <1>2, <1>3, <1>4
<1>6. ~calling /\ deliveries = <<>>
  BY <1>1, Zenon DEF Reaction
<1> QED
  BY <1>1, <1>5, <1>6, Zenon DEF Reaction

\* What the sink fills had been submitted before the event at hand.
LEMMA FillReaction ==
  ASSUME DriverInv, SinkInv', Reaction, SinkSees
  PROVE  Reaction'
<1>1. /\ steps # <<>> /\ Head(steps) = "sink" /\ steps' = Tail(steps)
      /\ fills' = fills \cup {[id |-> r.id, offset |-> offset] : r \in RangeOf(deliveries')}
      /\ UNCHANGED <<phase, offset, handled, submitted_at>>
  BY Zenon DEF SinkSees
<1>2. StepTypes /\ handled \in Nat /\ submitted_at \in Seq(Nat)
  BY Zenon DEF DriverInv, StepTypes, PageTypes
<1>3. steps = <<"sink", "strategies">> /\ steps' = <<"strategies">>
  BY <1>1, <1>2, FirstStep, Zenon
<1>4. \A i \in DOMAIN submitted_at : submitted_at[i] <= offset
  BY <1>3, Zenon DEF Reaction
<1>5. submitted' = submitted
  BY Zenon DEF SinkSees, OnQuote, OnTrade
<1>6. IdsIn(deliveries') \subseteq 0..(submitted - 1)
  <2>1. Outcome(resting_orders', deliveries', published', submitted')
    BY Zenon DEF SinkInv
  <2> QED
    BY <1>5, <2>1, Zenon DEF Outcome
<1>7. PICK n \in Nat : n = submitted /\ Len(submitted_at) = n
  BY <1>2, Elements, Zenon DEF Reaction
<1>8. \A x \in 0..(n - 1) : x + 1 \in 1..n
  BY <1>7
<1>9. DOMAIN submitted_at = 1..n
  BY <1>2, <1>7, Elements, Zenon
<1>10. ASSUME NEW f \in fills'
       PROVE  f.id \in 0..(n - 1) /\ submitted_at[f.id + 1] <= f.offset
  <2>1. CASE f \in fills
    BY <1>7, <2>1, Zenon DEF Reaction
  <2>2. CASE f \notin fills
    <3>1. PICK i \in DOMAIN deliveries' : f = [id |-> deliveries'[i].id, offset |-> offset]
      BY <1>1, <2>2, Zenon DEF RangeOf
    <3>2. f.id = deliveries'[i].id /\ f.offset = offset
      BY <3>1, Zenon
    <3>3. f.id \in 0..(n - 1)
      BY <1>6, <1>7, <3>2, Zenon DEF IdsIn
    <3> QED
      BY <1>4, <1>8, <1>9, <3>2, <3>3, Zenon
  <2> QED
    BY <2>1, <2>2, Zenon
<1>11. <<"strategies">> # <<>> /\ <<"strategies">> # <<"sink", "strategies">>
  BY Zenon
<1> QED
  BY <1>1, <1>3, <1>5, <1>7, <1>10, <1>11, Zenon DEF Reaction

\* Every step keeps the order of submissions and fills.
LEMMA ReactionStep ==
  ASSUME DriverInv, SinkInv, SinkInv', Reaction, [Next]_vars
  PROVE  Reaction'
<1> DEFINE Counts == UNCHANGED <<submitted, submitted_at, handled, offset, fills>>
           Still == Counts /\ UNCHANGED <<phase, steps, calling, deliveries>>
<1>1. CASE Still
  BY <1>1, Zenon DEF Reaction
<1>2. \A e \in Recordable : Record(e) => Still
  BY Zenon DEF Record, sinkVars, driverVars
<1>3. UNCHANGED vars => Still
  BY Zenon DEF vars, sinkVars, driverVars
<1>4. StepTypes /\ AtHand
  BY Zenon DEF DriverInv
<1>5. CASE Fetch
  <2>1. /\ phase = "fetch" /\ UNCHANGED <<steps, calling, deliveries>> /\ Counts
    BY <1>5, Zenon DEF Fetch, sinkVars
  <2>2. steps = <<>> /\ <<>> # <<"sink", "strategies">>
    BY <1>4, <2>1, Zenon DEF AtHand
  <2> QED
    BY <2>1, <2>2, Zenon DEF Reaction
<1>6. CASE EndPage
  <2>1. /\ phase = "page" /\ steps = <<>> /\ UNCHANGED <<steps, calling, deliveries>> /\ Counts
    BY <1>6, Zenon DEF EndPage, Idle, sinkVars
  <2> QED
    BY <2>1, Zenon DEF Reaction
<1>7. \A i, j : <<>> # <<i, j>> /\ \A k : <<k>> # <<>> /\ <<k>> # <<i, j>>
  BY Zenon
<1>8. ASSUME Counts, steps' = <<"strategies">> \/ (steps' = <<>> /\ phase' \in {"stop", "done"})
      PROVE  Reaction'
  <2>1. "stop" \notin {"fetch", "page"} /\ "done" \notin {"fetch", "page"}
    BY Zenon
  <2> QED
    BY <1>7, <1>8, <2>1, Zenon DEF Reaction
<1>9. CASE StopNext
  <2>1. /\ phase = "stop" /\ phase' \in {"stop", "done"} /\ steps' = steps
        /\ UNCHANGED <<submitted_at, handled, offset, fills>>
    BY <1>9, Zenon DEF StopNext
  <2>2. submitted' = submitted
    BY <1>9, Zenon DEF StopNext, CancelAll, Cancel, sinkVars
  <2>3. steps = <<>>
    BY <1>4, <2>1, Zenon DEF AtHand
  <2> QED
    BY <1>8, <2>1, <2>2, <2>3, Zenon
<1>10. CASE StrategySees
  <2>1. /\ steps # <<>> /\ Head(steps) = "strategies" /\ deliveries = <<>> /\ deliveries' = deliveries
        /\ Counts /\ phase' = phase
    BY <1>10, Zenon DEF StrategySees
  <2>2. steps = <<"strategies">> /\ Tail(steps) = <<>>
    BY <1>4, <2>1, FirstStep, Zenon
  <2>3. (steps' = <<>> /\ calling' = FALSE) \/ steps' = <<"strategies">>
    BY <1>10, <2>2, Zenon DEF StrategySees
  <2> QED
    BY <1>7, <2>1, <2>3, Zenon DEF Reaction
<1>11. CASE StrategyCancels \/ SinkDelivers
  <2>1. /\ calling \/ deliveries # <<>>
        /\ UNCHANGED <<phase, steps, submitted_at, handled, offset, fills>>
    <3>1. SinkDelivers => deliveries # <<>> /\ UNCHANGED driverVars
      BY Zenon DEF SinkDelivers, Deliver
    <3>2. StrategyCancels => calling /\ UNCHANGED driverVars
      BY Zenon DEF StrategyCancels
    <3> QED
      BY <1>11, <3>1, <3>2, Zenon DEF driverVars
  <2>2. submitted' = submitted
    <3>1. SinkDelivers => submitted' = submitted
      BY Zenon DEF SinkDelivers, Deliver
    <3>2. StrategyCancels => submitted' = submitted
      BY Zenon DEF StrategyCancels, CancelOrder, CancelAll, Cancel
    <3> QED
      BY <1>11, <3>1, <3>2, Zenon
  <2>3. steps = <<"strategies">> \/ (steps = <<>> /\ phase \in {"stop", "done"})
    BY <1>4, <2>1, ItsTurn, Zenon
  <2> QED
    BY <1>8, <2>1, <2>2, <2>3, Zenon
<1> HIDE DEF Still
<1> QED
  BY <1>1, <1>2, <1>3, <1>5, <1>6, <1>9, <1>10, <1>11, SubmitReaction, TakeReaction, FillReaction,
     Zenon DEF Next

BacktestInv == DriverInv /\ SinkInv /\ Reaction

\* BacktestInv is an invariant of the drivers with the sink.
LEMMA BacktestInvariance == Spec => []BacktestInv
<1>1. Init => BacktestInv
  <2> SUFFICES ASSUME Init PROVE BacktestInv
    BY Zenon
  <2>1. /\ submitted = 0 /\ calling = FALSE /\ deliveries = <<>> /\ submitted_at = <<>>
        /\ fills = {} /\ steps = <<>> /\ SinkInit
    BY Zenon DEF Init, SinkInit
  <2>2. Len(<<>>) = 0 /\ DOMAIN <<>> = {} /\ \A i, j : <<>> # <<i, j>>
    OBVIOUS
  <2>3. Reaction
    BY <2>1, <2>2, Zenon DEF Reaction
  <2> QED
    BY <2>1, <2>3, DriverStarts, SinkStarts, Zenon DEF BacktestInv
<1>2. BacktestInv /\ [Next]_vars => BacktestInv'
  <2> SUFFICES ASSUME BacktestInv, [Next]_vars PROVE BacktestInv'
    BY Zenon
  <2>1. DriverInv /\ SinkInv /\ Reaction
    BY Zenon DEF BacktestInv
  <2>2. DriverInv' /\ SinkInv'
    BY <2>1, DriverStep, SinkStep, Zenon
  <2>3. Reaction'
    BY <2>1, <2>2, ReactionStep, Zenon
  <2> QED
    BY <2>2, <2>3, Zenon DEF BacktestInv
<1> QED
  BY <1>1, <1>2, PTL DEF Spec

\* However submissions, cancellations and deliveries nest, an order is resting or
\* has exactly one response: resting_orders_ and the responses made under mutex_
\* partition the orders.
THEOREM OneOutcomeEach == Spec => []OneOutcome
<1>1. BacktestInv => OneOutcome
  BY OutcomeIsOne, Zenon DEF BacktestInv
<1> QED
  BY <1>1, BacktestInvariance, PTL

\* What submit_trade and publish_response append to the storage can be replayed:
\* a response comes after its order, and once.
THEOREM RecordedInOrder == Spec => []ResponsesFollowSubmissions
<1>1. BacktestInv => ResponsesFollowSubmissions
  <2> SUFFICES ASSUME BacktestInv PROVE ResponsesFollowSubmissions
    BY Zenon
  <2>1. /\ LogInv(execution_log, storage_append_failures, submitted, published)
        /\ Outcome(resting_orders, deliveries, published, submitted)
    BY Zenon DEF BacktestInv, SinkInv
  <2>2. ASSUME NEW i \in DOMAIN execution_log, execution_log[i].type = "OrderResponse"
        PROVE  LET submissions == {j \in DOMAIN execution_log :
                                     execution_log[j] = Submission(execution_log[i].id)}
               IN /\ \A j \in submissions : j < i
                  /\ storage_append_failures = 0 => submissions # {}
                  /\ \A j \in DOMAIN execution_log : execution_log[j] = execution_log[i] => j = i
    <3>1. execution_log[i].id \in IdsIn(published) /\ Follows(execution_log)
      BY <2>1, <2>2, Zenon DEF LogInv, LogOf
    <3>2. execution_log[i].id \in 0..(submitted - 1)
      BY <2>1, <3>1, Zenon DEF Outcome
    <3>3. HasStorage
      <4>1. DOMAIN <<>> = {}
        OBVIOUS
      <4> QED
        BY <2>1, <4>1, Zenon DEF LogInv
    <3>4. storage_append_failures = 0 =>
            \E j \in DOMAIN execution_log : execution_log[j] = Submission(execution_log[i].id)
      BY <2>1, <3>2, <3>3, Zenon DEF LogInv, AllLogged
    <3> QED
      BY <2>2, <3>1, <3>4, Zenon DEF Follows
  <2>3. HasStorage => storage_append_failures + Len(execution_log) = submitted + Len(published)
    BY <2>1, Zenon DEF LogInv
  <2> QED
    BY <2>2, <2>3, Zenon DEF ResponsesFollowSubmissions
<1> QED
  BY <1>1, BacktestInvariance, PTL

\* gross_notional_ and fees_ are what the fills among the responses add up to,
\* delivered or not, whatever was rejected or cancelled meanwhile.
THEOREM BooksAddUp == Spec => []BooksBalance
<1>1. Init => BooksInv
  <2> SUFFICES ASSUME Init PROVE BooksInv
    BY Zenon
  <2>1. gross_notional = 0 /\ fees = 0 /\ published = <<>> /\ deliveries = <<>>
    BY Zenon DEF Init, SinkInit
  <2>2. <<>> \o <<>> = <<>> /\ <<>> \in Seq(Answers) /\ Len(<<>>) = 0
    OBVIOUS
  <2>3. ASSUME NEW which PROVE Total(<<>>, which) = 0
    <3>1. PICK a : a = Amounts(<<>>, which)
      BY Zenon
    <3>2. a \in Seq(Int) /\ Len(a) = 0
      BY <2>2, <3>1, AmountsAre, Zenon
    <3>3. \A i \in 1..Len(a) : a[i] = 0
      BY <3>2
    <3> QED
      BY <3>1, <3>2, <3>3, SumOfZeros, Zenon DEF Total
  <2>4. Answered = <<>>
    BY <2>1, <2>2, Zenon DEF Answered
  <2> QED
    BY <2>1, <2>3, <2>4, Zenon DEF BooksInv
<1>2. BacktestInv /\ BooksInv /\ [Next]_vars => BooksInv'
  <2> SUFFICES ASSUME BacktestInv, BooksInv, [Next]_vars PROVE BooksInv'
    BY Zenon
  <2>1. SinkInv /\ BooksStep
    BY SinkStep, Zenon DEF BacktestInv
  <2>2. CASE UNCHANGED <<published, deliveries, gross_notional, fees>>
    BY <2>2, Zenon DEF BooksInv, Answered, Total, Amounts, AmountOf, Notional, Fee
  <2> QED
    BY <2>1, <2>2, BooksWalk, BooksDeliver, BooksSubmit, Zenon DEF BooksStep
<1>3. BooksInv => BooksBalance
  BY Zenon DEF BooksInv, BooksBalance, Total, Amounts, AmountOf
<1> QED
  BY <1>1, <1>2, <1>3, BacktestInvariance, PTL DEF Spec

\* fill_resting_orders_locked and immediate_fill_locked leave no order that the
\* current quote fills, provided that market orders without a quote are rejected
\* (the default of config_.reject_without_market).
THEOREM NoFillableOrderRests ==
  ASSUME RejectWithoutMarket
  PROVE  Spec => []NothingFillableRests
<1>1. Init => FillInv
  <2> SUFFICES ASSUME Init PROVE FillInv
    BY Zenon
  <2>1. resting_orders = <<>>
    BY Zenon DEF Init, SinkInit
  <2>2. DOMAIN <<>> = {}
    OBVIOUS
  <2> QED
    BY <2>1, <2>2, Zenon DEF FillInv
<1>2. BacktestInv /\ FillInv /\ [Next]_vars => FillInv'
  BY FillStep, Zenon DEF BacktestInv
<1>3. FillInv => NothingFillableRests
  BY Zenon DEF FillInv, NothingFillableRests, RangeOf
<1> QED
  BY <1>1, <1>2, <1>3, BacktestInvariance, PTL DEF Spec

\* The sink sees a quote or trade before the strategies do, so an order never
\* fills on what its strategy was reacting to.
THEOREM FillsComeLater == Spec => []NoLookAhead
<1>1. BacktestInv => NoLookAhead
  BY Zenon DEF BacktestInv, Reaction, NoLookAhead
<1> QED
  BY <1>1, BacktestInvariance, PTL

-----------------------------------------------------------------------------
(* Who submitted an order *)

\* A recording that is the same as far as it goes.
LEMMA OwnersStay ==
  ASSUME NEW met, NEW log, NEW map, Owners(met, log, map),
         NEW more, \A n \in met : more[n + 1] = log[n + 1]
  PROVE  Owners(met, more, map)
  BY Zenon DEF Owners

\* order_to_strategy_ with one more submission.
Adds(map, e, new) ==
  new = [id \in DOMAIN map \cup {e.id} |-> IF id = e.id THEN e.strategy ELSE map[id]]

\* It has the strategy of one more submission.
LEMMA OwnerAdded ==
  ASSUME NEW met, NEW log, NEW map, Owners(met, log, map),
         NEW at \in Nat, \A n \in met : n <= at,
         NEW e, e = log[at + 1], NEW new, Adds(map, e, new)
  PROVE  Owners(met \cup {at}, log, new)
<1>1. DOMAIN new = DOMAIN map \cup {e.id} /\ new[e.id] = e.strategy
  BY Zenon DEF Adds
<1>2. \A id \in DOMAIN map : id # e.id => new[id] = map[id]
  BY Zenon DEF Adds
<1>3. at <= at
  OBVIOUS
<1>4. ASSUME NEW id \in DOMAIN new
      PROVE  \E n \in met \cup {at} : /\ log[n + 1].id = id /\ log[n + 1].strategy = new[id]
                                      /\ \A m \in met \cup {at} : log[m + 1].id = id => m <= n
  <2>1. CASE id = e.id
    BY <1>1, <1>3, <2>1, Zenon
  <2>2. CASE id # e.id
    <3>1. id \in DOMAIN map /\ new[id] = map[id]
      BY <1>1, <1>2, <2>2, Zenon
    <3>2. PICK n \in met : /\ log[n + 1].id = id /\ log[n + 1].strategy = map[id]
                           /\ \A m \in met : log[m + 1].id = id => m <= n
      BY <3>1, Zenon DEF Owners
    <3> QED
      BY <2>2, <3>1, <3>2, Zenon
  <2> QED
    BY <2>1, <2>2, Zenon
<1>5. \A n \in met \cup {at} : log[n + 1].id \in DOMAIN new
  BY <1>1, Zenon DEF Owners
<1> QED
  BY <1>4, <1>5, Zenon DEF Owners

\* The drivers never run ahead of the storage.
LEMMA NotAhead ==
  ASSUME DriverInv
  PROVE  handled <= Len(events) /\ handled \in Nat /\ Len(events) \in Nat
<1>1. /\ handled \in Nat /\ horizon \in Nat /\ events \in Seq(Recordable)
      /\ phase \in {"fetch", "page", "stop", "done"}
  BY Zenon DEF DriverInv, PageTypes, StepTypes
<1>2. Len(events) \in Nat /\ From \in Nat
  BY MatchingIs, RequestIs, Zenon DEF DriverInv, PageTypes, PageInv
<1>3. PICK limit \in Nat : handled <= limit /\ limit <= Len(events)
  BY <1>1, <1>2, Zenon DEF DriverInv, PageInv, Complete, OnPage
<1> QED
  BY <1>1, <1>2, <1>3

\* Record changes nothing before the end of the recording.
LEMMA RecordedBefore ==
  ASSUME DriverInv, NEW e \in Recordable, Record(e)
  PROVE  /\ UNCHANGED <<filter, handled>>
         /\ \A n : n \in Matching(filter)' /\ n < handled <=> n \in Matching(filter) /\ n < handled
         /\ \A n \in Matching(filter) : events'[n + 1] = events[n + 1]
         /\ \A n \in Matching(filter)' : n \in Nat
<1>1. /\ events' = IF closed THEN events ELSE Append(events, e)
      /\ UNCHANGED <<filter, handled>> /\ events \in Seq(Recordable)
  BY Zenon DEF Record, StorageAppend, driverVars, DriverInv, PageTypes
<1>2. CASE events' = events
  <2>1. Matching(filter)' = Matching(filter)
    BY <1>1, <1>2, Zenon DEF Matching, Matches
  <2>2. \A n \in Matching(filter) : n \in Nat
    BY <1>1, MatchingIs, Zenon
  <2> QED
    BY <1>1, <1>2, <2>1, <2>2, Zenon
<1>3. CASE events' = Append(events, e)
  <2>1. /\ \A n \in Nat : n < Len(events) => events'[n + 1] = events[n + 1]
        /\ Matching(filter) \subseteq Matching(filter)'
        /\ \A n \in Matching(filter)' : n \in Matching(filter) \/ n = Len(events)
    BY <1>1, <1>3, Recorded, Zenon
  <2>2. ~(Len(events) < handled) /\ Len(events) \in Nat
    BY NotAhead
  <2>3. \A n \in Matching(filter) : n \in Nat /\ n < Len(events)
    BY <1>1, MatchingIs, Zenon
  <2> QED
    BY <1>1, <2>1, <2>2, <2>3, Zenon
<1> QED
  BY <1>1, <1>2, <1>3, Zenon

\* Every step keeps order_to_strategy_ up to date.
LEMMA OwnerStep ==
  ASSUME DriverInv, OwnerInv, [Next]_vars
  PROVE  OwnerInv'
<1> DEFINE Still == UNCHANGED <<events, filter, handled, driver, order_to_strategy>>
<1>1. CASE Still
  <2>1. Matching(filter)' = Matching(filter)
    BY <1>1, Zenon DEF Matching, Matches
  <2>2. Met' = Met
    BY <1>1, <2>1, Zenon DEF Met
  <2> QED
    BY <1>1, <2>2, Zenon DEF OwnerInv
<1>2. CASE \E e \in Recordable : Record(e)
  <2>1. /\ UNCHANGED <<filter, handled, driver, order_to_strategy>>
        /\ \A n : n \in Matching(filter)' /\ n < handled <=> n \in Matching(filter) /\ n < handled
        /\ \A n \in Matching(filter) : events'[n + 1] = events[n + 1]
    BY <1>2, RecordedBefore, Zenon DEF Record, driverVars
  <2>2. \A n : n \in Met' <=> n \in Met
    BY <2>1, Zenon DEF Met
  <2>3. \A n \in Met : events'[n + 1] = events[n + 1]
    BY <2>1, Zenon DEF Met
  <2>4. Met' = Met
    BY <2>2, Zenon
  <2>5. driver = "replay" => Owners(Met, events', order_to_strategy)
    BY <2>3, OwnersStay, Zenon DEF OwnerInv
  <2> QED
    BY <2>1, <2>4, <2>5, Zenon DEF OwnerInv
<1>3. CASE TakeEvent
  <2>1. PICK at : at = Head(page)
    BY Zenon
  <2>2. PICK e : e = events[at + 1]
    BY Zenon
  <2>3. /\ handled' = at + 1 /\ UNCHANGED <<events, filter, driver>>
    BY <1>3, <2>1, Zenon DEF TakeEvent, storageVars
  <2>4. /\ at \in Matching(filter) /\ handled <= at /\ handled \in Nat /\ events \in Seq(Recordable)
        /\ \A n \in Matching(filter) : n < at + 1 => n < handled \/ n = at
    BY <1>3, <2>1, TakePages, Zenon DEF DriverInv, PageTypes
  <2>5. \A n \in Matching(filter) : n \in Nat
    BY <2>4, MatchingIs, Zenon
  <2>6. Matching(filter)' = Matching(filter)
    BY <2>3, Zenon DEF Matching, Matches
  <2>7. \A n \in Matching(filter) : n < at + 1 <=> n < handled \/ n = at
    BY <2>4, <2>5
  <2>8. Met' = IF e.type = "TradeSubmitted" THEN Met \cup {at} ELSE Met
    <3>1. \A n : n \in Met' <=> n \in Met \/ (n = at /\ e.type = "TradeSubmitted")
      BY <2>2, <2>3, <2>4, <2>6, <2>7, Zenon DEF Met
    <3> QED
      BY <3>1, Zenon
  <2>9. \A n \in Met : n <= at
    BY <2>4, <2>5 DEF Met
  <2>10. CASE e.type = "TradeSubmitted" /\ driver = "replay"
    <3>1. order_to_strategy' = [id \in DOMAIN order_to_strategy \cup {e.id} |->
                                 IF id = e.id THEN e.strategy ELSE order_to_strategy[id]]
      <4>1. ~IsMarket(e)
        BY <2>10, Zenon DEF IsMarket
      <4> QED
        BY <1>3, <2>1, <2>2, <2>10, <4>1, Zenon DEF TakeEvent
    <3>2. Owners(Met, events, order_to_strategy)
      BY <2>10, Zenon DEF OwnerInv
    <3>3. Adds(order_to_strategy, e, order_to_strategy') /\ at \in Nat
      BY <2>4, <2>5, <3>1, Zenon DEF Adds
    <3>4. Owners(Met \cup {at}, events, order_to_strategy')
      BY <2>2, <2>9, <3>2, <3>3, OwnerAdded, Zenon
    <3> QED
      BY <2>3, <2>8, <2>10, <3>4, Zenon DEF OwnerInv
  <2>11. CASE ~(e.type = "TradeSubmitted" /\ driver = "replay")
    <3>1. order_to_strategy' = order_to_strategy
      BY <1>3, <2>1, <2>2, <2>11, Zenon DEF TakeEvent
    <3> QED
      BY <2>3, <2>8, <2>11, <3>1, Zenon DEF OwnerInv
  <2> QED
    BY <2>10, <2>11, Zenon
<1>4. Fetch => Still
  BY Zenon DEF Fetch, storageVars
<1>5. SinkSees => Still
  BY Zenon DEF SinkSees, storageVars
<1>6. StrategySees => Still
  BY Zenon DEF StrategySees, storageVars
<1>7. EndPage => Still
  BY Zenon DEF EndPage, storageVars
<1>8. StopNext => Still
  BY Zenon DEF StopNext, storageVars, StorageClose
<1>9. \A t \in Orders : StrategySubmits(t) => Still
  BY Zenon DEF StrategySubmits, storageVars
<1>10. StrategyCancels => Still
  BY Zenon DEF StrategyCancels, storageVars, driverVars
<1>11. SinkDelivers => Still
  BY Zenon DEF SinkDelivers, storageVars, driverVars
<1>12. UNCHANGED vars => Still
  BY Zenon DEF vars, storageVars, driverVars
<1> HIDE DEF Still
<1> QED
  BY <1>1, <1>2, <1>3, <1>4, <1>5, <1>6, <1>7, <1>8, <1>9, <1>10, <1>11, <1>12, Zenon DEF Next

-----------------------------------------------------------------------------
(* The calls of strategies *)

\* MadeCalls, pointwise.
LEMMA MadeIs ==
  ASSUME NEW c
  PROVE  /\ c \in MadeCalls <=>
              \E i \in DOMAIN Strategies, at \in Matching(filter) : Made(i, at) /\ c = CallOf(i, at)
         /\ c \in MadeCalls' <=>
              \E i \in DOMAIN Strategies, at \in Matching(filter)' : Made(i, at)' /\ c = CallOf(i, at)
<1>1. MadeCalls' = UNION {{CallOf(i, at) : i \in {j \in DOMAIN Strategies : Made(j, at)'}} :
                            at \in Matching(filter)'}
  BY Zenon DEF MadeCalls
<1>2. c \in MadeCalls <=> \E at \in Matching(filter) :
                              c \in {CallOf(i, at) : i \in {j \in DOMAIN Strategies : Made(j, at)}}
  BY Zenon DEF MadeCalls
<1>3. c \in MadeCalls' <=> \E at \in Matching(filter)' :
                               c \in {CallOf(i, at) : i \in {j \in DOMAIN Strategies : Made(j, at)'}}
  BY <1>1, Zenon
<1>4. \A at : c \in {CallOf(i, at) : i \in {j \in DOMAIN Strategies : Made(j, at)}}
                <=> \E i \in DOMAIN Strategies : Made(i, at) /\ c = CallOf(i, at)
  BY Zenon
<1>5. \A at : c \in {CallOf(i, at) : i \in {j \in DOMAIN Strategies : Made(j, at)'}}
                <=> \E i \in DOMAIN Strategies : Made(i, at)' /\ c = CallOf(i, at)
  BY Zenon
<1>6. c \in MadeCalls <=>
        \E i \in DOMAIN Strategies, at \in Matching(filter) : Made(i, at) /\ c = CallOf(i, at)
  BY <1>2, <1>4, Zenon
<1>7. c \in MadeCalls' <=>
        \E i \in DOMAIN Strategies, at \in Matching(filter)' : Made(i, at)' /\ c = CallOf(i, at)
  BY <1>3, <1>5, Zenon
<1> QED
  BY <1>6, <1>7, Zenon

\* One more call, after the others.
LEMMA ListedMore ==
  ASSUME NEW list \in Seq(Calls), NEW made, Listed(list, made), NEW c \in Calls,
         \A d \in made : Precedes(d, c), NEW more, more = Append(list, c)
  PROVE  Listed(more, made \cup {c})
<1>1. PICK n \in Nat : n = Len(list)
  BY Elements, Zenon
<1>2. /\ more \in Seq(Calls) /\ Len(more) = n + 1 /\ more[n + 1] = c
      /\ \A i \in 1..n : more[i] = list[i]
  BY <1>1, Appended
<1>3. DOMAIN list = 1..n /\ DOMAIN more = 1..(n + 1)
  BY <1>1, <1>2, Elements, Zenon
<1>4. /\ \A i \in 1..(n + 1) : i \in 1..n \/ i = n + 1
      /\ \A i \in 1..n : i \in 1..(n + 1)
      /\ n + 1 \in 1..(n + 1) /\ \A i \in 1..(n + 1) : ~(n + 1 < i)
  BY <1>1
<1>5. RangeOf(list) = made
  BY Zenon DEF Listed
<1>6. \A d : d \in RangeOf(more) <=> d \in made \/ d = c
  <2>1. \A d : d \in made <=> \E i \in 1..n : list[i] = d
    BY <1>3, <1>5, Zenon DEF RangeOf
  <2>2. \A d : d \in RangeOf(more) <=> \E i \in 1..(n + 1) : more[i] = d
    BY <1>3, Zenon DEF RangeOf
  <2> QED
    BY <1>2, <1>4, <2>1, <2>2, Zenon
<1>7. ASSUME NEW k \in 1..(n + 1), NEW l \in 1..(n + 1), k < l
      PROVE  Precedes(more[k], more[l])
  <2>1. k \in 1..n
    BY <1>4, <1>7, Zenon
  <2>2. CASE l \in 1..n
    BY <1>2, <1>3, <1>7, <2>1, <2>2, Zenon DEF Listed
  <2>3. CASE l = n + 1
    BY <1>2, <1>3, <1>5, <2>1, <2>3, Zenon DEF RangeOf
  <2> QED
    BY <1>4, <2>2, <2>3, Zenon
<1>8. RangeOf(more) = made \cup {c}
  BY <1>6, Zenon
<1> QED
  BY <1>3, <1>7, <1>8, Zenon DEF Listed

\* What the recording says stays the same.
LEMMA CalledStays ==
  ASSUME UNCHANGED <<events, filter, driver>>, NEW s, NEW at
  PROVE  Matching(filter)' = Matching(filter) /\ (Called(s, at)' <=> Called(s, at))
<1>1. Matching(filter)' = Matching(filter)
  BY Zenon DEF Matching, Matches
<1>2. Submissions(at)' = Submissions(at)
  BY <1>1, Zenon DEF Submissions
<1>3. Owns(s, at)' <=> Owns(s, at)
  BY <1>2, Zenon DEF Owns
<1> QED
  BY <1>1, <1>3, Zenon DEF Called, IsMarket, Tracks

\* Calls that go on having been made are what the list has.
LEMMA ListedStays ==
  ASSUME Listed(calls, MadeCalls), calls' = calls,
         \A i \in DOMAIN Strategies : \A at : at \in Matching(filter)' /\ Made(i, at)'
                                                <=> at \in Matching(filter) /\ Made(i, at)
  PROVE  Listed(calls, MadeCalls)'
<1>1. \A c : c \in MadeCalls' <=> c \in MadeCalls
  BY MadeIs, Zenon
<1>2. MadeCalls' = MadeCalls
  BY <1>1, Zenon
<1>3. Listed(calls', MadeCalls')
  BY <1>2, Zenon
<1> QED
  BY <1>3, Zenon

\* A step that calls no strategy and takes no event.
LEMMA CallsFrame ==
  ASSUME CallsInv, UNCHANGED <<events, filter, driver, handled, calls>>,
         \/ steps = <<>> /\ steps' = <<>>
         \/ UNCHANGED <<offset, todo>> /\ (steps = <<>> <=> steps' = <<>>)
  PROVE  CallsInv'
<1>1. /\ Matching(filter)' = Matching(filter)
      /\ \A i \in DOMAIN Strategies : \A at : Called(Strategies[i], at)' <=> Called(Strategies[i], at)
  BY CalledStays, Zenon
<1>2. \A i \in DOMAIN Strategies : \A at : Made(i, at)' <=> Made(i, at)
  BY <1>1, Zenon DEF Made
<1>3. Listed(calls, MadeCalls)'
  BY <1>1, <1>2, ListedStays, Zenon DEF CallsInv
<1>4. TodoInv'
  BY Zenon DEF CallsInv, TodoInv, Event, Tracks
<1> QED
  BY <1>3, <1>4, Zenon DEF CallsInv

\* Record keeps the calls.
LEMMA CallsRecord ==
  ASSUME DriverInv, CallsInv, NEW e \in Recordable, Record(e)
  PROVE  CallsInv'
<1>1. /\ UNCHANGED <<filter, handled, driver, calls, steps, offset, todo>>
      /\ \A n : n \in Matching(filter)' /\ n < handled <=> n \in Matching(filter) /\ n < handled
      /\ \A n \in Matching(filter) : events'[n + 1] = events[n + 1]
      /\ \A n \in Matching(filter)' : n \in Nat
  BY RecordedBefore, Zenon DEF Record, driverVars
<1>2. handled \in Nat /\ events \in Seq(Recordable)
  BY Zenon DEF DriverInv, PageTypes
<1>3. \A n \in Matching(filter) : n \in Nat
  BY <1>2, MatchingIs, Zenon
<1>4. ASSUME NEW i \in DOMAIN Strategies, NEW at \in Matching(filter), at < handled
      PROVE  Called(Strategies[i], at)' <=> Called(Strategies[i], at)
  <2>1. \A n \in Nat : n < at => n < handled
    BY <1>2, <1>3, <1>4
  <2>2. events'[at + 1] = events[at + 1]
    BY <1>1, Zenon
  <2>3. \A n : n \in Submissions(at)' <=> n \in Submissions(at)
    BY <1>1, <1>3, <2>1, <2>2, Zenon DEF Submissions
  <2>4. Submissions(at)' = Submissions(at)
    BY <2>3, Zenon
  <2>5. \A n \in Submissions(at) : events'[n + 1] = events[n + 1]
    BY <1>1, Zenon DEF Submissions
  <2>6. Owns(Strategies[i], at)' <=> Owns(Strategies[i], at)
    BY <2>4, <2>5, Zenon DEF Owns
  <2> QED
    BY <1>1, <2>2, <2>6, Zenon DEF Called, IsMarket, Tracks
<1>5. \A i \in DOMAIN Strategies : \A at : at \in Matching(filter)' /\ Made(i, at)'
                                          <=> at \in Matching(filter) /\ Made(i, at)
  BY <1>1, <1>4, Zenon DEF Made
<1>6. Listed(calls, MadeCalls)'
  BY <1>1, <1>5, ListedStays, Zenon DEF CallsInv
<1>7. TodoInv'
  <2>1. steps # <<>> => events'[offset + 1] = events[offset + 1]
    BY <1>1, Zenon DEF DriverInv, AtHand
  <2> QED
    BY <1>1, <2>1, Zenon DEF CallsInv, TodoInv, Event, Tracks
<1> QED
  BY <1>6, <1>7, Zenon DEF CallsInv

\* order_to_strategy_ knows who owns an order.
LEMMA OwnsIs ==
  ASSUME NEW met, NEW map, Owners(met, events, map), \A n \in met : n \in Nat,
         NEW at, \A n : n \in Submissions(at) <=> n \in met /\ events[n + 1].id = events[at + 1].id,
         NEW s
  PROVE  Owns(s, at) <=> events[at + 1].id \in DOMAIN map /\ map[events[at + 1].id] = s.id
<1>1. PICK id : id = events[at + 1].id
  BY Zenon
<1>2. ASSUME Owns(s, at)
      PROVE  id \in DOMAIN map /\ map[id] = s.id
  <2>1. PICK n \in Submissions(at) : /\ \A m \in Submissions(at) : m <= n
                                     /\ events[n + 1].strategy = s.id
    BY <1>2, Zenon DEF Owns
  <2>2. n \in met /\ id \in DOMAIN map
    BY <1>1, <2>1, Zenon DEF Owners
  <2>3. PICK l \in met : /\ events[l + 1].id = id /\ events[l + 1].strategy = map[id]
                         /\ \A m \in met : events[m + 1].id = id => m <= l
    BY <2>2, Zenon DEF Owners
  <2>4. n <= l /\ l <= n
    BY <1>1, <2>1, <2>3, Zenon
  <2>5. n = l
    BY <2>2, <2>4
  <2> QED
    BY <2>1, <2>2, <2>3, <2>5, Zenon
<1>3. ASSUME id \in DOMAIN map, map[id] = s.id
      PROVE  Owns(s, at)
  <2>1. PICK l \in met : /\ events[l + 1].id = id /\ events[l + 1].strategy = map[id]
                         /\ \A m \in met : events[m + 1].id = id => m <= l
    BY <1>3, Zenon DEF Owners
  <2> QED
    BY <1>1, <1>3, <2>1, Zenon DEF Owns
<1> QED
  BY <1>1, <1>2, <1>3, Zenon

\* The loop takes an event.
LEMMA CallsTake ==
  ASSUME DriverInv, OwnerInv, CallsInv, TakeEvent
  PROVE  CallsInv'
<1>1. PICK at : at = Head(page)
  BY Zenon
<1>2. PICK e : e = events[at + 1]
  BY Zenon
<1>3. /\ steps = <<>> /\ handled' = at + 1 /\ offset' = at /\ UNCHANGED <<events, filter, driver>>
  BY <1>1, Zenon DEF TakeEvent, Idle, storageVars
<1>4. /\ at \in Matching(filter) /\ handled <= at /\ handled \in Nat /\ events \in Seq(Recordable)
      /\ \A n \in Matching(filter) : n < at + 1 => n < handled \/ n = at
      /\ calls \in Seq(Calls)
  BY <1>1, TakePages, Zenon DEF DriverInv, PageTypes, StepTypes
<1>5. \A n \in Matching(filter) : n \in Nat
  BY <1>4, MatchingIs, Zenon
<1>6. /\ at \in Nat /\ ~(at < handled)
      /\ \A n \in Matching(filter) : n < at + 1 <=> n < handled \/ n = at
      /\ \A n \in Matching(filter) : n < handled <=> n < at
  BY <1>4, <1>5
<1>7. /\ Matching(filter)' = Matching(filter)
      /\ \A i \in DOMAIN Strategies : \A n : Called(Strategies[i], n)' <=> Called(Strategies[i], n)
  BY <1>3, CalledStays, Zenon
<1>8. \A i, n : Made(i, n) <=> n < handled /\ Called(Strategies[i], n)
  BY <1>3, Zenon DEF Made
<1>9. \A i, n : Made(i, n)' <=> /\ n < at + 1 /\ Called(Strategies[i], n)'
                                /\ ~(steps' # <<>> /\ n = at /\ i \in todo')
  BY <1>3, Zenon DEF Made
<1>10. CASE IsMarket(e)
  <2>1. /\ steps' = MarketSteps /\ calls' = calls
        /\ todo' = {i \in DOMAIN Strategies : Tracks(Strategies[i], e.ticker)}
    BY <1>1, <1>2, <1>10, Zenon DEF TakeEvent
  <2>2. steps' # <<>>
    BY <2>1, Zenon DEF MarketSteps
  <2>3. e.type # "OrderResponse"
    BY <1>10, Zenon DEF IsMarket
  <2>4. \A i \in DOMAIN Strategies : Called(Strategies[i], at) => i \in todo'
    BY <1>2, <2>1, <2>3, Zenon DEF Called
  <2>5. \A i \in DOMAIN Strategies : \A n : n \in Matching(filter)' /\ Made(i, n)'
                                             <=> n \in Matching(filter) /\ Made(i, n)
    BY <1>6, <1>7, <1>8, <1>9, <2>2, <2>4, Zenon
  <2>6. Listed(calls, MadeCalls)'
    BY <2>1, <2>5, ListedStays, Zenon DEF CallsInv
  <2>7. Event' = e
    BY <1>2, <1>3, Zenon DEF Event
  <2>8. TodoInv'
    BY <2>1, <2>7, Zenon DEF TodoInv, Tracks
  <2> QED
    BY <2>6, <2>8, Zenon DEF CallsInv
<1>11. CASE ~IsMarket(e)
  <2>1. steps' = <<>>
    BY <1>1, <1>2, <1>3, <1>11, Zenon DEF TakeEvent
  <2>2. TodoInv'
    BY <2>1, Zenon DEF TodoInv
  <2>3. \A i \in DOMAIN Strategies : \A n \in Matching(filter) :
          Made(i, n)' <=> Made(i, n) \/ (n = at /\ Called(Strategies[i], at))
    BY <1>6, <1>7, <1>8, <1>9, <2>1, Zenon
  <2> DEFINE routed == /\ driver = "replay" /\ e.type = "OrderResponse"
                       /\ Routes(e) /\ Known(order_to_strategy[e.id])
  <2>4. \A i \in DOMAIN Strategies :
          Called(Strategies[i], at) <=> routed /\ Strategies[i].id = order_to_strategy[e.id]
    <3>1. \A n : n \in Submissions(at) <=> n \in Met /\ events[n + 1].id = events[at + 1].id
      BY <1>6, Zenon DEF Submissions, Met
    <3>2. \A n \in Met : n \in Nat
      BY <1>5, Zenon DEF Met
    <3>3. driver = "replay" =>
            \A i \in DOMAIN Strategies :
              Owns(Strategies[i], at) <=> /\ e.id \in DOMAIN order_to_strategy
                                          /\ order_to_strategy[e.id] = Strategies[i].id
      <4>1. ASSUME driver = "replay", NEW s
            PROVE  Owns(s, at) <=> /\ events[at + 1].id \in DOMAIN order_to_strategy
                                   /\ order_to_strategy[events[at + 1].id] = s.id
        <5>1. Owners(Met, events, order_to_strategy)
          BY <4>1, Zenon DEF OwnerInv
        <5> QED
          BY <3>1, <3>2, <5>1, OwnsIs, Zenon
      <4> QED
        BY <1>2, <4>1, Zenon
    <3> QED
      BY <1>2, <1>11, <3>3, Zenon DEF Called, Known, Routes
  <2>5. calls' = IF routed THEN Append(calls, [strategy |-> order_to_strategy[e.id], offset |-> at])
                           ELSE calls
    BY <1>1, <1>2, <1>11, Zenon DEF TakeEvent
  <2> HIDE DEF routed
  <2>6. CASE ~routed
    <3>1. \A i \in DOMAIN Strategies : \A n : n \in Matching(filter)' /\ Made(i, n)'
                                               <=> n \in Matching(filter) /\ Made(i, n)
      BY <1>7, <2>3, <2>4, <2>6, Zenon
    <3>2. calls' = calls
      BY <2>5, <2>6, Zenon
    <3>3. Listed(calls, MadeCalls)'
      BY <3>1, <3>2, ListedStays, Zenon DEF CallsInv
    <3> QED
      BY <2>2, <3>3, Zenon DEF CallsInv
  <2>7. CASE routed
    <3>1. PICK i \in DOMAIN Strategies : Strategies[i].id = order_to_strategy[e.id]
      BY <2>7, Zenon DEF routed, Known
    <3>2. calls' = Append(calls, CallOf(i, at)) /\ Called(Strategies[i], at)
      BY <2>4, <2>5, <2>7, <3>1, Zenon DEF CallOf
    <3>3. \A j \in DOMAIN Strategies : Called(Strategies[j], at) => CallOf(j, at) = CallOf(i, at)
      BY <2>4, <3>1, Zenon DEF CallOf
    <3>4. \A d : d \in MadeCalls' <=> d \in MadeCalls \/ d = CallOf(i, at)
      <4>1. ASSUME NEW d \in MadeCalls'
            PROVE  d \in MadeCalls \/ d = CallOf(i, at)
        <5>1. \E j \in DOMAIN Strategies, n \in Matching(filter)' : Made(j, n)' /\ d = CallOf(j, n)
          BY <4>1, MadeIs, Zenon
        <5>2. PICK j \in DOMAIN Strategies, n \in Matching(filter) : Made(j, n)' /\ d = CallOf(j, n)
          BY <1>7, <5>1, Zenon
        <5>3. CASE Made(j, n)
          BY <5>2, <5>3, MadeIs, Zenon
        <5>4. CASE n = at /\ Called(Strategies[j], at)
          BY <3>3, <5>2, <5>4, Zenon
        <5> QED
          BY <2>3, <5>2, <5>3, <5>4, Zenon
      <4>2. ASSUME NEW d \in MadeCalls
            PROVE  d \in MadeCalls'
        <5>1. PICK j \in DOMAIN Strategies, n \in Matching(filter) : Made(j, n) /\ d = CallOf(j, n)
          BY MadeIs, Zenon
        <5> QED
          BY <1>7, <2>3, <5>1, MadeIs, Zenon
      <4>3. CallOf(i, at) \in MadeCalls'
        <5>1. Made(i, at)'
          BY <1>4, <2>3, <3>2, Zenon
        <5> QED
          BY <1>4, <1>7, <5>1, MadeIs, Zenon
      <4> QED
        BY <4>1, <4>2, <4>3, Zenon
    <3>5. MadeCalls' = MadeCalls \cup {CallOf(i, at)}
      BY <3>4, Zenon
    <3>6. ASSUME NEW d \in MadeCalls
          PROVE  Precedes(d, CallOf(i, at))
      <4>1. PICK j \in DOMAIN Strategies, n \in Matching(filter) : Made(j, n) /\ d = CallOf(j, n)
        BY MadeIs, Zenon
      <4>2. d.offset = n /\ CallOf(i, at).offset = at
        BY <4>1, Zenon DEF CallOf
      <4>3. n < at
        BY <1>6, <1>8, <4>1, Zenon
      <4> QED
        BY <4>2, <4>3, Zenon DEF Precedes
    <3>7. CallOf(i, at) \in Calls
      BY <1>4, <1>6, OneCallMore, Zenon
    <3>8. Listed(calls', MadeCalls \cup {CallOf(i, at)})
      BY <1>4, <3>2, <3>6, <3>7, ListedMore, Zenon DEF CallsInv
    <3>9. Listed(calls, MadeCalls)'
      BY <3>5, <3>8, Zenon
    <3> QED
      BY <2>2, <3>9, Zenon DEF CallsInv
  <2> QED
    BY <2>6, <2>7, Zenon
<1> QED
  BY <1>10, <1>11

\* The next strategy is called, or all have been.
LEMMA CallsSees ==
  ASSUME DriverInv, CallsInv, StrategySees
  PROVE  CallsInv'
<1>1. /\ steps # <<>> /\ Head(steps) = "strategies"
      /\ UNCHANGED <<events, filter, driver, handled, offset>>
  BY Zenon DEF StrategySees, storageVars
<1>2. /\ Matching(filter)' = Matching(filter)
      /\ \A i \in DOMAIN Strategies : \A n : Called(Strategies[i], n)' <=> Called(Strategies[i], n)
  BY <1>1, CalledStays, Zenon
<1>3. CASE todo = {} /\ steps' = Tail(steps) /\ UNCHANGED <<todo, calls>>
  <2>1. steps' = <<>>
    BY <1>1, <1>3, FirstStep, Zenon DEF DriverInv
  <2>2. \A i \in DOMAIN Strategies : \A n : n \in Matching(filter)' /\ Made(i, n)'
                                             <=> n \in Matching(filter) /\ Made(i, n)
    BY <1>1, <1>2, <1>3, Zenon DEF Made
  <2>3. Listed(calls, MadeCalls)'
    BY <1>3, <2>2, ListedStays, Zenon DEF CallsInv
  <2> QED
    BY <2>1, <2>3, Zenon DEF CallsInv, TodoInv
<1>4. ASSUME NEW i \in DOMAIN Strategies, IsNext(i), todo' = todo \ {i}, UNCHANGED steps,
             calls' = Append(calls, CallOf(i, offset))
      PROVE  CallsInv'
  <2>1. /\ offset \in Matching(filter) /\ handled = offset + 1 /\ IsMarket(Event)
        /\ offset \in Nat /\ calls \in Seq(Calls) /\ events \in Seq(Recordable)
        /\ todo \in SUBSET DOMAIN Strategies
    BY <1>1, Zenon DEF DriverInv, AtHand, StepTypes, PageTypes
  <2>2. /\ i \in todo /\ \A j \in todo : i <= j
        /\ \A j \in todo : Tracks(Strategies[j], Event.ticker)
        /\ \A j \in DOMAIN Strategies, k \in todo :
             Tracks(Strategies[j], Event.ticker) /\ j \notin todo => j < k
    BY <1>1, <1>4, Zenon DEF IsNext, CallsInv, TodoInv
  <2>3. Event.type # "OrderResponse"
    BY <2>1, Zenon DEF IsMarket
  <2>4. \A j \in DOMAIN Strategies : Called(Strategies[j], offset) <=> Tracks(Strategies[j], Event.ticker)
    BY <2>1, <2>3, Zenon DEF Called, Event
  <2>5. \A n \in Matching(filter) : n \in Nat
    BY <2>1, MatchingIs, Zenon
  <2>6. offset < handled /\ \A n \in Matching(filter) : n < handled => n < offset \/ n = offset
    BY <2>1, <2>5
  <2>7. \A j \in DOMAIN Strategies : \A n \in Matching(filter) :
          Made(j, n)' <=> Made(j, n) \/ (n = offset /\ j = i)
    <3>1. Called(Strategies[i], offset)
      BY <2>2, <2>4, Zenon
    <3> QED
      BY <1>1, <1>2, <1>4, <2>2, <2>6, <3>1, Zenon DEF Made
  <2>8. \A d : d \in MadeCalls' <=> d \in MadeCalls \/ d = CallOf(i, offset)
    <3>1. ASSUME NEW d \in MadeCalls'
          PROVE  d \in MadeCalls \/ d = CallOf(i, offset)
      <4>1. \E j \in DOMAIN Strategies, n \in Matching(filter)' : Made(j, n)' /\ d = CallOf(j, n)
        BY <3>1, MadeIs, Zenon
      <4>2. PICK j \in DOMAIN Strategies, n \in Matching(filter) : Made(j, n)' /\ d = CallOf(j, n)
        BY <1>2, <4>1, Zenon
      <4>3. CASE Made(j, n)
        BY <4>2, <4>3, MadeIs, Zenon
      <4>4. CASE n = offset /\ j = i
        BY <4>2, <4>4, Zenon
      <4> QED
        BY <2>7, <4>2, <4>3, <4>4, Zenon
    <3>2. ASSUME NEW d \in MadeCalls
          PROVE  d \in MadeCalls'
      <4>1. PICK j \in DOMAIN Strategies, n \in Matching(filter) : Made(j, n) /\ d = CallOf(j, n)
        BY MadeIs, Zenon
      <4> QED
        BY <1>2, <2>7, <4>1, MadeIs, Zenon
    <3>3. CallOf(i, offset) \in MadeCalls'
      <4>1. PICK n \in Matching(filter) : n = offset
        BY <2>1, Zenon
      <4>2. Made(i, n)'
        BY <2>7, <4>1, Zenon
      <4>3. CallOf(i, n) \in MadeCalls'
        BY <1>2, <4>2, MadeIs, Zenon
      <4> QED
        BY <4>1, <4>3, Zenon
    <3> QED
      BY <3>1, <3>2, <3>3, Zenon
  <2>9. MadeCalls' = MadeCalls \cup {CallOf(i, offset)}
    BY <2>8, Zenon
  <2>10. ASSUME NEW d \in MadeCalls
         PROVE  Precedes(d, CallOf(i, offset))
    <3>1. PICK j \in DOMAIN Strategies, n \in Matching(filter) : Made(j, n) /\ d = CallOf(j, n)
      BY MadeIs, Zenon
    <3>2. /\ d.offset = n /\ CallOf(i, offset).offset = offset
          /\ d.strategy = Strategies[j].id /\ CallOf(i, offset).strategy = Strategies[i].id
      BY <3>1, Zenon DEF CallOf
    <3>3. n < handled /\ Called(Strategies[j], n) /\ (n = offset => j \notin todo)
      BY <1>1, <3>1, Zenon DEF Made
    <3>4. n = offset => j < i
      BY <2>2, <2>4, <3>3, Zenon
    <3> QED
      BY <2>6, <3>2, <3>3, <3>4, Zenon DEF Precedes
  <2>11. CallOf(i, offset) \in Calls
    BY <2>1, OneCallMore, Zenon
  <2>12. Listed(calls', MadeCalls \cup {CallOf(i, offset)})
    BY <1>4, <2>1, <2>10, <2>11, ListedMore, Zenon DEF CallsInv
  <2>13. Listed(calls, MadeCalls)'
    BY <2>9, <2>12, Zenon
  <2>14. TodoInv'
    <3>1. Event' = Event
      BY <1>1, Zenon DEF Event
    <3>2. DOMAIN Strategies \subseteq Nat
      BY DriverAssumption
    <3>3. \A j \in todo \ {i} : i < j
      BY <2>1, <2>2, <3>2
    <3>4. \A j \in DOMAIN Strategies, k \in todo \ {i} :
            Tracks(Strategies[j], Event.ticker) /\ j \notin todo \ {i} => j < k
      BY <2>2, <3>3, Zenon
    <3> QED
      BY <1>4, <2>2, <3>1, <3>4, Zenon DEF TodoInv, Tracks
  <2> QED
    BY <2>13, <2>14, Zenon DEF CallsInv
<1> QED
  BY <1>3, <1>4, Zenon DEF StrategySees, CallOf

\* Every step keeps the calls as the recording says.
LEMMA CallsStep ==
  ASSUME DriverInv, OwnerInv, CallsInv, [Next]_vars
  PROVE  CallsInv'
<1> DEFINE Still == /\ UNCHANGED <<events, filter, driver, handled, calls>>
                    /\ \/ steps = <<>> /\ steps' = <<>>
                       \/ UNCHANGED <<offset, todo>> /\ (steps = <<>> <=> steps' = <<>>)
<1>1. Still => CallsInv'
  BY CallsFrame, Zenon
<1>2. StepTypes /\ AtHand
  BY Zenon DEF DriverInv
<1>3. Fetch => Still
  BY <1>2, Zenon DEF Fetch, storageVars, AtHand
<1>4. EndPage => Still
  BY Zenon DEF EndPage, storageVars, Idle
<1>5. StopNext => Still
  BY <1>2, Zenon DEF StopNext, storageVars, StorageClose, AtHand
<1>6. SinkSees => Still
  <2>1. SinkSees => Tail(steps) = <<"strategies">>
    BY <1>2, FirstStep, Zenon DEF SinkSees
  <2>2. <<"strategies">> # <<>>
    BY Zenon
  <2> QED
    BY <2>1, <2>2, Zenon DEF SinkSees, storageVars
<1>7. \A t \in Orders : StrategySubmits(t) => Still
  BY Zenon DEF StrategySubmits, storageVars
<1>8. StrategyCancels => Still
  BY Zenon DEF StrategyCancels, storageVars, driverVars
<1>9. SinkDelivers => Still
  BY Zenon DEF SinkDelivers, storageVars, driverVars
<1>10. UNCHANGED vars => Still
  BY Zenon DEF vars, storageVars, driverVars
<1> HIDE DEF Still
<1> QED
  BY <1>1, <1>3, <1>4, <1>5, <1>6, <1>7, <1>8, <1>9, <1>10, CallsRecord, CallsTake, CallsSees,
     Zenon DEF Next

\* What the run has seen, once all have seen the event at hand.
LEMMA CallsAreTheRecording ==
  ASSUME DriverInv, CallsInv
  PROVE  StrategiesSeeTheRecording
<1> SUFFICES ASSUME steps = <<>> PROVE StrategiesSeeTheRecording
  BY Zenon DEF StrategiesSeeTheRecording
<1>1. PICK upto : upto = IF phase \in {"page", "fetch"} THEN handled ELSE horizon
  BY Zenon
<1>2. PICK seen : seen = {at \in Matching(filter) : at < upto}
  BY Zenon
<1>3. \A at \in Matching(filter) : at < upto <=> at < handled
  <2>1. CASE phase \in {"page", "fetch"}
    BY <1>1, <2>1, Zenon
  <2>2. CASE phase \notin {"page", "fetch"}
    <3>1. /\ Complete(horizon, handled, Matching(filter), Len(events)) /\ horizon \in Nat
          /\ handled \in Nat /\ events \in Seq(Recordable)
      BY <2>2, Zenon DEF DriverInv, PageInv, StepTypes, PageTypes
    <3>2. \A at \in Matching(filter) : at \in Nat
      BY <3>1, MatchingIs, Zenon
    <3>3. handled <= horizon /\ \A at \in Matching(filter) : at < handled \/ horizon <= at
      BY <3>1, Zenon DEF Complete
    <3>4. upto = horizon
      BY <1>1, <2>2, Zenon
    <3> QED
      BY <3>1, <3>2, <3>3, <3>4
  <2> QED
    BY <2>1, <2>2, Zenon
<1>4. \A i, at : Made(i, at) <=> at < handled /\ Called(Strategies[i], at)
  BY Zenon DEF Made
<1>5. PICK said : said = UNION {{[strategy |-> Strategies[i].id, offset |-> at] :
                                   i \in {j \in DOMAIN Strategies : Called(Strategies[j], at)}} :
                                 at \in seen}
  BY Zenon
<1>6. \A c : c \in said <=>
        \E at \in seen : \E i \in DOMAIN Strategies : Called(Strategies[i], at) /\ c = CallOf(i, at)
  <2>1. \A c : c \in said <=>
          \E at \in seen : c \in {[strategy |-> Strategies[i].id, offset |-> at] :
                                   i \in {j \in DOMAIN Strategies : Called(Strategies[j], at)}}
    BY <1>5, Zenon
  <2>2. \A c, at : c \in {[strategy |-> Strategies[i].id, offset |-> at] :
                             i \in {j \in DOMAIN Strategies : Called(Strategies[j], at)}}
                    <=> \E i \in DOMAIN Strategies : Called(Strategies[i], at) /\ c = CallOf(i, at)
    BY Zenon DEF CallOf
  <2> QED
    BY <2>1, <2>2, Zenon
<1>7. \A c : c \in MadeCalls <=> c \in said
  BY <1>2, <1>3, <1>4, <1>6, MadeIs, ZenonT(40)
<1>8. MadeCalls = said
  BY <1>7, Zenon
<1>9. /\ RangeOf(calls) = said
      /\ \A k, l \in DOMAIN calls : k < l => Precedes(calls[k], calls[l])
  BY <1>8, Zenon DEF CallsInv, Listed
<1> QED
  BY <1>1, <1>2, <1>5, <1>9, Zenon DEF StrategiesSeeTheRecording

\* However the storage grows between two pages, a run calls the strategies for
\* every event that matches its request, each once and in order; a replayed
\* response goes to the strategy that last submitted its order.
THEOREM RunsFollowTheRecording == Spec => []StrategiesSeeTheRecording
<1>1. Init => OwnerInv /\ CallsInv
  <2> SUFFICES ASSUME Init PROVE OwnerInv /\ CallsInv
    BY Zenon
  <2>1. /\ events = <<>> /\ order_to_strategy = <<>> /\ calls = <<>> /\ steps = <<>>
    BY Zenon DEF Init, StorageInit
  <2>2. Matching(filter) = {} /\ DOMAIN <<>> = {}
    BY <2>1 DEF Matching
  <2>3. OwnerInv
    BY <2>1, <2>2, Zenon DEF OwnerInv, Owners, Met
  <2>4. \A c : c \notin MadeCalls
    BY <2>2, MadeIs, Zenon
  <2>5. RangeOf(<<>>) = {} /\ MadeCalls = {}
    BY <2>2, <2>4, Zenon DEF RangeOf
  <2>6. Listed(<<>>, {})
    BY <2>2, <2>5, Zenon DEF Listed
  <2> QED
    BY <2>1, <2>3, <2>5, <2>6, Zenon DEF CallsInv, TodoInv
<1>2. BacktestInv /\ OwnerInv /\ CallsInv /\ [Next]_vars => OwnerInv' /\ CallsInv'
  BY OwnerStep, CallsStep, Zenon DEF BacktestInv
<1>3. BacktestInv /\ CallsInv => StrategiesSeeTheRecording
  BY CallsAreTheRecording, Zenon DEF BacktestInv
<1> QED
  BY <1>1, <1>2, <1>3, BacktestInvariance, PTL DEF Spec
=============================================================================

---------------------------- MODULE EdgeProofs -----------------------------
(***************************************************************************)
(* The edges of the platform: the books that quotes are taken from         *)
(* (MultiExchangeOrderBook), the connection that orders go out on          *)
(* (WebSocketClient) and the server that other processes ask               *)
(* (UnixDomainServer).  The three share no state: each has its theorems    *)
(* here, for any number of exchanges, threads and clients.                 *)
(***************************************************************************)
EXTENDS MultiExchangeOrderBook, FiniteSetTheorems, WellFoundedInduction, TLAPS

-----------------------------------------------------------------------------
(* Numbers *)

\* A set of natural numbers has a least one.
LEMMA Least ==
  ASSUME NEW T \in SUBSET Nat, T # {}
  PROVE  \E x \in T : \A y \in T : x <= y
<1> DEFINE R == {ss \in Nat \X Nat : ss[1] < ss[2]}
<1>1. IsWellFoundedOn(R, Nat)
  BY NatLessThanWellFounded, Zenon DEF OpToRel
<1>2. \A x, y \in T : <<y, x>> \notin R => x <= y
  OBVIOUS
<1> HIDE DEF R
<1>3. \E x \in T : \A y \in T : ~(<<y, x>> \in R)
  BY <1>1, WFMin, Zenon
<1> QED
  BY <1>2, <1>3, Zenon

\* Induction: what holds of 0 and of each number after one it holds of.
LEMMA Upwards ==
  ASSUME NEW n \in Nat, NEW S, 0 \in S, \A k \in 0..(n - 1) : k \in S => k + 1 \in S
  PROVE  \A k \in 0..n : k \in S
<1> SUFFICES ASSUME NEW j \in 0..n, j \notin S PROVE FALSE
  BY Zenon
<1> DEFINE T == {k \in 0..n : k \notin S}
<1>1. T \in SUBSET Nat /\ T # {}
  OBVIOUS
<1>2. PICK x \in T : \A y \in T : x <= y
  <2> HIDE DEF T
  <2> QED
    BY <1>1, Least, Zenon
<1>3. x \in 0..n /\ x # 0 /\ x \notin S
  BY Zenon
<1>4. x - 1 \in 0..(n - 1) /\ x - 1 \in 0..n /\ (x - 1) + 1 = x /\ ~(x <= x - 1)
  BY <1>3
<1>5. x - 1 \in S
  BY <1>2, <1>4, Zenon
<1> QED
  BY <1>3, <1>4, <1>5, Zenon

\* The largest and the smallest element of a set are the ones so called.
LEMMA MaxMinAre ==
  ASSUME NEW T \in SUBSET Nat, NEW m \in T
  PROVE  /\ (\A x \in T : x <= m) => Max(T) = m
         /\ (\A x \in T : m <= x) => Min(T) = m
<1>1. ASSUME \A x \in T : x <= m PROVE Max(T) = m
  <2>1. PICK y : y = CHOOSE x \in T : \A z \in T : x >= z
    BY Zenon
  <2>2. \A z \in T : m >= z
    BY <1>1, Zenon
  <2>3. y \in T /\ \A z \in T : y >= z
    BY <2>1, <2>2, Zenon
  <2>4. y <= m /\ y >= m
    BY <1>1, <2>3, Zenon
  <2>5. y = m
    BY <2>3, <2>4
  <2> QED
    BY <2>1, <2>5, Zenon DEF Max
<1>2. ASSUME \A x \in T : m <= x PROVE Min(T) = m
  <2>1. PICK y : y = CHOOSE x \in T : \A z \in T : x =< z
    BY Zenon
  <2>2. \A z \in T : m =< z
    BY <1>2, Zenon
  <2>3. y \in T /\ \A z \in T : y =< z
    BY <2>1, <2>2, Zenon
  <2>4. m <= y /\ y =< m
    BY <1>2, <2>3, Zenon
  <2>5. y = m
    BY <2>3, <2>4
  <2> QED
    BY <2>1, <2>5, Zenon DEF Min
<1> QED
  BY <1>1, <1>2, Zenon

\* A side of a book that has a level has a best one.
LEMMA BestPrices ==
  ASSUME NEW T \in SUBSET Prices, T # {}
  PROVE  Max(T) \in T /\ Min(T) \in T
<1>1. T \in SUBSET Nat
  BY BookAssumption, Zenon
<1>2. PICK lo \in T : \A y \in T : lo <= y
  BY <1>1, Least, Zenon
<1>3. PICK top \in Prices : \A p \in Prices : p <= top
  BY BookAssumption, Zenon
<1> DEFINE D == {top - p : p \in T}
<1>4. D \in SUBSET Nat /\ D # {}
  <2>1. \A p \in T : top - p \in Nat
    BY <1>1, <1>3, BookAssumption
  <2> QED
    BY <2>1, Zenon
<1>5. PICK d \in D : \A y \in D : d <= y
  <2> HIDE DEF D
  <2> QED
    BY <1>4, Least, Zenon
<1>6. PICK hi \in T : d = top - hi
  BY Zenon
<1>7. \A p \in T : p <= hi
  <2> SUFFICES ASSUME NEW p \in T PROVE p <= hi
    BY Zenon
  <2>1. top - hi <= top - p
    BY <1>5, <1>6, Zenon
  <2> QED
    BY <1>1, <1>3, <2>1, BookAssumption
<1>8. Max(T) = hi
  BY <1>1, <1>7, MaxMinAre, Zenon
<1>9. Min(T) = lo
  BY <1>1, <1>2, MaxMinAre, Zenon
<1> QED
  BY <1>8, <1>9, Zenon

-----------------------------------------------------------------------------
(* The books *)

Side == [Prices -> Quantities]
Level == [price : Prices \cup {0}, quantity : Quantities]

\* upsert keeps a side of a book.
LEMMA UpsertedType ==
  ASSUME NEW side \in Side, NEW level \in Level
  PROVE  Upserted(side, level) \in Side
  BY Zenon DEF Side, Level, Upserted

\* The states of a side between the levels of an update.
Passes(f, side, levels, m) ==
  f[0] = side /\ \A n \in 1..m : f[n] = Upserted(f[n - 1], levels[n])

\* An update leaves a side of a book.
LEMMA AppliedType ==
  ASSUME NEW side \in Side, NEW levels \in Seq(Level)
  PROVE  Applied(side, levels) \in Side
<1> PICK m \in Nat : m = Len(levels)
  OBVIOUS
<1>1. \A n \in 1..m : levels[n] \in Level
  OBVIOUS
<1> DEFINE S == {k \in 0..m : \E f \in [0..k -> Side] : Passes(f, side, levels, k)}
<1>2. 0 \in S
  <2>1. [k \in 0..0 |-> side] \in [0..0 -> Side] /\ Passes([k \in 0..0 |-> side], side, levels, 0)
    BY DEF Passes
  <2> QED
    BY <2>1
<1>3. ASSUME NEW k \in 0..(m - 1), k \in S PROVE k + 1 \in S
  <2>1. PICK f \in [0..k -> Side] : Passes(f, side, levels, k)
    BY <1>3, Zenon
  <2>2. PICK x \in Side : x = Upserted(f[k], levels[k + 1])
    BY <1>1, <2>1, UpsertedType
  <2>3. PICK g : g = [n \in 0..(k + 1) |-> IF n = k + 1 THEN x ELSE f[n]]
    BY Zenon
  <2>4. /\ g \in [0..(k + 1) -> Side] /\ g[0] = side /\ g[k + 1] = x
        /\ \A n \in 0..k : g[n] = f[n]
    BY <2>1, <2>3 DEF Passes
  <2>5. ASSUME NEW n \in 1..(k + 1) PROVE g[n] = Upserted(g[n - 1], levels[n])
    <3>1. n - 1 \in 0..k /\ g[n - 1] = f[n - 1]
      BY <2>4
    <3>2. CASE n = k + 1
      BY <2>2, <2>4, <3>1, <3>2
    <3>3. CASE n # k + 1
      BY <2>1, <2>4, <3>1, <3>3 DEF Passes
    <3> QED
      BY <3>2, <3>3, Zenon
  <2>6. Passes(g, side, levels, k + 1) /\ k + 1 \in 0..m
    BY <2>4, <2>5 DEF Passes
  <2> QED
    BY <2>4, <2>6, Zenon
<1>4. \A k \in 0..m : k \in S
  <2> HIDE DEF S
  <2> QED
    BY <1>2, <1>3, Upwards, Zenon
<1>5. PICK g \in [0..m -> Side] : Passes(g, side, levels, m)
  BY <1>4
<1> DEFINE Is(f) == f = [n \in 0..m |-> IF n = 0 THEN side ELSE Upserted(f[n - 1], levels[n])]
<1>6. Is(g)
  BY <1>5 DEF Passes
<1>7. PICK f : f = CHOOSE h : Is(h)
  BY Zenon
<1>8. Is(f)
  BY <1>6, <1>7, Zenon
<1>9. Applied(side, levels) = f[m]
  BY <1>7, Zenon DEF Applied
<1>10. \A n \in 0..m : f[n] \in Side
  <2> DEFINE F == {n \in 0..m : f[n] \in Side}
  <2>1. 0 \in F
    BY <1>8
  <2>2. ASSUME NEW k \in 0..(m - 1), k \in F PROVE k + 1 \in F
    <3>1. k + 1 \in 0..m /\ f[k + 1] = Upserted(f[k], levels[k + 1])
      BY <1>8
    <3> QED
      BY <1>1, <2>2, <3>1, UpsertedType
  <2>3. \A k \in 0..m : k \in F
    <3> HIDE DEF F
    <3> QED
      BY <2>1, <2>2, Upwards, Zenon
  <2> QED
    BY <2>3, Zenon
<1> QED
  BY <1>9, <1>10

\* best_quote of a book is nothing, or a quote with sizes that go with its prices.
LEMMA QuoteType ==
  ASSUME NEW b \in Side, NEW a \in Side, NEW ts \in Nat
  PROVE  /\ BestQuote(b, a, ts) \in QuoteUpdate \cup {None}
         /\ BestQuote(b, a, ts) = None <=> PricesOf(b) = {} \/ PricesOf(a) = {}
         /\ \A e : Shows(e, BestQuote(b, a, ts)) = Shows(e, BestQuote(b, a, 0))
<1>1. CASE PricesOf(b) = {} \/ PricesOf(a) = {}
  <2>1. BestQuote(b, a, ts) = None /\ BestQuote(b, a, 0) = None
    BY <1>1, Zenon DEF BestQuote
  <2> QED
    BY <1>1, <2>1, Zenon
<1>2. CASE ~(PricesOf(b) = {} \/ PricesOf(a) = {})
  <2>1. PricesOf(b) \in SUBSET Prices /\ PricesOf(a) \in SUBSET Prices
    BY Zenon DEF PricesOf
  <2>2. PICK bid, ask : bid = Max(PricesOf(b)) /\ ask = Min(PricesOf(a))
    BY Zenon
  <2>3. bid \in Prices /\ ask \in Prices
    BY <1>2, <2>1, <2>2, BestPrices, Zenon
  <2>4. ASSUME NEW t \in Nat
        PROVE  LET q == [bid_price |-> bid, bid_size |-> b[bid],
                         ask_price |-> ask, ask_size |-> a[ask], timestamp |-> t]
               IN BestQuote(b, a, t) = q /\ q \in QuoteUpdate /\ q # None
    <3>1. BestQuote(b, a, t) = [bid_price |-> bid, bid_size |-> b[bid],
                                ask_price |-> ask, ask_size |-> a[ask], timestamp |-> t]
      BY <1>2, <2>2, Zenon DEF BestQuote
    <3>2. b[bid] \in Quantities /\ a[ask] \in Quantities
      BY <2>3, Zenon DEF Side
    <3>3. [bid_price |-> bid, bid_size |-> b[bid],
           ask_price |-> ask, ask_size |-> a[ask], timestamp |-> t] \in QuoteUpdate
      BY <2>3, <3>2, Zenon DEF QuoteUpdate
    <3> QED
      BY <3>1, <3>3, BookAssumption, Zenon
  <2>5. \A e : Shows(e, BestQuote(b, a, ts)) = Shows(e, BestQuote(b, a, 0))
    <3>1. PICK q : q = BestQuote(b, a, ts)
      BY Zenon
    <3>2. PICK r : r = BestQuote(b, a, 0)
      BY Zenon
    <3>3. /\ q # None /\ q.bid_price = bid /\ q.bid_size = b[bid]
          /\ q.ask_price = ask /\ q.ask_size = a[ask]
      <4>1. 0 \in Nat
        BY Zenon
      <4>2. /\ q # None
            /\ q = [bid_price |-> bid, bid_size |-> b[bid],
                   ask_price |-> ask, ask_size |-> a[ask], timestamp |-> ts]
        BY <2>4, <3>1, <4>1, Zenon
      <4> QED
        BY <4>2, Zenon
    <3>4. /\ r # None /\ r.bid_price = bid /\ r.bid_size = b[bid]
          /\ r.ask_price = ask /\ r.ask_size = a[ask]
      <4>1. 0 \in Nat
        BY Zenon
      <4>2. /\ r # None
            /\ r = [bid_price |-> bid, bid_size |-> b[bid],
                   ask_price |-> ask, ask_size |-> a[ask], timestamp |-> 0]
        BY <2>4, <3>2, <4>1, Zenon
      <4> QED
        BY <4>2, Zenon
    <3> QED
      BY <3>1, <3>2, <3>3, <3>4, Zenon DEF Shows
  <2> QED
    BY <1>2, <2>4, <2>5, Zenon
<1> QED
  BY <1>1, <1>2, Zenon

\* What the books are made of.  A book that is not in the index is empty.
BookTypes ==
  /\ index \in Seq(Exchanges)
  /\ bids \in [Exchanges -> Side] /\ asks \in [Exchanges -> Side]
  /\ timestamp \in [Exchanges -> Nat] /\ updates \in Nat
  /\ reader_pc \in {"idle", "scanning", "returns"} /\ position \in Nat \ {0}
  /\ best \in ConsolidatedQuote \cup {None}
  /\ \A e \in Exchanges : ~HasBook(e) => PricesOf(bids[e]) = {}

\* Each book has a quote or none.
LEMMA QuoteOfType ==
  ASSUME BookTypes, NEW e \in Exchanges
  PROVE  /\ QuoteOf(e) \in QuoteUpdate \cup {None}
         /\ ~HasBook(e) => QuoteOf(e) = None
<1>1. bids[e] \in Side /\ asks[e] \in Side /\ timestamp[e] \in Nat
  BY Zenon DEF BookTypes
<1>2. ~HasBook(e) => PricesOf(bids[e]) = {}
  BY Zenon DEF BookTypes
<1> QED
  BY <1>1, <1>2, QuoteType, Zenon DEF QuoteOf

\* The result with one more quote is a consolidated quote, each side with the
\* price, size and exchange of the old one or of the new.
LEMMA ResultType ==
  ASSUME NEW e \in Exchanges, NEW quote \in QuoteUpdate
  PROVE  /\ FirstOf(quote, e) \in ConsolidatedQuote
         /\ \A sofar \in ConsolidatedQuote : Coalesced(sofar, quote, e) \in ConsolidatedQuote
<1>1. FirstOf(quote, e) \in ConsolidatedQuote
  BY Zenon DEF FirstOf, QuoteUpdate, ConsolidatedQuote
<1>2. ASSUME NEW sofar \in ConsolidatedQuote PROVE Coalesced(sofar, quote, e) \in ConsolidatedQuote
  <2>1. sofar.timestamp \in Nat /\ quote.timestamp \in Nat
    BY Zenon DEF QuoteUpdate, ConsolidatedQuote
  <2>2. Max({sofar.timestamp, quote.timestamp}) \in Nat
    <3>1. CASE sofar.timestamp <= quote.timestamp
      BY <2>1, <3>1, MaxMinAre
    <3>2. CASE quote.timestamp <= sofar.timestamp
      BY <2>1, <3>2, MaxMinAre
    <3> QED
      BY <2>1, <3>1, <3>2
  <2>3. PICK ts \in Nat : ts = Max({sofar.timestamp, quote.timestamp})
    BY <2>2, Zenon
  <2>4. PICK bid, ask : bid = Improves(quote, sofar).bid /\ ask = Improves(quote, sofar).ask
    BY Zenon
  <2>5. Coalesced(sofar, quote, e) =
          [bid_price    |-> IF bid THEN quote.bid_price ELSE sofar.bid_price,
           bid_size     |-> IF bid THEN quote.bid_size ELSE sofar.bid_size,
           bid_exchange |-> IF bid THEN e ELSE sofar.bid_exchange,
           ask_price    |-> IF ask THEN quote.ask_price ELSE sofar.ask_price,
           ask_size     |-> IF ask THEN quote.ask_size ELSE sofar.ask_size,
           ask_exchange |-> IF ask THEN e ELSE sofar.ask_exchange,
           timestamp    |-> ts]
    BY <2>3, <2>4, Zenon DEF Coalesced, Size
  <2> QED
    BY <2>5 DEF QuoteUpdate, ConsolidatedQuote
<1> QED
  BY <1>1, <1>2

\* A side of a consolidated quote is that of another one, or of a book's.
SameBid(c, x, e) == c.bid_price = x.bid_price /\ c.bid_size = x.bid_size /\ c.bid_exchange = e
SameAsk(c, x, e) == c.ask_price = x.ask_price /\ c.ask_size = x.ask_size /\ c.ask_exchange = e

\* c is the result so far with every better side of a quote, and the later timestamp.
Takes(c, sofar, quote, e) ==
  /\ quote.bid_price > sofar.bid_price => SameBid(c, quote, e)
  /\ ~(quote.bid_price > sofar.bid_price) => SameBid(c, sofar, sofar.bid_exchange)
  /\ quote.ask_price < sofar.ask_price => SameAsk(c, quote, e)
  /\ ~(quote.ask_price < sofar.ask_price) => SameAsk(c, sofar, sofar.ask_exchange)
  /\ c.timestamp = IF sofar.timestamp <= quote.timestamp THEN quote.timestamp
                   ELSE sofar.timestamp

\* Coalesced changes exactly that.
LEMMA CoalescedTakes ==
  ASSUME NEW e \in Exchanges, NEW quote \in QuoteUpdate, NEW sofar \in ConsolidatedQuote
  PROVE  Takes(Coalesced(sofar, quote, e), sofar, quote, e)
<1> PICK c : c = Coalesced(sofar, quote, e)
  BY Zenon
<1>1. sofar.timestamp \in Nat /\ quote.timestamp \in Nat
  BY Zenon DEF QuoteUpdate, ConsolidatedQuote
<1>2. Max({sofar.timestamp, quote.timestamp}) =
        IF sofar.timestamp <= quote.timestamp THEN quote.timestamp ELSE sofar.timestamp
  <2>1. CASE sofar.timestamp <= quote.timestamp
    BY <1>1, <2>1, MaxMinAre
  <2>2. CASE ~(sofar.timestamp <= quote.timestamp)
    BY <1>1, <2>2, MaxMinAre
  <2> QED
    BY <1>1, <2>1, <2>2
<1>3. PICK ts : ts = Max({sofar.timestamp, quote.timestamp})
  BY Zenon
<1>4. PICK bid, ask : /\ bid = (quote.bid_price > sofar.bid_price)
                      /\ ask = (quote.ask_price < sofar.ask_price)
  BY Zenon
<1>5. Improves(quote, sofar).bid = bid /\ Improves(quote, sofar).ask = ask
  BY <1>4, Zenon DEF Improves
<1>6. c = [bid_price    |-> IF bid THEN quote.bid_price ELSE sofar.bid_price,
           bid_size     |-> IF bid THEN quote.bid_size ELSE sofar.bid_size,
           bid_exchange |-> IF bid THEN e ELSE sofar.bid_exchange,
           ask_price    |-> IF ask THEN quote.ask_price ELSE sofar.ask_price,
           ask_size     |-> IF ask THEN quote.ask_size ELSE sofar.ask_size,
           ask_exchange |-> IF ask THEN e ELSE sofar.ask_exchange,
           timestamp    |-> ts]
  BY <1>3, <1>5, Zenon DEF Coalesced, Size
<1>7. /\ c.bid_price = IF bid THEN quote.bid_price ELSE sofar.bid_price
      /\ c.bid_size = IF bid THEN quote.bid_size ELSE sofar.bid_size
      /\ c.bid_exchange = IF bid THEN e ELSE sofar.bid_exchange
      /\ c.ask_price = IF ask THEN quote.ask_price ELSE sofar.ask_price
      /\ c.ask_size = IF ask THEN quote.ask_size ELSE sofar.ask_size
      /\ c.ask_exchange = IF ask THEN e ELSE sofar.ask_exchange
      /\ c.timestamp = ts
  BY <1>6
<1> QED
  BY <1>2, <1>3, <1>4, <1>7, Zenon DEF Takes, SameBid, SameAsk

\* c is the best of the quotes q of the exchanges E, and None if they have none.
Covers(c, E, q) ==
  LET quoted == {e \in E : q[e] # None}
  IN IF quoted = {} THEN c = None
     ELSE /\ c \in ConsolidatedQuote
          /\ \E e \in quoted : c.bid_price = q[e].bid_price
          /\ \E e \in quoted : c.ask_price = q[e].ask_price
          /\ \E e \in quoted : c.timestamp = q[e].timestamp
          /\ \A e \in quoted : /\ q[e].bid_price <= c.bid_price
                               /\ c.ask_price <= q[e].ask_price
                               /\ q[e].timestamp <= c.timestamp

\* A book that has no quote adds nothing.
LEMMA CoversNone ==
  ASSUME NEW c, NEW E, NEW q, NEW e, q[e] = None, Covers(c, E, q)
  PROVE  Covers(c, E \cup {e}, q)
<1>1. {x \in E \cup {e} : q[x] # None} = {x \in E : q[x] # None}
  BY Zenon
<1> QED
  BY <1>1, Zenon DEF Covers

\* The first quote is the best of those so far.
LEMMA CoversFirst ==
  ASSUME NEW E, NEW q, NEW e \in Exchanges, q[e] \in QuoteUpdate, q[e] # None, Covers(None, E, q),
         NEW c, c = FirstOf(q[e], e)
  PROVE  Covers(c, E \cup {e}, q)
<1>1. \A x \in E : q[x] = None
  BY BookAssumption, Zenon DEF Covers
<1>2. {x \in E \cup {e} : q[x] # None} = {e}
  BY <1>1, Zenon
<1>3. c \in ConsolidatedQuote
  BY ResultType, Zenon
<1>4. PICK r : r = q[e]
  BY Zenon
<1>5. r.bid_price \in Nat /\ r.ask_price \in Nat /\ r.timestamp \in Nat
  BY <1>4, BookAssumption, ZenonT(30) DEF QuoteUpdate
<1>6. c.bid_price = r.bid_price /\ c.ask_price = r.ask_price /\ c.timestamp = r.timestamp
  BY <1>4, Zenon DEF FirstOf
<1>7. r.bid_price <= c.bid_price /\ c.ask_price <= r.ask_price /\ r.timestamp <= c.timestamp
  BY <1>5, <1>6
<1> QED
  BY <1>2, <1>3, <1>4, <1>6, <1>7, Zenon DEF Covers

\* A further quote makes the result the best of one more.
LEMMA CoversMore ==
  ASSUME NEW E \in SUBSET Exchanges, NEW q \in [Exchanges -> QuoteUpdate \cup {None}],
         NEW e \in Exchanges, q[e] # None,
         NEW sofar, sofar # None, Covers(sofar, E, q),
         NEW c, c = Coalesced(sofar, q[e], e)
  PROVE  Covers(c, E \cup {e}, q)
<1> PICK quoted : quoted = {x \in E : q[x] # None}
  BY Zenon
<1> PICK r \in QuoteUpdate : r = q[e]
  BY Zenon
<1>1. /\ sofar \in ConsolidatedQuote
      /\ \E x \in quoted : sofar.bid_price = q[x].bid_price
      /\ \E x \in quoted : sofar.ask_price = q[x].ask_price
      /\ \E x \in quoted : sofar.timestamp = q[x].timestamp
      /\ \A x \in quoted : /\ q[x].bid_price <= sofar.bid_price
                           /\ sofar.ask_price <= q[x].ask_price
                           /\ q[x].timestamp <= sofar.timestamp
  BY Zenon DEF Covers
<1>2. {x \in E \cup {e} : q[x] # None} = quoted \cup {e}
  BY Zenon
<1>3. c \in ConsolidatedQuote
  BY <1>1, ResultType, Zenon
<1>4. /\ r.bid_price \in Nat /\ r.ask_price \in Nat /\ r.timestamp \in Nat
      /\ sofar.bid_price \in Nat /\ sofar.ask_price \in Nat /\ sofar.timestamp \in Nat
  BY <1>1, BookAssumption, ZenonT(30) DEF QuoteUpdate, ConsolidatedQuote
<1>5. \A x \in quoted : q[x].bid_price \in Nat /\ q[x].ask_price \in Nat /\ q[x].timestamp \in Nat
  BY BookAssumption, ZenonT(30) DEF QuoteUpdate
<1>6. PICK bp, ap, ts : bp = c.bid_price /\ ap = c.ask_price /\ ts = c.timestamp
  BY Zenon
<1>7. /\ bp = IF r.bid_price > sofar.bid_price THEN r.bid_price ELSE sofar.bid_price
      /\ ap = IF r.ask_price < sofar.ask_price THEN r.ask_price ELSE sofar.ask_price
      /\ ts = IF sofar.timestamp <= r.timestamp THEN r.timestamp ELSE sofar.timestamp
  <2>1. Takes(c, sofar, r, e)
    BY <1>1, CoalescedTakes, Zenon
  <2> QED
    BY <1>6, <2>1, Zenon DEF Takes, SameBid, SameAsk
<1>8. /\ r.bid_price <= bp /\ sofar.bid_price <= bp
      /\ ap <= r.ask_price /\ ap <= sofar.ask_price
      /\ r.timestamp <= ts /\ sofar.timestamp <= ts
      /\ bp \in Nat /\ ap \in Nat /\ ts \in Nat
  BY <1>4, <1>7
<1>9. \A x \in quoted \cup {e} :
        q[x].bid_price <= bp /\ ap <= q[x].ask_price /\ q[x].timestamp <= ts
  <2>1. ASSUME NEW x \in quoted
        PROVE  q[x].bid_price <= bp /\ ap <= q[x].ask_price /\ q[x].timestamp <= ts
    <3>1. PICK xb, xa, xt : xb = q[x].bid_price /\ xa = q[x].ask_price /\ xt = q[x].timestamp
      BY Zenon
    <3>2. xb \in Nat /\ xa \in Nat /\ xt \in Nat
      BY <1>5, <3>1, Zenon
    <3>3. xb <= sofar.bid_price /\ sofar.ask_price <= xa /\ xt <= sofar.timestamp
      BY <1>1, <3>1, Zenon
    <3>4. xb <= bp /\ ap <= xa /\ xt <= ts
      BY <1>4, <1>8, <3>2, <3>3
    <3> QED
      BY <3>1, <3>4, Zenon
  <2> QED
    BY <1>8, <2>1, Zenon
<1>10. /\ \E x \in quoted \cup {e} : bp = q[x].bid_price
       /\ \E x \in quoted \cup {e} : ap = q[x].ask_price
       /\ \E x \in quoted \cup {e} : ts = q[x].timestamp
  BY <1>1, <1>7, Zenon
<1> QED
  BY <1>2, <1>3, <1>6, <1>9, <1>10, Zenon DEF Covers

-----------------------------------------------------------------------------
(* The consolidated quote *)

\* The quotes of the books, and the exchanges whose books were read so far.
Quoted == [e \in Exchanges |-> QuoteOf(e)]
ReadSoFar == {index[k] : k \in 1..(position - 1)}

\* Inductive: while best_quote scans, no book shows a level that is not in the
\* history, and as long as no book has changed the result is the best of those
\* read; after the scan, of all.
BookInv ==
  /\ BookTypes
  /\ reader_pc = "scanning" => position <= Len(index) + 1
  /\ reader_pc = "scanning" => \A e \in ToSet(index) : Shows(e, QuoteOf(e)) \subseteq shown
  /\ SidesWereShown
  /\ reader_pc = "scanning" /\ ~moved => Covers(best, ReadSoFar, Quoted)
  /\ reader_pc = "returns" /\ ~moved => Covers(best, ToSet(index), Quoted)

\* The exchanges in the index.
LEMMA InIndex ==
  ASSUME BookTypes
  PROVE  /\ Len(index) \in Nat /\ ToSet(index) = {index[k] : k \in 1..Len(index)}
         /\ ToSet(index) \in SUBSET Exchanges
         /\ \A k \in 1..Len(index) : index[k] \in Exchanges
  BY DEF BookTypes, ToSet

\* The quotes are functions of what the books have.
LEMMA SameQuotes ==
  ASSUME UNCHANGED <<bids, asks, timestamp>>
  PROVE  Quoted' = Quoted /\ \A e : QuoteOf(e)' = QuoteOf(e)
  BY Zenon DEF Quoted, QuoteOf

\* book_for adds an empty book, and never during a scan.
LEMMA BookForKeeps ==
  ASSUME BookInv, NEW e \in Exchanges, BookFor(e)
  PROVE  BookInv'
<1>1. /\ reader_pc # "scanning" /\ ~HasBook(e) /\ index' = Append(index, e)
      /\ UNCHANGED <<bids, asks, timestamp, updates, moved, shown, reader_pc, position, best>>
  BY Zenon DEF BookFor, bookVars, readerVars
<1>2. BookTypes /\ index \in Seq(Exchanges)
  BY Zenon DEF BookInv, BookTypes
<1>3. index' \in Seq(Exchanges) /\ ToSet(index') = ToSet(index) \cup {e}
  <2>1. /\ index' \in Seq(Exchanges) /\ Len(index') = Len(index) + 1 /\ Len(index) \in Nat
        /\ index'[Len(index) + 1] = e /\ \A k \in 1..Len(index) : index'[k] = index[k]
    BY <1>1, <1>2
  <2> QED
    BY <1>2, <2>1 DEF ToSet
<1>4. BookTypes'
  <2>1. \A x \in Exchanges : ~HasBook(x)' => PricesOf(bids[x]) = {}
    BY <1>2, <1>3, Zenon DEF BookTypes, HasBook
  <2> QED
    BY <1>1, <1>2, <1>3, <2>1, Zenon DEF BookTypes
<1>5. Quoted[e] = None
  BY <1>1, <1>2, QuoteOfType DEF Quoted
<1>6. Quoted' = Quoted
  BY <1>1, SameQuotes, Zenon
<1>7. ASSUME reader_pc = "returns", ~moved PROVE Covers(best, ToSet(index), Quoted)'
  <2>1. Covers(best, ToSet(index) \cup {e}, Quoted)
    BY <1>5, <1>7, CoversNone, Zenon DEF BookInv
  <2> QED
    BY <1>1, <1>3, <1>6, <2>1, Zenon
<1>8. SidesWereShown'
  BY <1>1, Zenon DEF BookInv, SidesWereShown
<1> QED
  BY <1>1, <1>4, <1>7, <1>8, Zenon DEF BookInv

\* A feed's update moves one book, and shows what it shows then.
LEMMA ApplyKeeps ==
  ASSUME BookInv, NEW e \in Exchanges, NEW b \in Side, NEW a \in Side, NEW update \in Updates,
         Apply(e, b, a, update)
  PROVE  BookInv'
<1>1. PICK bs, as : bs = Applied(b, update.bids) /\ as = Applied(a, update.asks)
  BY Zenon
<1>2. bs \in Side /\ as \in Side
  <2>1. update.bids \in Seq(Level) /\ update.asks \in Seq(Level)
    BY BookAssumption, ZenonT(30) DEF Level
  <2> QED
    BY <1>1, <2>1, AppliedType, Zenon
<1>3. /\ e \in ToSet(index) /\ updates' = updates + 1
      /\ bids' = [bids EXCEPT ![e] = bs] /\ asks' = [asks EXCEPT ![e] = as]
      /\ timestamp' = [timestamp EXCEPT ![e] = updates']
      /\ UNCHANGED <<index, reader_pc, position, best>>
  BY <1>1, Zenon DEF Apply, readerVars
<1>4. BookTypes
  BY Zenon DEF BookInv
<1>5. BookTypes'
  <2>1. /\ bids' \in [Exchanges -> Side] /\ asks' \in [Exchanges -> Side]
        /\ timestamp' \in [Exchanges -> Nat] /\ updates' \in Nat
    <3>1. /\ bids \in [Exchanges -> Side] /\ asks \in [Exchanges -> Side]
          /\ timestamp \in [Exchanges -> Nat] /\ updates \in Nat
      BY <1>4, Zenon DEF BookTypes
    <3>2. updates' \in Nat
      BY <1>3, <3>1
    <3> QED
      BY <1>2, <1>3, <3>1, <3>2, ZenonT(30)
  <2>2. \A x \in Exchanges : ~HasBook(x)' => PricesOf(bids[x])' = {}
    <3> SUFFICES ASSUME NEW x \in Exchanges, x \notin ToSet(index) PROVE PricesOf(bids'[x]) = {}
      BY <1>3, Zenon DEF HasBook, PricesOf
    <3>1. x # e
      BY <1>3
    <3>2. bids'[x] = bids[x]
      BY <1>3, <1>4, <3>1, Zenon DEF BookTypes
    <3> QED
      BY <1>4, <3>2, Zenon DEF BookTypes, HasBook
  <2> QED
    BY <1>3, <1>4, <2>1, <2>2, Zenon DEF BookTypes
<1>6. CASE reader_pc = "idle"
  <2>1. UNCHANGED <<moved, shown>>
    BY <1>6, Zenon DEF Apply
  <2>2. SidesWereShown'
    BY <1>3, <2>1, Zenon DEF BookInv, SidesWereShown
  <2> QED
    BY <1>3, <1>5, <1>6, <2>2, Zenon DEF BookInv
<1>7. CASE reader_pc # "idle"
  <2>1. moved' = TRUE /\ shown' = shown \cup Shows(e, BestQuote(bids'[e], asks'[e], 0))
    BY <1>7, Zenon DEF Apply
  <2>2. SidesWereShown'
    <3>1. SidesWereShown /\ shown \subseteq shown'
      BY <2>1, Zenon DEF BookInv
    <3> QED
      BY <1>3, <3>1, Zenon DEF SidesWereShown
  <2>3. ASSUME reader_pc = "scanning", NEW x \in ToSet(index)
        PROVE  Shows(x, BestQuote(bids'[x], asks'[x], timestamp'[x])) \subseteq shown'
    <3>1. CASE x = e
      <4>1. bids'[e] \in Side /\ asks'[e] \in Side /\ timestamp'[e] \in Nat
        BY <1>5, Zenon DEF BookTypes
      <4>2. PICK b1, a1, t1 : b1 = bids'[e] /\ a1 = asks'[e] /\ t1 = timestamp'[e]
        BY Zenon
      <4>3. Shows(e, BestQuote(b1, a1, t1)) = Shows(e, BestQuote(b1, a1, 0))
        BY <4>1, <4>2, QuoteType
      <4> QED
        BY <2>1, <3>1, <4>2, <4>3, Zenon
    <3>2. CASE x # e
      <4>1. x \in Exchanges
        BY <1>4, <2>3, InIndex, Zenon
      <4>2. bids'[x] = bids[x] /\ asks'[x] = asks[x] /\ timestamp'[x] = timestamp[x]
        BY <1>3, <1>4, <3>2, <4>1, SMTT(30) DEF BookTypes
      <4>3. Shows(x, BestQuote(bids[x], asks[x], timestamp[x])) \subseteq shown
        BY <2>3, Zenon DEF BookInv, QuoteOf
      <4> QED
        BY <2>1, <4>2, <4>3, Zenon
    <3> QED
      BY <3>1, <3>2, Zenon
  <2>4. reader_pc' = "scanning" => \A x \in ToSet(index)' : Shows(x, QuoteOf(x)') \subseteq shown'
    BY <1>3, <2>3, Zenon DEF QuoteOf
  <2>5. reader_pc' = "scanning" => position' <= Len(index') + 1
    BY <1>3, Zenon DEF BookInv
  <2> QED
    BY <1>5, <2>1, <2>2, <2>4, <2>5, Zenon DEF BookInv
<1> QED
  BY <1>6, <1>7, Zenon

\* best_quote reads the next book: what it takes of it is what the book shows.
LEMMA ReadKeeps ==
  ASSUME BookInv, ReadBook
  PROVE  BookInv'
<1>1. PICK k : k = position
  BY Zenon
<1>2. PICK e, quote : e = index[k] /\ quote = QuoteOf(e)
  BY Zenon
<1>3. /\ reader_pc = "scanning" /\ k <= Len(index) /\ position' = k + 1
      /\ best' = IF quote = None THEN best
                 ELSE IF best = None THEN FirstOf(quote, e)
                 ELSE Coalesced(best, quote, e)
      /\ UNCHANGED <<index, bids, asks, timestamp, updates, moved, shown, reader_pc>>
  BY <1>1, <1>2, Zenon DEF ReadBook, bookVars
<1>4. BookTypes
  BY Zenon DEF BookInv
<1>5. k \in 1..Len(index) /\ Len(index) \in Nat
  BY <1>1, <1>3, <1>4, InIndex DEF BookTypes
<1>6. e \in Exchanges /\ e \in ToSet(index) /\ quote \in QuoteUpdate \cup {None}
  BY <1>2, <1>4, <1>5, InIndex, QuoteOfType, Zenon
<1>7. best \in ConsolidatedQuote \cup {None}
  BY <1>4, Zenon DEF BookTypes
<1>8. BookTypes'
  <2>1. best' \in ConsolidatedQuote \cup {None}
    BY <1>3, <1>6, <1>7, ResultType, Zenon
  <2>2. position' \in Nat \ {0}
    BY <1>3, <1>5
  <2> QED
    BY <1>3, <1>4, <2>1, <2>2, Zenon DEF BookTypes, HasBook, PricesOf
<1>9. position' <= Len(index') + 1
  BY <1>3, <1>5
<1>10. Shows(e, quote) \subseteq shown
  BY <1>2, <1>3, <1>6, Zenon DEF BookInv
<1>11. SidesWereShown'
  <2> SUFFICES ASSUME best' # None
               PROVE  /\ <<best'.bid_exchange, "bid", best'.bid_price, best'.bid_size>> \in shown
                      /\ <<best'.ask_exchange, "ask", best'.ask_price, best'.ask_size>> \in shown
    BY <1>3, Zenon DEF SidesWereShown
  <2>1. CASE quote = None
    BY <1>3, <2>1, Zenon DEF BookInv, SidesWereShown
  <2>2. CASE quote # None
    <3>1. /\ <<e, "bid", quote.bid_price, quote.bid_size>> \in shown
          /\ <<e, "ask", quote.ask_price, quote.ask_size>> \in shown
      BY <1>10, <2>2, Zenon DEF Shows
    <3>2. CASE best = None
      <4>1. PICK c : c = FirstOf(quote, e)
        BY Zenon
      <4>2. SameBid(c, quote, e) /\ SameAsk(c, quote, e)
        BY <4>1, Zenon DEF FirstOf, SameBid, SameAsk
      <4> QED
        BY <1>3, <2>2, <3>1, <3>2, <4>1, <4>2, Zenon DEF SameBid, SameAsk
    <3>3. CASE best # None
      <4>1. PICK c, sofar : c = Coalesced(sofar, quote, e) /\ sofar = best
        BY Zenon
      <4>2. Takes(c, sofar, quote, e)
        BY <1>6, <1>7, <2>2, <3>3, <4>1, CoalescedTakes, Zenon
      <4>3. /\ <<sofar.bid_exchange, "bid", sofar.bid_price, sofar.bid_size>> \in shown
            /\ <<sofar.ask_exchange, "ask", sofar.ask_price, sofar.ask_size>> \in shown
        BY <3>3, <4>1, Zenon DEF BookInv, SidesWereShown
      <4>4. /\ SameBid(c, quote, e) \/ SameBid(c, sofar, sofar.bid_exchange)
            /\ SameAsk(c, quote, e) \/ SameAsk(c, sofar, sofar.ask_exchange)
        BY <4>2, Zenon DEF Takes
      <4>5. /\ <<c.bid_exchange, "bid", c.bid_price, c.bid_size>> \in shown
            /\ <<c.ask_exchange, "ask", c.ask_price, c.ask_size>> \in shown
        BY <3>1, <4>3, <4>4, Zenon DEF SameBid, SameAsk
      <4> QED
        BY <1>3, <2>2, <3>3, <4>1, <4>5, Zenon
    <3> QED
      BY <3>2, <3>3
  <2> QED
    BY <2>1, <2>2, Zenon
<1>12. ASSUME ~moved PROVE Covers(best, ReadSoFar, Quoted)'
  <2>1. PICK E, q : E = ReadSoFar /\ q = Quoted
    BY Zenon
  <2>2. Covers(best, E, q)
    BY <1>3, <1>12, <2>1, Zenon DEF BookInv
  <2>3. ReadSoFar' = E \cup {e} /\ Quoted' = q
    <3>1. ReadSoFar' = {index[x] : x \in 1..k}
      <4>1. (k + 1) - 1 = k
        BY <1>5
      <4> QED
        BY <1>3, <4>1, Zenon DEF ReadSoFar
    <3>2. {index[x] : x \in 1..k} = {index[x] : x \in 1..(k - 1)} \cup {e}
      BY <1>2, <1>5
    <3>3. ReadSoFar = {index[x] : x \in 1..(k - 1)}
      BY <1>1, Zenon DEF ReadSoFar
    <3> QED
      BY <1>3, <2>1, <3>1, <3>2, <3>3, SameQuotes, Zenon
  <2>4. E \in SUBSET Exchanges
    <3>1. \A x \in 1..(k - 1) : index[x] \in Exchanges
      BY <1>4, <1>5, InIndex
    <3> QED
      BY <1>1, <2>1, <3>1, Zenon DEF ReadSoFar
  <2>5. q \in [Exchanges -> QuoteUpdate \cup {None}] /\ q[e] = quote
    <3>1. \A x \in Exchanges : QuoteOf(x) \in QuoteUpdate \cup {None}
      BY <1>4, QuoteOfType, Zenon
    <3> QED
      BY <1>2, <1>6, <2>1, <3>1, Zenon DEF Quoted
  <2>6. CASE quote = None
    BY <1>3, <2>2, <2>3, <2>5, <2>6, CoversNone, Zenon
  <2>7. CASE quote # None /\ best = None
    <3>1. PICK c : c = FirstOf(quote, e)
      BY Zenon
    <3>2. Covers(c, E \cup {e}, q)
      BY <1>6, <2>2, <2>5, <2>7, <3>1, CoversFirst, Zenon
    <3> QED
      BY <1>3, <2>3, <2>7, <3>1, <3>2, Zenon
  <2>8. CASE quote # None /\ best # None
    <3>1. PICK c, sofar : c = Coalesced(sofar, quote, e) /\ sofar = best
      BY Zenon
    <3>2. Covers(c, E \cup {e}, q)
      BY <1>6, <2>2, <2>4, <2>5, <2>8, <3>1, CoversMore, Zenon
    <3> QED
      BY <1>3, <2>3, <2>8, <3>1, <3>2, Zenon
  <2> QED
    BY <2>6, <2>7, <2>8
<1>13. \A x \in ToSet(index)' : Shows(x, QuoteOf(x)') \subseteq shown'
  BY <1>3, SameQuotes, Zenon DEF BookInv
<1> QED
  BY <1>3, <1>8, <1>9, <1>11, <1>12, <1>13, Zenon DEF BookInv

\* A call begins with nothing read, ends its scan with all read, and returns.
LEMMA CallKeeps ==
  ASSUME BookInv, CallBestQuote \/ Unlock \/ Return
  PROVE  BookInv'
<1>1. BookTypes
  BY Zenon DEF BookInv
<1>2. UNCHANGED <<index, bids, asks, timestamp, updates>>
  BY Zenon DEF CallBestQuote, Unlock, Return, bookVars
<1>3. Quoted' = Quoted /\ \A e : QuoteOf(e)' = QuoteOf(e)
  BY <1>2, SameQuotes
<1>4. ASSUME best' \in ConsolidatedQuote \cup {None}, position' \in Nat \ {0},
             reader_pc' \in {"idle", "scanning", "returns"}
      PROVE  BookTypes'
  BY <1>1, <1>2, <1>4, Zenon DEF BookTypes, HasBook, PricesOf
<1>5. CASE CallBestQuote
  <2>1. /\ reader_pc' = "scanning" /\ position' = 1 /\ best' = None
        /\ shown' = UNION {Shows(e, QuoteOf(e)) : e \in ToSet(index)}
    BY <1>5, Zenon DEF CallBestQuote
  <2>2. BookTypes'
    BY <1>4, <2>1
  <2>3. position' <= Len(index') + 1
    BY <1>1, <1>2, <2>1, InIndex
  <2>4. \A e \in ToSet(index)' : Shows(e, QuoteOf(e)') \subseteq shown'
    BY <1>2, <1>3, <2>1, Zenon
  <2>5. Covers(best, ReadSoFar, Quoted)'
    <3>1. ReadSoFar' = {}
      BY <2>1 DEF ReadSoFar
    <3> QED
      BY <2>1, <3>1, Zenon DEF Covers
  <2>6. SidesWereShown'
    BY <2>1, Zenon DEF SidesWereShown
  <2>7. reader_pc' # "returns"
    BY <2>1, Zenon
  <2> QED
    BY <2>2, <2>3, <2>4, <2>5, <2>6, <2>7, Zenon DEF BookInv
<1>6. CASE Unlock
  <2>1. /\ reader_pc = "scanning" /\ position > Len(index) /\ reader_pc' = "returns"
        /\ UNCHANGED <<position, best, moved, shown>>
    BY <1>6, Zenon DEF Unlock, bookVars
  <2>2. BookTypes'
    BY <1>1, <1>4, <2>1, ZenonT(30) DEF BookTypes
  <2>3. ReadSoFar = ToSet(index)
    <3>1. position \in Nat \ {0} /\ position <= Len(index) + 1
      BY <1>1, <2>1, Zenon DEF BookTypes, BookInv
    <3>2. position - 1 = Len(index)
      BY <1>1, <2>1, <3>1, InIndex
    <3> QED
      BY <1>1, <3>2, InIndex, Zenon DEF ReadSoFar
  <2>4. ~moved => Covers(best, ToSet(index), Quoted)
    BY <2>1, <2>3, Zenon DEF BookInv
  <2>5. SidesWereShown'
    BY <2>1, Zenon DEF BookInv, SidesWereShown
  <2>6. reader_pc' # "scanning"
    BY <2>1, Zenon
  <2> QED
    BY <1>2, <1>3, <2>1, <2>2, <2>4, <2>5, <2>6, Zenon DEF BookInv
<1>7. CASE Return
  <2>1. reader_pc' = "idle" /\ position' = 1 /\ best' = None
    BY <1>7, Zenon DEF Return
  <2>2. BookTypes'
    BY <1>4, <2>1
  <2>3. SidesWereShown'
    BY <2>1, Zenon DEF SidesWereShown
  <2>4. reader_pc' # "scanning" /\ reader_pc' # "returns"
    BY <2>1, Zenon
  <2> QED
    BY <2>2, <2>3, <2>4, Zenon DEF BookInv
<1> QED
  BY <1>5, <1>6, <1>7, Zenon

\* At the start there is no book, and BookInv holds.
LEMMA BookInvInit == Init => BookInv
<1> SUFFICES ASSUME Init PROVE BookInv
  BY Zenon
<1>1. EmptySide \in Side /\ PricesOf(EmptySide) = {}
  BY BookAssumption DEF EmptySide, Side, PricesOf
<1>2. /\ bids = [e \in Exchanges |-> EmptySide] /\ asks = [e \in Exchanges |-> EmptySide]
      /\ timestamp = [e \in Exchanges |-> 0] /\ updates = 0 /\ index = <<>>
      /\ reader_pc = "idle" /\ position = 1 /\ best = None
  BY Zenon DEF Init
<1>3. /\ bids \in [Exchanges -> Side] /\ asks \in [Exchanges -> Side]
      /\ timestamp \in [Exchanges -> Nat] /\ updates \in Nat /\ position \in Nat \ {0}
      /\ index \in Seq(Exchanges)
  BY <1>1, <1>2
<1>4. \A e \in Exchanges : PricesOf(bids[e]) = {}
  BY <1>1, <1>2, Zenon
<1>5. BookTypes
  BY <1>2, <1>3, <1>4, Zenon DEF BookTypes
<1>6. SidesWereShown
  BY <1>2, Zenon DEF SidesWereShown
<1> QED
  BY <1>2, <1>5, <1>6 DEF BookInv

\* Every step of a feed and of the reader keeps it.
LEMMA BookInvNext == BookInv /\ [Next]_vars => BookInv'
<1> SUFFICES ASSUME BookInv, [Next]_vars PROVE BookInv'
  BY Zenon
<1>1. ASSUME NEW e \in Exchanges, BookFor(e) PROVE BookInv'
  BY <1>1, BookForKeeps, Zenon
<1>2. ASSUME NEW e \in Exchanges, NEW update \in Updates, ApplySnapshot(e, update) PROVE BookInv'
  <2>1. EmptySide \in Side
    BY BookAssumption, Zenon DEF EmptySide, Side
  <2> QED
    BY <1>2, <2>1, ApplyKeeps, Zenon DEF ApplySnapshot
<1>3. ASSUME NEW e \in Exchanges, NEW update \in Updates, ApplyDelta(e, update) PROVE BookInv'
  <2>1. PICK b \in Side, a \in Side : b = bids[e] /\ a = asks[e]
    BY Zenon DEF BookInv, BookTypes
  <2> QED
    BY <1>3, <2>1, ApplyKeeps, Zenon DEF ApplyDelta
<1>4. CASE UNCHANGED vars
  <2>1. UNCHANGED <<index, bids, asks, timestamp, updates, moved, shown, reader_pc, position, best>>
    BY <1>4, Zenon DEF vars, bookVars, readerVars
  <2>2. Quoted' = Quoted /\ \A e : QuoteOf(e)' = QuoteOf(e)
    BY <2>1, SameQuotes, Zenon
  <2>3. BookTypes'
    BY <2>1, Zenon DEF BookInv, BookTypes, HasBook, PricesOf
  <2>4. ReadSoFar' = ReadSoFar /\ SidesWereShown'
    BY <2>1, Zenon DEF BookInv, ReadSoFar, SidesWereShown
  <2> QED
    BY <2>1, <2>2, <2>3, <2>4, Zenon DEF BookInv
<1> QED
  BY <1>1, <1>2, <1>3, <1>4, ReadKeeps, CallKeeps, Zenon DEF Next

\* Whatever the feeds do while the books are scanned, each side of the consolidated
\* quote is a best level, price with its size, that the exchange named with it
\* showed at some moment of the call.
THEOREM SidesAreReal == Spec => []SidesWereShown
<1>1. BookInv => SidesWereShown
  BY Zenon DEF BookInv
<1> QED
  BY <1>1, BookInvInit, BookInvNext, PTL DEF Spec

\* The best of all is what ExactWhenQuiet says of a quiet call.
LEMMA CoversAll == BookInv => ExactWhenQuiet
<1> SUFFICES ASSUME BookInv, reader_pc = "returns", ~moved
             PROVE  LET quotes == {QuoteOf(e) : e \in {x \in ToSet(index) : QuoteOf(x) # None}}
                    IN IF quotes = {} THEN best = None
                       ELSE /\ best # None
                            /\ best.bid_price = Max({q.bid_price : q \in quotes})
                            /\ best.ask_price = Min({q.ask_price : q \in quotes})
                            /\ best.timestamp = Max({q.timestamp : q \in quotes})
  BY Zenon DEF ExactWhenQuiet
<1>1. BookTypes /\ Covers(best, ToSet(index), Quoted)
  BY Zenon DEF BookInv
<1>2. PICK quoted : quoted = {x \in ToSet(index) : QuoteOf(x) # None}
  BY Zenon
<1>3. \A x \in ToSet(index) : x \in Exchanges /\ Quoted[x] = QuoteOf(x)
  BY <1>1, InIndex, Zenon DEF Quoted
<1>4. {x \in ToSet(index) : Quoted[x] # None} = quoted
  BY <1>2, <1>3, Zenon
<1>5. PICK quotes : quotes = {QuoteOf(e) : e \in quoted}
  BY Zenon
<1>6. CASE quoted = {}
  <2>1. best = None
    BY <1>1, <1>4, <1>6, Zenon DEF Covers
  <2>2. quotes = {}
    BY <1>5, <1>6, Zenon
  <2> QED
    BY <1>2, <1>5, <2>1, <2>2, Zenon
<1>7. CASE quoted # {}
  <2>1. /\ best \in ConsolidatedQuote
        /\ \E e \in quoted : best.bid_price = Quoted[e].bid_price
        /\ \E e \in quoted : best.ask_price = Quoted[e].ask_price
        /\ \E e \in quoted : best.timestamp = Quoted[e].timestamp
        /\ \A e \in quoted : /\ Quoted[e].bid_price <= best.bid_price
                             /\ best.ask_price <= Quoted[e].ask_price
                             /\ Quoted[e].timestamp <= best.timestamp
    BY <1>1, <1>4, <1>7, Zenon DEF Covers
  <2>2. \A e \in quoted : Quoted[e] = QuoteOf(e)
    BY <1>2, <1>3, Zenon
  <2>3. PICK bp, ap, ts : bp = best.bid_price /\ ap = best.ask_price /\ ts = best.timestamp
    BY Zenon
  <2>4. /\ \E q \in quotes : bp = q.bid_price
        /\ \E q \in quotes : ap = q.ask_price
        /\ \E q \in quotes : ts = q.timestamp
        /\ \A q \in quotes : q.bid_price <= bp /\ ap <= q.ask_price /\ q.timestamp <= ts
    BY <1>5, <2>1, <2>2, <2>3, Zenon
  <2>5. quotes \in SUBSET QuoteUpdate
    <3>1. \A e \in quoted : QuoteOf(e) \in QuoteUpdate
      BY <1>1, <1>2, <1>3, QuoteOfType, Zenon
    <3> QED
      BY <1>5, <3>1, Zenon
  <2>6. PICK B, A, T : /\ B = {q.bid_price : q \in quotes}
                       /\ A = {q.ask_price : q \in quotes}
                       /\ T = {q.timestamp : q \in quotes}
    BY Zenon
  <2>7. B \in SUBSET Nat /\ A \in SUBSET Nat /\ T \in SUBSET Nat
    <3>1. \A q \in quotes : q.bid_price \in Nat /\ q.ask_price \in Nat /\ q.timestamp \in Nat
      BY <2>5, BookAssumption, ZenonT(30) DEF QuoteUpdate
    <3> QED
      BY <2>6, <3>1, Zenon
  <2>8. bp \in B /\ ap \in A /\ ts \in T
    BY <2>4, <2>6, Zenon
  <2>9. (\A x \in B : x <= bp) /\ (\A x \in A : ap <= x) /\ (\A x \in T : x <= ts)
    BY <2>4, <2>6, Zenon
  <2>10. Max(B) = bp /\ Min(A) = ap /\ Max(T) = ts
    BY <2>7, <2>8, <2>9, MaxMinAre, Zenon
  <2>11. quotes # {} /\ best # None
    BY <2>1, <2>4, BookAssumption, Zenon
  <2> QED
    BY <1>2, <1>5, <2>3, <2>6, <2>10, <2>11, Zenon
<1> QED
  BY <1>6, <1>7, Zenon

\* A call during which no book changed returns the best bid and the best ask of
\* all two-sided books and the latest timestamp, or nullopt if there is none.
THEOREM QuietCallsAreExact == Spec => []ExactWhenQuiet
  BY BookInvInit, BookInvNext, CoversAll, PTL DEF Spec

-----------------------------------------------------------------------------
(* The connection *)

CONSTANTS Senders, IO, MaxReconnectAttempts, MaxOrders, MaxHeartbeats, MaxFailures

VARIABLES
  connected, authenticated, should_reconnect, reconnect_attempts, delay, send_queue, sending,
  stage, todo, reads_on, pc, msg, dead, writes, auth_pending, orders, heartbeats, failures,
  sent_early, write_failed

\* The connection to the exchange.
Client == INSTANCE WebSocketClient

Busy == {t \in Client!Threads : pc[t] \in {"pop", "write"}}

\* Inductive: sending_ is the only right to be in do_send or to have a write under
\* way.  It is passed from a thread to its write and back to the I/O thread, and
\* it is cleared by its holder alone.
SendInv ==
  /\ pc \in [Client!Threads -> {"idle", "push", "try", "pop", "write"}]
  /\ sending \in BOOLEAN
  /\ \A t, u \in Busy : t = u
  /\ \A v, w \in writes : v = w
  /\ Busy = {} \/ writes = {}
  /\ Busy # {} \/ writes # {} => sending

\* A set whose elements are equal has at most one.
LEMMA AtMostOne ==
  ASSUME NEW S, \A x, y \in S : x = y
  PROVE  S = {} \/ \E x : S = {x}
<1>1. CASE S = {}
  BY <1>1, Zenon
<1>2. ASSUME NEW z \in S
      PROVE  S = {z}
  BY Zenon
<1> QED
  BY <1>1, <1>2, Zenon

\* At the start nobody sends.
LEMMA SendInvInit == Client!Init => SendInv
<1> SUFFICES ASSUME Client!Init PROVE SendInv
  BY Zenon
<1>1. pc = [t \in Client!Threads |-> "idle"] /\ writes = {}
  BY Zenon DEF Client!Init
<1>2. Busy = {}
  BY <1>1, Zenon DEF Busy
<1>3. sending \in BOOLEAN
  BY Zenon DEF Client!Init
<1> QED
  BY <1>1, <1>2, <1>3, Zenon DEF SendInv

\* A step that changes none of pc, sending_ and the writes keeps it.
LEMMA SendInvFrame ==
  ASSUME SendInv, UNCHANGED <<pc, sending, writes>>
  PROVE  SendInv'
  BY Zenon DEF SendInv, Busy

\* do_connect aborts a write, which stays under way until its handler has run.
LEMMA SendInvAbort ==
  ASSUME SendInv, UNCHANGED <<pc, sending>>,
         writes' = {[w EXCEPT !.live = FALSE] : w \in writes}
  PROVE  SendInv'
<1>1. Busy' = Busy
  BY Zenon DEF Busy
<1>2. \A v, w \in writes' : v = w
  BY ZenonT(60) DEF SendInv
<1>3. writes = {} <=> writes' = {}
  BY Zenon
<1> QED
  BY <1>1, <1>2, <1>3, Zenon DEF SendInv

\* A thread moves between steps outside do_send.
LEMMA SendInvOutside ==
  ASSUME SendInv, NEW t \in Client!Threads, NEW label \in {"idle", "push", "try"},
         pc[t] \in {"idle", "push", "try"},
         pc' = [pc EXCEPT ![t] = label],
         UNCHANGED writes, sending' \in BOOLEAN, sending => sending'
  PROVE  SendInv'
<1>1. Busy' = Busy
  BY Zenon DEF Busy, SendInv
<1>2. pc' \in [Client!Threads -> {"idle", "push", "try", "pop", "write"}]
  BY Zenon DEF SendInv
<1> QED
  BY <1>1, <1>2, Zenon DEF SendInv

\* The steps of async_send and do_send keep it, in every thread.
LEMMA SendStepKeepsInv ==
  ASSUME SendInv, NEW t \in Client!Threads, Client!SendStep(t)
  PROVE  SendInv'
<1>1. CASE Client!Push(t)
  <2>1. /\ pc[t] = "push" /\ pc' = [pc EXCEPT ![t] = "try"] /\ UNCHANGED <<writes, sending>>
    BY <1>1, Zenon DEF Client!Push
  <2>2. sending' \in BOOLEAN /\ (sending => sending')
    BY <2>1, Zenon DEF SendInv
  <2> QED
    BY <2>1, <2>2, SendInvOutside, ZenonT(60)
<1>2. CASE Client!TryStart(t)
  <2>1. /\ pc[t] = "try" /\ UNCHANGED writes
        /\ pc' = [pc EXCEPT ![t] = IF Client!MaySend THEN "pop" ELSE "idle"]
    BY <1>2, Zenon DEF Client!TryStart
  <2>2. sending' /\ sending' \in BOOLEAN
    BY <1>2, Zenon DEF Client!TryStart
  <2>3. CASE sending
    <3>1. pc' = [pc EXCEPT ![t] = "idle"]
      BY <2>1, <2>3, Zenon DEF Client!MaySend
    <3> QED
      BY <2>1, <2>2, <3>1, SendInvOutside, ZenonT(60)
  <2>4. CASE ~sending
    <3>1. pc' = [pc EXCEPT ![t] = "pop"]
      BY <2>1, <2>4, Zenon DEF Client!MaySend
    <3>2. Busy = {} /\ writes = {}
      BY <2>4, Zenon DEF SendInv
    <3>3. Busy' = {t}
      BY <3>1, <3>2, Zenon DEF Busy, SendInv
    <3>4. pc' \in [Client!Threads -> {"idle", "push", "try", "pop", "write"}]
      BY <3>1, Zenon DEF SendInv
    <3> QED
      BY <2>1, <2>2, <3>2, <3>3, <3>4, SMTT(30) DEF SendInv
  <2> QED
    BY <2>3, <2>4, Zenon
<1>3. CASE Client!Pop(t)
  <2>1. pc[t] = "pop" /\ UNCHANGED writes
    BY <1>3, Zenon DEF Client!Pop
  <2>2. t \in Busy /\ Busy = {t} /\ writes = {} /\ sending
    BY <2>1, Zenon DEF SendInv, Busy
  <2>3. CASE send_queue = <<>>
    <3>1. pc' = [pc EXCEPT ![t] = "idle"]
      BY <1>3, <2>3, Zenon DEF Client!Pop
    <3>2. sending' \in BOOLEAN
      BY <1>3, <2>3, Zenon DEF Client!Pop
    <3>3. Busy' = {}
      BY <2>2, <3>1, Zenon DEF Busy, SendInv
    <3>4. pc' \in [Client!Threads -> {"idle", "push", "try", "pop", "write"}]
      BY <3>1, Zenon DEF SendInv
    <3> QED
      BY <2>1, <2>2, <3>2, <3>3, <3>4, SMTT(30) DEF SendInv
  <2>4. CASE send_queue # <<>>
    <3>1. pc' = [pc EXCEPT ![t] = "write"]
      BY <1>3, <2>4, Zenon DEF Client!Pop
    <3>2. sending' = sending
      BY <1>3, <2>4, Zenon DEF Client!Pop
    <3>3. Busy' = Busy
      BY <2>2, <3>1, Zenon DEF Busy, SendInv
    <3>4. pc' \in [Client!Threads -> {"idle", "push", "try", "pop", "write"}]
      BY <3>1, Zenon DEF SendInv
    <3> QED
      BY <2>1, <2>2, <3>2, <3>3, <3>4, SMTT(30) DEF SendInv
  <2> QED
    BY <2>3, <2>4, Zenon
<1>4. CASE Client!StartWrite(t)
  <2>1. /\ pc[t] = "write" /\ pc' = [pc EXCEPT ![t] = "idle"] /\ UNCHANGED sending
        /\ \E w : writes' = writes \cup {w}
    BY <1>4, ZenonT(60) DEF Client!StartWrite
  <2>2. t \in Busy /\ Busy = {t} /\ writes = {} /\ sending
    BY <2>1, Zenon DEF SendInv, Busy
  <2>3. Busy' = {}
    BY <2>1, <2>2, Zenon DEF Busy, SendInv
  <2>4. pc' \in [Client!Threads -> {"idle", "push", "try", "pop", "write"}]
    BY <2>1, Zenon DEF SendInv
  <2>5. \A v, w \in writes' : v = w
    BY <2>1, <2>2, Zenon
  <2>6. sending' /\ sending' \in BOOLEAN
    BY <2>1, <2>2, Zenon DEF SendInv
  <2> QED
    BY <2>3, <2>4, <2>5, <2>6, SMTT(30) DEF SendInv
<1> QED
  BY <1>1, <1>2, <1>3, <1>4, SMTT(30) DEF Client!SendStep

\* The handlers of a write keep it: the right to send goes to the I/O thread, or
\* is given up.
LEMMA WriteHandlerKeepsInv ==
  ASSUME SendInv, NEW w \in writes, Client!OnWrite(w) \/ Client!OnWriteError(w)
  PROVE  SendInv'
<1>1. Busy = {} /\ writes = {w} /\ sending
  BY Zenon DEF SendInv
<1>2. writes' = {}
  BY <1>1, Zenon DEF Client!OnWrite, Client!OnWriteError
<1>3. CASE Client!OnWrite(w)
  <2>1. pc' = [pc EXCEPT ![IO] = "pop"] /\ UNCHANGED sending
    BY <1>3, Zenon DEF Client!OnWrite, Client!AfterWrite
  <2>2. Busy' = {IO}
    BY <1>1, <2>1, Zenon DEF Busy, SendInv, Client!Threads
  <2>3. pc' \in [Client!Threads -> {"idle", "push", "try", "pop", "write"}]
    BY <2>1, ZenonT(60) DEF SendInv
  <2>4. sending' /\ sending' \in BOOLEAN
    BY <1>1, <2>1, Zenon DEF SendInv
  <2> QED
    BY <1>2, <2>2, <2>3, <2>4, SMTT(30) DEF SendInv
<1>4. CASE Client!OnWriteError(w)
  <2>1. UNCHANGED pc
    BY <1>4, Zenon DEF Client!OnWriteError
  <2>2. sending' \in BOOLEAN
    BY <1>4, Zenon DEF Client!OnWriteError
  <2>3. Busy' = {}
    BY <1>1, <2>1, Zenon DEF Busy
  <2> QED
    BY <1>2, <2>1, <2>2, <2>3, SMTT(30) DEF SendInv
<1> QED
  BY <1>3, <1>4, Zenon

\* Every step of the client keeps the invariant.
LEMMA SendInvNext == SendInv /\ [Client!Next]_(Client!vars) => SendInv'
<1> SUFFICES ASSUME SendInv, [Client!Next]_(Client!vars) PROVE SendInv'
  BY Zenon
<1>1. CASE \/ UNCHANGED Client!vars \/ Client!Close \/ Client!Break
           \/ Client!OnResolve \/ Client!OnConnect \/ Client!OnSslHandshake
           \/ Client!OnHandshake \/ Client!StepFails \/ Client!HandlerReturns \/ Client!OnReadError
           \/ Client!OnHeartbeat \/ Client!OnAuthenticated \/ Client!OnAuthenticationFailed
  <2>1. UNCHANGED <<pc, sending, writes>>
    BY <1>1, Zenon
       DEF Client!vars, Client!sendVars, Client!Close, Client!Break, Client!OnResolve,
           Client!OnConnect, Client!OnSslHandshake, Client!StepSucceeds, Client!OnHandshake,
           Client!StepFails, Client!HandlerReturns, Client!OnReadError, Client!OnHeartbeat,
           Client!OnAuthenticated, Client!OnAuthenticationFailed, Client!OnMessage
  <2> QED
    BY <2>1, SendInvFrame, Zenon
<1>2. CASE Client!Connect
  BY <1>2, SendInvAbort DEF Client!Connect, Client!DoConnect, Client!sendVars
<1>3. CASE Client!OnTimer
  <2>1. UNCHANGED <<pc, sending>>
    BY <1>3, Zenon DEF Client!OnTimer, Client!sendVars
  <2>2. writes' = writes \/ writes' = {[w EXCEPT !.live = FALSE] : w \in writes}
    BY <1>3, Zenon DEF Client!OnTimer, Client!DoConnect
  <2> QED
    BY <2>1, <2>2, SendInvAbort, SendInvFrame
<1>4. ASSUME NEW t \in Senders, Client!SendOrder(t) PROVE SendInv'
  <2>1. /\ pc[t] = "idle" /\ pc' = [pc EXCEPT ![t] = "push"] /\ UNCHANGED <<writes, sending>>
    BY <1>4, Zenon DEF Client!SendOrder
  <2>2. sending' \in BOOLEAN /\ (sending => sending')
    BY <2>1, Zenon DEF SendInv
  <2> QED
    BY <2>1, <2>2, SendInvOutside, ZenonT(60) DEF Client!Threads
<1>5. CASE Client!HandlerSends
  <2>1. pc[IO] = "idle" /\ UNCHANGED <<writes, sending>>
    BY <1>5, Zenon DEF Client!HandlerSends
  <2>2. pc' = pc \/ pc' = [pc EXCEPT ![IO] = "push"]
    BY <1>5, Zenon DEF Client!HandlerSends
  <2>3. sending' \in BOOLEAN /\ (sending => sending')
    BY <2>1, Zenon DEF SendInv
  <2> QED
    BY <2>1, <2>2, <2>3, SendInvOutside, SendInvFrame, SMTT(30) DEF Client!Threads
<1>6. CASE \E w \in writes : Client!OnWrite(w) \/ Client!OnWriteError(w)
  BY <1>6, WriteHandlerKeepsInv, Zenon
<1>7. CASE Client!SendStep(IO) \/ \E t \in Senders : Client!SendStep(t)
  BY <1>7, SendStepKeepsInv, Zenon DEF Client!Threads
<1> QED
  BY <1>1, <1>2, <1>3, <1>4, <1>5, <1>6, <1>7, Zenon DEF Client!Next, Client!IoStep

\* At no time are two writes under way on the stream, or two threads in do_send:
\* sending_ is a lock.
THEOREM OneWriter == Client!Spec => []Client!SingleWriter
<1>1. SendInv => Client!SingleWriter
  <2> SUFFICES ASSUME SendInv PROVE Client!SingleWriter
    BY Zenon
  <2>1. Cardinality({}) = 0 /\ \A x : Cardinality({x}) = 1
    BY FS_EmptySet, FS_Singleton, ZenonT(60)
  <2>2. Busy = {} \/ \E t : Busy = {t}
    BY AtMostOne, Zenon DEF SendInv
  <2>3. writes = {} \/ \E w : writes = {w}
    BY AtMostOne, Zenon DEF SendInv
  <2>4. Cardinality(Busy) + Cardinality(writes) <= 1
    <3>1. Cardinality(Busy) \in {0, 1} /\ Cardinality(writes) \in {0, 1}
      BY <2>1, <2>2, <2>3, Zenon
    <3>2. Cardinality(Busy) = 0 \/ Cardinality(writes) = 0
      BY <2>1, Zenon DEF SendInv
    <3> QED
      BY <3>1, <3>2
  <2> QED
    <3>1. /\ Client!Cardinality(Busy) = Cardinality(Busy)
          /\ Client!Cardinality(writes) = Cardinality(writes)
      BY Zenon DEF Client!Cardinality, Cardinality
    <3>2. Client!Cardinality(Busy) + Client!Cardinality(writes) <= 1
      BY <2>4, <3>1, Zenon
    <3>3. Busy # {} \/ writes # {} => sending
      BY Zenon DEF SendInv
    <3> QED
      BY <3>2, <3>3, Zenon DEF Client!SingleWriter, Busy
<1> QED
  BY <1>1, SendInvInit, SendInvNext, PTL DEF Client!Spec

-----------------------------------------------------------------------------
(* The command server *)

CONSTANTS Clients, NoClient, HasCallbacks, MaxStarts

VARIABLES
  running, listening, path, thread, serving, owner, client, request, answer, gone, starts, threw

\* The command server.
Server == INSTANCE UnixDomainServer WITH None <- NoClient

\* Where the owner, the flag, the socket, its file and the thread are, together,
\* while the program runs: only a start that threw leaves a file behind, or a
\* socket without a thread.
ServerUp ==
  /\ running \in BOOLEAN /\ listening \in BOOLEAN /\ path \in BOOLEAN /\ threw \in BOOLEAN
  /\ thread \in {"none", "test", "accept", "read", "close", "ended"}
  /\ owner \in {"idle", "close", "join"}
  /\ running => /\ owner = "idle" /\ listening /\ path /\ thread # "ended"
                /\ thread = "none" => threw
  /\ owner = "idle" /\ ~running => /\ ~listening /\ thread = "none"
                                   /\ path => threw
  /\ owner = "join" => ~listening

\* Inductive: so they are, or the program has ended and nothing moves any more.
ServerInv == ServerUp \/ (owner = "dead" /\ thread = "dead")

\* Every step of the owner, of accept_loop and of a client keeps ServerInv.
LEMMA ServerInvNext == ServerInv /\ [Server!Next]_(Server!vars) => ServerInv'
<1> SUFFICES ASSUME ServerInv, [Server!Next]_(Server!vars) PROVE ServerInv'
  BY Zenon
<1>1. CASE Server!Start
  BY <1>1, Zenon DEF ServerInv, ServerUp, Server!Start, Server!MayStart
<1>2. CASE Server!StartFails
  BY <1>2, Zenon DEF ServerInv, ServerUp, Server!StartFails, Server!MayStart
<1>3. CASE Server!CallStop
  BY <1>3, Zenon DEF ServerInv, ServerUp, Server!CallStop, Server!startVars
<1>4. CASE Server!CloseListenSocket
  BY <1>4, Zenon DEF ServerInv, ServerUp, Server!CloseListenSocket, Server!startVars
<1>5. CASE Server!Join
  BY <1>5, Zenon DEF ServerInv, ServerUp, Server!Join, Server!MayJoin, Server!startVars
<1>6. CASE Server!ThreadStep
  <2>1. CASE Server!TestRunning
    BY <2>1, Zenon DEF ServerInv, ServerUp, Server!TestRunning, Server!startVars
  <2>2. CASE Server!AcceptFails
    BY <2>2, Zenon DEF ServerInv, ServerUp, Server!AcceptFails, Server!startVars
  <2>3. CASE Server!HandleClient
    BY <2>3, Zenon DEF ServerInv, ServerUp, Server!HandleClient, Server!startVars
  <2>4. CASE Server!CloseClient
    BY <2>4, Zenon DEF ServerInv, ServerUp, Server!CloseClient, Server!startVars
  <2>5. ASSUME NEW c \in Clients, Server!Accept(c) PROVE ServerInv'
    BY <2>5, Zenon DEF ServerInv, ServerUp, Server!Accept, Server!startVars
  <2> QED
    BY <1>6, <2>1, <2>2, <2>3, <2>4, <2>5, SMTT(30) DEF Server!ThreadStep
<1>7. ASSUME NEW c \in Clients, Server!Connect(c) \/ Server!Send(c) \/ Server!Leave(c)
      PROVE  ServerInv'
  <2>1. UNCHANGED <<running, listening, path, thread, owner, threw>>
    BY <1>7, Zenon DEF Server!Connect, Server!Send, Server!Leave, Server!startVars
  <2> QED
    BY <2>1, Zenon DEF ServerInv, ServerUp
<1>8. CASE UNCHANGED Server!vars
  BY <1>8, Zenon DEF ServerInv, ServerUp, Server!vars, Server!startVars
<1> QED
  BY <1>1, <1>2, <1>3, <1>4, <1>5, <1>6, <1>7, <1>8, SMTT(30) DEF Server!Next

\* However often start and stop are called, whatever start fails at and wherever the
\* thread is: between the calls the server is there with socket, file and thread,
\* or thread_ is not joinable, the socket is closed and its file is gone.  The
\* exceptions are those of AllOrNothing, after a start that threw.
THEOREM WholeOrGone == Server!Spec => []Server!AllOrNothing
<1>1. Server!Init => ServerInv
  BY Zenon DEF Server!Init, ServerInv, ServerUp
<1>2. ServerInv => Server!AllOrNothing
  BY Zenon DEF ServerInv, ServerUp, Server!AllOrNothing
<1> QED
  BY <1>1, <1>2, ServerInvNext, PTL DEF Server!Spec
=============================================================================

----------------------- MODULE MultiExchangeOrderBook -----------------------
(***************************************************************************)
(* OrderBook and MultiExchangeOrderBook, include/orderbook/order_book.hpp:  *)
(* one book per exchange for a ticker, updated by feeds that hold a         *)
(* reference to their book, and the consolidated best quote, which holds    *)
(* mutex_ (so that no book is added) but locks one book at a time.         *)
(*                                                                         *)
(* Prices and quantities are small integers, a side of a book the quantity  *)
(* at each price, 0 where the map has no entry.  The ticker is fixed; the   *)
(* sequence number, which nothing compares, and snapshot(), a copy under    *)
(* the lock, are left out.                                                 *)
(***************************************************************************)
EXTENDS Integers, Sequences, SequencesExt, FiniteSetsExt

CONSTANTS
  Exchanges,
  Prices,      \* prices of a book
  Quantities,  \* quantities of an update; 0 erases the level
  Updates,     \* updates of the feeds: [bids, asks], sequences of levels
  None,        \* std::nullopt
  MaxUpdates   \* bound: updates applied

\* The best bid and ask of one book.
QuoteUpdate ==
  [bid_price : Prices, bid_size : Quantities, ask_price : Prices, ask_size : Quantities,
   timestamp : Nat]

\* The best bid and ask of all, each with its exchange.
ConsolidatedQuote ==
  [bid_price : Prices, bid_size : Quantities, bid_exchange : Exchanges,
   ask_price : Prices, ask_size : Quantities, ask_exchange : Exchanges, timestamp : Nat]

ASSUME BookAssumption ==
  /\ Prices \subseteq Nat \ {0} /\ \E top \in Prices : \A p \in Prices : p <= top
  /\ 0 \in Quantities /\ Quantities \subseteq Nat
  /\ None \notin QuoteUpdate \cup ConsolidatedQuote
  /\ Updates \subseteq
       LET Level == [price : Prices \cup {0}, quantity : Quantities]
       IN [bids : Seq(Level), asks : Seq(Level)]

VARIABLES
  index,         \* book_index_ of the ticker: the exchanges with a book
  bids, asks,    \* bids_ and asks_ of each book
  timestamp,     \* timestamp_ns_ of each book: the number of the update
  reader_pc,     \* best_quote: "idle", "scanning" under mutex_, "returns"
  position,      \* the book of index it reads next
  best,          \* its result so far
  (* history *)
  updates,       \* updates applied
  moved,         \* has a book changed since best_quote was called?
  shown          \* best levels a book has shown since then

bookVars == <<bids, asks, timestamp, updates, moved, shown>>
readerVars == <<reader_pc, position, best>>
vars == <<index, bookVars, readerVars>>

EmptySide == [p \in Prices |-> 0]

Init ==
  /\ index = <<>>
  /\ bids = [e \in Exchanges |-> EmptySide]
  /\ asks = [e \in Exchanges |-> EmptySide]
  /\ timestamp = [e \in Exchanges |-> 0]
  /\ reader_pc = "idle" /\ position = 1 /\ best = None
  /\ updates = 0 /\ moved = FALSE /\ shown = {}

-----------------------------------------------------------------------------
(* OrderBook *)

\* upsert_bid and upsert_ask, which erase a level of quantity 0.
Upserted(side, level) ==
  IF level.price = 0 THEN side ELSE [side EXCEPT ![level.price] = level.quantity]

\* The loops of apply_snapshot and apply_delta over the levels of an update.
Applied(side, levels) ==
  LET after[n \in 0..Len(levels)] ==
        IF n = 0 THEN side ELSE Upserted(after[n - 1], levels[n])
  IN after[Len(levels)]

PricesOf(side) == {p \in Prices : side[p] > 0}

\* OrderBook::best_quote: None unless both sides have a level.
BestQuote(bid_side, ask_side, ts) ==
  IF PricesOf(bid_side) = {} \/ PricesOf(ask_side) = {} THEN None
  ELSE LET bid == Max(PricesOf(bid_side))
           ask == Min(PricesOf(ask_side))
       IN [bid_price |-> bid, bid_size |-> bid_side[bid],
           ask_price |-> ask, ask_size |-> ask_side[ask], timestamp |-> ts]

QuoteOf(e) == BestQuote(bids[e], asks[e], timestamp[e])

\* The best levels that book e shows.
Shows(e, quote) ==
  IF quote = None THEN {}
  ELSE {<<e, "bid", quote.bid_price, quote.bid_size>>,
        <<e, "ask", quote.ask_price, quote.ask_size>>}

\* apply_delta starts from the book's sides, apply_snapshot from empty ones.
Apply(e, bid_side, ask_side, update) ==
  /\ e \in ToSet(index) /\ updates < MaxUpdates
  /\ updates' = updates + 1
  /\ bids' = [bids EXCEPT ![e] = Applied(bid_side, update.bids)]
  /\ asks' = [asks EXCEPT ![e] = Applied(ask_side, update.asks)]
  /\ timestamp' = [timestamp EXCEPT ![e] = updates']
  /\ IF reader_pc = "idle" THEN UNCHANGED <<moved, shown>>
     ELSE /\ moved' = TRUE
          /\ shown' = shown \cup Shows(e, BestQuote(bids'[e], asks'[e], 0))
  /\ UNCHANGED <<index, readerVars>>

ApplySnapshot(e, update) == Apply(e, EmptySide, EmptySide, update)
ApplyDelta(e, update) == Apply(e, bids[e], asks[e], update)

-----------------------------------------------------------------------------
(* MultiExchangeOrderBook *)

HasBook(e) == e \in ToSet(index)

\* book_for, which waits for mutex_.
BookFor(e) ==
  /\ reader_pc # "scanning"
  /\ ~HasBook(e)
  /\ index' = Append(index, e)
  /\ UNCHANGED <<bookVars, readerVars>>

CallBestQuote ==
  /\ reader_pc = "idle"
  /\ reader_pc' = "scanning" /\ position' = 1 /\ best' = None
  /\ moved' = FALSE
  /\ shown' = UNION {Shows(e, QuoteOf(e)) : e \in ToSet(index)}
  /\ UNCHANGED <<index, bids, asks, timestamp, updates>>

\* Mutant of Improves: a later book does not replace the ask.
ImprovesBidOnly(quote, sofar) == [bid |-> quote.bid_price > sofar.bid_price, ask |-> FALSE]

\* Which sides of the next book's quote are better.
Improves(quote, sofar) ==
  [bid |-> quote.bid_price > sofar.bid_price, ask |-> quote.ask_price < sofar.ask_price]

\* Mutant of Size: the size is taken from the quote before.
SizeKept(improves, size, sofar) == sofar

Size(improves, size, sofar) == IF improves THEN size ELSE sofar

\* What the result becomes with the quote of the next book.
Coalesced(sofar, quote, e) ==
  LET bid == Improves(quote, sofar).bid
      ask == Improves(quote, sofar).ask
  IN [bid_price    |-> IF bid THEN quote.bid_price ELSE sofar.bid_price,
      bid_size     |-> Size(bid, quote.bid_size, sofar.bid_size),
      bid_exchange |-> IF bid THEN e ELSE sofar.bid_exchange,
      ask_price    |-> IF ask THEN quote.ask_price ELSE sofar.ask_price,
      ask_size     |-> Size(ask, quote.ask_size, sofar.ask_size),
      ask_exchange |-> IF ask THEN e ELSE sofar.ask_exchange,
      timestamp    |-> Max({sofar.timestamp, quote.timestamp})]

\* The first quote found is taken as it is.
FirstOf(quote, e) ==
  [bid_price |-> quote.bid_price, bid_size |-> quote.bid_size, bid_exchange |-> e,
   ask_price |-> quote.ask_price, ask_size |-> quote.ask_size, ask_exchange |-> e,
   timestamp |-> quote.timestamp]

ReadBook ==
  /\ reader_pc = "scanning" /\ position <= Len(index)
  /\ position' = position + 1
  /\ LET e == index[position]
         quote == QuoteOf(e)
     IN best' = IF quote = None THEN best
                ELSE IF best = None THEN FirstOf(quote, e)
                ELSE Coalesced(best, quote, e)
  /\ UNCHANGED <<index, bookVars, reader_pc>>

\* The scan ends and mutex_ is released.
Unlock ==
  /\ reader_pc = "scanning" /\ position > Len(index)
  /\ reader_pc' = "returns"
  /\ UNCHANGED <<index, bookVars, position, best>>

Return ==
  /\ reader_pc = "returns"
  /\ reader_pc' = "idle" /\ position' = 1 /\ best' = None
  /\ moved' = FALSE /\ shown' = {}
  /\ UNCHANGED <<index, bids, asks, timestamp, updates>>

Next ==
  \/ \E e \in Exchanges :
       \/ BookFor(e)
       \/ \E update \in Updates : ApplySnapshot(e, update) \/ ApplyDelta(e, update)
  \/ CallBestQuote \/ ReadBook \/ Unlock \/ Return

Spec == Init /\ [][Next]_vars

-----------------------------------------------------------------------------
(* Properties *)

\* Whatever the feeds do during the call, each side of the consolidated quote
\* is a best level, price with its own size, that the exchange named with it
\* showed at some moment of the call: a side is never put together from two
\* books or two states of one (lines 192-201).
SidesWereShown ==
  best # None =>
    /\ <<best.bid_exchange, "bid", best.bid_price, best.bid_size>> \in shown
    /\ <<best.ask_exchange, "ask", best.ask_price, best.ask_size>> \in shown

\* A call during which no book changed returns the best bid and the best ask of
\* all two-sided books, the latest of their timestamps, and nullopt only if
\* there is none.  (A call that overlaps updates may return two sides that
\* never stood together.)
ExactWhenQuiet ==
  reader_pc = "returns" /\ ~moved =>
    LET quotes == {QuoteOf(e) : e \in {x \in ToSet(index) : QuoteOf(x) # None}}
    IN IF quotes = {} THEN best = None
       ELSE /\ best # None
            /\ best.bid_price = Max({q.bid_price : q \in quotes})
            /\ best.ask_price = Min({q.ask_price : q \in quotes})
            /\ best.timestamp = Max({q.timestamp : q \in quotes})
=============================================================================

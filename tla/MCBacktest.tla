----------------------------- MODULE MCBacktest -----------------------------
(* Orders, recordings and requests for model checking Backtest. *)
EXTENDS Backtest

Order(type, side, quantity, price) ==
  [ticker |-> "BTC", type |-> type, side |-> side, quantity |-> quantity, price |-> price]

\* Limits that cross some quotes and not others, and a market order, which is
\* rejected before the first quote.
SomeOrders ==
  {Order("LIMIT", "BUY", 1, 2), Order("LIMIT", "SELL", 2, 2), Order("MARKET", "BUY", 1, 0)}

Quote(ticker, bid, ask, ts) ==
  [type |-> "QuoteUpdate", ticker |-> ticker, ingest_ts |-> ts, bid |-> bid, ask |-> ask]

\* Quotes around and at the limits, a trade at the limit, a submission of each
\* strategy and a response, and later a quote nobody trades on.
SomeEvents ==
  {Quote("BTC", 1, 3, 1), Quote("BTC", 2, 2, 1), Quote("ETH", 1, 2, 3),
   [type |-> "MarketTrade", ticker |-> "BTC", ingest_ts |-> 1, price |-> 2],
   [type |-> "TradeSubmitted", ticker |-> "BTC", ingest_ts |-> 2, id |-> 7, strategy |-> 1],
   [type |-> "TradeSubmitted", ticker |-> "BTC", ingest_ts |-> 2, id |-> 7, strategy |-> 2],
   [type |-> "OrderResponse", ingest_ts |-> 2, id |-> 7]}

TwoStrategies ==
  <<[id |-> 1, tickers |-> {"BTC"}, market_maker |-> TRUE],
    [id |-> 2, tickers |-> {}, market_maker |-> FALSE]>>

Request(start_ts, end_ts, ticker, max) ==
  [start_offset |-> None, start_ts |-> start_ts, end_ts |-> end_ts, ticker |-> ticker,
   max_events |-> max]

\* A backtest on one ticker, event by event, with a recorded order to be ignored;
\* replays of that, of the recorded orders in pages of two, and of these and what
\* came later in one page.
SomeRuns ==
  LET run(d, r, e) == [driver |-> d, request |-> r, recordable |-> e]
      one_order == {e \in SomeEvents :
                     IsMarket(e) \/ (e.type = "TradeSubmitted" /\ e.strategy = 1)}
      each == Request(None, None, "BTC", 1)
  IN {run("backtest", each, one_order), run("replay", each, SomeEvents),
      run("replay", Request(2, 2, None, 2), SomeEvents),
      run("replay", Request(2, None, None, Unlimited), SomeEvents)}
=============================================================================

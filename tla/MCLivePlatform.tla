--------------------------- MODULE MCLivePlatform ---------------------------
(***************************************************************************)
(* Instances of LivePlatform for TLC.                                      *)
(***************************************************************************)
EXTENDS LivePlatform

MakerAndMomentum ==
  <<[name |-> "maker", kind |-> "market_maker", ticker |-> "BTC"],
    [name |-> "momentum", kind |-> "momentum", ticker |-> "BTC"]>>

Item(type, ticker, status) == [type |-> type, ticker |-> ticker, status |-> status]
Data(s) == [kind |-> "data", items |-> s]

\* A quote, two trades with a skipped one between them, a trade before an ill-typed
\* item, a quote nobody tracks, and what is not data.
AllMessages ==
  {[kind |-> "garbage", items |-> <<>>], [kind |-> "heartbeat", items |-> <<>>],
   Data(<<Item("quote", "BTC", "valid")>>),
   Data(<<Item("trade", "BTC", "valid"), Item("trade", "BTC", "skipped"), Item("trade", "BTC", "valid")>>),
   Data(<<Item("trade", "BTC", "valid"), Item("trade", "BTC", "ill_typed")>>),
   Data(<<Item("quote", "ETH", "valid")>>)}
=============================================================================

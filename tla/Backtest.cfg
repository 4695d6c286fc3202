CONSTANTS
  None = none
  Unlimited = unlimited
  NoQuote = no_quote
  Tickers = {"BTC", "ETH"}
  Orders <- SomeOrders
  HasStorage = TRUE
  RejectWithoutMarket = TRUE
  MakerFee = 1
  TakerFee = 3
  MaxOrders = 2
  MaxFailures = 1
  Runs <- SomeRuns
  Strategies <- TwoStrategies
  MaxEvents = 3
SPECIFICATION Spec
INVARIANTS
  OneOutcome
  NothingFillableRests
  BooksBalance
  ResponsesFollowSubmissions
  NoLookAhead
  StrategiesSeeTheRecording
CHECK_DEADLOCK FALSE

CONSTANTS
  s1 = s1
  Symbols = {s1}
  MaxPosition = 2
  MaxDailyLoss = 2
  InitialEquity = 4
  DrawdownPause = 1
  DrawdownFlatten = 2
  Quantities = {1, 2}
  SignalPrices = {2}
  FillPrices = {1, 3}
  MaxOrders = 2
  MaxMarks = 2
SPECIFICATION Spec
CHECK_DEADLOCK FALSE
INVARIANTS IndexIsLive TerminalIsFinalAtExchange BooksAgreeUnlessIgnored LimitsHoldUnlessOverlap PendingIsInFlight
PROPERTY StatusArrows

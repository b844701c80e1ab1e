SPECIFICATION FairSpec
CONSTANTS
  Symbols = {a, b}
  MaxCalls = 2
  Capacity = 8
  Header = 2
  QLen = 3
  OLen = 4
  BLen = 2
  ALen = 2
  ELen = 3
  SizeMod = 64
  MaxSqes = 7
  MaxShort = 1
  MaxNotify = 1
  MaxFaults = 1
CHECK_DEADLOCK FALSE
INVARIANTS QuoteIsOwnUnlessLate StreamIntactUnlessTorn DrainedUnlessSlipped
  RejectedIsUnsentUnlessLeft ReportsArriveUnlessDrained
PROPERTY EveryCallReturnsUnlessFull

CONSTANTS
  w1 = w1
  w2 = w2
  f = f
  MaxLocate = 2
  Markers = {w1, w2}
  FillTh = f
  Prices = {1, 2}
  MaxMarks = 2
  MaxFills = 2
  MaxPosition = 9
  MaxDailyLoss = 9
  InitialEquity = 4
  DrawdownPause = 9
  DrawdownFlatten = 9
SYMMETRY Perms
SPECIFICATION MarkSpec
CHECK_DEADLOCK FALSE
INVARIANTS PeakWasRealUnlessTorn PeakCoversUnlessRaced

CONSTANTS
  l1 = l1
  l2 = l2
  Locates = {l1, l2}
  NWorkers = 2
  RingCap = 1
  BucketCap = 1
  MaxEvents = 4
  MaxPops = 4
SPECIFICATION FairSpec
INVARIANTS OrderedUnlessLateClear OneWriterUnlessLateClear WokenUnlessSwallowed
PROPERTY AllDeliveredUnlessLateClear

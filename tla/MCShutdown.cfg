CONSTANTS
  NWorkers = 2
  MaxPackets = 3
  ByteCap = 1
  RingCap = 1
  BucketCap = 1
  MaxBuffers = 2
  MaxFaults = 1
SPECIFICATION FairSpec
CHECK_DEADLOCK FALSE
INVARIANTS AllProcessedUnlessLate BuffersConservedUnlessClashed
PROPERTY EndsUnlessLate

CONSTANTS
  w1 = w1
  w2 = w2
  Threads <- MCThreads
  PoolCapacity = 3
  MaxTag = 7
SPECIFICATION PoolSpec
INVARIANTS ExclusiveSlots FreeListIntact
PROPERTY ImplementsSlotPool

CONSTANTS
  w1 = w1
  w2 = w2
  a1 = a1
  a2 = a2
  c1 = c1
  c2 = c2
  Threads = {w1, w2}
  Keys = {a1, a2, c1, c2}
  Owner <- MCOwner
  Buckets = {0, 1}
  Hash <- MCHash
  Capacity = 3
  Threshold = 3
  MaxCalls = 3
  NoThread = NoThread
  NoKey = NoKey
SPECIFICATION MapSpec
CHECK_DEADLOCK FALSE
INVARIANTS FindIsExactUnlessStrayed NodesAccountedUnlessStrayed

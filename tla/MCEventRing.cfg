CONSTANTS
  e1 = e1
  e2 = e2
  none = none
  Values = {e1, e2}
  NoValue = none
  Capacity = 4
  MaxPush = 10
SPECIFICATION RingSpec
INVARIANTS RingTypeOK NoTornSlot PopTakesPeeked
PROPERTY ImplementsFifo

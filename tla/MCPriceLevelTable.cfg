SPECIFICATION TableSpec
CONSTANTS
  Prices = {1, 2, 3, 4}
  Levels = {0, 1}
  Fresh = 0
  InitCap = 2
  HashBits = 16
  Hash <- MCHash
PROPERTY ImplementsMap

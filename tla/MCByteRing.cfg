CONSTANTS
  Capacity = 8
  HeaderBytes = 2
  MaxBody = 2
  MaxMsgs = 7
SPECIFICATION FairSpec
INVARIANTS UnreadIntact ParsedInOrderUnlessSkewed
PROPERTY AllParsedUnlessSkewed

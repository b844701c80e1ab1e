CONSTANTS
  s1 = s1
  s2 = s2
  Symbols = {s1, s2}
  NoLocate = NoLocate
  Sizes = {1, 3}
  Tops <- MCTops
  kWindow = 2
  OfiThreshold = 2
  ObiThreshold = 1
  kStrengthScale = 4
  kStrengthStep = 2
  Weights <- MCWeights
  Primary = 1
  VoteThreshold = 0
  BaseQty = 2
  MaxPosition = 2
  MaxEvents = 4
SYMMETRY Symmetry
SPECIFICATION Spec
CHECK_DEADLOCK FALSE
INVARIANTS WindowIsRecent BurstBounded CanOrderUnlessDisturbed

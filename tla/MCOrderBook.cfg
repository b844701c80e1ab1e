SPECIFICATION Spec
CONSTANTS
  Slots = {s1, s2, s3}
  Refs = {r1, r2, r3}
  WirePrices = {1050, 1100}
  MaxShares = 2
  Wide = 5
  MaxAdds = 3
  NoSlot = NoSlot
SYMMETRY Symmetric
INVARIANTS IndexMatchesPool LinksStayLive LevelsExactUnlessMiscounted

CONSTANTS
  g = g  b1 = b1  b2 = b2  b3 = b3  c1 = c1  c2 = c2
  NoHash = NoHash
  Genesis = g
  Block <- ForkTree
  Number <- ForkNumber
  Parent <- ForkParent
  Liquidating = {}
  Inserter = {1}
  MaxCrashes = 1
SPECIFICATION Spec
INVARIANTS BetterBlockUpdatesHeads
CHECK_DEADLOCK FALSE

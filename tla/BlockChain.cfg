CONSTANTS
  g = g  b1 = b1  b2 = b2  b3 = b3  c1 = c1  c2 = c2
  NoHash = NoHash
  Genesis = g
  Block <- LongTree
  Number <- LongNumber
  Parent <- LongParent
  Liquidating = {b2}
  Inserter = {1}
  MaxCrashes = 3
SPECIFICATION Spec
INVARIANTS RestartTransparent ChainServable AncestorCorrect
CONSTRAINT OneStopOnceNetworked
CHECK_DEADLOCK FALSE

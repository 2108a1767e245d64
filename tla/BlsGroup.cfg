\* Three members, a key of threshold two over the field of seven elements.
SPECIFICATION BlsFairSpec

CONSTANTS
  P = 7
  Node = {1, 2, 3}
  Coef = {0, 3}
  Event <- ThreeEvents
  MaxCrashes = 1

CONSTRAINT OneRandom
INVARIANT QuorumSigns
PROPERTY KeyKept
PROPERTY AllCreated

\* The exchange comes to an end.
CHECK_DEADLOCK FALSE

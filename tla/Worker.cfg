CONSTANTS
  g = g  b1 = b1  c1 = c1  n1 = n1  n2 = n2  n3 = n3
  None = None
  Member = {n1, n2, n3}
  Genesis = g
  Block <- RivalBlocks
  Number <- RivalNumber
  Parent <- RivalParent
  Proposer <- RivalProposer
  SortIndex <- RivalIndex
  SigCap = 2
  Duplicating = TRUE
  MaxFailures = 0
SPECIFICATION Spec
CHECK_DEADLOCK FALSE
INVARIANTS QuorumSigned RankHeldByBlock

CONSTANTS
  a1 = a1
  a2 = a2
  a3 = a3
  g = g
  Addr = {a1, a2, a3}
  GenesisAddr = g
  Time = {1, 2}
  GenesisTime = 9
  Candidates <- AnyCandidates
  Foreign <- ForeignHash
  Epoch = 2
  ValidateLimit = 4
  BlockNumberLimet = 5
  Draw <- SomeDraws
  CoinLists <- SomeCoins
  CoinHash <- SomeCoinHash
  MaxNumber = 6
  MaxCrashes = 1
SPECIFICATION CSpec
SYMMETRY Symmetry
CONSTRAINT OneFamily
ACTION_CONSTRAINT DrawsAtRest
INVARIANTS
  UniqueMembers
  DutyAnnounced
  RestartTransparent
PROPERTIES
  NoMemberLost
  
CHECK_DEADLOCK FALSE

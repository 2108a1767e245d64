\* One account of the configuration file and two other addresses.
SPECIFICATION ExecSpec

CONSTANTS
  None = None
  g = g
  a = a
  b = b
  Address = {g, a, b}
  SpaceId = {0, 1, 2, 3, 4, 5, 6}
  Key = {k1}
  Value = {v1}
  Wallet = {1}
  Amount = {0, 1}
  MaxOps = 8
  MaxBlocks = 3
  MaxDirect = 3
  Tx <- EveryKind
  GenesisAccounts <- OneAccount

CONSTRAINT DirectBound
PROPERTY ImplementsLedger
INVARIANT BindingsAgree

\* The bounds, and a panic, end a behaviour.
CHECK_DEADLOCK FALSE

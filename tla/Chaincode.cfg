CONSTANTS
  t1 = t1  t2 = t2
  None = None
  Stream = {1, 2}
  NameOf <- MCNameOf
  Tx = {t1, t2}
  KindOf <- MCKindOf
  CallsOf <- MCCallsOf
  MaxCalls = 1
  MaxBreaks = 1
  MaxWork = 2
SPECIFICATION CSpec
CHECK_DEADLOCK FALSE
INVARIANTS RegistryExact LoopServes
PROPERTIES TransactionsEnd

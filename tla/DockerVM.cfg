CONSTANTS
  Nil = Nil
  Proc = {p1, p2, p3}
  Id = {"cc1"}
  Lock = {l1, l2}
SPECIFICATION DSpec
INVARIANTS RefCountExact RequestsUndisturbed
PROPERTIES ImplementsContainerLock EveryRequestServed

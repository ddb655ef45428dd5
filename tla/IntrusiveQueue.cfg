CONSTANTS
  Thread = {t1, t2, t3}
  Node = {n1, n2, n3}
  Null = Null
  MaxBatch = 2
SPECIFICATION FairSpec
INVARIANTS MutualExclusion WellLinked OnePlace IInv
PROPERTIES ImplementsFifo LockReleased
CHECK_DEADLOCK TRUE

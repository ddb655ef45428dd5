CONSTANTS
  Thread = {t1, t2, t3}
  Cell = {c1, c2, c3, c4}
  Value = {v1, v2}
  NoValue = NoValue
  Null = Null
SPECIFICATION Spec
SYMMETRY Symmetric
INVARIANTS IInv NoUseAfterFree ChainHoldsQueue NoLeak
PROPERTY ImplementsFifo

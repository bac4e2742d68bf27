CONSTANTS
  Language = {l1, l2, l3}
  Dictionary = {}
  Top = Top
  Txn = {t1, t2}
  OwnPrevious = FALSE
SPECIFICATION Spec
SYMMETRY Symmetry
INVARIANT NoCycle
CHECK_DEADLOCK FALSE

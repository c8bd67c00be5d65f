SPECIFICATION Spec
CONSTANTS
  Ids = {a}
  Threads = {t1, t2}
  Faults = {}
  MaxSent <- MCMaxSent
  WMax = 2
  IMax = 0
  CMax = 1
SYMMETRY MCSymmetry
INVARIANT ClickOnlyAfterImpression
CHECK_DEADLOCK FALSE

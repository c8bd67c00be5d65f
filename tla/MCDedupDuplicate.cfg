SPECIFICATION Spec
CONSTANTS
  Ids = {a}
  Threads = {t1, t2}
  Faults = {}
  MaxSent <- MCMaxSent
  WMax = 1
  IMax = 2
  CMax = 0
SYMMETRY MCSymmetry
INVARIANT NonRepeatedAreValid
CHECK_DEADLOCK FALSE

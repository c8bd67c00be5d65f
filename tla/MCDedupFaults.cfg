SPECIFICATION Spec
CONSTANTS
  Ids = {a}
  Threads = {t1, t2}
  Faults = {"slaveConnect", "slaveGet", "errorReply", "masterDown", "expire"}
  MaxSent <- MCMaxSent
  WMax = 2
  IMax = 1
  CMax = 1
SYMMETRY MCSymmetry
INVARIANT TypeOK
INVARIANT RejectedWinWasWon
INVARIANT ClickNeedsImpOrDoubleWin
INVARIANT RejectedImpNeedsImpOrDoubleWin
INVARIANT FlagTellsAccepted
INVARIANT DedupExactWhenQuiet
PROPERTY KeepsLedger
CHECK_DEADLOCK FALSE

SPECIFICATION FairSpec
CONSTANTS
  Ids = {a}
  Threads = {t1, t2}
  Faults = {}
  MaxSent <- MCMaxSent
  WMax = 1
  IMax = 2
  CMax = 1
INVARIANT ValidOnlyIfBid
PROPERTY AcceptedBecomesVisible
CHECK_DEADLOCK FALSE

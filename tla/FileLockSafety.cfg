SPECIFICATION FairSpec
CONSTANTS
  Proc = {p1, p2}
  StaleAfter = 1
  AcquireTimeout = 1
  MaxLag = 1
  ClockMayStep = TRUE
  MaxCalls = 2
  MaxHangs = 0
INVARIANTS TypeOK GuardsAreFenced NoGhostHold
PROPERTIES OnlyOwnerFrees ImplementsFencedLock BoundedWait

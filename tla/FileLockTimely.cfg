SPECIFICATION Spec
CONSTANTS
  Proc = {p1, p2}
  StaleAfter = 2
  AcquireTimeout = 1
  MaxLag = 2
  ClockMayStep = FALSE
  MaxCalls = 3
  MaxHangs = 1
SYMMETRY Symmetry
INVARIANTS TimelyHolderIsCurrent

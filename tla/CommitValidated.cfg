SPECIFICATION Spec
CONSTANTS
  p1 = p1 p2 = p2 a = a b = b d0 = d0 d1 = d1 f = f
  Absent = Absent Torn = Torn Unset = Unset
  Proc = {p1, p2}
  Key = {a, b}
  Doc = {d0, d1}
  Links <- MCLinks
  Refused <- NoRefusals
  Denied = {}
  Validating = {p1, p2}
  InitialStores <- BothStores
  MaxTx = 2
  MaxStalls = 0
  MaxCrashes = 0
  IoMayFail = FALSE
SYMMETRY Symmetry
INVARIANTS TypeOK NoLostUpdate NoNewViolations RefusalRestores

SPECIFICATION FairSpec
CONSTANTS
  p1 = p1 p2 = p2 a = a b = b d0 = d0 d1 = d1 f = f
  Absent = Absent Torn = Torn Unset = Unset
  Proc = {p1, p2}
  Key = {a, b}
  Doc = {d0, f}
  Links <- MCLinks
  Refused <- MCRefused
  Denied <- MCDenied
  Validating = {p1}
  InitialStores <- FrozenStore
  MaxTx = 2
  MaxStalls = 1
  MaxCrashes = 1
  IoMayFail = TRUE
INVARIANTS LandedWritesPermitted JournalOnlyLanded
PROPERTIES HoldsEnd

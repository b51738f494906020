SPECIFICATION FairSpec
CONSTANTS
  p1 = p1 p2 = p2 i = i a = a b = b
  none = none toA = toA toB = toB
  Absent = Absent Unset = Unset Nobody = Nobody
  Proc = {p1, p2}
  Key = {i, a, b}
  Doc = {none, toA, toB}
  Links <- MCLinks
  Root = i
  Options <- MCOptions
  InitialStores <- MCStores
  Batches <- MCBatches
  MaxCommits = 2
  MaxRestarts = 1
  MaxEdits = 1
INVARIANTS GateIsExact DebtNeverGrows
PROPERTIES CommitsEnd

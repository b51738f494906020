SPECIFICATION Spec
CONSTANTS
  s1 = s1 s2 = s2 x = x r1 = r1 r2 = r2 a = a b = b d0 = d0 d1 = d1 raw = raw
  Absent = Absent Unset = Unset NoTx = NoTx NoReq = NoReq Nobody = Nobody
  Handle = {s1, x}
  Implicit = {s1}
  Req = {r1, r2}
  Key = {a}
  Doc = {d0}
  Rendered <- MCRendered
  Empty = d0
  Pipelined = FALSE
  LockMayFail = FALSE
  SaveMayFail = TRUE
  Expiry = FALSE
  InitialStores <- EmptyStore
  MaxSent = 4
  MaxRestarts = 1
  MaxOutside = 1
SYMMETRY Symmetry
INVARIANTS TypeOK Remembered Isolation
PROPERTIES NoStrayWrite NoLostUpdate

SPECIFICATION FairSpec
CONSTANTS
  s1 = s1 s2 = s2 x = x r1 = r1 r2 = r2 a = a b = b d0 = d0 d1 = d1 raw = raw
  Absent = Absent Unset = Unset NoTx = NoTx NoReq = NoReq Nobody = Nobody
  Handle = {s1}
  Implicit = {s1}
  Req = {r1, r2}
  Key = {a}
  Doc = {d0, raw}
  Rendered <- MCRendered
  Empty = d0
  Pipelined = FALSE
  LockMayFail = TRUE
  SaveMayFail = FALSE
  Expiry = TRUE
  InitialStores <- EitherWay
  MaxSent = 5
  MaxRestarts = 0
  MaxOutside = 0
PROPERTIES CommitLandsAsked NetEffects Answered

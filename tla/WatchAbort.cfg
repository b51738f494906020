SPECIFICATION Spec
CONSTANTS
  a = a b = b old = old new = new
  Missing = Missing Unreadable = Unreadable Closed = Closed None = None
  Keys = {a, b}
  Texts = {old, new}
  Servers = {"iwec"}
  Aborts = TRUE
  InitialDisks <- MCDisks
  MaxWrites = 2
  MaxSent = 2
INVARIANT SeesTheWrite
CHECK_DEADLOCK FALSE

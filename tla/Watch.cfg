SPECIFICATION FairSpec
CONSTANTS
  a = a b = b old = old new = new
  Missing = Missing Unreadable = Unreadable Closed = Closed None = None
  Keys = {a, b}
  Texts = {old, new}
  Servers = {"iwes", "iwec"}
  Aborts = TRUE
  InitialDisks <- MCDisks
  MaxWrites = 2
  MaxSent = 2
INVARIANTS TypeOK EditorWins ViewsFollow ReadYourWrites
PROPERTY Converges
CHECK_DEADLOCK FALSE

CONSTANTS
  User = {u1, u2}
  Password = {p1, p2}
  MaxKeys = 2
  NoAccount = NoAccount
  NoFile = NoFile
  Torn = Torn
  Unkeyable = {}
  Shape = {"absent", "fresh", "keyed", "legacy", "tombstoned", "leftover"}
  ToolOnline = TRUE
  MaxCrashes = 0
  MaxFaults = 0
  NoUser = NoUser
  NoKey = NoKey
  NoTable = NoTable
SPECIFICATION Spec
PROPERTY ActiveAccountsKept

CONSTANTS
  User = {u1, u2}
  Password = {p1, p2}
  MaxKeys = 2
  NoAccount = NoAccount
  NoFile = NoFile
  Torn = Torn
  Unkeyable = {u2}
  Shape = {"absent", "fresh", "keyed", "legacy", "tombstoned", "leftover"}
  ToolOnline = FALSE
  MaxCrashes = 2
  MaxFaults = 2
  NoUser = NoUser
  NoKey = NoKey
  NoTable = NoTable
SPECIFICATION Spec
SYMMETRY Symmetry
INVARIANTS
  TombstoneHolds
  PasswordOpensKey

CONSTANTS
  User = {u1, u2}
  Password = {p1, p2}
  MaxKeys = 2
  NoAccount = NoAccount
  NoFile = NoFile
  Torn = Torn
  Unkeyable = {}
  Shape = {"absent", "fresh", "keyed", "legacy", "tombstoned", "leftover"}
  ToolOnline = FALSE
  MaxCrashes = 1
  MaxFaults = 1
  NoUser = NoUser
  NoKey = NoKey
  NoTable = NoTable
SPECIFICATION Spec
SYMMETRY Symmetry
INVARIANTS
  TypeInv
  PasswordOpensKey
  KeyFilesMatch
  SessionOpensKey
  SessionFollowsTable
  TableIsSaved
  SignatureVerifies
PROPERTIES
  NoKeyUnderTombstone
  ActiveAccountsKept
  ImplementsKeyLife

CONSTANTS
  User = {u1}
  Password = {p1, p2}
  MaxKeys = 2
  NoAccount = NoAccount
  NoFile = NoFile
  Torn = Torn
  Unkeyable = {}
  Shape = {"leftover"}
  ToolOnline = FALSE
  MaxCrashes = 0
  MaxFaults = 0
  NoUser = NoUser
  NoKey = NoKey
  NoTable = NoTable
SPECIFICATION Spec
INVARIANT ReRegistrationWorks

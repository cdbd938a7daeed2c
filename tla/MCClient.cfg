CONSTANTS
  User = {u1, u2}
  Password = {p1}
  MaxKeys = 1
  NoAccount = NoAccount
  NoFile = NoFile
  Torn = Torn
  Unkeyable = {}
  Shape = {"fresh", "keyed"}
  ToolOnline = FALSE
  MaxCrashes = 0
  MaxFaults = 1
  MaxSlips = 1
  NoUser = NoUser
  NoKey = NoKey
  NoTable = NoTable
  NoRequest = NoRequest
SPECIFICATION FairClientSpec
INVARIANTS
  ClientTypeOK
  
  
 

CONSTANTS
  u1 = u1
  u2 = u2
  User = {u1, u2}
  Tool = {t1}
  Server = srv
  Blank = blank
  Bad = bad
  Torn = torn
  Absent = absent
  Seeds <- MCSeeds
  MaxChanges = 1
  MaxFaults = 1
  MaxCrashes = 1
SPECIFICATION FairSpec
INVARIANTS
  TypeOK
  AccountsKept
  StaysLoadable
PROPERTIES
  OwnRecordOnly
  FirstStartEnds

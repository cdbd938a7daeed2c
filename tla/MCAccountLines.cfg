CONSTANTS
  Char <- MCChar
  Name <- MCName
  Tables <- MCTables
  Seeds <- MCSeeds
  PasswordLen = {1, 4}
  LineMax = 14
  Digits = 2
SPECIFICATION Spec
INVARIANTS
  TypeOK
  WrittenIsRead
  SeedIsRead
CHECK_DEADLOCK FALSE

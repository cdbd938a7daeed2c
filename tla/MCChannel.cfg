CONSTANTS
  Op = {o1, o2}
  Capacity = 2
  MaxRequests = 4
  MaxSlips = 2
  MaxDups = 1
  NoNonce = NoNonce
  NoFrame = NoFrame
  Rest = Rest
SPECIFICATION FairSpec
INVARIANTS
  TypeOK
  BehindByFailures
  AcceptedAnswers
PROPERTIES
  CacheNotices
  NobodyStuck

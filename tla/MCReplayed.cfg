CONSTANTS
  Op = {o1, o2}
  Capacity = 2
  MaxRequests = 3
  MaxSlips = 0
  MaxDups = 1
  NoNonce = NoNonce
  NoFrame = NoFrame
  Rest = Rest
SPECIFICATION Spec
INVARIANT ExecutedOnce

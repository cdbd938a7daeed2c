CONSTANTS
  Client = {c1, c2}
  KeyPair = {1, 2, 3, 4, 5, 6, 7}
  PinKey = {k1, k2}
  SignKey = k1
  NoPair = NoPair
  NoClient = NoClient
SPECIFICATION FairSpec
INVARIANTS
  TypeOK
  KeysAgree
  FramesOpen
PROPERTY NobodyStuck

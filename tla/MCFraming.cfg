CONSTANTS
  LengthSize = 2
  HeaderSize = 2
  MaxPayload = 2
  Payload = {0, 1, 2, 3}
  Buffer = 4
  MaxFrames = 3
  MaxFails = 1
SPECIFICATION FairSpec
INVARIANTS
  TypeOK
  FramesWhole
  NeverRepeated
PROPERTY NobodyStuck

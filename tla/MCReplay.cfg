CONSTANTS
  Nonce = {n1, n2, n3, n4, n5}
  Capacity = 3
  NoNonce = NoNonce
SPECIFICATION Spec
INVARIANTS
  TypeOK
  NoDuplicateSlots
PROPERTY ImplementsWindow

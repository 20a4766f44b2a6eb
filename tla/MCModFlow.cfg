CONSTANTS
  Key = {k1, k2}
  FlowId = {f1, f2, f3}
  NoFlow = NoFlow
  Timeout = 3
  Slots = 5
  Time = {1, 2, 3, 4, 5, 6, 7, 8}
  MaxLag = 1
  PacketLen = {1}
  MaxInt = 3
  MaxBytes = 3
SPECIFICATION Spec
SYMMETRY Symmetry
INVARIANTS
  TypeOK
  OneFlowPerKey
  NoFlowLost
  LeaseBounded
  BytesConserved
  FlowInv
  BytesInv
PROPERTIES
  MinimumLifetime
CHECK_DEADLOCK FALSE

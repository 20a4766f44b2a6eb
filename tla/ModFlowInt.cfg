CONSTANTS
  Key = {k1, k2}
  FlowId = {f1, f2, f3}
  NoFlow = NoFlow
  Timeout = 3
  Slots = 5
  Time = {1, 2, 3, 4, 5, 6, 7, 8}
  MaxLag = 1
  PacketLen = {1}
  MaxInt = 1
  MaxBytes = 3
SPECIFICATION Spec
SYMMETRY Symmetry
INVARIANTS
  BytesConserved
CHECK_DEADLOCK FALSE

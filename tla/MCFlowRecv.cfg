CONSTANTS
  f1 = f1  f2 = f2  f3 = f3  f4 = f4
  k1 = k1  k2 = k2
  Key = {k1, k2}
  FlowId = {f1, f2, f3, f4}
  KeyOf <- CellKey
  NoFlow = NoFlow
  Null = Null
  Timeout = 2
  Slots = 4
  Time = {1, 2, 3, 4, 5, 6}
  MaxLag = 1
  MaxNow = 6
  PacketLen = {1}
  MaxInt = 2
  MaxBytes = 2
SPECIFICATION CallSpec
INVARIANTS
  CallTypeOK
  TableHoldsFlows
  FlowOwned
  CallInv
PROPERTIES
  ImplementsModFlow
  CallReturns
CHECK_DEADLOCK FALSE

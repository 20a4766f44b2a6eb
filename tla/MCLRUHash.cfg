CONSTANTS
  n1 = n1  n2 = n2  n3 = n3
  k1 = k1  k2 = k2
  Null = Null
  Node <- MCNode
  Key <- MCKey
  KeyOf <- MCKeyOf
  Hash <- SameBucket
  Slots = 3
  Buckets = 2
  Ttls = {0, 1, 2, 3}
  Ticks = {0, 1, 2, 5}
  MaxNow = 7
SPECIFICATION FairSpec
INVARIANTS
  TypeOK
  ChainsLinked
  NoDanglingPointer
  ListsExact
  ChainedWhileSlotted
  PointerInv
  TableInv
PROPERTIES
  ImplementsTable
  CallsReturn

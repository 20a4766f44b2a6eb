CONSTANTS
  a = a  b = b  c = c
  Key = {k1}
  Name = {a, b, c}
  Addr = {x1}
  QueryId = {q1}
  NoQuery = NoQuery
  Nameless = Nameless
  Answers <- TwoAliases
  Unit = 1
  Time = {1, 2, 3, 4, 5}
  MaxLag = 0
  QueryTtl = 2
  CacheTtl = 3
  RecurMax = 3
  MaxTick = 7
  MaxAlias = 3
SPECIFICATION Spec
SYMMETRY QuerySymmetry
INVARIANTS
  ChainResolved
CHECK_DEADLOCK FALSE

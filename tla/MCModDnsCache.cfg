CONSTANTS
  a = a  b = b  c = c
  Key = {k1}
  Name = {a, b, c}
  Addr = {x1}
  QueryId = {q1}
  NoQuery = NoQuery
  Nameless = Nameless
  Answers <- OneAlias
  Unit = 1
  Time = {1, 2, 3}
  MaxLag = 1
  QueryTtl = 4
  CacheTtl = 1
  RecurMax = 2
  MaxTick = 4
  MaxAlias = 2
SPECIFICATION Spec
SYMMETRY QuerySymmetry
INVARIANTS
  CacheFresh
  NamesTold
  DnsInv
CHECK_DEADLOCK FALSE

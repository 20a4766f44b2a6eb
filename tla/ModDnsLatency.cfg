CONSTANTS
  a = a  b = b  c = c
  Key = {k1}
  Name = {a}
  Addr = {x1}
  QueryId = {q1}
  NoQuery = NoQuery
  Nameless = Nameless
  Answers <- NoAnswers
  Unit = 2
  Time = {2, 3, 4, 5, 6}
  MaxLag = 0
  QueryTtl = 2
  CacheTtl = 3
  RecurMax = 1
  MaxTick = 7
  MaxAlias = 0
SPECIFICATION Spec
SYMMETRY QuerySymmetry
INVARIANTS
  LatencyFromRequest
CHECK_DEADLOCK FALSE

CONSTANTS
  a = a  b = b  c = c
  Key = {k1, k2}
  Name = {a}
  Addr = {x1}
  QueryId = {q1, q2}
  NoQuery = NoQuery
  Nameless = Nameless
  Answers <- NoAnswers
  Unit = 2
  Time = {2, 3, 5, 6}
  MaxLag = 1
  QueryTtl = 1
  CacheTtl = 3
  RecurMax = 1
  MaxTick = 4
  MaxAlias = 0
SPECIFICATION Spec
SYMMETRY QuerySymmetry
INVARIANTS
  TypeOK
  OneQueryPerKey
  OutcomesExclusive
  LatencyBounded
  MissAfterTtl
CHECK_DEADLOCK FALSE

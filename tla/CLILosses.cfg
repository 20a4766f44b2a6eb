CONSTANTS
  Query = {q1}
  Session = {s1}
SPECIFICATION CLISpec
INVARIANTS
  LossesReported
CHECK_DEADLOCK FALSE

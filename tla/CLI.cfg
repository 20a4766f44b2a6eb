CONSTANTS
  Query = {q1, q2}
  Session = {s1, s2}
SPECIFICATION FairCLISpec
INVARIANTS
  CLITypeOK
  CaptureReady
  LoggerOnceStarted
  
  LifeInv
  StatusTellsOutcome
  DestinationsBeforeCapture
  OwnerInv
PROPERTIES
  MainEnds
CHECK_DEADLOCK FALSE

SPECIFICATION Spec
CONSTANT MaxRuns = 3
CHECK_DEADLOCK FALSE
INVARIANTS
  TypeOK
  RecoveryAfterInstall
  LokiRetained
PROPERTIES
  SuccessVerified
  RunEnds

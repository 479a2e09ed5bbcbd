SPECIFICATION Spec
CONSTANT MaxRuns = 1
CHECK_DEADLOCK FALSE
INVARIANT RecoveryReachesHost

SPECIFICATION Spec
CONSTANTS
  m = m
  k = k
  j = j
  w = w
  v = v
  Node <- MCNode
  Control <- MCControl
  Etcd <- MCControl
  Worker <- MCWorker
  AddrOf <- MCAddr
  NameOf <- MCName
  Configs <- MCSmallConfigs
  MaxRuns = 3
CHECK_DEADLOCK FALSE
INVARIANT
  ResumeComplete

SPECIFICATION Spec
CONSTANTS
  a = a
  b = b
  c = c
  Node <- MCNode
  Control <- MCNode
  Etcd <- MCNode
  Worker <- MCNode
  AddrOf <- MCAddr
  NameOf <- MCName
  Configs <- MCConfigs
  MaxRuns = 3
CHECK_DEADLOCK FALSE
INVARIANTS
  TypeOK
  NoSplitBrain
  AtMostOneDown
  VipStaysOnMaster
  IInv
PROPERTIES
  SuccessIsComplete

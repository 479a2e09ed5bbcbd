SPECIFICATION RSpec
CONSTANTS
  a = a
  b = b
  c = c
  Node <- MCNode
  Control <- MCNode
  Etcd <- MCNode
  Worker <- MCNode
  AddrOf <- MCAddr
  NameOf <- MCName
  Configs <- MCConfigs
  MaxRuns = 3
  MaxReboots = 2
CHECK_DEADLOCK FALSE
INVARIANTS
  RTypeOK
  RebootSafe

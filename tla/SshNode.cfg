SPECIFICATION Spec
CONSTANTS
  n1 = n1
  n2 = n2
  Node <- MCNode
  MaxCmds = 1
CHECK_DEADLOCK FALSE
INVARIANTS
  TypeOK
  NoLeak
  ConnectedIsOpen
  NoBufferRace
PROPERTIES
  CancelEnds
  FailureEndsConnect
  ImplementsSessions

SPECIFICATION Spec
CONSTANTS
  m = m
  w = w
  Node <- MCNode
  Clusters <- MCClusters
  Existing <- MCExisting
  Selections <- MCSelections
  MaxRuns = 3
CHECK_DEADLOCK FALSE
INVARIANTS
  TypeOK
  SuccessIsProvisioned
  IInv
PROPERTIES
  JoinedUntouched
  DiscoveryFirst

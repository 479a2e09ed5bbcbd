SPECIFICATION Spec
CONSTANTS
  Numbers <- MCNumbers
  MaxSelected = 4
  Offered <- MCOffered
CHECK_DEADLOCK FALSE
INVARIANTS
  PlanSound
  RefusedEarly
  DocumentedRuns

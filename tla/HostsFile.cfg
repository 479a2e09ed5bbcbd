SPECIFICATION Spec
CONSTANTS
  n1 = n1
  n2 = n2
  a0 = a0
  a1 = a1
  a2 = a2
  Name = {n1, n2}
  Address = {a0, a1, a2}
  Hosts <- MCHosts
  FirstFiles <- MCFirstFiles
  MaxEdits = 2
  MaxLoops = 2
CHECK_DEADLOCK FALSE
INVARIANTS
  TypeOK
  EditCorrect
  AllOrNothing
  NamesListed

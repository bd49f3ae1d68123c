SPECIFICATION FairSpec
CONSTANTS
  c1 = c1  c2 = c2   n1 = n1
  Conns = {c1, c2}
  Nodes = {n1}
  Owner <- OneNode
  None = None
  MaxDbErrors = 1
INVARIANTS
  TypeOK
  OneFate
  RosterAgrees
PROPERTIES
  DeadNodeDropped
  NeverStranded
CHECK_DEADLOCK FALSE

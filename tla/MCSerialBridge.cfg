SPECIFICATION Spec
CONSTANTS
  Nodes = {n1}
  Ports = {p1}
  NoPort = NoPort
  MaxRequests = 2
INVARIANTS
  BoundAsWanted
CHECK_DEADLOCK FALSE

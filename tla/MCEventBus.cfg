SPECIFICATION FairSpec
CONSTANTS
  Clients = {c1, c2}
  Nodes = {n1}
  QueueMax = 2
  MaxEvents = 4
PROPERTIES
  ImplementsLossyStream
  CatchesUp
CHECK_DEADLOCK FALSE

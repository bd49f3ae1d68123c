SPECIFICATION FairSpec
CONSTANTS
  n1 = n1  n2 = n2
  Order <- TwoNodes
  Files = 1
  Targets = {n1}
  Tries = 2
  MaxJobs = 2
  MaxFaults = 1
INVARIANTS
  TransferExact
  FailedLeftAlone
  CanaryGate
PROPERTIES
  PushEnds
CHECK_DEADLOCK FALSE

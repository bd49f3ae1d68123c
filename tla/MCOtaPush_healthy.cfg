SPECIFICATION Spec
CONSTANTS
  n1 = n1  n2 = n2
  Order <- TwoNodes
  Files = 1
  Targets = {n1}
  Tries = 1
  MaxJobs = 1
  MaxFaults = 1
PROPERTIES
  HealthyRunsNew
CHECK_DEADLOCK FALSE

SPECIFICATION Spec
CONSTANTS
  MaxRows = 2
  MaxConns = 2
  MaxFaults = 1
  Unsupported <- NoRow
INVARIANTS
  RepeatNeedsFault
  NothingStranded
PROPERTIES
  InIssueOrder
CHECK_DEADLOCK FALSE

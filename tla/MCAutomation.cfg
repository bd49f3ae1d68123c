SPECIFICATION FairSpec
CONSTANTS
  a = a  b = b
  Nodes = {a, b}
  NodeOrder <- Both
  DirectScript <- LookAndPause
  RunbookScript <- TypeAndWait
  Window = 1
  MaxDirect = 1
  MaxOutput = 1
  Printing <- OnlyA
  MaxFaults = 1
  None = None
INVARIANTS
  TypeOK
  FreshSinceIssue
  FinishedMeansOver
PROPERTIES
  JobsEnd
CHECK_DEADLOCK FALSE

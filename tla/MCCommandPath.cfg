SPECIFICATION FairSpec
CONSTANTS
  Payload = 2
  Budget = 2
  TxBound = 3
  MaxCommands = 2
  MaxConns = 2
  MaxOutput = 2
  MaxInputs = 3
  MaxFaults = 1
INVARIANTS
  TypeOK
  OkMeansDone
  OutputOnce
  BackfillComplete
PROPERTIES
  Settles
CHECK_DEADLOCK FALSE

SPECIFICATION SteeringSpec
CONSTANTS
  primary = primary
  backup = backup
  Hubs <- TwoHubs
  Peers <- EachOther
  Tries = 2
  Rebind = 3
  MaxFrames = 1
  None = None
INVARIANTS
  SteeringTypeOK
PROPERTIES
  NoPullBack
  FindsALiveHub
  Takeover
CHECK_DEADLOCK FALSE

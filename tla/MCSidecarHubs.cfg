SPECIFICATION FairCallsSpec
CONSTANTS
  N = 2
  Limit = 1
  MaxCommands = 1
  MaxFaults = 1
  MaxRows = 2
INVARIANTS
  TwiceOnlyIfLost
  NoReplay
PROPERTIES
  LoneCallAnswered
  FollowsALiveHub

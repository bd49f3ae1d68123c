SPECIFICATION FairSpec
CONSTANTS
  a = a  b = b  n = n
  Chats = {a, b}
  Nodes = {n}
  Ceiling = 1
  MaxSessions = 2
  MaxOutput = 2
  MaxDrops = 1
INVARIANTS
  TypeOK
  Attached
  InOrder
PROPERTIES
  SilentOnceClosed
  IdleReaped
CHECK_DEADLOCK FALSE

CONSTANTS
  Conns = {c1, c2}
  Room = 1
  None = None
SPECIFICATION LiveSpec
INVARIANT TypeOK
PROPERTY LockComesFree
PROPERTY HeartbeatsHeard
PROPERTY ConnectionsEnd

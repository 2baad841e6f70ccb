SPECIFICATION FairSpec
CONSTANTS
  Ids = {u1}
  Sessions = {x1}
  Calls = {k1}
  Retries = 3
  None = none
CHECK_DEADLOCK FALSE
PROPERTIES
  IdleSessionIsClosed

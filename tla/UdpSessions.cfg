SPECIFICATION FairSpec
CONSTANTS
  Ids = {u1}
  Sessions = {x1, x2}
  Calls = {k1}
  Retries = 3
  None = none
CHECK_DEADLOCK FALSE
INVARIANTS
  SocketsAreReachable
  TimersAreOfOpenSessions
  PingEndsWithChannel
PROPERTIES
  NothingSurvivesClose

SPECIFICATION FairSpec
CONSTANTS
  Clients = {c1, c2}
  Handlers = {h1}
  MinBackoff = 2
  MaxBackoff = 5
  MaxActive = 2
  Nobody = nobody
CHECK_DEADLOCK FALSE
INVARIANTS
  OneRegistration
  StatusFits
  GaugeCoversCopies
PROPERTIES
  ImplementsRunnerLife
  StopsWhenCancelled
  KeepsTrying

SPECIFICATION FairSpec
CONSTANTS
  t1 = t1
  t2 = t2
  plain = plain
  other = other
  bad = bad
  off = off
  Ids = {t1, t2}
  Variants = {plain, other, bad}
  Rejected = {bad}
  Off = off
  None = none
  Latest = 4
  State <- MCState
  Tasks = {k1}
  MaxRestarts = 1
INVARIANTS
  VersionsFit
PROPERTIES
  LastStateWins
  DashboardKnows

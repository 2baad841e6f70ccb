SPECIFICATION Spec
CONSTANTS
  Slots = {s1, s2}
  MaxBoot = 2
  MaxConfig = 1
  MaxTasks = 0
  LockedConfigs = {}
SYMMETRY MCSymmetry
INVARIANTS
  GeoReportedSinceRestart

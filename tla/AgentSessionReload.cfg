SPECIFICATION Spec
CONSTANTS
  Slots = {s1, s2}
  MaxBoot = 1
  MaxConfig = 3
  MaxTasks = 1
  LockedConfigs = {2}
SYMMETRY MCSymmetry
INVARIANTS
  NoOrphanSession
  NoLostReload
  NoLostUpdate
PROPERTIES
  LockStopsLaterTasks
  SessionIsolation

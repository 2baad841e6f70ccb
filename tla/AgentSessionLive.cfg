SPECIFICATION FairSpec
CONSTANTS
  Slots = {s1, s2}
  MaxBoot = 1
  MaxConfig = 1
  MaxTasks = 1
  LockedConfigs = {1}
PROPERTIES
  DeadDaemonLeadsToReconnect
  DaemonsEnd

SPECIFICATION FairSpec
CONSTANTS
  Slots = {s1}
  MaxBoot = 1
  MaxConfig = 2
  MaxTasks = 1
  LockedConfigs = {}
PROPERTIES
  ConfigTakesEffect

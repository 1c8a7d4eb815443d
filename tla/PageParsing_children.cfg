SPECIFICATION FairSpec
CONSTANTS
  LastPage = 2
  StructureOn = TRUE
  MaxAttempts = 2
  MaxUpgrades = 1
  MaxFaults = 2
  NoFile = NoFile
INVARIANTS
  PackagedIsOwn
  NothingRunsOn
  TransientIsRetried
PROPERTIES
  EveryAttemptEnds
CHECK_DEADLOCK FALSE

SPECIFICATION Spec
CONSTANTS
  LastPage = 2
  StructureOn = TRUE
  MaxAttempts = 1
  MaxUpgrades = 0
  MaxFaults = 0
  NoFile = NoFile
INVARIANTS
  MixedIsParsed
CHECK_DEADLOCK FALSE

CONSTANTS
  Budget = 2
  Threshold = 3
  Held <- MCHeld
  MaxRows = 6
  MaxFaults = 2
  MaxBoots = 3
SPECIFICATION FairSpec
INVARIANTS
  DebtIsAccounted
  SettledDebtIsDurable
PROPERTIES
  RebuildIsQuiet
  BacklogDrains
  RepairComes

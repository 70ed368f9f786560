CONSTANTS
  billing = billing
  google = google
  Target <- MCTarget
  Verdicts <- MCUpDown
  Lowest = 2
  Highest = 2
  Window = 2
  MaxTime = 3
  MaxChanges = 1
  MaxFaults = 1
  MaxBoots = 2
SPECIFICATION FairSpec
INVARIANTS
  SeenIsVisible
  LedgerTellsHead
  RepeatsAreSpaced
PROPERTIES
  NewsArrives
CHECK_DEADLOCK FALSE

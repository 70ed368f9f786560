CONSTANTS
  PerDay = 2
  Retention = 2
  MaxWindow = 2
  RepairBefore = 4
  BraveBefore = 4
  Deployed = 4
  Name <- MCName
  Outcomes <- MCOutcomes
  Legacy <- MCLegacy
  Capabilities <- MCCapabilities
  MaxNow = 7
  MaxPolls = 2
  MaxStarts = 2
  MaxLost = 1
  MaxRefused = 1
SPECIFICATION Spec
INVARIANTS
  MigrationsSpareTheNew
  QuietStartRepairs
  OneFailureOneIncident
  SliIsEarned
  DissentIsReal
  FullUptimeIsEarned
PROPERTIES
  FinishedDaysStand
CHECK_DEADLOCK FALSE

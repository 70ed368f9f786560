\* Every interleaving of a lifecycle with two changes of the world
\* or the configuration, one fault and one restart.
CONSTANTS
  registry = registry
  google = google
  github = github
  pool = pool
  Component <- MCComponent
  Unprobed <- MCUnprobed
  Configs <- MCConfigs
  Baked <- MCBaked
  MinForVerdict = 3
  StaleAfter = 1
  MaxChanges = 2
  MaxFaults = 1
  MaxBoots = 2
SPECIFICATION FairSpec
INVARIANTS
  LogTellsBaseline
  OutagesAreCorroborated
  RecoveriesHaveStarts
  ServedIsRecordedUnlessRefused
PROPERTIES
  ImplementsChangeLog
  LogCatchesUp
  ServedCatchesUp

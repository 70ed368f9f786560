CONSTANTS
  CIRISAI = CIRISAI
  fork = fork
  CIRISEdge = CIRISEdge
  CIRISServer = CIRISServer
  Owner <- MCOwner
  Repo <- MCRepo
  Configs <- MCStable
  Baked <- MCBaked
  RunsPerRepo = 2
  MaxChanges = 2
  MaxEdits = 1
  MaxFaults = 2
  MaxBoots = 2
SPECIFICATION FairSpec
INVARIANTS
  EtagVouches
PROPERTIES
  RowsStand
  BoardCatchesUp

CONSTANTS
  CIRISAI = CIRISAI
  fork = fork
  CIRISEdge = CIRISEdge
  CIRISServer = CIRISServer
  Owner <- OneOwner
  Repo <- MCRepo
  Configs <- MCShrinking
  Baked <- MCNarrow
  RunsPerRepo = 2
  MaxChanges = 2
  MaxEdits = 2
  MaxFaults = 1
  MaxBoots = 2
SPECIFICATION Spec
INVARIANTS
  BlankIsUnknown

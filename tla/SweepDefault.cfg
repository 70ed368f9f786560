CONSTANTS
  Jobs <- DefaultJobs
  Region <- MCRegion
  Id <- MCId
  Kind <- MCKind
  KnownLlm <- MCKnownLlm
  KnownSearch <- MCKnownSearch
  Reports <- DefaultReports
  Identity <- MCNone
  Member <- MCMember
  Primary = "openrouter"
  MinAvailable = 1
  MinForVerdict = 3
  Concurrency = 2
  Vocabulary <- DefaultVocabulary
  MaxChanges = 1
  MaxLaps = 1
SPECIFICATION Spec
INVARIANTS
  NetworkVerdictsAgree
CHECK_DEADLOCK FALSE

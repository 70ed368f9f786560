CONSTANTS
  Jobs <- MCJobs
  Region <- MCRegion
  Id <- MCId
  Kind <- MCKind
  KnownLlm <- MCKnownLlm
  KnownSearch <- MCKnownSearch
  Reports <- MCReports
  Identity <- MCIdentity
  Member <- MCMember
  Primary = "openrouter"
  MinAvailable = 2
  MinForVerdict = 3
  Concurrency = 2
  Vocabulary <- MCVocabulary
  MaxChanges = 2
  MaxLaps = 2
SPECIFICATION FairSpec
INVARIANTS
  RowsTellTheSnapshot
  AnswersAreFresh
  HeadlineIsEarned
  PoolIsHonest
  EveryReportShows
PROPERTIES
  PrefetchEnds
CHECK_DEADLOCK FALSE

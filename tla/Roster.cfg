CONSTANTS
  None = None
  Offers <- MCOffers
  PageSize = 1
  MaxNow = 3
  MaxRows = 3
  MaxBuilds = 2
SPECIFICATION Spec
INVARIANTS
  ShownIsBacked
  EveryRowIsRead
  NewestIsShown
CHECK_DEADLOCK FALSE

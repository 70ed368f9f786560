CONSTANTS
  board = board
  Viewer <- MCAlone
  Capacity = 2
  MaxChanges = 2
  MaxTurns = 2
  MaxFaults = 1
  MaxBoots = 2
SPECIFICATION FairFeedSpec
PROPERTIES
  RosterNeverGoesBack
  FeedCatchesUp

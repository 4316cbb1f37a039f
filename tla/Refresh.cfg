CONSTANTS
  LastLayer = 3
  MaxPolls = 1
  MaxLandings = 1
  MaxPasses = 2
  MaxUpdates = 2
SPECIFICATION FairSpec
INVARIANT PassIsFresh
PROPERTY PassEnds
CHECK_DEADLOCK FALSE

CONSTANTS
  Runs = {r1, r2}
  Horizon = 5
  Lookback = 1
  Day = 3
  MaxLag = 2
  MaxRetries = 1
  NoMark = NoMark
SPECIFICATION Spec
SYMMETRY RunSymmetry
INVARIANTS
  NothingSkipped
  MarkIsFounded
PROPERTY MarkNeverReturns
CHECK_DEADLOCK FALSE

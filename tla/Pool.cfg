CONSTANTS
  a = a
  b = b
  c = c
  Slices = {1, 2}
  Inputs = {a, b, c}
  SliceOf <- TwoSlices
  Sources <- SomeSources
  MaxRetries = 2
  Thresholds = {0, 2}
  NoInput = NoInput
SPECIFICATION FairSpec
INVARIANTS
  LandedOnce
  ResultIsTrue
PROPERTY StageEnds
CHECK_DEADLOCK FALSE

CONSTANTS
  r1 = r1
  r2 = r2
  s1 = s1
  NoRun = NoRun
  Timer = timer
  Runs = {r1}
  Slots = {s1}
  Tasks = {t1, t2}
  SlotOf <- OneSlot
  Batches <- Requests
  Outcomes = {"failed"}
  MaxFaults = 1
  MaxGen = 2
  AllowForce = FALSE
  Operators = {op}
  StallThreshold = 2
  AllowRelease = TRUE
  SlowDispatch = FALSE
SPECIFICATION Spec
SYMMETRY TaskSymmetry
INVARIANTS
  StatusHasCause
  RecordsAgree
  RecordedMeansEnded
PROPERTIES
  IntentNeverRegresses
  IntentOutlivesClaim
CHECK_DEADLOCK FALSE

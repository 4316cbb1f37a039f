CONSTANTS
  r1 = r1
  r2 = r2
  s1 = s1
  NoRun = NoRun
  Timer = timer
  Runs = {r1}
  Slots = {s1}
  Tasks = {t1}
  SlotOf <- OneSlot
  Batches <- Requests
  Outcomes = {"failed"}
  MaxFaults = 1
  MaxGen = 2
  AllowForce = FALSE
  Operators = {op}
  StallThreshold = 1
  AllowRelease = FALSE
  SlowDispatch = TRUE
SPECIFICATION FairSpec
PROPERTIES
  ClaimReleased
  IntentResolved
  HistoryCompletes
CHECK_DEADLOCK FALSE

CONSTANTS
  r1 = r1
  r2 = r2
  s1 = s1
  NoRun = NoRun
  Timer = timer
  Runs = {r1, r2}
  Slots = {s1}
  Tasks = {t1}
  SlotOf <- OneSlot
  Batches <- Requests
  Outcomes = {"failed"}
  MaxFaults = 1
  MaxGen = 1
  AllowForce = FALSE
  Operators = {}
  StallThreshold = 2
  AllowRelease = FALSE
  SlowDispatch = FALSE
SPECIFICATION Spec
INVARIANTS
  OneRunPerSlot
  NoLostRun
PROPERTIES
  ClaimsAreLocks
CHECK_DEADLOCK FALSE

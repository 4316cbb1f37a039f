CONSTANTS
  r1 = r1
  r2 = r2
  s1 = s1
  NoRun = NoRun
  Timer = timer
  Runs = {r1, r2}
  Slots = {s1}
  Tasks = {t1}
  SlotOf <- OneSlot
  Batches <- Requests
  Outcomes = {"failed"}
  MaxFaults = 0
  MaxGen = 1
  AllowForce = TRUE
  Operators = {}
  StallThreshold = 2
  AllowRelease = FALSE
  SlowDispatch = TRUE
SPECIFICATION Spec
PROPERTIES
  ClaimChangesHands
CHECK_DEADLOCK FALSE

CONSTANTS
  j1 = j1
  j2 = j2
  Jobs = {j1, j2}
  Due <- TwoJobs
  Window = 2
  Poison = {j2}
  Never = Never
  MaxTime = 6
  MaxFaults = 2
SPECIFICATION FairCronSpec
INVARIANTS
  NoneSkipped
  OnceWithoutFaults
PROPERTY DueIsDispatched

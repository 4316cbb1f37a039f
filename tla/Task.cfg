CONSTANTS
  Tasks <- TwoTasks
  Parent <- InputFrom
  Pool <- PoolStages
  EntityOf <- RequestedEntity
  NoStage = NoStage
SPECIFICATION Spec
INVARIANTS
  TaskIsTold
  CleanTaskIsComplete
PROPERTY ManifestsStand
CHECK_DEADLOCK FALSE

CONSTANTS
  Tables <- AllTables
  Deep <- DeepTables
  Tenants = {ta, tb}
  MaxLanded = 3
  MaxRefreshes = 1
SPECIFICATION FairSpec
INVARIANTS
  OneRowPerObject
  LastModifiedWins
  ReadOnce
PROPERTIES
  SilverIsAView
  LandedIsApplied
CHECK_DEADLOCK FALSE

SPECIFICATION FairSpec
CONSTANTS
  Readers = {"r1", "r2"}
  CacheIds = {"chunk"}
  Keys = {1, 2, 3}
  Size <- SmallSize
  Budget <- SmallBudget
  NoReader = "nobody"
  MaxDecodes = 4
  MaxTicks = 4
INVARIANTS
  WithinBudget
  UsedIsSum
PROPERTIES
  ReturnedIsCached
  EvictionEnds
CHECK_DEADLOCK FALSE

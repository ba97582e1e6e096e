SPECIFICATION FairSpec
CONSTANTS
  SlotsPerChunk = 2
  FromSlots = {1}
  Scenarios <- BothScenarios
INVARIANTS
  TypeOK
  PassExact
  InOrderOnce
  NothingSkippedOfOne
PROPERTY FollowEnds
CHECK_DEADLOCK FALSE

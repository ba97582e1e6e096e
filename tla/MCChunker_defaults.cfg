SPECIFICATION Spec
CONSTANTS
  MaxSlot = 7
  Slots = {0, 1, 2, 3, 4, 5, 6, 7}
  SlotsPerChunk = 2
  Tolerance = 2
  MaxOpenChunks = 2
  MaxMsgs = 4
  MaxRuns = 2
INVARIANTS
  OpenWindow
  Accounted
  RefusalsExplained
PROPERTY SealedImmutable
CHECK_DEADLOCK FALSE

SPECIFICATION Spec
CONSTANTS
  SlotsPerChunk = 2
  FromSlots = {}
  Scenarios <- TwoChunks
INVARIANT NothingSkipped
CHECK_DEADLOCK FALSE

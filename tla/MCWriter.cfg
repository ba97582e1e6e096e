SPECIFICATION FairSpec
CONSTANTS
  MaxSlot = 3
  Slots = {0, 2}
  SlotsPerChunk = 1
  Tolerance = 1
  MaxOpenChunks = 1
  MaxMsgs = 2
  MaxRuns = 3
  MaxConcurrentUploads = 2
  RemovalMayFail = TRUE
INVARIANTS
  PendingIsComplete
  NeverPartlyPublished
PROPERTIES
  EvictOnlyDurable
  ImplementsArchive
  SealedIsUploaded
CHECK_DEADLOCK FALSE

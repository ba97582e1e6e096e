SPECIFICATION FairSpec
CONSTANTS
  Chunks <- Alternating
  Retention = 1
  MaxConcurrentDownloads = 2
  MaxRuns = 2
  RemovalMayFail = TRUE
INVARIANTS
  CatalogFresh
  CatalogServable
  HeldIsWhole
  NoChurn
PROPERTY WindowServed
CHECK_DEADLOCK FALSE

SPECIFICATION Spec
CONSTANTS
  Updates <- SmallUpdates
  Requests <- SmallRequests
  IdxVersions = {1, 2}
  MaxMsgs = 3
INVARIANTS
  DeliveredExact
  SidecarsDescribe
CHECK_DEADLOCK FALSE

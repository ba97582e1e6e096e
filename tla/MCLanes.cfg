SPECIFICATION FairSpec
CONSTANTS
  Streams = {"tx", "acct"}
  ChannelCapacity = 1
  NoExit = NoExit
  MaxMsgs = 2
INVARIANTS
  CleanExitIsComplete
  UploaderOutlivesLanes
PROPERTY SignalEndsProcess
CHECK_DEADLOCK FALSE

SPECIFICATION FairSpec
CONSTANTS
  Recordings <- SmallRecordings
  Headers <- SmallHeaders
  NoHeader = NoHeader
  Garbage = Garbage
  NotANumber = NotANumber
  None = None
  DefaultSpeed = 10
  LagWarn = 1
  LagDrop = 3
  WarnInterval = 2
  PollInterval = 1
  IdleTimeout = 4
  MaxUpload = 3
  Starts = {4, 9}
  MayStall = TRUE
INVARIANTS
  TypeOK
  PaceKept
  DropExplained
PROPERTY ConnectionEnds
CHECK_DEADLOCK FALSE

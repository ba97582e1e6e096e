SPECIFICATION Spec
CONSTANTS
  Recordings <- HeadRecordings
  Headers <- NoHeaders
  NoHeader = NoHeader
  Garbage = Garbage
  NotANumber = NotANumber
  None = None
  DefaultSpeed = 10
  LagWarn = 1
  LagDrop = 3
  WarnInterval = 2
  PollInterval = 1
  IdleTimeout = 90
  MaxUpload = 2
  Starts = {41}
  MayStall = FALSE
INVARIANT HeadFollowerKept
CHECK_DEADLOCK FALSE

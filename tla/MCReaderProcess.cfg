SPECIFICATION FairSpec
CONSTANTS
  Required = Required
  Absent = Absent
  LoadError = LoadError
  NoExit = NoExit
  Files <- SmallFiles
  Envs <- SmallEnvs
INVARIANTS
  TypeOK
  RunsAsConfigured
  CleanExitServed
  TwoPhases
PROPERTY ProcessEnds
CHECK_DEADLOCK FALSE

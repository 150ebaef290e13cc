SPECIFICATION FairSpec
CONSTANTS
  MaxFd = 2
  MaxConn = 3
INVARIANTS
  TypeOK
  NotShutUnderReader
  ForgottenIsDown
PROPERTIES
  ReadersWake
  StillAccepts
CHECK_DEADLOCK FALSE

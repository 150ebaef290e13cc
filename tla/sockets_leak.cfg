SPECIFICATION Spec
CONSTANTS
  MaxFd = 2
  MaxConn = 3
INVARIANTS
  NoLeak
CHECK_DEADLOCK FALSE

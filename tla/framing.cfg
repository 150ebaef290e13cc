SPECIFICATION FairSpec
CONSTANTS
  short = short
  long = long
  Writer = {1, 2}
  Payloads = {short, long}
  Dump <- Texts
  Types = {12}
  SizeGuard = 15
  BufferSize = 5
  Pieces = {1, 2, 5, 6, 11}
  MaxPackets = 2
  MaxDamaged = 9
  Timeouts = TRUE
INVARIANTS
  TypeOK
  Aligned
PROPERTIES
  QueueSpec
  AllArrive
CHECK_DEADLOCK FALSE

SPECIFICATION FairSpec
CONSTANTS
  r1 = r1
  r2 = r2
  s1 = s1
  s2 = s2
  Conn = {r1, s1}
  Users = {u}
  Services = {s}
  Forged = Forged
  None = None
  Sends <- Anything
  MaxInbox = 1
  Faulty = {r1, s1}
INVARIANTS
  TypeOK
  PeerOrder
PROPERTIES
  ThreadEnds
  ServiceAnswered
CHECK_DEADLOCK FALSE

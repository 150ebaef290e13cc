SPECIFICATION Spec
CONSTANTS
  r1 = r1
  r2 = r2
  s1 = s1
  s2 = s2
  Conn = {r1, r2, s1}
  Users = {u}
  Services = {s}
  Forged = Forged
  None = None
  Sends <- Programs
  MaxInbox = 1
  Faulty = {r1, r2, s1}
SYMMETRY Symmetry
INVARIANTS
  ConnectedLive
  OneKeyPerConnection
  NoSilentOrphan
  Inductive
CHECK_DEADLOCK FALSE

SPECIFICATION FairHandshake
CONSTANTS
  r1 = r1
  r2 = r2
  s1 = s1
  s2 = s2
  s = s
  u = u
  v = v
  Conn = {r1, r2, s1}
  Links = {s1}
  Users = {u}
  Services = {s}
  Forged = Forged
  None = None
  Sends <- ProgramPackets
  ServerCert <- Registered
  FalseCertificates = FALSE
  MaxInbox = 1
  Breakable = {}
  Faulty = {r1, r2, s1}
PROPERTIES
  ClientReturns
CHECK_DEADLOCK FALSE

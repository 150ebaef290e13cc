SPECIFICATION ScheduledSpec
CONSTANTS
  r1 = r1
  r2 = r2
  r3 = r3
  r4 = r4
  r5 = r5
  r6 = r6
  s1 = s1
  s2 = s2
  s3 = s3
  s4 = s4
  s5 = s5
  s = s
  u = u
  Conn = {r1, r2, r3, r4, r5, r6, s1, s2, s3, s4, s5}
  Links = {s1, s2, s3, s4, s5}
  Users = {u}
  Services = {s}
  Forged = Forged
  None = None
  Sends <- ProgramPackets
  ServerCert <- Registered
  FalseCertificates = TRUE
  MaxInbox = 1
  Breakable = {}
  Faulty = {}
INVARIANT
  SameKey
CHECK_DEADLOCK FALSE

SPECIFICATION OneBreak
CONSTANTS
  r1 = r1
  r2 = r2
  s1 = s1
  s2 = s2
  s = s
  u = u
  v = v
  Conn = {r1, r2, s1, s2}
  Links = {s1, s2}
  Users = {u, v}
  Services = {s}
  Forged = Forged
  None = None
  Sends <- ProgramPackets
  ServerCert <- Registered
  FalseCertificates = FALSE
  MaxInbox = 1
  Breakable = {s1, s2}
  Faulty = {}
SYMMETRY Retries
INVARIANTS
  HandshakeTypeOK
  KeyOfTwo
  KeyBinding
  SessionOnOwnLink
  SameKeyUnlessTwo
  ReadsInOrder
  ReadyForData
PROPERTIES
  BrokerSpec
CHECK_DEADLOCK FALSE

SPECIFICATION FairSpec
CONSTANTS
  c = c
  s = s
  None = None
  Run = {1, 2}
  Client = {c}
  Server = {s}
  Falsifying = {s}
  HexId <- Ids
  GarbageId <- Garbage
  TtpName <- Authority
  FakeName <- Fake
  MaxCommonName = 2
INVARIANTS
  TypeOK
  CertificateOfOwner
  AcceptedIsCurrent
  AwaitsTtp
PROPERTIES
  FileOfListener
  WaitEnds
CHECK_DEADLOCK FALSE

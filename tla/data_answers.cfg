SPECIFICATION FairSpec
CONSTANTS
  m1 = m1
  m2 = m2
  l1 = l1
  l2 = l2
  Messages = {m1, m2}
  Empty = Empty
  Links = {l1, l2}
  First = l1
  MaxSent = 3
  LibraryFaults = TRUE
INVARIANTS
  TypeOK
  RowsMatch
PROPERTIES
  AnswersLast
  SendReturns
CHECK_DEADLOCK FALSE

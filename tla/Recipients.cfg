\* The user and two contacts, of whom a lookup may find three rows and add one.
SPECIFICATION Spec
CONSTANTS
  a1 = a1
  a2 = a2
  a3 = a3
  p1 = p1
  p2 = p2
  p3 = p3
  e1 = e1
  e2 = e2
  e3 = e3
  None = None
  Acis <- MCAcis
  Pnis <- MCPnis
  E164s <- MCE164s
  SelfAci = a1
  SelfPni = p1
  SelfE164 = e1
  Ids = {r1, r2, r3, r4}
  Messages = {m1}
SYMMETRY Symmetry
INVARIANTS TypeOK  PniUnique
PROPERTIES AciStays HistoryStays NumberFollowsAci
\* Every row, identifier and message may be in use.
CHECK_DEADLOCK FALSE

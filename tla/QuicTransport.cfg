SPECIFICATION Spec
CONSTANTS
  Node <- MCNode
  Call <- MCCall
  None = None
  Situation <- MCSituations
  Workers = 2
  StreamLimit = 2
  StatusLimit = 3
  n1 = n1
  n2 = n2
  c1 = c1
  c2 = c2
  c3 = c3
  c4 = c4
INVARIANTS TypeOK StoredIsRead StopJoins
PROPERTIES CallsReturn NodesMeet  SentArrives
CHECK_DEADLOCK FALSE

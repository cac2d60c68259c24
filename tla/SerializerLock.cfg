SPECIFICATION Spec
CONSTANTS
  Caller <- MCCaller
  Server <- MCServer
  Writer <- MCWriter
  Situation <- MCApart
  c1 = c1
  c2 = c2
  s1 = s1
  s2 = s2
  w1 = w1
INVARIANTS TypeOK
PROPERTIES TasksEnd
CHECK_DEADLOCK FALSE

SPECIFICATION Spec
CONSTANTS
  Caller <- MCNoCaller
  Server <- MCServer
  Writer <- MCWriter
  Situation <- MCTogether
  c1 = c1
  c2 = c2
  s1 = s1
  s2 = s2
  w1 = w1
PROPERTIES TasksEnd
CHECK_DEADLOCK FALSE

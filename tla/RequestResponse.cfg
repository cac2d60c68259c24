SPECIFICATION Spec
CONSTANTS
  Request <- MCRequest
  NoRequest = NoRequest
  r1 = r1
  r2 = r2
INVARIANTS TypeOK PendingMatchesWaiters 
PROPERTIES ImplementsRpc
CHECK_DEADLOCK FALSE

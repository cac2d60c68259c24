SPECIFICATION Spec
CONSTANTS
  Request <- MCRequest
  NoRequest = NoRequest
  r1 = r1
  r2 = r2
INVARIANTS PendingFreed
PROPERTIES ReplySettles
CHECK_DEADLOCK FALSE

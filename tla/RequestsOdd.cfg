SPECIFICATION Spec
CONSTANTS
  Literal <- MCLiteral
  Param <- MCParam
  Star = Star
  Multi = Multi
  Template = Template
  Empty = Empty
  Slots = 4
  Local <- MCLocal
  Remote <- MCRemote
  ServiceOf <- MCServiceOf
  ActionName <- MCActionName
  Request <- MCRequest
  NoService = NoService
  Orders <- MCOrders
  Wrap = 4
  Situation <- MCWild
  svc = svc
  far = far
  a = a
  b = b
  x = x
  y = y
  exact = exact
  named = named
  deep = deep
  renamed = renamed
  whole = whole
  mixed = mixed
  other = other
  farA = farA
  farX = farX
  farB = farB
  farAll = farAll
  q1 = q1
  q2 = q2
  q3 = q3
INVARIANTS EveryActionListed ExactFirst ParamsExtracted RemoteMeant
CHECK_DEADLOCK FALSE

SPECIFICATION Spec
CONSTANTS
  Literal <- MCLiteral
  Param <- MCParam
  Star = Star
  Multi = Multi
  Template = Template
  Id <- MCId
  Attempt <- MCAttempt
  Publisher <- MCPublisher
  Pattern <- MCPattern
  Topic <- MCTopic
  Orders <- MCOrders
  Situation <- MCSituations
  NoTopic = NoTopic
  svc = svc
  a = a
  b = b
  id = id
  i1 = i1
  i2 = i2
  i3 = i3
  u1 = u1
  x1 = x1
  x2 = x2
CONSTRAINT MCBound
SYMMETRY MCSymmetry
INVARIANTS TypeOK TrieFindsCovering SubscribersExact  EventsListed
PROPERTIES ImplementsPubSub
CHECK_DEADLOCK FALSE

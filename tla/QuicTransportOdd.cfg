\* One property at a time, with the values that README.md gives for it.
SPECIFICATION Spec
CONSTANTS
  Node <- MCNode
  Call <- MCCall
  None = None
  Situation <- MCOneWay
  Workers = 2
  StreamLimit = 1
  StatusLimit = 3
  n1 = n1
  n2 = n2
  c1 = c1
  c2 = c2
  c3 = c3
  c4 = c4
PROPERTIES PeerInfoComes
\* INVARIANTS SentNotLost
\* INVARIANTS StopJoinsAll
\* INVARIANTS AnswersPass
\* PROPERTIES CallsReturn
\* PROPERTIES GreetedIsAnnounced
\* PROPERTIES DisconnectedSilent
CHECK_DEADLOCK FALSE

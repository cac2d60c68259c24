\* One property at a time, with the values that README.md gives for it.
SPECIFICATION SyncSpec
CONSTANTS
  Peer <- MCOnePeer
  Item <- MCItem
  Call <- MCCall
  HandleOf <- MCHandle
  Running <- MCRunning
  NoCall = NoCall
  NoInfo = NoInfo
  Situation <- MCFree
  p1 = p1
  p2 = p2
  s1 = s1
  k1 = k1
  k2 = k2
  app = app
  service = service
INVARIANTS OneAsleep
\* PROPERTIES EveryPeerTold
\* PROPERTIES LatestInfoComes
CHECK_DEADLOCK FALSE

SPECIFICATION SyncSpec
CONSTANTS
  Peer <- MCPeer
  Item <- MCItem
  Call <- MCCall
  HandleOf <- MCHandle
  Running <- MCRunning
  NoCall = NoCall
  NoInfo = NoInfo
  Situation <- MCSituations
  p1 = p1
  p2 = p2
  s1 = s1
  k1 = k1
  k2 = k2
  app = app
  service = service
INVARIANTS SyncTypeOK 
PROPERTIES AnnouncementArrives LatestInfoArrives
CHECK_DEADLOCK FALSE

SPECIFICATION DiscoverySpec
CONSTANTS
  Node <- MCTwoNodes
  MaxLife = 2
  ChannelSize = 1
  FaultSet <- MCSituations
  n1 = n1
  n2 = n2
INVARIANTS DiscoveryTypeOK
PROPERTIES NodesConnect SilenceFalls
CHECK_DEADLOCK FALSE

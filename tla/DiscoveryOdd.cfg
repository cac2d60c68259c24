SPECIFICATION DiscoverySpec
CONSTANTS
  Node <- MCTwoNodes
  MaxLife = 2
  ChannelSize = 1
  FaultSet <- MCFaults
  n1 = n1
  n2 = n2
INVARIANTS DiscoveryTypeOK
PROPERTIES ConnectionLives StoppedSilent
CHECK_DEADLOCK FALSE

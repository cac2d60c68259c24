SPECIFICATION Spec
CONSTANTS
  Peer <- MCTwoPeers
  Service <- MCService
  Topic <- MCTopic
  Action <- MCAction
  Template = byId
  NameOf <- MCPath
  PathOf <- MCPath
  ActionsOf <- MCActions
  OfferedBy <- MCOfferedTwo
  MaxVersion = 2
  NoInfo = NoInfo
  NoProxy = NoProxy
  NoTopic = NoTopic
  p1 = p1
  p2 = p2
  p3 = p3
  math = math
  users = users
  logs = logs
  tMath = tMath
  tUsers = tUsers
  tLogs = tLogs
  tTitle = tTitle
  add = add
  show = show
  byId = byId
INVARIANTS EveryServiceAvailable ExactMatchFirst

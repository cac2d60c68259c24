SPECIFICATION Spec
CONSTANTS
  Peer <- MCPeer
  Service <- MCService
  Topic <- MCTopic
  Action <- MCAction
  Template = byId
  NameOf <- MCNameInvalid
  PathOf <- MCPath
  ActionsOf <- MCActions
  OfferedBy <- MCOffered
  MaxVersion = 2
  NoInfo = NoInfo
  NoProxy = NoProxy
  NoTopic = NoTopic
  p1 = p1
  p2 = p2
  p3 = p3
  math = math
  users = users
  logs = logs
  tMath = tMath
  tUsers = tUsers
  tLogs = tLogs
  tTitle = tTitle
  add = add
  show = show
  byId = byId
INVARIANTS TypeOK HandlersHaveService  RegisteredIsAdvertised KnownServicesAvailable 
PROPERTIES KnownVersionsRise OtherPeersUndisturbed ListenerReturns

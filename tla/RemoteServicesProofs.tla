------------------------ MODULE RemoteServicesProofs ------------------------
(***************************************************************************)
(* Theorems about RemoteServices, for every set of peers, services, topics *)
(* and actions and whatever NodeInfos arrive.                              *)
(***************************************************************************)
EXTENDS RemoteServices, SequenceTheorems, TLAPS

-----------------------------------------------------------------------------
\* The idle task is a task.
LEMMA IdleType == Idle \in Task
<1>1. (CHOOSE p \in Peer : TRUE) \in Peer /\ (CHOOSE s \in Service : TRUE) \in Service
  BY ConstantsAssumption
<1>2. 0 \in 0..MaxVersion
  BY ConstantsAssumption
<1> QED BY <1>1, <1>2 DEF Idle, Task, Phase, NodeInfo

\* The first value a lookup finds is a value of the literal node or of the
\* template node beside it.
LEMMA FirstMatch ==
  ASSUME NEW handlers \in [ActionTopic -> Seq(Seq(Handler))], NEW at \in ActionTopic,
         FindMatches(handlers, at) # <<>>
  PROVE  \E bt \in ActionTopic :
           /\ bt[1] = at[1]
           /\ handlers[bt] # <<>>
           /\ FindMatches(handlers, at)[1] = handlers[bt][1]
           /\ FindMatches(handlers, at)[1] \in Seq(Handler)
<1> DEFINE tt == <<at[1], Template>>
<1>1. at[1] \in Topic /\ at[2] \in Action /\ tt \in ActionTopic /\ tt[1] = at[1]
  BY ConstantsAssumption DEF ActionTopic
<1>2. handlers[at] \in Seq(Seq(Handler)) /\ handlers[tt] \in Seq(Seq(Handler))
  BY <1>1
<1>3. \A s \in Seq(Seq(Handler)) : s # <<>> => Len(s) \in Nat /\ Len(s) >= 1 /\ s[1] \in Seq(Handler)
  OBVIOUS
<1>4. CASE at[2] = Template
  BY <1>2, <1>3, <1>4 DEF FindMatches
<1>5. CASE at[2] # Template /\ handlers[at] # <<>>
  <2>1. FindMatches(handlers, at) = handlers[at] \o handlers[tt]
    BY <1>5 DEF FindMatches
  <2>2. (handlers[at] \o handlers[tt])[1] = handlers[at][1]
    BY <1>2, <1>3, <1>5
  <2> QED BY <1>2, <1>3, <1>5, <2>1, <2>2
<1>6. CASE at[2] # Template /\ handlers[at] = <<>>
  <2>1. FindMatches(handlers, at) = handlers[tt]
    BY <1>2, <1>6 DEF FindMatches
  <2> QED BY <1>1, <1>2, <1>3, <2>1
<1> QED BY <1>4, <1>5, <1>6

\* What register_remote_action_handler does to the trie: it adds a value that
\* ends in the new handler to one node, and every other handler in that value
\* was already found in the same service's topic.
LEMMA WithHandlerEffect ==
  ASSUME NEW handlers \in [ActionTopic -> Seq(Seq(Handler))], NEW at \in ActionTopic,
         NEW h \in Handler
  PROVE  /\ WithHandler(handlers, at, h) \in [ActionTopic -> Seq(Seq(Handler))]
         /\ \A bt \in ActionTopic : bt # at => WithHandler(handlers, at, h)[bt] = handlers[bt]
         /\ Occurs(h, WithHandler(handlers, at, h)[at])
         /\ \A g \in Handler : Occurs(g, handlers[at]) => Occurs(g, WithHandler(handlers, at, h)[at])
         /\ \A g \in Handler : Occurs(g, WithHandler(handlers, at, h)[at]) =>
              \/ g = h
              \/ \E bt \in ActionTopic : bt[1] = at[1] /\ Occurs(g, handlers[bt])
<1> DEFINE matches == FindMatches(handlers, at)
           list == IF matches = <<>> THEN <<h>> ELSE Append(matches[1], h)
           old == handlers[at]
           after == WithHandler(handlers, at, h)
<1>1. list \in Seq(Handler) /\ Len(list) \in Nat \ {0} /\ list[Len(list)] = h
  <2>1. CASE matches = <<>>
    BY <2>1
  <2>2. CASE matches # <<>>
    BY <2>2, FirstMatch
  <2> QED BY <2>1, <2>2
<1>2. \A g \in Handler : (\E j \in DOMAIN list : list[j] = g) =>
        \/ g = h
        \/ \E bt \in ActionTopic : bt[1] = at[1] /\ Occurs(g, handlers[bt])
  <2>1. CASE matches = <<>>
    BY <2>1
  <2>2. CASE matches # <<>>
    <3>1. PICK bt \in ActionTopic : /\ bt[1] = at[1]
                                    /\ handlers[bt] # <<>>
                                    /\ matches[1] = handlers[bt][1]
                                    /\ matches[1] \in Seq(Handler)
      BY <2>2, FirstMatch
    <3>2. 1 \in DOMAIN handlers[bt]
      BY <3>1
    <3> SUFFICES ASSUME NEW g \in Handler, NEW j \in DOMAIN list, list[j] = g, g # h
                 PROVE  Occurs(g, handlers[bt])
      BY <3>1
    <3>3. list = Append(matches[1], h)
      BY <2>2
    <3>4. j \in DOMAIN matches[1] /\ matches[1][j] = g
      BY <3>1, <3>3
    <3> QED BY <3>1, <3>2, <3>4 DEF Occurs
  <2> QED BY <2>1, <2>2
<1>3. old \in Seq(Seq(Handler))
  OBVIOUS
<1>4. after = [handlers EXCEPT ![at] = Append(old, list)]
  BY DEF WithHandler
<1> HIDE DEF list, old, after
<1>5. Append(old, list) \in Seq(Seq(Handler)) /\ Append(old, list) # <<>>
  BY <1>1, <1>3, AppendProperties
<1>6. after[at] = Append(old, list)
  BY <1>4
<1>7. after \in [ActionTopic -> Seq(Seq(Handler))]
  BY <1>4, <1>5
<1>8. DOMAIN after[at] = DOMAIN old \cup {Len(old) + 1} /\ after[at][Len(old) + 1] = list
      /\ \A i \in DOMAIN old : after[at][i] = old[i]
  BY <1>1, <1>3, <1>6
<1>9. Occurs(h, after[at])
  BY <1>1, <1>8 DEF Occurs
<1>10. ASSUME NEW g \in Handler, Occurs(g, old)
       PROVE  Occurs(g, after[at])
  BY <1>8, <1>10 DEF Occurs
<1>11. ASSUME NEW g \in Handler, Occurs(g, after[at])
       PROVE  \/ g = h
              \/ \E bt \in ActionTopic : bt[1] = at[1] /\ Occurs(g, handlers[bt])
  <2>1. PICK i \in DOMAIN after[at] : \E j \in DOMAIN after[at][i] : after[at][i][j] = g
    BY <1>11 DEF Occurs
  <2>2. CASE i \in DOMAIN old
    <3>1. Occurs(g, handlers[at])
      BY <1>8, <2>1, <2>2 DEF Occurs, old
    <3> QED BY <3>1
  <2>3. CASE i = Len(old) + 1
    BY <1>2, <1>8, <2>1, <2>3
  <2> QED BY <1>8, <2>1, <2>2, <2>3
<1>12. \A bt \in ActionTopic : bt # at => after[bt] = handlers[bt]
  BY <1>4
<1> QED BY <1>5, <1>6, <1>7, <1>9, <1>10, <1>11, <1>12 DEF old, after

-----------------------------------------------------------------------------
(***************************************************************************)
(* The inductive invariant.                                                *)
(***************************************************************************)

\* A proxy sits under the topic of its service's name.
ProxyUnderItsName ==
  \A t \in Topic : remote_services[t] # NoProxy =>
    NameOf[remote_services[t].service] = t

\* Only the nodes of a registered service's listed actions hold handlers.
NodesListed ==
  \A t \in Topic, a \in Action : remote_action_handlers[<<t, a>>] # <<>> =>
    /\ remote_services[t] # NoProxy
    /\ a \in ActionsOf[remote_services[t].service]

\* What the listener's local variables say at each point.
TaskInv ==
  /\ task.phase \in {"adding", "initializing"} =>
       \A s \in task.todo : NameOf[s] \in Topic
  /\ task.phase = "initializing" =>
       /\ NameOf[task.current] \in Topic
       /\ remote_services[NameOf[task.current]] =
            [peer |-> task.peer, service |-> task.current]
       /\ task.actions \subseteq ActionsOf[task.current]
  /\ task.phase = "stopping" =>
       /\ remote_services[PathOf[task.current]] # NoProxy
       /\ \A a \in Action :
            remote_action_handlers[<<PathOf[task.current], a>>] # <<>> => a \in task.actions

IInv ==
  /\ TypeOK
  /\ ProxyUnderItsName
  /\ NodesListed
  /\ HandlersHaveService
  /\ TaskInv

\* Every step keeps the types.
LEMMA TypeStep == TypeOK /\ ProxyUnderItsName /\ TaskInv /\ [Next]_vars => TypeOK'
<1> SUFFICES ASSUME TypeOK, ProxyUnderItsName, TaskInv, [Next]_vars PROVE TypeOK'
  OBVIOUS
<1> USE ConstantsAssumption DEF TypeOK, registry
<1>1. ASSUME NEW p \in Peer, NEW info \in NodeInfo, ReceiveInfo(p, info)
      PROVE  TypeOK'
  <2>1. received' \in [Peer -> 0..MaxVersion]
    BY <1>1 DEF ReceiveInfo, NodeInfo
  <2>2. ServicesToAdd(info) \in SUBSET Service
    BY DEF ServicesToAdd, NodeInfo
  <2>3. known_peers[p] # NoInfo => ServicesToRemove(p) \in SUBSET Service
    BY DEF ServicesToRemove, NodeInfo
  <2>4. known_peers' \in [Peer -> NodeInfo \cup {NoInfo}]
    BY <1>1 DEF ReceiveInfo
  <2>5. task' \in Task
    BY <1>1, <2>2, <2>3 DEF ReceiveInfo, Task, Phase
  <2> QED BY <1>1, <2>1, <2>4, <2>5 DEF ReceiveInfo
<1>2. ASSUME NEW s \in Service, FindService(s)
      PROVE  TypeOK'
  BY <1>2 DEF FindService, Task, Phase, Proxy
<1>3. ASSUME NEW s \in Service, FailToFindService(s)
      PROVE  TypeOK'
  BY <1>3, IdleType DEF FailToFindService
<1>4. ASSUME NEW s \in Service, RegisterService(s)
      PROVE  TypeOK'
  BY <1>4 DEF RegisterService, Task, Phase, Proxy, TaskInv
<1>5. ASSUME NEW s \in Service, RejectService(s)
      PROVE  TypeOK'
  BY <1>5 DEF RejectService, Task, Phase
<1>6. ASSUME NEW a \in Action, StopAction(a)
      PROVE  TypeOK'
  <2>1. <<>> \in Seq(Seq(Handler))
    OBVIOUS
  <2> QED BY <1>6, <2>1 DEF StopAction, Task, Phase
<1>7. ASSUME NEW a \in Action, InitAction(a)
      PROVE  TypeOK'
  <2> DEFINE at == <<NameOf[task.current], a>>
             h == [peer |-> task.peer, service |-> task.current, action |-> a]
  <2>1. at \in ActionTopic /\ h \in Handler
    BY <1>7 DEF InitAction, TaskInv, ActionTopic, Handler, Task
  <2>2. remote_action_handlers' \in [ActionTopic -> Seq(Seq(Handler))]
    BY <1>7, <2>1, WithHandlerEffect DEF InitAction
  <2>3. task' \in Task
    BY <1>7 DEF InitAction, Task, Phase
  <2> QED BY <1>7, <2>2, <2>3 DEF InitAction
<1>8. ASSUME ForgetService
      PROVE  TypeOK'
  BY <1>8 DEF ForgetService, Task, Phase
<1>9. ASSUME ReplaceInfo
      PROVE  TypeOK'
  <2>1. ServicesToAdd(task.info) \in SUBSET Service
    BY DEF ServicesToAdd, Task, NodeInfo
  <2> QED BY <1>9, <2>1 DEF ReplaceInfo, Task, Phase
<1>10. ASSUME InitDone
       PROVE  TypeOK'
  BY <1>10 DEF InitDone, Task, Phase
<1>11. ASSUME Done
       PROVE  TypeOK'
  BY <1>11, IdleType DEF Done
<1>12. CASE UNCHANGED vars
  BY <1>12 DEF vars
<1> QED BY <1>1, <1>2, <1>3, <1>4, <1>5, <1>6, <1>7, <1>8, <1>9, <1>10, <1>11, <1>12
        DEF Next, ListenerStep

\* The handlers a step leaves and adds: the invariant apart from the types.
LEMMA RegistryStep ==
  IInv /\ [Next]_vars => ProxyUnderItsName' /\ NodesListed' /\ HandlersHaveService' /\ TaskInv'
<1> SUFFICES ASSUME IInv, [Next]_vars
             PROVE  ProxyUnderItsName' /\ NodesListed' /\ HandlersHaveService' /\ TaskInv'
  OBVIOUS
<1> DEFINE Registry == ProxyUnderItsName /\ NodesListed /\ HandlersHaveService
<1> USE ConstantsAssumption
<1>0. TypeOK /\ Registry /\ TaskInv
  BY DEF IInv
\* Steps that leave both tries alone keep what is said of the tries.
<1>a. UNCHANGED registry => Registry'
  BY <1>0 DEF registry, ProxyUnderItsName, NodesListed, HandlersHaveService, Occurs
<1>1. ASSUME NEW p \in Peer, NEW info \in NodeInfo, ReceiveInfo(p, info)
      PROVE  Registry' /\ TaskInv'
  <2>1. \A s \in ServicesToAdd(info) : NameOf[s] \in Topic
    BY DEF ServicesToAdd, NodeInfo
  <2>2. task'.phase \in {"idle", "removing"} \/ (task'.phase = "adding" /\ task'.todo = ServicesToAdd(info))
    BY <1>0, <1>1 DEF ReceiveInfo, TypeOK, Task
  <2>3. TaskInv'
    BY <2>1, <2>2 DEF TaskInv
  <2> QED BY <1>1, <1>a, <2>3 DEF ReceiveInfo
<1>2. ASSUME NEW s \in Service, FindService(s)
      PROVE  Registry' /\ TaskInv'
  <2>1. TaskInv'
    <3>1. /\ task'.phase = "stopping"
          /\ task'.current = s
          /\ task'.actions = ActionsOf[remote_services[PathOf[s]].service]
          /\ remote_services[PathOf[s]] # NoProxy
          /\ UNCHANGED registry
      BY <1>0, <1>2 DEF FindService, TypeOK, Task
    <3>2. \A a \in Action : remote_action_handlers[<<PathOf[s], a>>] # <<>> =>
            a \in ActionsOf[remote_services[PathOf[s]].service]
      BY <1>0 DEF NodesListed
    <3> QED BY <3>1, <3>2 DEF TaskInv, registry
  <2> QED BY <1>2, <1>a, <2>1 DEF FindService
<1>3. ASSUME NEW s \in Service, FailToFindService(s)
      PROVE  Registry' /\ TaskInv'
  <2>1. TaskInv'
    BY <1>3 DEF FailToFindService, TaskInv, Idle
  <2> QED BY <1>3, <1>a, <2>1 DEF FailToFindService
<1>4. ASSUME NEW s \in Service, RegisterService(s)
      PROVE  Registry' /\ TaskInv'
  <2> DEFINE t == NameOf[s]
             proxy == [peer |-> task.peer, service |-> s]
  <2>1. /\ t \in Topic /\ remote_services[t] = NoProxy
        /\ remote_services' = [remote_services EXCEPT ![t] = proxy]
        /\ UNCHANGED remote_action_handlers
        /\ task' = [task EXCEPT !.phase = "initializing", !.current = s,
                       !.actions = ActionsOf[s]]
    BY <1>0, <1>4 DEF RegisterService, TaskInv
  <2>2. remote_services'[t] = proxy /\ \A u \in Topic : u # t => remote_services'[u] = remote_services[u]
    BY <1>0, <2>1 DEF TypeOK
  <2>3. \A a \in Action : remote_action_handlers[<<t, a>>] = <<>>
    BY <1>0, <2>1 DEF NodesListed
  <2>4. ProxyUnderItsName'
    BY <1>0, <2>2 DEF ProxyUnderItsName
  <2>5. NodesListed'
    BY <1>0, <2>1, <2>2, <2>3 DEF NodesListed
  <2>6. HandlersHaveService'
    <3> SUFFICES ASSUME NEW at \in ActionTopic, NEW h \in Handler,
                        Occurs(h, remote_action_handlers[at])
                 PROVE  remote_services'[at[1]] = [peer |-> h.peer, service |-> h.service]
      BY <2>1 DEF HandlersHaveService, Occurs
    <3>1. at = <<at[1], at[2]>> /\ at[1] \in Topic /\ at[2] \in Action
      BY DEF ActionTopic
    <3>2. remote_action_handlers[at] # <<>>
      BY DEF Occurs
    <3>3. at[1] # t
      BY <2>3, <3>1, <3>2
    <3> QED BY <1>0, <2>2, <3>1, <3>3 DEF HandlersHaveService
  <2>7. TaskInv'
    BY <1>0, <1>4, <2>1, <2>2 DEF TaskInv, TypeOK, Task, RegisterService
  <2> QED BY <2>4, <2>5, <2>6, <2>7
<1>5. ASSUME NEW s \in Service, RejectService(s)
      PROVE  Registry' /\ TaskInv'
  <2>1. TaskInv'
    BY <1>0, <1>5 DEF RejectService, TaskInv, TypeOK, Task
  <2> QED BY <1>5, <1>a, <2>1 DEF RejectService
<1>6. ASSUME NEW a \in Action, StopAction(a)
      PROVE  Registry' /\ TaskInv'
  <2> DEFINE t == PathOf[task.current]
             at == <<t, a>>
  <2>1. t \in Topic /\ at \in ActionTopic /\ remote_services[t] # NoProxy
    BY <1>0, <1>6 DEF StopAction, TaskInv, TypeOK, Task, ActionTopic
  <2>2. NameOf[remote_services[t].service] = t
    BY <1>0, <2>1 DEF ProxyUnderItsName
  <2>3. remote_action_handlers' = [remote_action_handlers EXCEPT ![at] = <<>>]
    BY <1>6, <2>2 DEF StopAction
  <2>4. /\ remote_action_handlers'[at] = <<>>
        /\ \A bt \in ActionTopic : bt # at => remote_action_handlers'[bt] = remote_action_handlers[bt]
        /\ UNCHANGED remote_services
    BY <1>0, <1>6, <2>1, <2>3 DEF TypeOK, StopAction
  <2>5. \A bt \in ActionTopic : remote_action_handlers'[bt] # <<>> =>
           remote_action_handlers'[bt] = remote_action_handlers[bt]
    BY <2>4
  <2>6. ProxyUnderItsName'
    BY <1>0, <2>4 DEF ProxyUnderItsName
  <2>7. NodesListed'
    <3> SUFFICES ASSUME NEW u \in Topic, NEW b \in Action, remote_action_handlers'[<<u, b>>] # <<>>
                 PROVE  remote_services[u] # NoProxy /\ b \in ActionsOf[remote_services[u].service]
      BY <2>4 DEF NodesListed
    <3>1. remote_action_handlers[<<u, b>>] # <<>>
      BY <2>5 DEF ActionTopic
    <3> QED BY <1>0, <3>1 DEF NodesListed
  <2>8. HandlersHaveService'
    BY <1>0, <2>4, <2>5 DEF HandlersHaveService, Occurs
  <2>9. TaskInv'
    <3>1. task' = [task EXCEPT !.actions = task.actions \ {a}] /\ task.phase = "stopping"
      BY <1>6 DEF StopAction
    <3>2. /\ task'.phase = "stopping" /\ task'.current = task.current
          /\ task'.actions = task.actions \ {a}
      BY <1>0, <3>1 DEF TypeOK, Task
    <3>3. ASSUME NEW b \in Action, remote_action_handlers'[<<t, b>>] # <<>>
          PROVE  b \in task'.actions
      <4>1. b # a /\ <<t, b>> \in ActionTopic
        BY <2>1, <2>4, <3>3 DEF ActionTopic
      <4>2. remote_action_handlers[<<t, b>>] # <<>>
        BY <2>5, <3>3, <4>1
      <4> QED BY <1>0, <3>1, <3>2, <4>1, <4>2 DEF TaskInv
    <3> QED BY <1>0, <2>1, <2>4, <3>2, <3>3 DEF TaskInv
  <2> QED BY <2>6, <2>7, <2>8, <2>9
<1>7. ASSUME NEW a \in Action, InitAction(a)
      PROVE  Registry' /\ TaskInv'
  <2> DEFINE t == NameOf[task.current]
             at == <<t, a>>
             h == [peer |-> task.peer, service |-> task.current, action |-> a]
  <2>1. /\ t \in Topic /\ at \in ActionTopic /\ h \in Handler
        /\ remote_services[t] = [peer |-> task.peer, service |-> task.current]
        /\ a \in ActionsOf[task.current]
    BY <1>0, <1>7 DEF InitAction, TaskInv, TypeOK, Task, ActionTopic, Handler
  <2>2. /\ remote_action_handlers' = WithHandler(remote_action_handlers, at, h)
        /\ UNCHANGED remote_services
    BY <1>7 DEF InitAction
  <2>3. /\ \A bt \in ActionTopic : bt # at => remote_action_handlers'[bt] = remote_action_handlers[bt]
        /\ \A g \in Handler : Occurs(g, remote_action_handlers'[at]) =>
             \/ g = h
             \/ \E bt \in ActionTopic : bt[1] = at[1] /\ Occurs(g, remote_action_handlers[bt])
    <3>1. remote_action_handlers \in [ActionTopic -> Seq(Seq(Handler))]
      BY <1>0 DEF TypeOK
    <3> DEFINE after == WithHandler(remote_action_handlers, at, h)
    <3>2. \A bt \in ActionTopic : bt # at => after[bt] = remote_action_handlers[bt]
      BY <2>1, <3>1, WithHandlerEffect
    <3>3. ASSUME NEW g \in Handler, Occurs(g, after[at])
          PROVE  \/ g = h
                 \/ \E bt \in ActionTopic : bt[1] = at[1] /\ Occurs(g, remote_action_handlers[bt])
      <4> HIDE DEF at, h
      <4> QED BY <2>1, <3>1, <3>3, WithHandlerEffect
    <3> QED BY <2>2, <3>2, <3>3
  <2>4. ProxyUnderItsName'
    BY <1>0, <2>2 DEF ProxyUnderItsName
  <2>5. NodesListed'
    <3> SUFFICES ASSUME NEW u \in Topic, NEW b \in Action, remote_action_handlers'[<<u, b>>] # <<>>
                 PROVE  remote_services[u] # NoProxy /\ b \in ActionsOf[remote_services[u].service]
      BY <2>2 DEF NodesListed
    <3>1. CASE <<u, b>> = at
      <4>1. remote_services[t] # NoProxy /\ remote_services[t].service = task.current
        BY <1>0, <2>1, NoProxyAssumption DEF Proxy, TypeOK, Task
      <4> QED BY <2>1, <3>1, <4>1
    <3>2. CASE <<u, b>> # at
      <4>1. remote_action_handlers[<<u, b>>] # <<>>
        BY <2>3, <3>2 DEF ActionTopic
      <4> QED BY <1>0, <4>1 DEF NodesListed
    <3> QED BY <3>1, <3>2
  <2>6. HandlersHaveService'
    <3> SUFFICES ASSUME NEW bt \in ActionTopic, NEW g \in Handler,
                        Occurs(g, remote_action_handlers'[bt])
                 PROVE  remote_services[bt[1]] = [peer |-> g.peer, service |-> g.service]
      BY <2>2 DEF HandlersHaveService, Occurs
    <3>1. CASE bt # at
      BY <1>0, <2>3, <3>1 DEF HandlersHaveService
    <3>2. CASE bt = at /\ g = h
      BY <2>1, <3>2
    <3>3. CASE bt = at /\ g # h
      <4>1. PICK ct \in ActionTopic : ct[1] = at[1] /\ Occurs(g, remote_action_handlers[ct])
        BY <2>3, <3>3
      <4> QED BY <1>0, <3>3, <4>1 DEF HandlersHaveService
    <3> QED BY <3>1, <3>2, <3>3
  <2>7. TaskInv'
    <3>1. /\ task'.phase = "initializing" /\ task'.current = task.current
          /\ task'.todo = task.todo /\ task'.peer = task.peer
          /\ task'.actions = task.actions \ {a}
      BY <1>0, <1>7 DEF InitAction, TypeOK, Task
    <3>2. task.phase = "initializing"
      BY <1>7 DEF InitAction
    <3> QED BY <1>0, <2>1, <2>2, <3>1, <3>2 DEF TaskInv
  <2> QED BY <2>4, <2>5, <2>6, <2>7
<1>8. ASSUME ForgetService
      PROVE  Registry' /\ TaskInv'
  <2> DEFINE t == PathOf[task.current]
  <2>1. t \in Topic /\ \A a \in Action : remote_action_handlers[<<t, a>>] = <<>>
    BY <1>0, <1>8 DEF ForgetService, TaskInv, TypeOK, Task
  <2>2. /\ remote_services'[t] = NoProxy
        /\ \A u \in Topic : u # t => remote_services'[u] = remote_services[u]
        /\ UNCHANGED remote_action_handlers
    BY <1>0, <1>8, <2>1 DEF ForgetService, TypeOK
  <2>3. ProxyUnderItsName'
    BY <1>0, <2>2 DEF ProxyUnderItsName
  <2>4. NodesListed'
    <3> SUFFICES ASSUME NEW u \in Topic, NEW b \in Action, remote_action_handlers[<<u, b>>] # <<>>
                 PROVE  /\ remote_services'[u] # NoProxy
                        /\ b \in ActionsOf[remote_services'[u].service]
      BY <2>2 DEF NodesListed
    <3>1. u # t
      BY <2>1
    <3>2. remote_services'[u] = remote_services[u]
      BY <2>2, <3>1
    <3> QED BY <1>0, <3>2 DEF NodesListed
  <2>5. HandlersHaveService'
    <3> SUFFICES ASSUME NEW at \in ActionTopic, NEW h \in Handler,
                        Occurs(h, remote_action_handlers[at])
                 PROVE  remote_services'[at[1]] = [peer |-> h.peer, service |-> h.service]
      BY <2>2 DEF HandlersHaveService, Occurs
    <3>1. at = <<at[1], at[2]>> /\ at[1] \in Topic /\ at[2] \in Action
      BY DEF ActionTopic
    <3>2. remote_action_handlers[at] # <<>>
      BY DEF Occurs
    <3>3. at[1] # t
      BY <2>1, <3>1, <3>2
    <3> QED BY <1>0, <2>2, <3>1, <3>3 DEF HandlersHaveService
  <2>6. TaskInv'
    BY <1>0, <1>8 DEF ForgetService, TaskInv, TypeOK, Task
  <2> QED BY <2>3, <2>4, <2>5, <2>6
<1>9. ASSUME ReplaceInfo
      PROVE  Registry' /\ TaskInv'
  <2>1. task'.phase = "adding" /\ task'.todo = ServicesToAdd(task.info)
    BY <1>0, <1>9 DEF ReplaceInfo, TypeOK, Task
  <2>2. \A s \in ServicesToAdd(task.info) : NameOf[s] \in Topic
    BY <1>0 DEF ServicesToAdd, TypeOK, Task, NodeInfo
  <2>3. TaskInv'
    BY <2>1, <2>2 DEF TaskInv
  <2> QED BY <1>9, <1>a, <2>3 DEF ReplaceInfo
<1>10. ASSUME InitDone
       PROVE  Registry' /\ TaskInv'
  <2>1. TaskInv'
    BY <1>0, <1>10 DEF InitDone, TaskInv, TypeOK, Task
  <2> QED BY <1>10, <1>a, <2>1 DEF InitDone
<1>11. ASSUME Done
       PROVE  Registry' /\ TaskInv'
  <2>1. TaskInv'
    BY <1>11 DEF Done, TaskInv, Idle
  <2> QED BY <1>11, <1>a, <2>1 DEF Done
<1>12. CASE UNCHANGED vars
  <2>1. TaskInv'
    BY <1>0, <1>12 DEF vars, TaskInv
  <2> QED BY <1>12, <1>a, <2>1 DEF vars, registry
<1> QED BY <1>1, <1>2, <1>3, <1>4, <1>5, <1>6, <1>7, <1>8, <1>9, <1>10, <1>11, <1>12
        DEF Next, ListenerStep

LEMMA InitIInv == Init => IInv
<1> SUFFICES ASSUME Init PROVE IInv
  OBVIOUS
<1> USE ConstantsAssumption DEF Init
<1>1. TypeOK
  BY IdleType DEF TypeOK
<1>2. \A at \in ActionTopic : remote_action_handlers[at] = <<>>
  OBVIOUS
<1>3. NodesListed /\ HandlersHaveService /\ ProxyUnderItsName
  BY <1>2 DEF NodesListed, HandlersHaveService, ProxyUnderItsName, Occurs, ActionTopic
<1>4. TaskInv
  BY DEF TaskInv, Idle
<1> QED BY <1>1, <1>3, <1>4 DEF IInv

LEMMA IInvStep == IInv /\ [Next]_vars => IInv'
BY TypeStep, RegistryStep DEF IInv

\* The inductive invariant holds of every behaviour.
LEMMA IInvHolds == Spec => []IInv
BY InitIInv, IInvStep, PTL DEF Spec

-----------------------------------------------------------------------------
\* known_peers, the tries and the listener's locals keep their types.
THEOREM TypeCorrect == Spec => []TypeOK
<1>1. IInv => TypeOK
  BY DEF IInv
<1> QED BY <1>1, IInvHolds, PTL

\* No orphan handlers, at any point of processing any NodeInfos: every handler
\* a request can resolve to is of the proxy registered under its topic.
THEOREM NoOrphanHandlers == Spec => []HandlersHaveService
<1>1. IInv => HandlersHaveService
  BY DEF IInv
<1> QED BY <1>1, IInvHolds, PTL

-----------------------------------------------------------------------------
\* While the services of the old NodeInfo are removed, the one at hand is newer.
VersionInv ==
  task.phase \in {"removing", "stopping"} =>
    known_peers[task.peer] # NoInfo /\ IsNewer(task.info, known_peers[task.peer])

LEMMA VersionStep == IInv /\ VersionInv /\ [Next]_vars => VersionInv'
<1> SUFFICES ASSUME IInv, VersionInv, [Next]_vars PROVE VersionInv'
  OBVIOUS
<1> USE DEF IInv, TypeOK, VersionInv
<1>1. ASSUME NEW p \in Peer, NEW info \in NodeInfo, ReceiveInfo(p, info)
      PROVE  VersionInv'
  BY <1>1 DEF ReceiveInfo, Task
<1>2. ASSUME NEW s \in Service, FindService(s) \/ FailToFindService(s)
                                \/ RegisterService(s) \/ RejectService(s)
      PROVE  VersionInv'
  <2>1. CASE FindService(s)
    BY <2>1 DEF FindService, Task
  <2>2. CASE FailToFindService(s)
    BY <2>2 DEF FailToFindService, Idle
  <2>3. CASE RegisterService(s)
    BY <2>3 DEF RegisterService, Task
  <2>4. CASE RejectService(s)
    BY <2>4 DEF RejectService, Task
  <2> QED BY <1>2, <2>1, <2>2, <2>3, <2>4
<1>3. ASSUME NEW a \in Action, StopAction(a) \/ InitAction(a)
      PROVE  VersionInv'
  BY <1>3 DEF StopAction, InitAction, Task
<1>4. ASSUME ForgetService \/ ReplaceInfo \/ InitDone \/ Done
      PROVE  VersionInv'
  <2>1. CASE ForgetService
    BY <2>1 DEF ForgetService, Task
  <2>2. CASE ReplaceInfo
    BY <2>2 DEF ReplaceInfo, Task
  <2>3. CASE InitDone
    BY <2>3 DEF InitDone, Task
  <2>4. CASE Done
    BY <2>4 DEF Done, Idle
  <2> QED BY <1>4, <2>1, <2>2, <2>3, <2>4
<1>5. CASE UNCHANGED vars
  BY <1>5 DEF vars
<1> QED BY <1>1, <1>2, <1>3, <1>4, <1>5 DEF Next, ListenerStep

\* The NodeInfo held of a peer is never replaced by an older or an equal one:
\* the comparison made before the removals still holds after them.
THEOREM VersionsRise == Spec => KnownVersionsRise
<1> DEFINE Rise ==
      \A p \in Peer : known_peers[p] # NoInfo /\ known_peers'[p] # known_peers[p] =>
        /\ known_peers'[p] # NoInfo
        /\ known_peers'[p].version > known_peers[p].version
<1>1. Init => VersionInv
  BY DEF Init, VersionInv, Idle
<1>2. IInv /\ VersionInv /\ [Next]_vars => [Rise]_vars
  <2> SUFFICES ASSUME IInv, VersionInv, Next PROVE Rise
    OBVIOUS
  <2>1. ASSUME NEW p \in Peer, NEW info \in NodeInfo, ReceiveInfo(p, info)
        PROVE  Rise
    BY <2>1 DEF ReceiveInfo, IInv, TypeOK
  <2>2. CASE ReplaceInfo
    BY <2>2, NoInfoAssumption DEF ReplaceInfo, VersionInv, IInv, TypeOK, IsNewer, Task
  <2>3. ASSUME UNCHANGED known_peers
        PROVE  Rise
    BY <2>3
  <2> QED BY <2>1, <2>2, <2>3 DEF Next, ListenerStep, FindService, FailToFindService,
             RegisterService, RejectService, StopAction, InitAction, ForgetService,
             InitDone, Done
<1> QED BY <1>1, <1>2, IInvHolds, VersionStep, PTL DEF Spec, KnownVersionsRise

-----------------------------------------------------------------------------
\* Whatever is held, registered or being worked on of a peer, that peer offers.
OfferedInv ==
  /\ \A p \in Peer : known_peers[p] # NoInfo => known_peers[p].services \subseteq Offers(p)
  /\ \A t \in Topic : remote_services[t] # NoProxy =>
       remote_services[t].service \in Offers(remote_services[t].peer)
  /\ task.phase # "idle" =>
       task.todo \subseteq Offers(task.peer) /\ task.info.services \subseteq Offers(task.peer)
  /\ task.phase \in {"stopping", "initializing"} => task.current \in Offers(task.peer)

LEMMA OfferedStep == IInv /\ OfferedInv /\ [Next]_vars => OfferedInv'
<1> SUFFICES ASSUME IInv, OfferedInv, [Next]_vars PROVE OfferedInv'
  OBVIOUS
<1>0. TypeOK
  BY DEF IInv
<1> USE NoInfoAssumption, NoProxyAssumption DEF TypeOK, registry
<1>1. ASSUME NEW p \in Peer, NEW info \in NodeInfo, ReceiveInfo(p, info)
      PROVE  OfferedInv'
  <2>1. info.services \subseteq Offers(p) /\ ServicesToAdd(info) \subseteq info.services
    BY <1>1 DEF ReceiveInfo, MayList, ServicesToAdd
  <2>2. known_peers[p] # NoInfo => ServicesToRemove(p) \subseteq Offers(p)
    BY DEF ServicesToRemove, OfferedInv
  <2>3. CASE UNCHANGED <<known_peers, task>>
    BY <1>1, <2>3 DEF ReceiveInfo, OfferedInv
  <2>4. CASE known_peers[p] = NoInfo
    <3>1. /\ known_peers' = [known_peers EXCEPT ![p] = info] /\ UNCHANGED remote_services
          /\ task'.phase = "adding" /\ task'.peer = p /\ task'.info = info
          /\ task'.todo = ServicesToAdd(info)
      BY <1>0, <1>1, <2>4 DEF ReceiveInfo, Task
    <3> QED BY <1>0, <2>1, <3>1 DEF OfferedInv
  <2>5. CASE known_peers[p] # NoInfo /\ IsNewer(info, known_peers[p])
    <3>1. /\ UNCHANGED <<known_peers, remote_services>>
          /\ task'.phase = "removing" /\ task'.peer = p /\ task'.info = info
          /\ task'.todo = ServicesToRemove(p)
      BY <1>0, <1>1, <2>5 DEF ReceiveInfo, Task
    <3> QED BY <2>1, <2>2, <2>5, <3>1 DEF OfferedInv
  <2> QED BY <1>1, <2>3, <2>4, <2>5 DEF ReceiveInfo
<1>2. ASSUME NEW s \in Service, FindService(s)
      PROVE  OfferedInv'
  BY <1>0, <1>2 DEF FindService, OfferedInv, Task
<1>3. ASSUME NEW s \in Service, FailToFindService(s)
      PROVE  OfferedInv'
  BY <1>3 DEF FailToFindService, OfferedInv, Idle
<1>4. ASSUME NEW s \in Service, RegisterService(s)
      PROVE  OfferedInv'
  <2>1. /\ s \in Offers(task.peer)
        /\ remote_services' =
             [remote_services EXCEPT ![NameOf[s]] = [peer |-> task.peer, service |-> s]]
        /\ task'.phase = "initializing" /\ task'.peer = task.peer /\ task'.current = s
        /\ task'.info = task.info /\ task'.todo = task.todo
        /\ UNCHANGED known_peers
    BY <1>0, <1>4 DEF RegisterService, OfferedInv, Task
  <2> QED BY <1>0, <1>4, <2>1 DEF RegisterService, OfferedInv
<1>5. ASSUME NEW s \in Service, RejectService(s)
      PROVE  OfferedInv'
  BY <1>0, <1>5 DEF RejectService, OfferedInv, Task
<1>6. ASSUME NEW a \in Action, StopAction(a) \/ InitAction(a)
      PROVE  OfferedInv'
  BY <1>0, <1>6 DEF StopAction, InitAction, OfferedInv, Task
<1>7. CASE ForgetService
  BY <1>0, <1>7 DEF ForgetService, OfferedInv, Task
<1>8. CASE ReplaceInfo
  <2>1. /\ known_peers' = [known_peers EXCEPT ![task.peer] = task.info]
        /\ task'.phase = "adding" /\ task'.peer = task.peer /\ task'.info = task.info
        /\ task'.todo = ServicesToAdd(task.info) /\ UNCHANGED remote_services
    BY <1>0, <1>8 DEF ReplaceInfo, Task
  <2>2. /\ task.info.services \subseteq Offers(task.peer)
        /\ ServicesToAdd(task.info) \subseteq task.info.services
    BY <1>8 DEF ReplaceInfo, OfferedInv, ServicesToAdd
  <2> QED BY <1>0, <2>1, <2>2 DEF OfferedInv
<1>9. CASE InitDone
  BY <1>0, <1>9 DEF InitDone, OfferedInv, Task
<1>10. CASE Done
  BY <1>10 DEF Done, OfferedInv, Idle
<1>11. CASE UNCHANGED vars
  BY <1>11 DEF vars, OfferedInv
<1> QED BY <1>1, <1>2, <1>3, <1>4, <1>5, <1>6, <1>7, <1>8, <1>9, <1>10, <1>11
        DEF Next, ListenerStep

\* A peer whose services are named like those of no other keeps its proxies and
\* their handlers while the NodeInfo of another peer is processed
\* (process_remote_capabilities), however the others quarrel over their names.
THEOREM OthersUndisturbed == Spec => OtherPeersUndisturbed
<1> DEFINE Undisturbed(t) ==
      LET proxy == remote_services[t]
      IN  proxy # NoProxy /\ task'.phase # "idle" /\ proxy.peer # task'.peer
            /\ Undisputed(proxy.peer) =>
          /\ remote_services'[t] = proxy
          /\ \A a \in Action :
               remote_action_handlers'[<<t, a>>] = remote_action_handlers[<<t, a>>]
<1>1. Init => OfferedInv
  BY DEF Init, OfferedInv, Idle
<1>2. IInv /\ OfferedInv /\ [Next]_vars => [\A t \in Topic : Undisturbed(t)]_vars
  <2> SUFFICES ASSUME IInv, OfferedInv, Next,
                      NEW t \in Topic, remote_services[t] # NoProxy, task'.phase # "idle",
                      remote_services[t].peer # task'.peer, Undisputed(remote_services[t].peer)
               PROVE  /\ remote_services'[t] = remote_services[t]
                      /\ \A a \in Action :
                           remote_action_handlers'[<<t, a>>] = remote_action_handlers[<<t, a>>]
    OBVIOUS
  <2>0. TypeOK /\ ProxyUnderItsName /\ TaskInv
    BY DEF IInv
  <2> DEFINE q == remote_services[t].peer
             r == remote_services[t].service
  <2>1. q \in Peer /\ r \in Offers(q) /\ NameOf[r] = t /\ PathOf[r] = t
    BY <2>0, NoProxyAssumption DEF TypeOK, Proxy, OfferedInv, ProxyUnderItsName, Undisputed
  \* No service that the peer at hand offers has the topic t.
  <2>2. ASSUME NEW s \in Offers(task.peer), task.peer \in Peer, task.peer # q
        PROVE  NameOf[s] # t /\ PathOf[s] # t
    BY <2>1, <2>2 DEF Undisputed
  <2>3. CASE UNCHANGED registry
    BY <2>3 DEF registry
  <2>4. ASSUME NEW s \in Service, RegisterService(s)
        PROVE  UNCHANGED remote_action_handlers /\ remote_services'[t] = remote_services[t]
    BY <2>0, <2>4 DEF RegisterService, TypeOK
  <2>5. CASE ForgetService
    <3>1. task'.peer = task.peer /\ task.peer \in Peer /\ task.current \in Offers(task.peer)
      BY <2>0, <2>5 DEF ForgetService, TypeOK, Task, OfferedInv
    <3>2. PathOf[task.current] # t
      BY <2>2, <3>1
    <3> QED BY <2>0, <2>5, <3>2 DEF ForgetService, TypeOK
  <2>6. ASSUME NEW b \in Action, StopAction(b)
        PROVE  /\ remote_services'[t] = remote_services[t]
               /\ \A a \in Action :
                    remote_action_handlers'[<<t, a>>] = remote_action_handlers[<<t, a>>]
    <3> DEFINE u == PathOf[task.current]
    <3>1. task'.peer = task.peer /\ task.peer \in Peer /\ task.current \in Offers(task.peer)
      BY <2>0, <2>6 DEF StopAction, TypeOK, Task, OfferedInv
    <3>2. u # t /\ u \in Topic /\ remote_services[u] # NoProxy
      BY <2>0, <2>2, <2>6, <3>1, ConstantsAssumption DEF StopAction, TaskInv, TypeOK, Task
    <3>3. NameOf[remote_services[u].service] = u
      BY <2>0, <3>2 DEF ProxyUnderItsName
    <3>4. remote_action_handlers' = [remote_action_handlers EXCEPT ![<<u, b>>] = <<>>]
      BY <2>6, <3>3 DEF StopAction
    <3> QED BY <2>0, <2>6, <3>2, <3>4 DEF StopAction, TypeOK, ActionTopic
  <2>7. ASSUME NEW b \in Action, InitAction(b)
        PROVE  /\ remote_services'[t] = remote_services[t]
               /\ \A a \in Action :
                    remote_action_handlers'[<<t, a>>] = remote_action_handlers[<<t, a>>]
    <3> DEFINE at == <<NameOf[task.current], b>>
               h == [peer |-> task.peer, service |-> task.current, action |-> b]
    <3>1. task'.peer = task.peer /\ task.peer \in Peer /\ task.current \in Offers(task.peer)
      BY <2>0, <2>7 DEF InitAction, TypeOK, Task, OfferedInv
    <3>2. NameOf[task.current] # t
      BY <2>2, <3>1
    <3>3. at \in ActionTopic /\ h \in Handler
      BY <2>0, <2>7 DEF InitAction, TaskInv, ActionTopic, Handler, TypeOK, Task
    <3>4. remote_action_handlers' = WithHandler(remote_action_handlers, at, h)
          /\ UNCHANGED remote_services
      BY <2>7 DEF InitAction
    <3>5. ASSUME NEW a \in Action
          PROVE  remote_action_handlers'[<<t, a>>] = remote_action_handlers[<<t, a>>]
      <4>1. <<t, a>> \in ActionTopic /\ <<t, a>> # at
        BY <3>2 DEF ActionTopic
      <4> QED BY <2>0, <3>3, <3>4, <4>1, WithHandlerEffect DEF TypeOK
    <3> QED BY <3>4, <3>5
  <2> QED BY <2>3, <2>4, <2>5, <2>6, <2>7 DEF Next, ListenerStep, ReceiveInfo, FindService,
             FailToFindService, RejectService, ReplaceInfo, InitDone, Done
<1> QED BY <1>1, <1>2, IInvHolds, OfferedStep, PTL DEF Spec, OtherPeersUndisturbed

-----------------------------------------------------------------------------
(***************************************************************************)
(* What follows needs what the code takes for granted without a check: a   *)
(* service is registered under its name and removed by its path.           *)
(***************************************************************************)

NamesArePaths == NameOf = PathOf

\* A proxy of the peer at hand is still to be removed, or nothing of the peer is
\* left and what is registered comes from the new NodeInfo.
AdvertisedInv ==
  /\ RegisteredIsAdvertised
  /\ task.phase \in {"removing", "stopping"} =>
       \A t \in Topic : remote_services[t] # NoProxy /\ remote_services[t].peer = task.peer =>
         remote_services[t].service \in task.todo
  /\ task.phase \in {"adding", "initializing"} =>
       /\ known_peers[task.peer] = task.info
       /\ task.todo \subseteq task.info.services

LEMMA AdvertisedStep ==
  NamesArePaths /\ IInv /\ AdvertisedInv /\ [Next]_vars => AdvertisedInv'
<1> SUFFICES ASSUME NamesArePaths, IInv, AdvertisedInv, [Next]_vars PROVE AdvertisedInv'
  OBVIOUS
<1>0. TypeOK /\ ProxyUnderItsName /\ TaskInv
  BY DEF IInv
<1> USE ConstantsAssumption, NoInfoAssumption, NoProxyAssumption
<1>1. ASSUME NEW p \in Peer, NEW info \in NodeInfo, ReceiveInfo(p, info)
      PROVE  AdvertisedInv'
  <2>1. CASE known_peers[p] = NoInfo
    <3>1. \A t \in Topic : remote_services[t] # NoProxy => remote_services[t].peer # p
      BY <2>1 DEF AdvertisedInv, RegisteredIsAdvertised
    <3>2. /\ known_peers' = [known_peers EXCEPT ![p] = info]
          /\ UNCHANGED remote_services
          /\ task' = [task EXCEPT !.phase = "adding", !.peer = p, !.info = info,
                         !.todo = ServicesToAdd(info)]
      BY <1>1, <2>1 DEF ReceiveInfo, registry
    <3>3. RegisteredIsAdvertised'
      BY <1>0, <3>1, <3>2 DEF AdvertisedInv, RegisteredIsAdvertised, TypeOK
    <3>4. ServicesToAdd(info) \subseteq info.services
      BY DEF ServicesToAdd
    <3> QED BY <1>0, <3>2, <3>3, <3>4 DEF AdvertisedInv, TypeOK, Task
  <2>2. CASE known_peers[p] # NoInfo /\ IsNewer(info, known_peers[p])
    <3>1. /\ UNCHANGED <<known_peers, remote_services>>
          /\ task'.phase = "removing" /\ task'.peer = p
          /\ task'.todo = known_peers[p].services
      BY <1>0, <1>1, <2>2 DEF ReceiveInfo, ServicesToRemove, TypeOK, Task, registry
    <3>2. RegisteredIsAdvertised'
      BY <3>1 DEF AdvertisedInv, RegisteredIsAdvertised
    <3>3. \A t \in Topic : remote_services[t] # NoProxy /\ remote_services[t].peer = p =>
            remote_services[t].service \in known_peers[p].services
      BY DEF AdvertisedInv, RegisteredIsAdvertised
    <3> QED BY <3>1, <3>2, <3>3 DEF AdvertisedInv
  <2>3. CASE known_peers[p] # NoInfo /\ ~IsNewer(info, known_peers[p])
    BY <1>1, <2>3 DEF ReceiveInfo, AdvertisedInv, RegisteredIsAdvertised, registry
  <2> QED BY <2>1, <2>2, <2>3
<1>2. ASSUME NEW s \in Service, FindService(s) \/ FailToFindService(s) \/ RejectService(s)
      PROVE  AdvertisedInv'
  <2>1. UNCHANGED <<known_peers, remote_services>>
    BY <1>2 DEF FindService, FailToFindService, RejectService, registry
  <2>2. RegisteredIsAdvertised'
    BY <2>1 DEF AdvertisedInv, RegisteredIsAdvertised
  <2>3. CASE FindService(s)
    BY <1>0, <2>1, <2>2, <2>3 DEF FindService, AdvertisedInv, TypeOK, Task
  <2>4. CASE FailToFindService(s)
    BY <2>2, <2>4 DEF FailToFindService, AdvertisedInv, Idle
  <2>5. CASE RejectService(s)
    BY <1>0, <2>1, <2>2, <2>5 DEF RejectService, AdvertisedInv, TypeOK, Task
  <2> QED BY <1>2, <2>3, <2>4, <2>5
<1>3. ASSUME NEW s \in Service, RegisterService(s)
      PROVE  AdvertisedInv'
  <2> DEFINE t == NameOf[s]
             proxy == [peer |-> task.peer, service |-> s]
  <2>1. /\ task.phase = "adding" /\ s \in task.todo /\ t \in Topic
        /\ remote_services'[t] = proxy
        /\ \A u \in Topic : u # t => remote_services'[u] = remote_services[u]
        /\ UNCHANGED known_peers
        /\ task'.phase = "initializing" /\ task'.peer = task.peer
        /\ task'.info = task.info /\ task'.todo = task.todo
    BY <1>0, <1>3 DEF RegisterService, TaskInv, TypeOK, Task
  <2>2. known_peers[task.peer] = task.info /\ s \in task.info.services
    BY <2>1 DEF AdvertisedInv
  <2>3. task.info # NoInfo
    BY <1>0 DEF TypeOK, Task
  <2>4. RegisteredIsAdvertised'
    BY <2>1, <2>2, <2>3 DEF AdvertisedInv, RegisteredIsAdvertised
  <2> QED BY <2>1, <2>4 DEF AdvertisedInv
<1>4. ASSUME NEW a \in Action, StopAction(a) \/ InitAction(a)
      PROVE  AdvertisedInv'
  BY <1>0, <1>4 DEF StopAction, InitAction, AdvertisedInv, RegisteredIsAdvertised, TypeOK, Task
<1>5. ASSUME ForgetService
      PROVE  AdvertisedInv'
  <2> DEFINE t == PathOf[task.current]
  <2>1. /\ task.phase = "stopping" /\ t \in Topic
        /\ remote_services'[t] = NoProxy
        /\ \A u \in Topic : u # t => remote_services'[u] = remote_services[u]
        /\ UNCHANGED known_peers
        /\ task'.phase = "removing" /\ task'.peer = task.peer
        /\ task'.todo = task.todo \ {task.current}
    BY <1>0, <1>5 DEF ForgetService, TypeOK, Task
  <2>2. RegisteredIsAdvertised'
    BY <2>1 DEF AdvertisedInv, RegisteredIsAdvertised
  <2>3. ASSUME NEW u \in Topic, remote_services'[u] # NoProxy, remote_services'[u].peer = task.peer
        PROVE  remote_services'[u].service \in task'.todo
    <3>1. u # t /\ remote_services'[u] = remote_services[u]
      BY <2>1, <2>3
    <3>2. NameOf[remote_services[u].service] = u
      BY <1>0, <2>3, <3>1 DEF ProxyUnderItsName
    <3>3. remote_services[u].service # task.current
      BY <3>1, <3>2 DEF NamesArePaths
    <3> QED BY <2>1, <2>3, <3>1, <3>3 DEF AdvertisedInv
  <2> QED BY <2>1, <2>2, <2>3 DEF AdvertisedInv
<1>6. ASSUME ReplaceInfo
      PROVE  AdvertisedInv'
  <2>1. /\ task.phase = "removing" /\ task.todo = {}
        /\ UNCHANGED remote_services
        /\ known_peers' = [known_peers EXCEPT ![task.peer] = task.info]
        /\ task'.phase = "adding" /\ task'.peer = task.peer /\ task'.info = task.info
        /\ task'.todo = ServicesToAdd(task.info)
    BY <1>0, <1>6 DEF ReplaceInfo, registry, TypeOK, Task
  <2>2. \A t \in Topic : remote_services[t] # NoProxy => remote_services[t].peer # task.peer
    BY <2>1 DEF AdvertisedInv
  <2>3. RegisteredIsAdvertised'
    BY <1>0, <2>1, <2>2 DEF AdvertisedInv, RegisteredIsAdvertised, TypeOK
  <2>4. ServicesToAdd(task.info) \subseteq task.info.services
    BY DEF ServicesToAdd
  <2>5. known_peers'[task.peer] = task.info
    BY <1>0, <2>1 DEF TypeOK, Task
  <2> QED BY <2>1, <2>3, <2>4, <2>5 DEF AdvertisedInv
<1>7. ASSUME InitDone \/ Done
      PROVE  AdvertisedInv'
  <2>1. UNCHANGED <<known_peers, remote_services>>
    BY <1>7 DEF InitDone, Done, registry
  <2>2. RegisteredIsAdvertised'
    BY <2>1 DEF AdvertisedInv, RegisteredIsAdvertised
  <2>3. CASE InitDone
    BY <1>0, <2>1, <2>2, <2>3 DEF InitDone, AdvertisedInv, TypeOK, Task
  <2>4. CASE Done
    BY <2>2, <2>4 DEF Done, AdvertisedInv, Idle
  <2> QED BY <1>7, <2>3, <2>4
<1>8. CASE UNCHANGED vars
  BY <1>8 DEF vars, AdvertisedInv, RegisteredIsAdvertised
<1> QED BY <1>1, <1>2, <1>3, <1>4, <1>5, <1>6, <1>7, <1>8 DEF Next, ListenerStep

\* What a peer has withdrawn cannot be called: provided names are paths, every
\* registered proxy is listed by the NodeInfo held of its peer.
THEOREM OnlyAdvertisedRegistered ==
  ASSUME NamesArePaths
  PROVE  Spec => []RegisteredIsAdvertised
<1>1. Init => AdvertisedInv
  BY DEF Init, AdvertisedInv, RegisteredIsAdvertised, Idle
<1>2. AdvertisedInv => RegisteredIsAdvertised
  BY DEF AdvertisedInv
<1>3. IInv /\ AdvertisedInv /\ [Next]_vars => AdvertisedInv'
  BY AdvertisedStep
<1> QED BY <1>1, <1>2, <1>3, IInvHolds, PTL DEF Spec

-----------------------------------------------------------------------------
(***************************************************************************)
(* What is available of a peer.                                            *)
(***************************************************************************)

\* Every action of a registered proxy has its handler, but for those still to be
\* registered and those of the service being removed.
HandlersInv ==
  \A t \in Topic : remote_services[t] # NoProxy =>
    \A a \in ActionsOf[remote_services[t].service] :
      \/ Occurs([peer |-> remote_services[t].peer,
                 service |-> remote_services[t].service, action |-> a],
                remote_action_handlers[<<t, a>>])
      \/ task.phase = "initializing" /\ NameOf[task.current] = t /\ a \in task.actions
      \/ task.phase = "stopping" /\ PathOf[task.current] = t

LEMMA HandlersStep == IInv /\ HandlersInv /\ [Next]_vars => HandlersInv'
<1> SUFFICES ASSUME IInv, HandlersInv, [Next]_vars PROVE HandlersInv'
  OBVIOUS
<1>0. TypeOK /\ ProxyUnderItsName /\ TaskInv
  BY DEF IInv
<1> USE ConstantsAssumption, NoProxyAssumption
\* Where both tries stay and nothing was excepted, nothing is to be shown.
<1>a. UNCHANGED registry /\ task.phase \notin {"initializing", "stopping"} => HandlersInv'
  BY DEF HandlersInv, registry, Occurs
<1>1. ASSUME NEW p \in Peer, NEW info \in NodeInfo, ReceiveInfo(p, info)
      PROVE  HandlersInv'
  BY <1>1, <1>a DEF ReceiveInfo
<1>2. ASSUME NEW s \in Service, FindService(s) \/ FailToFindService(s) \/ RejectService(s)
      PROVE  HandlersInv'
  BY <1>2, <1>a DEF FindService, FailToFindService, RejectService
<1>3. ASSUME NEW s \in Service, RegisterService(s)
      PROVE  HandlersInv'
  <2>1. /\ task.phase = "adding" /\ NameOf[s] \in Topic
        /\ remote_services'[NameOf[s]] = [peer |-> task.peer, service |-> s]
        /\ \A u \in Topic : u # NameOf[s] => remote_services'[u] = remote_services[u]
        /\ UNCHANGED remote_action_handlers
        /\ task'.phase = "initializing" /\ task'.current = s /\ task'.actions = ActionsOf[s]
    BY <1>0, <1>3 DEF RegisterService, TaskInv, TypeOK, Task
  <2> QED BY <2>1 DEF HandlersInv, Occurs
<1>4. ASSUME NEW b \in Action, StopAction(b)
      PROVE  HandlersInv'
  <2> DEFINE u == PathOf[task.current]
  <2>1. /\ task.phase = "stopping" /\ u \in Topic /\ remote_services[u] # NoProxy
        /\ NameOf[remote_services[u].service] = u
        /\ UNCHANGED remote_services
        /\ task'.phase = "stopping" /\ task'.current = task.current
    BY <1>0, <1>4 DEF StopAction, TaskInv, TypeOK, Task, ProxyUnderItsName
  <2>2. remote_action_handlers' = [remote_action_handlers EXCEPT ![<<u, b>>] = <<>>]
    BY <1>4, <2>1 DEF StopAction
  <2>3. \A t \in Topic, a \in Action : t # u =>
          remote_action_handlers'[<<t, a>>] = remote_action_handlers[<<t, a>>]
    BY <1>0, <2>1, <2>2 DEF TypeOK, ActionTopic
  <2>4. \A t \in Topic : remote_services[t] # NoProxy =>
          ActionsOf[remote_services[t].service] \subseteq Action
    BY <1>0 DEF TypeOK, Proxy
  <2> QED BY <2>1, <2>3, <2>4 DEF HandlersInv
<1>5. ASSUME NEW b \in Action, InitAction(b)
      PROVE  HandlersInv'
  <2> DEFINE u == NameOf[task.current]
             at == <<u, b>>
             h == [peer |-> task.peer, service |-> task.current, action |-> b]
  <2>1. /\ task.phase = "initializing" /\ u \in Topic /\ at \in ActionTopic /\ h \in Handler
        /\ remote_services[u] = [peer |-> task.peer, service |-> task.current]
        /\ UNCHANGED remote_services
        /\ task'.phase = "initializing" /\ task'.current = task.current
        /\ task'.actions = task.actions \ {b}
    BY <1>0, <1>5 DEF InitAction, TaskInv, TypeOK, Task, ActionTopic, Handler
  <2>2. remote_action_handlers' = WithHandler(remote_action_handlers, at, h)
    BY <1>5 DEF InitAction
  <2>3. /\ \A bt \in ActionTopic : bt # at => remote_action_handlers'[bt] = remote_action_handlers[bt]
        /\ Occurs(h, remote_action_handlers'[at])
        /\ \A g \in Handler : Occurs(g, remote_action_handlers[at]) => Occurs(g, remote_action_handlers'[at])
    <3>1. remote_action_handlers \in [ActionTopic -> Seq(Seq(Handler))]
      BY <1>0 DEF TypeOK
    <3> HIDE DEF at, h
    <3> QED BY <2>1, <2>2, <3>1, WithHandlerEffect
  <2> SUFFICES ASSUME NEW t \in Topic, remote_services[t] # NoProxy,
                      NEW a \in ActionsOf[remote_services[t].service]
               PROVE  \/ Occurs([peer |-> remote_services[t].peer,
                                 service |-> remote_services[t].service, action |-> a],
                                remote_action_handlers'[<<t, a>>])
                      \/ u = t /\ a \in task.actions \ {b}
    BY <2>1 DEF HandlersInv
  <2> DEFINE g == [peer |-> remote_services[t].peer,
                   service |-> remote_services[t].service, action |-> a]
  <2>4. g \in Handler /\ <<t, a>> \in ActionTopic
    BY <1>0 DEF TypeOK, Proxy, Handler, ActionTopic
  <2>5. Occurs(g, remote_action_handlers[<<t, a>>]) \/ (u = t /\ a \in task.actions)
    BY <2>1 DEF HandlersInv
  <2>6. CASE <<t, a>> = at
    <3>1. g = h
      BY <2>1, <2>6
    <3> QED BY <2>3, <2>6, <3>1
  <2>7. CASE <<t, a>> # at
    BY <2>3, <2>4, <2>5, <2>7
  <2> QED BY <2>6, <2>7
<1>6. CASE ForgetService
  <2>1. /\ task.phase = "stopping" /\ PathOf[task.current] \in Topic
        /\ UNCHANGED remote_action_handlers
    BY <1>0, <1>6 DEF ForgetService, TypeOK, Task
  <2>2. \A t \in Topic : remote_services'[t] # NoProxy =>
          t # PathOf[task.current] /\ remote_services'[t] = remote_services[t]
    BY <1>0, <1>6, <2>1 DEF ForgetService, TypeOK
  <2> QED BY <2>1, <2>2 DEF HandlersInv, Occurs
<1>7. CASE ReplaceInfo \/ Done
  BY <1>7, <1>a DEF ReplaceInfo, Done
<1>8. CASE InitDone
  <2>1. UNCHANGED registry /\ task.phase = "initializing" /\ task.actions = {}
    BY <1>8 DEF InitDone
  <2> QED BY <2>1 DEF HandlersInv, registry, Occurs
<1>9. CASE UNCHANGED vars
  BY <1>9 DEF vars, HandlersInv, Occurs
<1> QED BY <1>1, <1>2, <1>3, <1>4, <1>5, <1>6, <1>7, <1>8, <1>9 DEF Next, ListenerStep

\* What the listener knows of the NodeInfo at hand and of the service it works on.
ListInv ==
  /\ \A p \in Peer : known_peers[p] = NoInfo => received[p] = 0
  /\ task.phase # "idle" => MayList(task.peer, task.info.services)
  /\ task.phase \in {"adding", "initializing"} =>
       known_peers[task.peer] = task.info /\ task.todo \subseteq task.info.services
  /\ task.phase \in {"stopping", "initializing"} => task.current \in task.todo

LEMMA ListStep == IInv /\ ListInv /\ [Next]_vars => ListInv'
<1> SUFFICES ASSUME IInv, ListInv, [Next]_vars PROVE ListInv'
  OBVIOUS
<1>0. TypeOK
  BY DEF IInv
<1> USE ConstantsAssumption, NoInfoAssumption DEF TypeOK
<1>1. ASSUME NEW p \in Peer, NEW info \in NodeInfo, ReceiveInfo(p, info)
      PROVE  ListInv'
  <2>1. /\ MayList(p, info.services) /\ ServicesToAdd(info) \subseteq info.services
        /\ received' = [received EXCEPT ![p] = IF info.version > @ THEN info.version ELSE @]
    BY <1>1 DEF ReceiveInfo, ServicesToAdd
  <2>2. CASE known_peers[p] = NoInfo
    <3>1. /\ known_peers' = [known_peers EXCEPT ![p] = info]
          /\ task'.phase = "adding" /\ task'.peer = p /\ task'.info = info
          /\ task'.todo = ServicesToAdd(info)
      BY <1>0, <1>1, <2>2 DEF ReceiveInfo, Task
    <3> QED BY <1>0, <2>1, <3>1 DEF ListInv
  <2>3. CASE known_peers[p] # NoInfo /\ IsNewer(info, known_peers[p])
    <3>1. /\ UNCHANGED known_peers
          /\ task'.phase = "removing" /\ task'.peer = p /\ task'.info = info
      BY <1>0, <1>1, <2>3 DEF ReceiveInfo, Task
    <3> QED BY <1>0, <2>1, <2>3, <3>1 DEF ListInv
  <2>4. CASE known_peers[p] # NoInfo /\ ~IsNewer(info, known_peers[p])
    <3>1. UNCHANGED <<known_peers, task>>
      BY <1>1, <2>4 DEF ReceiveInfo
    <3> QED BY <1>0, <2>1, <2>4, <3>1 DEF ListInv
  <2> QED BY <2>2, <2>3, <2>4
<1>2. ASSUME NEW s \in Service, FindService(s)
      PROVE  ListInv'
  BY <1>0, <1>2 DEF FindService, ListInv, Task
<1>3. ASSUME NEW s \in Service, FailToFindService(s)
      PROVE  ListInv'
  BY <1>3 DEF FailToFindService, ListInv, Idle
<1>4. ASSUME NEW s \in Service, RegisterService(s)
      PROVE  ListInv'
  BY <1>0, <1>4 DEF RegisterService, ListInv, Task
<1>5. ASSUME NEW s \in Service, RejectService(s)
      PROVE  ListInv'
  BY <1>0, <1>5 DEF RejectService, ListInv, Task
<1>6. ASSUME NEW a \in Action, StopAction(a) \/ InitAction(a)
      PROVE  ListInv'
  BY <1>0, <1>6 DEF StopAction, InitAction, ListInv, Task
<1>7. CASE ForgetService
  BY <1>0, <1>7 DEF ForgetService, ListInv, Task
<1>8. CASE ReplaceInfo
  <2>1. /\ task.phase = "removing"
        /\ known_peers' = [known_peers EXCEPT ![task.peer] = task.info] /\ UNCHANGED received
        /\ task'.phase = "adding" /\ task'.peer = task.peer /\ task'.info = task.info
        /\ task'.todo = ServicesToAdd(task.info)
    BY <1>0, <1>8 DEF ReplaceInfo, Task
  <2>2. ServicesToAdd(task.info) \subseteq task.info.services /\ task.peer \in Peer
        /\ task.info \in NodeInfo
    BY <1>0 DEF ServicesToAdd, Task
  <2> QED BY <1>0, <2>1, <2>2 DEF ListInv
<1>9. CASE InitDone
  BY <1>0, <1>9 DEF InitDone, ListInv, Task
<1>10. CASE Done
  BY <1>10 DEF Done, ListInv, Idle
<1>11. CASE UNCHANGED vars
  BY <1>11 DEF vars, ListInv
<1> QED BY <1>1, <1>2, <1>3, <1>4, <1>5, <1>6, <1>7, <1>8, <1>9, <1>10, <1>11
        DEF Next, ListenerStep

\* The services of p that should be registered at the point the listener is at.
Expected(p) ==
  IF task.phase = "idle" \/ task.peer # p
  THEN IF known_peers[p] = NoInfo THEN {} ELSE known_peers[p].services
  ELSE IF task.phase \in {"removing", "stopping"} THEN task.todo
  ELSE IF task.phase = "adding" THEN task.info.services \ task.todo
  ELSE task.info.services \ (task.todo \ {task.current})

ProxyOf(p, s) == [peer |-> p, service |-> s]

\* Just those are, of an undisputed peer ...
Exact(p) ==
  \A s \in Offers(p) : remote_services[NameOf[s]] = ProxyOf(p, s) <=> s \in Expected(p)

\* ... and the newest NodeInfo it has sent is the one held or the one at hand.
Newest(p) ==
  known_peers[p] # NoInfo =>
    received[p] = IF task.phase \in {"removing", "stopping"} /\ task.peer = p
                  THEN task.info.version ELSE known_peers[p].version

UndisputedInv == \A p \in Peer : Undisputed(p) => Exact(p) /\ Newest(p)

\* The topic of an undisputed service: no service of another peer has it.
LEMMA UndisputedTopics ==
  ASSUME TypeOK, ProxyUnderItsName, OfferedInv, NEW p \in Peer, Undisputed(p),
         NEW s \in Offers(p)
  PROVE  /\ s \in Service /\ NameOf[s] \in Topic /\ PathOf[s] = NameOf[s]
         /\ \A q \in Peer : \A r \in Offers(q) :
              NameOf[r] = NameOf[s] \/ PathOf[r] = NameOf[s] => q = p
         /\ remote_services[NameOf[s]] # NoProxy =>
              \E r \in Offers(p) : NameOf[r] = NameOf[s]
                                   /\ remote_services[NameOf[s]] = ProxyOf(p, r)
<1> USE ConstantsAssumption, NoProxyAssumption
<1>1. s \in Service /\ NameOf[s] \in Topic /\ PathOf[s] = NameOf[s]
  BY DEF Undisputed, Offers
<1>2. \A q \in Peer : \A r \in Offers(q) :
         NameOf[r] = NameOf[s] \/ PathOf[r] = NameOf[s] => q = p
  BY <1>1 DEF Undisputed
<1>3. ASSUME remote_services[NameOf[s]] # NoProxy
      PROVE  \E r \in Offers(p) : NameOf[r] = NameOf[s]
                                  /\ remote_services[NameOf[s]] = ProxyOf(p, r)
  <2> DEFINE proxy == remote_services[NameOf[s]]
  <2>1. proxy \in Proxy /\ proxy.service \in Offers(proxy.peer)
        /\ NameOf[proxy.service] = NameOf[s]
    BY <1>1, <1>3 DEF TypeOK, OfferedInv, ProxyUnderItsName
  <2>2. proxy.peer = p
    BY <1>2, <2>1 DEF Proxy
  <2>3. proxy = ProxyOf(p, proxy.service)
    BY <2>1, <2>2 DEF Proxy, ProxyOf
  <2> QED BY <2>1, <2>2, <2>3
<1> QED BY <1>1, <1>2, <1>3

LEMMA UndisputedStep ==
  IInv /\ OfferedInv /\ VersionInv /\ ListInv /\ UndisputedInv /\ [Next]_vars => UndisputedInv'
<1> SUFFICES ASSUME IInv, OfferedInv, VersionInv, ListInv, UndisputedInv, [Next]_vars,
                    NEW p \in Peer, Undisputed(p)
             PROVE  Exact(p)' /\ Newest(p)'
  BY DEF UndisputedInv, Undisputed
<1>0. TypeOK /\ ProxyUnderItsName /\ TaskInv /\ Exact(p) /\ Newest(p)
  BY DEF IInv, UndisputedInv
<1> USE ConstantsAssumption, NoInfoAssumption, NoProxyAssumption
<1>b. /\ known_peers \in [Peer -> NodeInfo \cup {NoInfo}] /\ task \in Task
      /\ received \in [Peer -> 0..MaxVersion] /\ remote_services \in [Topic -> Proxy \cup {NoProxy}]
      /\ task.peer \in Peer /\ task.info \in NodeInfo /\ task.current \in Service
  BY <1>0 DEF TypeOK, Task
\* If the tries stay, as many services are expected, and the versions stay.
<1>a. ASSUME UNCHANGED <<remote_services, received>>, Expected(p)' = Expected(p),
             known_peers'[p] = known_peers[p],
             task'.phase \in {"removing", "stopping"} /\ task'.peer = p
               <=> task.phase \in {"removing", "stopping"} /\ task.peer = p,
             task'.phase \in {"removing", "stopping"} => task'.info = task.info
      PROVE  Exact(p)' /\ Newest(p)'
  BY <1>0, <1>a DEF Exact, Newest
<1>1. ASSUME NEW q \in Peer, NEW info \in NodeInfo, ReceiveInfo(q, info)
      PROVE  Exact(p)' /\ Newest(p)'
  <2>1. /\ task.phase = "idle" /\ UNCHANGED remote_services
        /\ received' = [received EXCEPT ![q] = IF info.version > @ THEN info.version ELSE @]
        /\ info.version \in Nat /\ received[q] \in Nat
    BY <1>1, <1>b DEF ReceiveInfo, registry, NodeInfo
  <2>2. CASE known_peers[q] = NoInfo
    <3>1. /\ known_peers' = [known_peers EXCEPT ![q] = info]
          /\ task'.phase = "adding" /\ task'.peer = q /\ task'.info = info
          /\ task'.todo = ServicesToAdd(info)
      BY <1>b, <1>1, <2>2 DEF ReceiveInfo, Task
    <3>2. CASE q # p
      <4>1. Expected(p)' = Expected(p)
        BY <1>b, <2>1, <3>1, <3>2 DEF Expected
      <4> QED BY <1>0, <1>b, <2>1, <3>1, <3>2, <4>1 DEF Exact, Newest
    <3>3. CASE q = p
      <4>1. Expected(p) = {}
        BY <2>1, <2>2, <3>3 DEF Expected
      <4>2. \A s \in info.services : s \in Offers(p) /\ NameOf[s] # NoTopic
        BY <1>1, <3>3 DEF ReceiveInfo, MayList, Undisputed, Offers
      <4>3. Expected(p)' = {}
        BY <3>1, <3>3, <4>2 DEF Expected, ServicesToAdd
      <4>4. received[p] = 0
        BY <2>2, <3>3 DEF ListInv
      <4>5. received'[p] = info.version
        BY <1>b, <2>1, <3>3, <4>4
      <4>6. Newest(p)'
        BY <1>b, <3>1, <3>3, <4>5 DEF Newest
      <4> QED BY <1>0, <2>1, <4>1, <4>3, <4>6 DEF Exact
    <3> QED BY <3>2, <3>3
  <2>3. CASE known_peers[q] # NoInfo /\ IsNewer(info, known_peers[q])
    <3>1. /\ UNCHANGED known_peers
          /\ task'.phase = "removing" /\ task'.peer = q /\ task'.info = info
          /\ task'.todo = known_peers[q].services
      BY <1>b, <1>1, <2>3 DEF ReceiveInfo, Task, ServicesToRemove
    <3>2. Expected(p)' = Expected(p)
      BY <2>1, <2>3, <3>1 DEF Expected
    <3>3. Newest(p)'
      BY <1>0, <1>b, <2>1, <2>3, <3>1 DEF Newest, IsNewer, NodeInfo
    <3> QED BY <1>0, <2>1, <3>2, <3>3 DEF Exact
  <2>4. CASE known_peers[q] # NoInfo /\ ~IsNewer(info, known_peers[q])
    <3>1. UNCHANGED <<known_peers, task>>
      BY <1>1, <2>4 DEF ReceiveInfo
    <3>2. Expected(p)' = Expected(p)
      BY <3>1 DEF Expected
    <3>3. Newest(p)'
      BY <1>0, <1>b, <2>1, <2>4, <3>1 DEF Newest, IsNewer, NodeInfo
    <3> QED BY <1>0, <2>1, <3>2, <3>3 DEF Exact
  <2> QED BY <2>2, <2>3, <2>4
<1>2. ASSUME NEW s \in Service, FindService(s)
      PROVE  Exact(p)' /\ Newest(p)'
  <2>1. /\ UNCHANGED <<known_peers, remote_services, received>>
        /\ task.phase = "removing" /\ task'.phase = "stopping" /\ task'.peer = task.peer
        /\ task'.info = task.info /\ task'.todo = task.todo
    BY <1>b, <1>2 DEF FindService, Task, registry
  <2>2. Expected(p)' = Expected(p)
    BY <2>1 DEF Expected
  <2> QED BY <1>a, <2>1, <2>2
<1>3. ASSUME NEW s \in Service, FailToFindService(s)
      PROVE  Exact(p)' /\ Newest(p)'
  <2>1. /\ UNCHANGED <<known_peers, remote_services, received>> /\ task' = Idle
        /\ task.phase = "removing" /\ s \in task.todo /\ remote_services[PathOf[s]] = NoProxy
        /\ task'.phase = "idle"
    BY <1>3 DEF FailToFindService, registry, Idle
  <2>2. task.peer # p
    <3> SUFFICES ASSUME task.peer = p PROVE FALSE
      OBVIOUS
    <3>1. s \in Offers(p) /\ s \in Expected(p)
      BY <2>1 DEF OfferedInv, Expected
    <3>2. remote_services[NameOf[s]] = ProxyOf(p, s) /\ PathOf[s] = NameOf[s]
      BY <1>0, <3>1 DEF Exact, Undisputed
    <3>3. ProxyOf(p, s) \in Proxy
      BY DEF ProxyOf, Proxy
    <3> QED BY <2>1, <3>2, <3>3
  <2>3. Expected(p)' = Expected(p)
    BY <2>1, <2>2 DEF Expected
  <2> QED BY <1>a, <2>1, <2>2, <2>3
<1>4. ASSUME NEW s \in Service, RegisterService(s)
      PROVE  Exact(p)' /\ Newest(p)'
  <2>1. /\ task.phase = "adding" /\ s \in task.todo /\ NameOf[s] \in Topic
        /\ remote_services[NameOf[s]] = NoProxy
        /\ remote_services'[NameOf[s]] = ProxyOf(task.peer, s)
        /\ \A u \in Topic : u # NameOf[s] => remote_services'[u] = remote_services[u]
        /\ UNCHANGED <<known_peers, received>>
        /\ task'.phase = "initializing" /\ task'.current = s /\ task'.peer = task.peer
        /\ task'.info = task.info /\ task'.todo = task.todo
    BY <1>0, <1>b, <1>4 DEF RegisterService, TaskInv, Task, ProxyOf
  <2>2. Newest(p)'
    BY <1>0, <2>1 DEF Newest
  <2>3. s \in Offers(task.peer) /\ s \in task.info.services
    BY <2>1 DEF OfferedInv, ListInv
  <2> SUFFICES ASSUME NEW r \in Offers(p)
               PROVE  remote_services'[NameOf[r]] = ProxyOf(p, r) <=> r \in Expected(p)'
    BY <2>2 DEF Exact, Offers
  <2>4. NameOf[r] \in Topic /\ (NameOf[r] = NameOf[s] => task.peer = p)
    BY <1>0, <1>b, <2>3, UndisputedTopics
  <2>5. remote_services[NameOf[r]] = ProxyOf(p, r) <=> r \in Expected(p)
    BY <1>0 DEF Exact
  <2>6. ProxyOf(p, r) \in Proxy
    BY DEF ProxyOf, Proxy, Offers
  <2>7. CASE task.peer # p
    BY <2>1, <2>4, <2>5, <2>7 DEF Expected
  <2>8. CASE task.peer = p
    <3>1. Expected(p) = task.info.services \ task.todo
          /\ Expected(p)' = task.info.services \ (task.todo \ {s})
      BY <2>1, <2>8 DEF Expected
    <3>2. r \in Expected(p)' <=> r \in Expected(p) \/ r = s
      BY <2>1, <2>3, <3>1
    <3>3. CASE r = s
      BY <2>1, <2>8, <3>2, <3>3
    <3>4. CASE r # s /\ NameOf[r] = NameOf[s]
      <4>1. r \notin Expected(p)
        BY <2>1, <2>5, <2>6, <3>4
      <4>2. remote_services'[NameOf[r]] # ProxyOf(p, r)
        BY <2>1, <3>4 DEF ProxyOf
      <4> QED BY <3>2, <3>4, <4>1, <4>2
    <3>5. CASE NameOf[r] # NameOf[s]
      BY <2>1, <2>4, <2>5, <3>2, <3>5
    <3> QED BY <3>3, <3>4, <3>5
  <2> QED BY <2>7, <2>8
<1>5. ASSUME NEW s \in Service, RejectService(s)
      PROVE  Exact(p)' /\ Newest(p)'
  <2>1. /\ UNCHANGED <<known_peers, remote_services, received>>
        /\ task.phase = "adding" /\ s \in task.todo /\ remote_services[NameOf[s]] # NoProxy
        /\ task'.phase = "adding" /\ task'.peer = task.peer /\ task'.info = task.info
        /\ task'.todo = task.todo \ {s}
    BY <1>b, <1>5 DEF RejectService, Task, registry
  <2>2. task.peer # p
    <3> SUFFICES ASSUME task.peer = p PROVE FALSE
      OBVIOUS
    <3>1. s \in Offers(p) /\ s \in task.info.services
          /\ Expected(p) = task.info.services \ task.todo
      BY <2>1 DEF OfferedInv, ListInv, Expected
    <3>2. PICK r \in Offers(p) : NameOf[r] = NameOf[s]
                                 /\ remote_services[NameOf[s]] = ProxyOf(p, r)
      BY <1>0, <2>1, <3>1, UndisputedTopics
    <3>3. r \in Expected(p)
      BY <1>0, <3>2 DEF Exact
    <3>4. PathOf[r] = PathOf[s]
      BY <3>1, <3>2 DEF Undisputed
    <3>5. r = s
      BY <2>1, <3>1, <3>3, <3>4 DEF ListInv, MayList
    <3> QED BY <2>1, <3>1, <3>3, <3>5
  <2>3. Expected(p)' = Expected(p)
    BY <2>1, <2>2 DEF Expected
  <2> QED BY <1>a, <2>1, <2>3
<1>6. ASSUME NEW a \in Action, StopAction(a) \/ InitAction(a)
      PROVE  Exact(p)' /\ Newest(p)'
  <2>1. /\ UNCHANGED <<known_peers, remote_services, received>>
        /\ task'.phase = task.phase /\ task'.peer = task.peer /\ task'.info = task.info
        /\ task'.todo = task.todo /\ task'.current = task.current
    BY <1>b, <1>6 DEF StopAction, InitAction, Task
  <2>2. Expected(p)' = Expected(p)
    BY <2>1 DEF Expected
  <2> QED BY <1>a, <2>1, <2>2
<1>7. ASSUME ForgetService
      PROVE  Exact(p)' /\ Newest(p)'
  <2> DEFINE u == PathOf[task.current]
  <2>1. /\ task.phase = "stopping" /\ u \in Topic
        /\ remote_services'[u] = NoProxy
        /\ \A t \in Topic : t # u => remote_services'[t] = remote_services[t]
        /\ UNCHANGED <<known_peers, received>>
        /\ task'.phase = "removing" /\ task'.peer = task.peer /\ task'.info = task.info
        /\ task'.todo = task.todo \ {task.current}
    BY <1>b, <1>7 DEF ForgetService, Task
  <2>2. Newest(p)'
    BY <1>0, <2>1 DEF Newest
  <2>3. task.current \in Offers(task.peer) /\ task.current \in task.todo
    BY <2>1 DEF OfferedInv, ListInv
  <2> SUFFICES ASSUME NEW r \in Offers(p)
               PROVE  remote_services'[NameOf[r]] = ProxyOf(p, r) <=> r \in Expected(p)'
    BY <2>2 DEF Exact, Offers
  <2>4. NameOf[r] \in Topic /\ (NameOf[r] = u => task.peer = p)
    BY <1>0, <1>b, <2>3, UndisputedTopics
  <2>5. remote_services[NameOf[r]] = ProxyOf(p, r) <=> r \in Expected(p)
    BY <1>0 DEF Exact
  <2>6. ProxyOf(p, r) \in Proxy
    BY DEF ProxyOf, Proxy, Offers
  <2>7. CASE task.peer # p
    BY <2>1, <2>4, <2>5, <2>7 DEF Expected
  <2>8. CASE task.peer = p
    <3>1. Expected(p) = task.todo /\ Expected(p)' = task.todo \ {task.current}
      BY <2>1, <2>8 DEF Expected
    <3>2. remote_services[u] = ProxyOf(p, task.current) /\ u = NameOf[task.current]
      BY <1>0, <2>3, <2>8, <3>1 DEF Exact, Undisputed
    <3>3. CASE NameOf[r] = u
      <4>1. r \in task.todo => r = task.current
        BY <2>5, <3>1, <3>2, <3>3 DEF ProxyOf
      <4> QED BY <2>1, <2>6, <3>1, <3>3, <4>1
    <3>4. CASE NameOf[r] # u
      BY <2>1, <2>4, <2>5, <3>1, <3>2, <3>4
    <3> QED BY <3>3, <3>4
  <2> QED BY <2>7, <2>8
<1>8. ASSUME ReplaceInfo
      PROVE  Exact(p)' /\ Newest(p)'
  <2>1. /\ UNCHANGED <<remote_services, received>>
        /\ task.phase = "removing" /\ task.todo = {}
        /\ known_peers' = [known_peers EXCEPT ![task.peer] = task.info]
        /\ task'.phase = "adding" /\ task'.peer = task.peer /\ task'.info = task.info
        /\ task'.todo = ServicesToAdd(task.info)
    BY <1>b, <1>8 DEF ReplaceInfo, Task, registry
  <2>2. CASE task.peer # p
    <3>1. known_peers'[p] = known_peers[p] /\ Expected(p)' = Expected(p)
      BY <1>b, <2>1, <2>2 DEF Expected
    <3> QED BY <1>a, <2>1, <2>2, <3>1
  <2>3. CASE task.peer = p
    <3>1. \A s \in task.info.services : s \in Offers(p) /\ NameOf[s] # NoTopic
      BY <2>1, <2>3 DEF ListInv, MayList, Undisputed, Offers
    <3>2. Expected(p) = {} /\ Expected(p)' = {}
      BY <2>1, <2>3, <3>1 DEF Expected, ServicesToAdd
    <3>3. known_peers'[p] = task.info /\ known_peers[p] # NoInfo
      BY <1>b, <2>1, <2>3 DEF VersionInv
    <3>4. Newest(p)'
      BY <1>0, <2>1, <2>3, <3>3 DEF Newest
    <3> QED BY <1>0, <2>1, <3>2, <3>4 DEF Exact
  <2> QED BY <2>2, <2>3
<1>9. ASSUME InitDone
      PROVE  Exact(p)' /\ Newest(p)'
  <2>1. /\ UNCHANGED <<known_peers, remote_services, received>>
        /\ task.phase = "initializing"
        /\ task'.phase = "adding" /\ task'.peer = task.peer /\ task'.info = task.info
        /\ task'.todo = task.todo \ {task.current}
    BY <1>b, <1>9 DEF InitDone, Task, registry
  <2>2. Expected(p)' = Expected(p)
    BY <2>1 DEF Expected
  <2> QED BY <1>a, <2>1, <2>2
<1>10. ASSUME Done
       PROVE  Exact(p)' /\ Newest(p)'
  <2>1. /\ UNCHANGED <<known_peers, remote_services, received>> /\ task'.phase = "idle"
        /\ task.phase = "adding" /\ task.todo = {} /\ known_peers[task.peer] = task.info
    BY <1>10 DEF Done, registry, Idle, ListInv
  <2>2. Expected(p)' = Expected(p)
    BY <1>b, <2>1 DEF Expected
  <2> QED BY <1>a, <2>1, <2>2
<1>11. CASE UNCHANGED vars
  <2>1. Expected(p)' = Expected(p)
    BY <1>11 DEF vars, Expected
  <2> QED BY <1>a, <1>11, <2>1 DEF vars
<1> QED BY <1>1, <1>2, <1>3, <1>4, <1>5, <1>6, <1>7, <1>8, <1>9, <1>10, <1>11
        DEF Next, ListenerStep

\* Between two operations no service is half installed or half removed, and once
\* a NodeInfo is processed, the node holds the newest NodeInfo of every undisputed
\* peer and has just the services it lists (process_remote_capabilities).
THEOREM UndisputedAvailable == Spec => []KnownServicesAvailable
<1>1. Init => HandlersInv /\ VersionInv /\ OfferedInv /\ ListInv /\ UndisputedInv
  <2> SUFFICES ASSUME Init PROVE HandlersInv /\ VersionInv /\ OfferedInv /\ ListInv /\ UndisputedInv
    OBVIOUS
  <2>1. task.phase = "idle"
    BY DEF Init, Idle
  <2>2. HandlersInv /\ VersionInv /\ OfferedInv /\ ListInv
    BY <2>1 DEF Init, HandlersInv, VersionInv, OfferedInv, ListInv
  <2>3. ASSUME NEW p \in Peer, Undisputed(p)
        PROVE  Exact(p) /\ Newest(p)
    <3>1. Expected(p) = {}
      BY <2>1 DEF Init, Expected
    <3>2. ASSUME NEW s \in Offers(p)
          PROVE  remote_services[NameOf[s]] # ProxyOf(p, s)
      <4>1. NameOf[s] \in Topic /\ ProxyOf(p, s) \in Proxy
        BY <2>3, ConstantsAssumption DEF Undisputed, Offers, ProxyOf, Proxy
      <4> QED BY <4>1, NoProxyAssumption DEF Init
    <3> QED BY <3>1, <3>2 DEF Init, Exact, Newest
  <2> QED BY <2>2, <2>3 DEF UndisputedInv
<1>2. IInv /\ HandlersInv /\ OfferedInv /\ UndisputedInv => KnownServicesAvailable
  <2> SUFFICES ASSUME IInv, HandlersInv, OfferedInv, UndisputedInv
               PROVE  KnownServicesAvailable
    OBVIOUS
  <2>1. HandlersComplete
    BY DEF HandlersInv, HandlersComplete
  <2>2. ASSUME task.phase = "idle", NEW p \in Peer, Undisputed(p)
        PROVE  Kept(p) /\ Available(p)
    <3>1. Exact(p) /\ Newest(p)
      BY <2>2 DEF UndisputedInv
    <3>2. Kept(p)
      BY <2>2, <3>1 DEF Kept, Newest
    <3>3. ASSUME known_peers[p] # NoInfo, NEW s \in known_peers[p].services
          PROVE  remote_services[NameOf[s]] = [peer |-> p, service |-> s]
      <4>1. s \in Offers(p) /\ s \in Expected(p)
        BY <2>2, <3>3 DEF OfferedInv, Expected
      <4> QED BY <3>1, <4>1 DEF Exact, ProxyOf
    <3> QED BY <3>2, <3>3 DEF Available
  <2> QED BY <2>1, <2>2 DEF KnownServicesAvailable
<1> QED BY <1>1, <1>2, IInvHolds, HandlersStep, VersionStep, OfferedStep, ListStep,
           UndisputedStep, PTL DEF Spec

=============================================================================

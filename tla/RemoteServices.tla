--------------------------- MODULE RemoteServices ---------------------------
(***************************************************************************)
(* One node's view of its peers: how Node::process_remote_capabilities     *)
(* turns the NodeInfo of a peer into registered RemoteServices and remote  *)
(* action handlers, and takes them away again when a newer NodeInfo comes. *)
(*                                                                         *)
(* The peer-node-info listener is one task that handles one NodeInfo at a  *)
(* time under the write lock of known_peers.  Inside that critical section *)
(* every access to the two tries of the ServiceRegistry takes its own      *)
(* lock, so that is the grain of the actions here: a concurrent request    *)
(* may look into the tries between any two of them.                        *)
(***************************************************************************)
EXTENDS Naturals, FiniteSets, Sequences

CONSTANTS
  Peer,          \* peer ids
  Service,       \* the services peers may offer (one ServiceMetadata each)
  Topic,         \* service topics, the keys of the remote_services trie
  Action,        \* action names; a topic and an action are an action topic
  Template,      \* the trie node that all {param} action names share
  NameOf,        \* the service's name, which makes the topic of its proxy
  PathOf,        \* the service's path, by which its removal is looked up
  ActionsOf,     \* the actions the metadata lists
  OfferedBy,     \* the peers that may offer the service
  MaxVersion,    \* bound on NodeInfo.version
  NoInfo, NoProxy, NoTopic

ASSUME ConstantsAssumption ==
  /\ Template \in Action
  /\ PathOf \in [Service -> Topic]
  \* A name that is no valid topic (TopicPath::new fails) is NoTopic.
  /\ NameOf \in [Service -> Topic \cup {NoTopic}]
  /\ NoTopic \notin Topic
  /\ ActionsOf \in [Service -> SUBSET Action]
  /\ OfferedBy \in [Service -> SUBSET Peer]
  /\ MaxVersion \in Nat
  /\ Peer # {} /\ Service # {}

\* The registry_version a peer publishes and the services it lists.  The Vec of
\* services is filled from a HashMap of the sender: its order is arbitrary, and
\* a set stands for it.
NodeInfo == [version : 0..MaxVersion, services : SUBSET Service]

ASSUME NoInfoAssumption == NoInfo \notin NodeInfo

\* A RemoteService, registered under NameOf[service].
Proxy == [peer : Peer, service : Service]

ASSUME NoProxyAssumption == NoProxy \notin Proxy

\* A closure made by create_action_handler: it calls action of service at peer.
Handler == [peer : Peer, service : Service, action : Action]

ActionTopic == Topic \X Action

VARIABLES
  known_peers,             \* the last accepted NodeInfo of each peer
  remote_services,         \* the trie of proxies, at most one for each topic
  remote_action_handlers,  \* the trie of handler lists: a trie node holds a
                           \*   Vec of values and each value is a Vec of handlers
  task,                    \* where the listener stands in its critical section
  received                 \* history: the highest version received so far

vars == <<known_peers, remote_services, remote_action_handlers, task, received>>

registry == <<remote_services, remote_action_handlers>>

-----------------------------------------------------------------------------
\* The listener's program counter and local variables.

Phase == {"idle", "removing", "stopping", "adding", "initializing"}

Task == [phase : Phase, peer : Peer, info : NodeInfo,
         todo : SUBSET Service,      \* services still to remove or register
         current : Service,          \* the service being removed or registered
         actions : SUBSET Action]    \* its action topics still to visit

TypeOK ==
  /\ known_peers \in [Peer -> NodeInfo \cup {NoInfo}]
  /\ remote_services \in [Topic -> Proxy \cup {NoProxy}]
  /\ remote_action_handlers \in [ActionTopic -> Seq(Seq(Handler))]
  /\ task \in Task
  /\ received \in [Peer -> 0..MaxVersion]

Idle == [phase |-> "idle", peer |-> CHOOSE p \in Peer : TRUE,
         info |-> [version |-> 0, services |-> {}], todo |-> {},
         current |-> CHOOSE s \in Service : TRUE, actions |-> {}]

Init ==
  /\ known_peers = [p \in Peer |-> NoInfo]
  /\ remote_services = [t \in Topic |-> NoProxy]
  /\ remote_action_handlers = [at \in ActionTopic |-> <<>>]
  /\ task = Idle
  /\ received = [p \in Peer |-> 0]

-----------------------------------------------------------------------------
\* PathTrie::find_matches for an action topic: what the literal node holds comes
\* before what the template node of the same service holds.
FindMatches(handlers, at) ==
  IF at[2] = Template THEN handlers[at]
  ELSE handlers[at] \o handlers[<<at[1], Template>>]

\* ServiceRegistry::get_remote_action_handlers: all matches, flattened.
Flatten(lists) ==
  LET flat[n \in 0..Len(lists)] ==
        IF n = 0 THEN <<>> ELSE flat[n - 1] \o lists[n]
  IN  flat[Len(lists)]

RemoteHandlers(at) == Flatten(FindMatches(remote_action_handlers, at))

\* ServiceRegistry::register_remote_action_handler: the value added to the node
\* repeats the first match, and set_value adds it to the values already there.
WithHandler(handlers, at, h) ==
  LET matches == FindMatches(handlers, at)
      list    == IF matches = <<>> THEN <<h>> ELSE Append(matches[1], h)
  IN  [handlers EXCEPT ![at] = Append(@, list)]

-----------------------------------------------------------------------------
IsNewerOrEqual(info, known) == info.version >= known.version

\* Only a strictly newer NodeInfo is processed.
IsNewer(info, known) == info.version > known.version

NothingToRemove(p) == {}

\* remove_peer_services goes through the services of the NodeInfo held so far.
ServicesToRemove(p) == known_peers[p].services

\* create_from_capabilities skips a service whose name makes no topic.
ServicesToAdd(info) == {s \in info.services : NameOf[s] # NoTopic}

Offers(p) == {s \in Service : p \in OfferedBy[s]}

\* collect_local_service_capabilities of the sender goes through a HashMap whose
\* keys are the paths of its services: it lists one service for each path.
MayList(p, services) ==
  /\ services \subseteq Offers(p)
  /\ \A r, s \in services : PathOf[r] = PathOf[s] => r = s

\* A NodeInfo reaches the listener.  Peers restart under the same id, so any
\* version may come with any services they offer, again and in any order.
ReceiveInfo(p, info) ==
  /\ task.phase = "idle"
  /\ MayList(p, info.services)
  /\ received' = [received EXCEPT ![p] = IF info.version > @ THEN info.version ELSE @]
  /\ \/ /\ known_peers[p] = NoInfo
        /\ known_peers' = [known_peers EXCEPT ![p] = info]
        /\ task' = [task EXCEPT !.phase = "adding", !.peer = p, !.info = info,
                      !.todo = ServicesToAdd(info)]
     \/ /\ known_peers[p] # NoInfo
        /\ IsNewer(info, known_peers[p])
        /\ task' = [task EXCEPT !.phase = "removing", !.peer = p, !.info = info,
                      !.todo = ServicesToRemove(p)]
        /\ UNCHANGED known_peers
     \/ /\ known_peers[p] # NoInfo
        /\ ~IsNewer(info, known_peers[p])
        /\ UNCHANGED <<known_peers, task>>
  /\ UNCHANGED registry

\* remove_remote_service finds the proxy under the path of the listed service,
\* whoever it belongs to.
FindService(s) ==
  /\ task.phase = "removing"
  /\ s \in task.todo
  /\ remote_services[PathOf[s]] # NoProxy
  /\ task' = [task EXCEPT !.phase = "stopping", !.current = s,
                !.actions = ActionsOf[remote_services[PathOf[s]].service]]
  /\ UNCHANGED <<known_peers, registry, received>>

\* It finds none: "Service not found for topic", and the ? of its two callers
\* ends the processing with known_peers as it was.
FailToFindService(s) ==
  /\ task.phase = "removing"
  /\ s \in task.todo
  /\ remote_services[PathOf[s]] = NoProxy
  /\ task' = Idle
  /\ UNCHANGED <<known_peers, registry, received>>

StopAction_KeepsHandlers(a) ==
  /\ task.phase = "stopping"
  /\ a \in task.actions
  /\ task' = [task EXCEPT !.actions = @ \ {a}]
  /\ UNCHANGED <<known_peers, registry, received>>

\* RemoteService::stop drops the whole trie node of each of its action topics.
StopAction(a) ==
  /\ task.phase = "stopping"
  /\ a \in task.actions
  /\ LET proxy == remote_services[PathOf[task.current]]
     IN  remote_action_handlers' =
           [remote_action_handlers EXCEPT ![<<NameOf[proxy.service], a>>] = <<>>]
  /\ task' = [task EXCEPT !.actions = @ \ {a}]
  /\ UNCHANGED <<known_peers, remote_services, received>>

ForgetService_ClearsTrie ==
  /\ task.phase = "stopping"
  /\ task.actions = {}
  /\ remote_services' = [t \in Topic |-> NoProxy]
  /\ task' = [task EXCEPT !.phase = "removing", !.todo = @ \ {task.current}]
  /\ UNCHANGED <<known_peers, remote_action_handlers, received>>

ForgetService ==
  /\ task.phase = "stopping"
  /\ task.actions = {}
  /\ remote_services' = [remote_services EXCEPT ![PathOf[task.current]] = NoProxy]
  /\ task' = [task EXCEPT !.phase = "removing", !.todo = @ \ {task.current}]
  /\ UNCHANGED <<known_peers, remote_action_handlers, received>>

ReplaceInfo_NoInsert ==
  /\ task.phase = "removing"
  /\ task.todo = {}
  /\ known_peers' = [p \in Peer \ {task.peer} |-> known_peers[p]]
  /\ task' = [task EXCEPT !.phase = "adding", !.todo = ServicesToAdd(task.info)]
  /\ UNCHANGED <<registry, received>>

ReplaceInfo_NoAdd ==
  /\ task.phase = "removing"
  /\ task.todo = {}
  /\ known_peers' = [known_peers EXCEPT ![task.peer] = task.info]
  /\ task' = [task EXCEPT !.phase = "adding", !.todo = {}]
  /\ UNCHANGED <<registry, received>>

\* All services of the old NodeInfo are gone: the new one takes its place.
ReplaceInfo ==
  /\ task.phase = "removing"
  /\ task.todo = {}
  /\ known_peers' = [known_peers EXCEPT ![task.peer] = task.info]
  /\ task' = [task EXCEPT !.phase = "adding", !.todo = ServicesToAdd(task.info)]
  /\ UNCHANGED <<registry, received>>

\* register_remote_service: one service for each topic, the first one stays.
RegisterService(s) ==
  /\ task.phase = "adding"
  /\ s \in task.todo
  /\ remote_services[NameOf[s]] = NoProxy
  /\ remote_services' =
       [remote_services EXCEPT ![NameOf[s]] = [peer |-> task.peer, service |-> s]]
  /\ task' = [task EXCEPT !.phase = "initializing", !.current = s,
                !.actions = ActionsOf[s]]
  /\ UNCHANGED <<known_peers, remote_action_handlers, received>>

RejectService_Retry(s) ==
  /\ task.phase = "adding"
  /\ s \in task.todo
  /\ remote_services[NameOf[s]] # NoProxy
  /\ UNCHANGED <<known_peers, task, registry, received>>

RejectService(s) ==
  /\ task.phase = "adding"
  /\ s \in task.todo
  /\ remote_services[NameOf[s]] # NoProxy
  /\ task' = [task EXCEPT !.todo = @ \ {s}]
  /\ UNCHANGED <<known_peers, registry, received>>

\* RemoteService::init, in the order of a HashMap's keys.
InitAction(a) ==
  /\ task.phase = "initializing"
  /\ a \in task.actions
  /\ remote_action_handlers' =
       WithHandler(remote_action_handlers, <<NameOf[task.current], a>>,
                   [peer |-> task.peer, service |-> task.current, action |-> a])
  /\ task' = [task EXCEPT !.actions = @ \ {a}]
  /\ UNCHANGED <<known_peers, remote_services, received>>

InitDone ==
  /\ task.phase = "initializing"
  /\ task.actions = {}
  /\ task' = [task EXCEPT !.phase = "adding", !.todo = @ \ {task.current}]
  /\ UNCHANGED <<known_peers, registry, received>>

Done ==
  /\ task.phase = "adding"
  /\ task.todo = {}
  /\ task' = Idle
  /\ UNCHANGED <<known_peers, registry, received>>

ListenerStep ==
  \/ \E s \in Service : FindService(s) \/ FailToFindService(s)
                        \/ RegisterService(s) \/ RejectService(s)
  \/ \E a \in Action : StopAction(a) \/ InitAction(a)
  \/ ForgetService \/ ReplaceInfo \/ InitDone \/ Done

Next ==
  \/ \E p \in Peer, info \in NodeInfo : ReceiveInfo(p, info)
  \/ ListenerStep

\* The listener task is scheduled as long as the runtime lives.
Spec == Init /\ [][Next]_vars /\ WF_vars(ListenerStep)

-----------------------------------------------------------------------------
(***************************************************************************)
(* Properties.  The names ending in _<word> above are wrong variants of    *)
(* the operator that follows them; nothing here uses them.                 *)
(***************************************************************************)

Occurs(h, lists) ==
  \E i \in DOMAIN lists : \E j \in DOMAIN lists[i] : lists[i][j] = h

\* No orphan handlers: whatever a request can resolve to belongs to the proxy
\* registered for that very service topic, at every point of the processing.
HandlersHaveService ==
  \A at \in ActionTopic, h \in Handler :
    Occurs(h, remote_action_handlers[at]) =>
      remote_services[at[1]] = [peer |-> h.peer, service |-> h.service]

\* Every registered proxy has a handler of its own for each of its actions, but
\* while they are being registered or removed.
HandlersComplete ==
  task.phase \notin {"stopping", "initializing"} =>
    \A t \in Topic : remote_services[t] # NoProxy =>
      \A a \in ActionsOf[remote_services[t].service] :
        Occurs([peer |-> remote_services[t].peer,
                service |-> remote_services[t].service, action |-> a],
               remote_action_handlers[<<t, a>>])

\* A proxy is only there while the NodeInfo held of its peer lists the service:
\* what a peer has withdrawn cannot be called.  (Needs names equal to paths.)
RegisteredIsAdvertised ==
  \A t \in Topic : remote_services[t] # NoProxy =>
    LET proxy == remote_services[t]
    IN  /\ known_peers[proxy.peer] # NoInfo
        /\ proxy.service \in known_peers[proxy.peer].services

\* What is held of a peer only ever changes to a newer version, whatever order
\* its NodeInfos arrive in.
KnownVersionsRise ==
  [][\A p \in Peer :
       known_peers[p] # NoInfo /\ known_peers'[p] # known_peers[p] =>
         /\ known_peers'[p] # NoInfo
         /\ known_peers'[p].version > known_peers[p].version]_vars

\* Nobody else offers a service of the same name, and names equal paths.
Undisputed(p) ==
  /\ \A s \in Offers(p) : NameOf[s] = PathOf[s]
  /\ \A q \in Peer \ {p} : \A r \in Offers(q), s \in Offers(p) :
       NameOf[r] # NameOf[s] /\ PathOf[r] # PathOf[s]

Available(p) ==
  known_peers[p] # NoInfo =>
    \A s \in known_peers[p].services :
      remote_services[NameOf[s]] = [peer |-> p, service |-> s]

Kept(p) == known_peers[p] # NoInfo => known_peers[p].version = received[p]

\* Between two operations no service is half installed or half removed; and once
\* a NodeInfo is processed, what is held of an undisputed peer is the newest
\* NodeInfo it has sent, and its services are the ones that NodeInfo lists,
\* whatever the others did to each other.
KnownServicesAvailable ==
  /\ HandlersComplete
  /\ task.phase = "idle" =>
       \A p \in Peer : Undisputed(p) => Kept(p) /\ Available(p)

\* Processing the NodeInfo of one peer leaves the proxies and the handlers of
\* the undisputed other peers alone.
OtherPeersUndisturbed ==
  [][\A t \in Topic :
       LET proxy == remote_services[t]
       IN  proxy # NoProxy /\ task'.phase # "idle" /\ proxy.peer # task'.peer
             /\ Undisputed(proxy.peer) =>
           /\ remote_services'[t] = proxy
           /\ \A a \in Action :
                remote_action_handlers'[<<t, a>>] = remote_action_handlers[<<t, a>>]]_vars

\* The comment "remove and add again": the newest NodeInfo of any peer is the one
\* held of it.
EveryInfoKept == task.phase = "idle" => \A p \in Peer : Kept(p)

\* "making them available locally": each listed service that no other known peer
\* lists as well is available.
EveryServiceAvailable ==
  task.phase = "idle" =>
    \A p \in Peer : known_peers[p] # NoInfo =>
      \A s \in known_peers[p].services :
        \/ NameOf[s] = NoTopic
        \/ \E q \in Peer \ {p} : known_peers[q] # NoInfo /\
              \E r \in known_peers[q].services : NameOf[r] = NameOf[s]
        \/ remote_services[NameOf[s]] = [peer |-> p, service |-> s]

\* A request for the exact path of a listed action resolves first to the handler
\* of that action, even beside a handler registered for a {param} path.
ExactMatchFirst ==
  task.phase = "idle" =>
    \A t \in Topic : remote_services[t] # NoProxy =>
      \A a \in ActionsOf[remote_services[t].service] :
        RemoteHandlers(<<t, a>>)[1].action = a

\* The processing of a NodeInfo comes to an end and the listener takes the next.
ListenerReturns == task.phase # "idle" ~> task.phase = "idle"

=============================================================================

# A TLA+ model of the runar node

This directory holds TLA+ modules that model the core of the runar node (`src/src`),
TLC configurations that check them on small instances, and proofs of some of the
results for every instance. All paths below are relative to the repository root.

A *node* hosts local services, discovers other nodes, exchanges `NodeInfo` with them
over QUIC, and makes the services of its peers callable as if they were local.

## 1. The system

| component | state it keeps | operations | meets |
|---|---|---|---|
| **Node** (`node.rs`) | `running` (copied into every clone), `registry_version`, `known_peers`, `pending_requests`, `debounce_notify_task`, `network_transport`, `network_discovery_providers`, `serializer` | `add_service`, `start`, `stop`, `request`, `publish`, `subscribe`, `unsubscribe`, the handlers of incoming messages | everything below |
| **ServiceRegistry** (`services/service_registry.rs`) | tries of local and remote action handlers, of local and remote services, of subscriptions; four id maps; service states; each under an `RwLock` of its own, all shared by the clones | register, remove, look up | Node, RemoteService |
| **PathTrie**, **TopicPath** (`routing/`) | nested maps of literal, `*`, `{name}` children, and what is kept for `>` | set, remove, exact and wildcard search | ServiceRegistry |
| **RemoteService** (`services/remote_service.rs`) | the peer, the service path, the actions its metadata lists | `create_from_capabilities`, `init`, `stop`, the action handler closure | Node (`pending_requests`, transport, serializer) |
| **QuicTransport** (`network/transport/`) | `ConnectionPool` of `PeerState`s (connection, stream pool, status), background tasks, `running`, a broadcast channel of `NodeInfo`s | `start`, `stop`, `send_message`, `connect_peer`, `handshake_peer`, `update_peers`, receive loops | Node's message handler, the peer-node-info listener |
| **Discovery** (`network/discovery/`) | `discovered_nodes`, listeners, a channel to the sender task, four tasks | `new`, `subscribe`, `start_announcing`, `shutdown`, the listener task with its answers | Node (`handle_discovered_node`) |
| **requests of a node** (`node.rs`, contexts, load balancing) | a round robin counter | path completion, look-up, parameters, choice of a handler | ServiceRegistry |
| **RegistryService** | none of its own | read-only actions over the registry's metadata | ServiceRegistry |
| **PeerRegistry** | peers with time stamps | add, find, clean up | nothing: only its own tests make one |
| configuration, logging, certificates | none of their own | builders | - |

How they interact. A discovered node is connected to by the transport
(`handle_discovered_node`), which opens a connection and sends the local `NodeInfo` in a
handshake message. Every `NodeInfo` received goes through a broadcast channel to one
listener task of the node, which registers or removes `RemoteService`s. A change of what
the node offers bumps `registry_version` and, two seconds after the last change (`node.rs`
1518; the comment at 1503 says five), sends the `NodeInfo` to all connected peers. A request to a remote action inserts a oneshot
sender into `pending_requests`, sends a message and waits with a timeout; the transport
runs the node's message handler in a task for each message, and the one of the response
takes the sender out again. Events are local: the subscribers found in the trie are
called one after the other.

What is hard here: every map has a lock of its own, so each operation is a sequence of
critical sections that others see between; tasks are spawned and aborted; one lock (the
serializer's) is held across waits for other nodes; messages of one peer travel on
streams of their own, so they are handled in any order; almost every step can fail, and
what earlier steps did then stays; versions are the only means to tell old from new.

What makes each part correct:

- remote services: what is registered of a peer is what the newest `NodeInfo` of that peer
  lists, the handlers belong to the registered services, one peer's update leaves the
  others alone, old `NodeInfo`s never displace newer ones;
- remote requests: one outcome for each, success only with the answer to that very request,
  an action executed at most once, no entry left in `pending_requests`, a failure reported
  as what it is;
- announcements: after a change every connected peer hears of it, and in the end holds
  what is true;
- the serializer's lock: whoever asks gets it;
- the life of the node: states reported are true, but for the moment between a service's own start or
  stop and the report of it; start starts once, stop stops all;
- subscriptions: an event calls each subscription that covers its topic exactly once;
- the trie: the search finds what the patterns mean;
- transport: every call returns, what is sent over a living connection is received, two nodes that
  dial each other end up with each other's `NodeInfo`, stop waits for the tasks it is given;
- discovery: nodes that stay up come to dial each other, whatever is lost and in whatever order
  they start; announcements are answered, but answers to answers come to an end;
- paths: however a path was made, its flags, bitmap and cached parts agree with its segments, and
  matching, the trie's search and templates mean the same thing;
- requests of a node: they reach a handler meant for their topic, with its parameters, although services
  come and go between the look-ups, and remote handlers take turns.

`PROJECT.json` lists the components with their status and, under `hazards`, the places in
the code where the above is at risk.

## 2. Modules

| module | models | code |
|---|---|---|
| `RemoteServices` | the peer-node-info listener and `process_remote_capabilities`: comparing versions, removing and registering proxies, their handlers in the trie | `node.rs` 195-253, 1367-1500, `remote_service.rs` 98-205, 288-329, `service_registry.rs` 262-326, 351-435 |
| `RemoteServicesProofs`, `RequestResponseProofs`, `NodeLifecycleProofs`, `SerializerLockProofs`, `QuicTransportProofs`, `PathTrieProofs`, `SubscriptionsProofs`, `RequestsProofs` | theorems about the module they are named after; `RequestResponseProofs` also has those about `NodeInfoSync`, `NodeLifecycleProofs` those about `Discovery`, `RequestsProofs` those about `PathBuilding`; the last two extend `PathTrieProofs` | |
| `Rpc` | what a remote request promises (abstract) | |
| `RequestResponse` | the request from the handler closure through both transports to the remote action and back, with timeout and every failing exit; implements `Rpc` | `remote_service.rs` 208-270, `node.rs` 817-1080, 1167-1215, `quic_transport.rs` 638-694, 1019-1032, 1132-1232 |
| `NodeInfoSync` | version, debounce, update, handshake, and the version test at the peer | `node.rs` 418-422, 1506-1652, 1736-1764, `quic_transport.rs` 701-933, 847-868 |
| `SerializerLock` | the tasks around `Node.serializer`, tokio's fair lock | `node.rs` 843-1080, `remote_service.rs` 220-269 |
| `NodeLifecycle` | `add_service`, `start`, `stop` with each of their steps failing | `node.rs` 342-568, 573-672, 1680-1710 |
| `PathTrie` | set, remove and both searches of the trie, as operators | `path_registry.rs` |
| `TopicPath` | parsing, flags, bitmap, matching, templates, equality and hash of a path, as operators; extends `PathTrie` | `routing/mod.rs` |
| `PathBuilding` | every path the constructors of `TopicPath` can make, one after the other | `routing/mod.rs` |
| `Requests` | registering and finding action handlers on one node: local before remote, parameters, round robin, metadata; extends `TopicPath` | `service_registry.rs` 331-435, 671-692, `node.rs` 1167-1314, `load_balancing.rs`, the path completion of the contexts |
| `PubSub` | what publish and subscribe promise (abstract) | |
| `Subscriptions` | `subscribe`, `unsubscribe` and publication over the four maps of the registry; uses `PathTrie`, implements `PubSub` | `service_registry.rs` 462-534, 580-595, 704-812, `node.rs` 1083-1165, 1316-1361 |
| `QuicTransport` | dialling and handshake, accept loop, receivers, `send_message`, `update_peers`, `disconnect`, start and stop, over connection pool and peer states | `quic_transport.rs` 300-330, 502-1232, 1239-1288, `connection_pool.rs` 21-102, `peer_state.rs` 27-127 |
| `Discovery` | multicast discovery between nodes, `handle_discovered_node`, crashes and restarts | `multicast_discovery.rs`, `node.rs` 573-672, 759-814, 1695-1699 |
| `MC...` | the instance of each module for TLC | |

Conventions. Variables have the names of the Rust fields. An action is what happens
between two points at which another task can see the state: usually one critical section.
An operator `X_word` stands before an operator `X` and is a wrong variant of it, such as a
plausible slip would make: no specification uses it; the checks substitute it for `X` to see that
a property would notice (`mutants` in `PROJECT.json`).
`NodeInfoSync`, `Discovery` and `PathBuilding` name their specification after themselves (`SyncSpec`, `DiscoverySpec`,
`BuildSpec`, with `Init`, `Next` and types alike), so that a module may extend one of them beside another specification.
`Situation` constants (`FaultSet` in `Discovery`) say which behaviours an instance looks at (calls that overlap or not, what
may fail, which patterns are used); the situation of a behaviour is a variable that never
changes, so that one run covers several and a property can say in which it holds.

### State and actions

**RemoteServices.** `known_peers`, `remote_services` and `remote_action_handlers` are the maps of
node and registry; `task` is the listener's place in `process_remote_capabilities` with its
local variables. `ReceiveInfo` is the version test, `FindService`/`StopAction`/`ForgetService`
are `remove_remote_service` with `RemoteService::stop`, `RegisterService`/`InitAction` are
`register_remote_service` with `RemoteService::init`, `FailToFindService` is the `?` that
gives up. A trie node of `remote_action_handlers` is a pair of service topic and action; all
`{param}` actions of a service share one node (`Template`), and `FindMatches` puts the literal
node before it. Names and paths of services are related by the constants `NameOf` and
`PathOf`, because the code registers a proxy under the one and removes it under the other. The
list of services in a `NodeInfo` is a set: the sender fills it from a `HashMap`.

**RequestResponse.** The caller's steps (insert into `pending_requests`, serialize, transmit, wait,
clean up), the sets of messages under way (a message may be lost or overtaken, each has its own
stream and task), the server's steps and the response task's. A request carries one payload, as
everything that sends one does. `ImplementsRpc` maps the caller's place to open, answered or failed.

**NodeInfoSync.** A `Call` is the tail of `add_service`, `subscribe` or `unsubscribe`: change, bump,
`AbortKept` (take the kept task and abort it), `SpawnTask`, `StoreTask`. The spawned task collects the
services, loads the version and sends to the peers it counts as connected. A connection delivers in
order, since its receiver handles a stream to its end before it takes the next. A round of updates ends at a
peer whose connection is dead (`FailToSendUpdate`) or whose receiver stops the stream (`StopUpdate`, see
below), both only in situations with `"breaks"`.

**SerializerLock.** `queue` is tokio's queue: requests are granted in order, so a reader waits
behind a writer that waits. Guards are held to the end of the function that took them.

**NodeLifecycle.** `op` is the call in progress (all three take `&mut self`), `state` the states the
registry reports, `active` counts the starts of a service that no stop has ended. A call awaits a service's own
`init`, `start` or `stop` and only then takes the registry's lock to write the state: `StartService` and `StopService`
are the end of the first, `ReportState` (and `RegisterService` in `add_service`) the second, and `due` is the state
that is about to be written. Between the two, others see a stopped service reported `Running`, or one that is started again
reported `Stopped`; `StateTruthful` says that this is the only untruth, and of one service at a time.

**PathTrie and Subscriptions.** The trie is a function from nodes to lists of values. The searches are
recursive functions, and so are the folds over lists they use (`Joined`, `Concat`, `Without`). The model has
the topics of one network, which is all a node has. The order in which a `HashMap` yields
literal children is any of the constant `Orders`. The entries for a new id in the two id maps are
made together with the step before them: nobody knows the id before `subscribe` returns. The steps of
`unsubscribe_local` after its first lock are one action, all under the trie's write lock. What holds of
subscriptions is said of patterns that are `Separate`: the search which `subscribe` and `unsubscribe` make for a
pattern comes upon the list of no other one (`Meets`). A topic may well fall under several of them.

**QuicTransport.** `transport` holds the fields of `QuicTransportImpl` and `QuicTransport` of each node
with the two locks that are held across waits (`endpoint_lock`, `tasks_lock`), `peer_state` every
`PeerState` with who holds the Mutex of its connection. A connection is named after the call that dials
it; it makes a `PeerState` (unless the pool has one) and a receiver at each of its two ends. `task` says
where each call, accept loop and receiver stands and what it has in hand, `unread` the streams opened
at an end and not read yet. `receive_message` keeps a stream until its message is processed: one that is read and handled
in a step is gone with it, but a receiver that answers a handshake has its stream in hand (`Held`) until the answer is
sent, and `HasRoom` counts it. As nobody reads a stream to its end, it is stopped when it is dropped, and a `finish` of its
sender may fail for that on a living connection, of a message that has come (`StopFinish`; `FailToFinish` is that of
a dead one). `announced` and `handled` remember whose `NodeInfo` went to the subscribers and whose message to the
handler, `skipped` whose announcement was left out by the `?` after such a failure. `get_or_create_peer` is two steps (`GetPeer`, `InsertPeer`), as in the code
nothing holds the map between them; the pool has an entry of the peer's id only where that
peer was dialled, and one of a temporary id where a connection came in. `Collect` iterates over
the pool and waits for the Mutexes inside; `OnThread` steps write to the same map and need a thread to wait on.

**TopicPath and PathBuilding.** A string is a sequence of segments, with `Empty` where two slashes
meet; a segment is a literal, a `{name}` (`Param`), `Star` or `Multi`. A path is a record with the
fields of the struct that anything reads: `segments`, `is_pattern`, `has_templates`, the bitmap as a
function of `Slots` places, the cached action path and the components of the hash. The first path of
a behaviour comes from `new`, `new_service` or `from_template`; `ToActionTopic`, `ToChild` and
`ToParent` replace it by what `new_action_topic`, `child` and `parent` make of it, so that every
sequence of constructors is covered. The `u64` bitmap has room for 32 segments; `Slots` and
`MaxSegments` are both 4, and with fewer slots than segments `PartsAgree` fails: a segment beyond
the last slot shares the bits of an earlier one, since a shift wraps in a release build
(`routing/mod.rs` 941-952; a debug build panics). Equality compares segments, and `matches` compares
the text of two plain paths first, so `/a` equals `a` and does not match it.

**Requests.** The two tries are functions from nodes to lists, as in `Subscriptions`. A request is started
(path completion and parsing), looks into the local trie, then into the remote one, then asks the load
balancer, with the locks released in between; `kept` remembers which handlers have covered its topic all the
time. The counter of the balancer wraps at `Wrap`, where the code has `usize::MAX`. A situation says which
handlers may come, whether they go, where the counter starts and what is asked for. A request for a text with
wildcards runs as any other, but only of concrete topics (`IsConcrete`) is it said what they reach; and of remote
handlers only where none was registered for a path with a wildcard (`RemotePlain`), as such a registration
takes along the list of a longer path it searches for (`service_registry.rs` 369-398).

**Discovery.** `process` is how far a node's start has come (transport, provider, listener, announcing) and
which life it is in; `connection` the life of the peer its pool has a connection to, since `is_connected`
does not ask whether the connection still lives; `queue` the channel between announce and sender task,
`listener` the place of the listener task, which waits for `handle_discovered_node` and then answers a
new peer, `net` the datagrams under way. A crash takes all of a node's state with it and leaves that of others.

What is assumed of quinn 0.10, from how `src/` uses it: the endpoint completes a handshake before `accept`
returns the connection; a connection closes when one node drops its last handle or closes its endpoint;
`open_uni` waits while the peer allows no more streams, and a stream makes room when its receiver drops it; `finish`
waits for the acknowledgement of the peer's quinn, which comes whether or not the peer reads, and fails if the peer drops
the stream before its end and says so first; streams of a connection are accepted in order; the port stays bound after `close`, since the transport keeps the endpoint. Which
connections break and whether dialling fails is part of a situation.

## 3. Runs

| run | shows | bounds |
|---|---|---|
| `RemoteServices` | handlers and proxies agree at every step; the newest `NodeInfo` of a peer with names of its own is in force, its services available and undisturbed by the quarrels of the two others; the listener returns | 3 peers, 3 services (one disputed, one whose name makes no topic), literal and `{id}` actions, versions 0..2 |
| `RequestResponse` | the protocol implements `Rpc`; `pending_requests` holds the callers that wait and no others (`PendingMatchesWaiters`) | 2 concurrent requests, every message lost, late or overtaken once |
| `NodeInfoSync` | announcements arrive whatever `abort` hits; the truth arrives when calls are far apart | 2 calls, 2 peers, 1 item, five situations |
| `SerializerLock` | every task ends, with nested readers or with a writer | 2 calls with answers, 2 requests, 1 writer |
| `NodeLifecycle` | reported states are true but for the one service whose own start or stop has just returned, no call gets stuck; without network and stop failures services are started once and stop is complete | 2 services, 2 counted starts |
| `Subscriptions` | the search yields the list of each covering pattern, once; each subscription of separate patterns is called exactly once, its metadata listed; the promise of `PubSub` | 3 subscriptions (2 where a pattern ends in `>`), 2 unsubscribe calls each, 1 publication, 7 patterns in four situations, 3 topics |
| `QuicTransport` | every call returns, whatever it is called with and whenever stop comes; a connection in a `PeerState` is read; stop leaves no receiver it was given; in quiet, what is sent comes to the handler, and two nodes that dial each other end up with each other's `NodeInfo` | 2 nodes, 3 calls in nine situations, 2 threads a node, 2 streams a connection, 3 statuses |
| `Discovery` | two nodes that stay up come to have dialled each other, also after crashes and with losses; once no node announces itself, the network falls silent | 2 nodes, 2 lives each, a channel of 1, losses with crashes, or shut-downs |
| `PathBuilding` | the parts of a path agree however it was made; `matches`, the trie and the meaning of patterns agree, but for what `MatchesMeaning` names; filling and extracting a template undo each other | paths of up to 4 segments from strings of up to 3, 2 literals, 2 parameters, both wildcards |
| `Requests` | a handler that runs is meant for the topic and gets its parameters; no request is refused that had a handler all the time; remote handlers take turns, also where the counter wraps; the actions a node tells its peers are those of one segment | 6 local and 5 remote handlers, 2 or 3 requests, a counter of 4 values, three situations |

Two actors of each kind are enough for what can go wrong here: one that is half way and one that
acts in between. A third peer or subscription is there where a list has to have a middle. The stream
limit of 2 makes every third message wait (the code's default is 100): that is the handshake and two messages of the
situation `Busy`. With a limit of 1, or with more messages both ways than there is room for beside the handshakes, two
receivers that answer may wait for each other for ever; that is a fault of the code at its limit and has its
place in `QuicTransportOdd`. The status channel of 3 (10 in the code) is enough for every connection of the nine
situations. A channel of 1 in `Discovery`
makes the announce task wait (the code's is 100); a second life is what makes a connection stale.
Three segments are enough for a `>` after a `*` after a literal, the fourth for a child of such a
path. Deadlock checking is off in `RequestResponse`, `NodeInfoSync`, `SerializerLock`,
`Subscriptions`, `QuicTransport`, `Discovery`, `PathBuilding` and `Requests`, where each request,
call, life or subscription happens once and everything may be done; that nobody waits for ever is
`CallsReturn`, `TasksEnd` and their like. It is on in `RemoteServices` and `NodeLifecycle`.
`Requests` uses the symmetry of its first two requests, which no property tells apart.

Fairness. `RemoteServices`: the listener task is scheduled. `RequestResponse`: tasks are scheduled
and the timeout fires; nothing is assumed of messages. `NodeInfoSync`: calls and tasks run on,
sleeps end, a connection that is up delivers. `SerializerLock`: the head of the queue is served when
it can be (tokio's semaphore), timers fire, action handlers return; nobody has to begin.
`NodeLifecycle`, `PathBuilding` and `Requests` have safety properties only and state none.
`QuicTransport`: calls that have begun, accept loops and receivers run on when they can; nobody has
to call, and nothing has to break. Each of these is weak fairness of steps of the runtime, none of
an outside event. `Discovery` also assumes strong fairness of two things that happen outside: of
datagrams sent again and again not all are lost, and of dials tried again and again one succeeds.
Announcements are repeated without end for just that reason, and nothing could be found without it;
crashes and stops are never assumed.

### Disagreements

These runs end in a violation; `findings` in `PROJECT.json` quotes the line each contradicts.

| run | what happens |
|---|---|
| `SerializerLockNested` | a read lock taken twice with a writer in between: request and writer wait for ever |
| `SubscriptionsOverlap` | overlapping patterns: a subscription's list is overwritten by that of another pattern |

More configurations reproduce counterexamples that are worth knowing but are not part of the checked set. Each is
run with `tlc -config <name>.cfg MC<module>.tla`; where one lists several properties TLC stops at the first it
finds violated, and the next shows when that one is taken out. Some properties need other constants than the
configuration gives: they are commented out there, and the table says what to replace.

| configuration | property | what happens |
|---|---|---|
| `RemoteServicesTitled` | `EveryInfoKept` | a service named other than its path can never be removed, and from the second `NodeInfo` on its peer is ignored |
| `RemoteServicesOdd` | `EveryServiceAvailable` | a service whose name another peer took first is never registered later |
| | `ExactMatchFirst` | a literal action resolves to the handler of a `{param}` action registered before |
| `RequestResponseOdd` | `PendingFreed` | a failed serialization leaves its `pending_requests` entry |
| | `ReplySettles` | replies of type `Error` are dropped by the caller's node, which waits for its timeout |
| `NodeInfoSyncOdd` | `OneAsleep` | two overlapping calls leave two notifications asleep |
| | `EveryPeerTold` (`Situation <- MCBreaks`, `Peer <- MCPeer`) | one dead connection, or one `finish` that fails, ends the round of updates for the peers after it |
| | `LatestInfoComes` (`Situation <- MCExclusive`) | services and version of a `NodeInfo` are read at two moments |
| | `LatestInfoComes` (`Situation <- MCLate`) | a peer that connects late gets the `NodeInfo` of the transport's creation |
| | `LatestInfoComes` (`Situation <- MCApart`, `HandleOf <- MCServiceHandle`, `Running <- MCNotRunning`, `Call <- MCOneCall`) | the `running` flag of a clone made before `start` is never set |
| `SerializerLockStalled` | `NoWaitCycle` | an answer queues behind a writer that waits for the caller of that answer |
| `NodeLifecycleOdd` | `NothingActive` | a start that fails after its services run leaves them running after stop |
| | `NeverTwiceActive` | start again after such a failure starts them a second time |
| | `NetworkRuns` | a second start after stop keeps the stopped transport |
| | `StateAlwaysTruthful` | `stop` has awaited a service's own stop and not yet reported it: the registry says Running of a stopped service |
| `SubscriptionsUnlisted` | `EventsAnnounced` | the metadata of subscriptions is kept under the service and searched under `service/*`: a `NodeInfo` announces no event |
| `QuicTransportOdd` | `PeerInfoComes` | the answer to a handshake needs an entry of the dialler's id, so a node that dials a peer which does not dial back never learns its `NodeInfo` |
| | `SentNotLost` (`Situation <- MCTwiceAndSend`, `StreamLimit = 2`) | two `connect_peer` at once: the second replaces the connection of the first, and messages already acknowledged on it are lost |
| | `CallsReturn` (`Situation <- MCTwice`, `StatusLimit = 1`) | the status channel has no reader; once full, `set_connection` waits for ever with the Mutex |
| | `GreetedIsAnnounced` (`Situation <- MCStarting`) | the accept task looks at `running` before `start` has set it, and ends |
| | `GreetedIsAnnounced` (`Situation <- MCMutual`, `StreamLimit = 2`) | the peer's receiver drops the stream of an answered handshake, the `finish` of the answer fails, and the `?` skips announcing the peer |
| | `AnswersPass` (`Situation <- MCMutual`; or `MCMutualBusy` with `Call <- MCFourCalls`, `StreamLimit = 2`) | two nodes answer each other's handshakes when there is no room beside them: each receiver waits in `open_uni` for the stream that the other one has in hand |
| | `NodesMeet` (`Situation <- MCMutual`) | what comes of that: neither learns the other's `NodeInfo` |
| | `StopJoinsAll` (`Situation <- MCStopAtOnce`) | the receiver of an incoming connection is kept by nobody, and runs on when stop has returned |
| | `DisconnectedSilent` (`Situation <- MCLeaving`, `Call <- MCFourCalls`) | after `disconnect` the receiver still has its handle and the peer's messages are processed |
| `DiscoveryOdd` | `ConnectionLives` | the peer was restarted; `is_connected` says so still of the old connection, and every discovery of the peer is ignored |
| | `StoppedSilent` | shutdown ends the announce task only: the sender task empties the channel, the listener task answers |
| `PathBuildingOdd` | `MultiIsLast` | `child` of a path that ends in `>` puts a segment behind it |
| | `EqualHashesEqual` | equality looks at segments and the hash at cached parts that not every constructor fills |
| | `MultiNeedsSegment` | `matches` takes `>` for no segment |
| | `ConcreteMatchesTemplate` | `matches` of a concrete path with a template is false, where the comment above it says true |
| `RequestsOdd` | `EveryActionListed` | actions of more than one segment are never listed, nor told to peers |
| | `ExactFirst` | with a handler of `>` at the service, the handler of the very path is not the first match |
| | `ParamsExtracted` | a path with `{name}` and `*` extracts no parameters |
| | `RemoteMeant` (`Situation <- MCRemoteWild`) | a remote handler registered for `far/*` is kept with the handlers of `far/a`, which a request for `far/b` then finds |
| | `SpreadsByTopic` | (with `Situation <- MCTopics`) one counter for all actions: requests that alternate between two actions of two handlers each reach only one handler of each |

## 4. Proofs

`RemoteServicesProofs` proves of `Spec` in `RemoteServices`, for any sets of peers, services, topics
and actions and any bound on versions, from the assumptions the module states on its constants:

- `TypeCorrect`: `[]TypeOK`, by one step for each action;
- `NoOrphanHandlers`: `[]HandlersHaveService`. By itself this is not inductive. While a
  proxy is being stopped its handlers go one action at a time, and the proxy last. `IInv` adds that a
  registered proxy sits under its own name (`ProxyUnderItsName`), that only the nodes of a registered
  service's listed actions hold handlers (`NodesListed`, so that a free topic has none when a proxy
  is registered there), and what the listener's local variables say in each phase (`TaskInv`: while a
  proxy is stopped, handlers are left only at the actions still to be removed). `WithHandlerEffect` says
  what registering a handler does to the trie: it copies the first match of that topic, whose
  handlers are of the same proxy by the invariant;
- `VersionsRise`: `KnownVersionsRise`, an action property; `ReplaceInfo` needs that the
  `NodeInfo` in the task is newer than the one held, which `VersionInv` carries from `ReceiveInfo`;
- `OnlyAdvertisedRegistered`: `[]RegisteredIsAdvertised`, under the hypothesis `NamesArePaths`, which the code
  takes for granted and does not check (`RemoteServicesTitled` shows what happens otherwise). `AdvertisedInv`
  says that every registered proxy of the peer at hand is still to be removed while services go,
  and that services to come are of the `NodeInfo` held;
- `OthersUndisturbed`: `OtherPeersUndisturbed`, an action property. `OfferedInv` says that whatever
  is held, registered or being worked on of a peer is offered by that peer; so the topics that
  removal and registration touch are not those of a peer nobody shares a name with;
- `UndisputedAvailable`: `[]KnownServicesAvailable`. Its invariant `UndisputedInv` says of a peer whose
  paths nobody shares that at every step just those of its services are registered which the `NodeInfo` held
  lists, but for what is still to do of the task at hand (`Exact`), and that this `NodeInfo` is the newest
  handed over (`Newest`). `HandlersInv` adds that a registered proxy has the handlers of all its actions,
  except while they are put in or taken out, and `ListInv` that the task works on services of its own
  `NodeInfo`.

`RequestResponseProofs` proves of `Spec` in `RequestResponse`, for any set of requests:

- `TypeCorrect`: `[]TypeOK`;
- `PendingExact`: `[]PendingMatchesWaiters`. `WaiterReachable` is inductive with the types; that finished requests
  leave no entry is not, because an answer ends a request without touching the map. `SenderInOnePlace` says why
  that is right: an id whose sender is with the task of a response, or used, is not in the map;
- `ImplementsRpcSafety`: every step is one of `Rpc`, under the mapping `StatusOf`, or shows nothing.
  What `Rpc` asks of `Succeed` is that the action succeeded and that the result is the request's
  own; `EffectKnown` and `Correlated` carry both along from the action handler through server,
  network, response task and channel, `OwnAnswer` to the caller. That `Execute` happens once, and
  only for a request that was made, is the first line of `EffectKnown` with `OnlyOnceAsked`. The
  fairness of `Rpc` is left to the run.

It proves of `SyncSpec` in `NodeInfoSync`, for any finite set of calls, any peers and items, and any situations:

- `SyncTypeCorrect`: `[]SyncTypeOK`. `VersionInv` is needed for it, since a version is bounded by the number of
  calls: `registry_version` is one more than the number of calls that have bumped it;
- `NothingLost`, the safety part of `AnnouncementArrives`: from the moment a call has bumped the version while a peer is
  connected, and unless connections break or a `finish` fails, whenever nothing more is under way to that peer it holds a `NodeInfo` of
  that version or a newer one, whatever `abort` hits and however calls overlap. The invariant from there on
  is `OnItsWay`: such a version has arrived, or is in the stream, or a call or its task will bring it (`Brings`). An
  abort loses nothing because the call that aborts has its own task still to spawn, which loads the version when it
  wakes; `TaskInv` says that it comes from a call that has spawned it, and that an abort that has yet to take effect hits
  only tasks past their sleep;
- `QuietMeansLatest`, the safety part of `LatestInfoArrives`: if calls come far apart and all peers were there before, a
  peer to which nothing is under way holds what the node now offers. `ApartInv` says that one call or task at most
  is at work, `PeerInv` that versions rise along the stream and that its newest `NodeInfo` lists what is offered unless a
  call has yet to tell it.

`NodeLifecycleProofs` proves of `Spec` in `NodeLifecycle`, for any set of services, with networking or without:

- `TypeCorrect` and `ReportsTrue`: `[]TypeOK`, `[]StateTruthful`, whatever fails. `OneDue` says that at most one service
  waits for its report, and which step of the call that is; `LastWordTrue` that what was last said of a service, or is
  about to be, is true;
- `StartsOnceStopsAll`: `[]StartsAndStopsOnce`, over any sequence of calls. `VisitedInOrder` says
  which services a call has visited and what it left them in; it is an invariant only if neither the
  network nor the stop of a service fails, and `IInv` has it under that hypothesis.
  `RunningMeansStarted` ties `running` to the call last made, so that a stop which finds `running`
  false has nothing to do.

It proves of `DiscoverySpec` in `Discovery`, for any nodes, any number of lives, any channel and any faults:

- `DiscoveryTypeCorrect`: `[]DiscoveryTypeOK`. `DiscoveryInv` adds that the peer a listener task has in hand is among the
  discovered ones, and that a connection is to a life its peer has had;
- `AnswersEachOnce`: `AnswersOnce`, the safety part of `SilenceFalls`: within one life a node answers each peer at most
  once, whatever is lost, late or sent again, so that answers to answers come to an end;
- `StaleForGood`: `StaleStays`: once a connection's peer has ended that life, no discovery of its next one replaces
  the connection until the node itself starts anew. `DiscoveryOdd` has one behaviour in which this happens
  (`ConnectionLives`); the theorem says that the code never gets out of it.

`SerializerLockProofs` proves of `Spec` in `SerializerLock`, for any number of callers, incoming requests and
registrations:

- `TypeCorrect`: `[]TypeOK`;
- `RegistrationAlone`: whoever registers a type holds the serializer alone (`WriterAlone`). `QueueInv` says that a task
  is in the queue once and just while it waits, `GuardsInv` how many guards go with each place in the code;
- `NoStall`: `[]HeadMovesOn`, the safety part of `TasksEnd`. If no situation has both nested readers and a writer,
  the head of the queue waits for nobody but tasks that hold a guard and run, so no cycle of waits is possible.
  `SerializerLockNested` shows that the hypothesis is needed.

`QuicTransportProofs` proves of `Spec` in `QuicTransport`, for any finite sets of nodes and calls, any scripts and any limits:

- `TypeCorrect`: `[]TypeOK`, with `TasksOK`: a task that stands at a step has in hand what the step uses;
- `StopJoinsReceivers`: `[]StopJoins`: when the only stop of a node has returned, the receivers of all connections that node
  had dialled have ended, but for those a `connect_peer` hands over after stop took the tasks (`KeptLate`). Receivers of
  incoming connections are handed over to nobody, and nothing holds of them (`StopJoinsAll`). `JoinInv` follows a receiver from the task that spawns it into the list its node
  joins (`SpawnInv`, `TrackInv`), and says what is left of both after each step of the node's only stop (`LastStop`);
  `Moves` says of every step, in one formula, what it may do to these;
- `SomebodyReads`: `[]StoredIsRead`. `RefInv` says that nobody has a `PeerState` in hand which is not yet made, `DialInv`
  at which ends a connection may be stored before and after its dial, `StoredInv` that a stored connection has its
  receiver or somebody about to spawn it.

`PathTrieProofs` has the lemmas about the trie, for any paths and any finite trie:

- that the searches are what their defining equations say (`Recursion`: a function defined by recursion on a bounded
  measure exists, since a least number up to which there is none leads to a contradiction; `ExactExists`,
  `WildExists`, `CollectedExists`);
- `ExactLists`: the search for a path without wildcards yields the lists of the nodes that cover it, each once.
  `Lists` is a bijection between what is found and what is kept, and `ListsBoth` joins two of them;
- `WildcardParts`, `WildcardUnder`: what the search for a pattern finds is kept at a node it comes upon, and all that
  is kept there is found;
- `JoinedParts`, `WithoutParts`: the lists that the folds make.

`SubscriptionsProofs` proves of `Spec` in `Subscriptions`, for any finite set of patterns, and any topics, ids and
publishers:

- `TypeCorrect` and `TrieRight`: `[]TypeOK`, `[]TrieFindsCovering`, the latter from `ExactLists`;
- `EventsReachSubscribers`: `[]SubscribersExact`. The invariant is `KeptInv`: if patterns are separate, each pattern's
  node holds one list, of just the ids subscribed to it that no `unsubscribe` has taken out, each once (`OwnLists`),
  and the maps of ids agree with the subscriptions (`IdsAgree`). Without separate patterns it does not hold
  (`SubscriptionsOverlap`);
- `MetadataFollow`: `[]EventsListed`, from `EventLists`;
- `KeepsPromise`: `Spec => ImplementsPubSub`, the refinement of `PubSub` under `Due` for what a publication has still to
  call. `CallsOnce` is what it needs: no id is twice in what a publication found. `PubSub` states no fairness, so this
  is all of it.

`RequestsProofs` proves of `Spec` in `Requests`, for any finite set of handlers with valid paths, any requests and
situations, and any orders of the children each of which has every literal once:

- `TypeCorrect`: `[]TypeOK`; also that the load balancer is never asked about an empty list, whose length it would
  divide by;
- `HandlersFound`, `HandlersMeant`: `[]FoundIfKept`, `[]ReachesHandler`. `LocalInv` says that a local
  handler is kept once at most, and at the node of its path; `RemoteInv` that each list of the remote trie
  has a handler of its node, and if no remote path has a wildcard, only handlers whose paths cover what the
  node is found for; `RightOf` what a request knows at each step: where its handler comes from (`FoundOf`,
  `ChosenOf`) and that what it counts as kept is registered still (`KeptOf`). `ExactHead` shows that what is
  kept for the very topic comes first, unless a path ends in `>`;
- `ActionsTold`: `[]ActionsListed`; `StarLists` says what the search for `service/*` finds of one service;
- `TurnsTaken`: `[]SpreadsEvenly`. `TurnsInv`: the picks among lists of one length are those of a counter, so that each
  place had the same number of turns and those whose turn was last one more (`Division`, `Rest`, `WrapRest` and
  their like are the arithmetic of remainders it takes).

It proves of `BuildSpec` in `PathBuilding`, for any sets of names and texts and paths of any length for which the
bitmap has room (`MaxSegments <= Slots`; without it `PartsAgree` fails, see above):

- `PartsStayTrue`: `[]PartsAgree`, over any sequence of constructors. The inductive invariant is `Agrees`, which says
  more of a path: its flags and bitmap are those of its segments, its text parses to them, and each cached part is
  theirs or empty;
- `MatchesAgree`: `[]MatchesMeaning`. That the search finds what covers a topic comes from `ExactLists`, in a trie that holds
  the one path; the fast paths of `matches` are compared with the same `Covers` segment by segment;
- `TemplatesUndone`: `[]TemplatesInvert`. As no name comes twice, the place of a name in the template is unique, and what
  `extract_params` reads there is what `from_template` puts there.

Three statements were too strong and failed to be proved for that reason: two patterns may be disjoint and yet
the search for one come upon the list of the other (now `Separate`); of a topic with wildcards `ReachesHandler`
says nothing true; and a remote handler of a path with wildcards is kept with others' (`RemoteMeant` has the counterexample).
The runs had passed since no instance had such patterns.

What is assumed is what the modules assume by name. Each assumption holds in the runs, where TLC evaluates it.

Every property of a passing run that is not about liveness has a theorem. Only model-checked is what needs fairness
(`ListenerReturns`, `ImplementsRpc` with its fairness, `AnnouncementArrives`, `LatestInfoArrives`, `TasksEnd`,
`CallsReturn`, `NodesMeet`, `SentArrives`, `NodesConnect`, `SilenceFalls`): the prover does neither liveness from
fairness nor `ENABLED`. Of `ImplementsRpc`, `AnnouncementArrives`, `LatestInfoArrives`, `TasksEnd` and `SilenceFalls` the
theorems above have the safety part, which says that there is nothing wrong with the places in which a behaviour may come to rest; the runs add
that it comes there. The induction theorems of the library take an operator as parameter, which
its backends cannot instantiate; where induction over a number is needed, the proofs take the
least counterexample instead, from `WFMin`. No module that is proved about reaches a `RECURSIVE` operator.

## 5. Not modelled, and the plan

Not modelled, and `PROJECT.json` says it of each component:

- `PeerRegistry`: nothing outside its file and its tests makes one, so there is no interaction to model;
- of discovery: several providers of one node, `Goodbye` (never sent), the clean-up of stale nodes (its
  body does nothing), `memory_discovery` and the mock (only tests use them);
- of the transport: the stream pool (never filled), calls nobody makes (`close_connection`, `return_stream`),
  incomplete or undecodable messages;
- the broadcast channel of 32 `NodeInfo`s between transport and node: a listener that lags by more than
  that loses the oldest; `NodeInfoSync` and `QuicTransport` hand a `NodeInfo` on at once;
- network ids: a node has one, all of its paths carry it;
- the contexts and the registry service beyond path completion: they pass on what they are given, or read;
- serialization, certificates, logging, configuration: conversions and I/O without state of their own.

Done, in the order of the plan: `RemoteServices`, `RequestResponse`, `NodeInfoSync`, `SerializerLock`,
`NodeLifecycle`, `PathTrie`, `Subscriptions`, `QuicTransport`, `Discovery`, `TopicPath` with `PathBuilding`,
`Requests`; and proofs about all of them.

What is left to model: the lag of that channel; `NodeInfoSync` composed with `RemoteServices` for two nodes;
`start` after `stop` with the providers that the first start left (`node.rs` 594). What is left to prove: liveness
stays with the runs; the safety parts of `CallsReturn`, `NodesMeet` and `SentArrives` of `QuicTransport` are not stated.

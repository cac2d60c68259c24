----------------------------- MODULE Discovery -----------------------------
(***************************************************************************)
(* Multicast discovery of some nodes over datagrams that get lost, and     *)
(* what the nodes make of it: handle_discovered_node, start_networking and *)
(* shutdown_network, crashes and restarts.                                 *)
(*                                                                         *)
(* One provider per node, as long as its process; a start after a stop in  *)
(* one process is NodeLifecycle's.  Of the transport there is what         *)
(* QuicTransport shows of it: a node sends to a peer on a connection it    *)
(* has dialled itself, and is_connected holds from then on, whatever       *)
(* becomes of the connection.                                              *)
(***************************************************************************)
EXTENDS Naturals, FiniteSets

CONSTANTS
  Node,
  MaxLife,      \* how often a node's process is started
  ChannelSize,  \* the capacity of the channel to the sender task
  FaultSet      \* the sets of faults an instance looks at

Faults == {"loses", "crashes", "stops"}

ASSUME DiscoveryAssumption ==
  /\ MaxLife \in Nat \ {0} /\ ChannelSize \in Nat \ {0}
  /\ FaultSet \subseteq SUBSET Faults

VARIABLES
  situation,   \* the faults of this behaviour
  process,     \* how far each node has come, and in which life
  connection,  \* the life of a peer that a node's pool has a connection to, or 0
  discovered_nodes,
  queue,       \* announcements in the channel to the sender task
  listener,    \* the listener task of each provider
  net          \* datagrams on their way

discoveryVars == <<situation, process, connection, discovered_nodes, queue, listener, net>>

Phase == {"down", "transport", "created", "listening", "running", "stopping", "stopped"}
Datagram == [from : Node, to : Node]

Waiting == [step |-> "receiving"]
Handling(p, new) == [step |-> "handling", peer |-> p, is_new_peer |-> new]
Answering(p) == [step |-> "answering", peer |-> p]

Listener ==
  {Waiting} \cup {Handling(p, new) : p \in Node, new \in BOOLEAN}
            \cup {Answering(p) : p \in Node}

DiscoveryTypeOK ==
  /\ situation \in FaultSet
  /\ process \in [Node -> [phase : Phase, life : 0..MaxLife]]
  /\ connection \in [Node -> [Node -> 0..MaxLife]]
  /\ discovered_nodes \in [Node -> SUBSET Node]
  /\ \A n \in Node : n \notin discovered_nodes[n] /\ connection[n][n] = 0
  /\ queue \in [Node -> 0..ChannelSize]
  /\ listener \in [Node -> Listener]
  /\ net \subseteq Datagram

Is(n, phases) == process[n].phase \in phases

\* The transport runs and its endpoint is open.
TransportRuns(n) == Is(n, {"transport", "created", "listening", "running"})

\* There is a provider with its socket, its listener task and its sender task.
Hears(n) == Is(n, {"created", "listening", "running", "stopping", "stopped"})

\* The node has set its discovery listener with the provider.
HasListener(n) == Hears(n) /\ ~Is(n, {"created"})

\* The announce task is there.
Announces(n) == Is(n, {"running", "stopping"})

DiscoveryInit ==
  /\ situation \in FaultSet
  /\ process = [n \in Node |-> [phase |-> "down", life |-> 0]]
  /\ connection = [n \in Node |-> [m \in Node |-> 0]]
  /\ discovered_nodes = [n \in Node |-> {}]
  /\ queue = [n \in Node |-> 0]
  /\ listener = [n \in Node |-> Waiting]
  /\ net = {}

-----------------------------------------------------------------------------
\* start_networking and shutdown_network.

GoTo(n, phase) == process' = [process EXCEPT ![n].phase = phase]

StartProcess(n) ==
  /\ Is(n, {"down"})
  /\ process[n].life < MaxLife
  /\ process' = [process EXCEPT ![n] = [phase |-> "transport", life |-> @.life + 1]]
  /\ UNCHANGED <<situation, connection, discovered_nodes, queue, listener, net>>

\* The tasks that MulticastDiscovery::new spawns listen and answer at once ...
CreateProvider(n) ==
  /\ Is(n, {"transport"})
  /\ GoTo(n, "created")
  /\ UNCHANGED <<situation, connection, discovered_nodes, queue, listener, net>>

\* ... and only now somebody is told.
SetDiscoveryListener(n) ==
  /\ Is(n, {"created"})
  /\ GoTo(n, "listening")
  /\ UNCHANGED <<situation, connection, discovered_nodes, queue, listener, net>>

HasRoom_OffByOne(n) == queue[n] <= ChannelSize

HasRoom(n) == queue[n] < ChannelSize

StartAnnouncing(n) ==
  /\ Is(n, {"listening"})
  /\ HasRoom(n)
  /\ queue' = [queue EXCEPT ![n] = @ + 1]
  /\ GoTo(n, "running")
  /\ UNCHANGED <<situation, connection, discovered_nodes, listener, net>>

\* The connections of the pool stay what they are, dead ones.
StopTransport(n) ==
  /\ "stops" \in situation
  /\ Is(n, {"running"})
  /\ GoTo(n, "stopping")
  /\ UNCHANGED <<situation, connection, discovered_nodes, queue, listener, net>>

\* shutdown of the provider ends its announce task, and no other one.
ShutdownDiscovery(n) ==
  /\ Is(n, {"stopping"})
  /\ GoTo(n, "stopped")
  /\ UNCHANGED <<situation, connection, discovered_nodes, queue, listener, net>>

\* All that the process had is gone, and what was on its way to its socket.
Crash(n) ==
  /\ "crashes" \in situation
  /\ ~Is(n, {"down"})
  /\ GoTo(n, "down")
  /\ connection' = [connection EXCEPT ![n] = [m \in Node |-> 0]]
  /\ discovered_nodes' = [discovered_nodes EXCEPT ![n] = {}]
  /\ queue' = [queue EXCEPT ![n] = 0]
  /\ listener' = [listener EXCEPT ![n] = Waiting]
  /\ net' = {d \in net : d.to # n}
  /\ UNCHANGED situation

-----------------------------------------------------------------------------
\* The announce task, the sender task and the network.

Tick(n) ==
  /\ Announces(n)
  /\ HasRoom(n)
  /\ queue' = [queue EXCEPT ![n] = @ + 1]
  /\ UNCHANGED <<situation, process, connection, discovered_nodes, listener, net>>

\* A datagram like one that is on its way already is lost in it.
Sent(n, receivers) ==
  net' = net \cup [from : {n}, to : {m \in receivers : Hears(m)}]

\* The group has the sender's own socket in it.
Multicast(n) ==
  /\ queue[n] > 0
  /\ queue' = [queue EXCEPT ![n] = @ - 1]
  /\ Sent(n, Node)
  /\ UNCHANGED <<situation, process, connection, discovered_nodes, listener>>

Lose(d) ==
  /\ "loses" \in situation
  /\ d \in net
  /\ net' = net \ {d}
  /\ UNCHANGED <<situation, process, connection, discovered_nodes, queue, listener>>

-----------------------------------------------------------------------------
\* The listener task: process_message.

Answers_Always(new) == TRUE

Answers(new) == new

Notifies_NewOnly(n, new) == HasListener(n) /\ new

Notifies(n, new) == HasListener(n)

\* After the discovery listeners have returned.
Respond(n, p, new) ==
  listener' = [listener EXCEPT ![n] = IF Answers(new) THEN Answering(p) ELSE Waiting]

Receive(n, p) ==
  /\ Hears(n)
  /\ listener[n] = Waiting
  /\ [from |-> p, to |-> n] \in net
  /\ net' = net \ {[from |-> p, to |-> n]}
  /\ IF p = n
     THEN UNCHANGED <<discovered_nodes, listener>>
     ELSE LET new == p \notin discovered_nodes[n]
          IN  /\ discovered_nodes' = [discovered_nodes EXCEPT ![n] = @ \cup {p}]
              /\ IF Notifies(n, new)
                 THEN listener' = [listener EXCEPT ![n] = Handling(p, new)]
                 ELSE Respond(n, p, new)
  /\ UNCHANGED <<situation, process, connection, queue>>

\* To the one who announced itself, after a pause; not to the group.
Answer(n) ==
  /\ listener[n].step = "answering"
  /\ Sent(n, {listener[n].peer})
  /\ listener' = [listener EXCEPT ![n] = Waiting]
  /\ UNCHANGED <<situation, process, connection, discovered_nodes, queue>>

-----------------------------------------------------------------------------
\* handle_discovered_node, which the listener task waits for.

IsConnected(n, p) == connection[n][p] # 0

CanDial(n, p) == TransportRuns(n) /\ TransportRuns(p)

Handled(n) == Respond(n, listener[n].peer, listener[n].is_new_peer)

IgnoreDiscovery(n) ==
  /\ listener[n].step = "handling"
  /\ IsConnected(n, listener[n].peer)
  /\ Handled(n)
  /\ UNCHANGED <<situation, process, connection, discovered_nodes, queue, net>>

ConnectPeer(n) ==
  /\ listener[n].step = "handling"
  /\ LET p == listener[n].peer
     IN  /\ ~IsConnected(n, p) /\ CanDial(n, p)
         /\ connection' = [connection EXCEPT ![n][p] = process[p].life]
  /\ Handled(n)
  /\ UNCHANGED <<situation, process, discovered_nodes, queue, net>>

\* Logged and forgotten, until the peer is heard of again.
FailToConnect(n) ==
  /\ listener[n].step = "handling"
  /\ ~IsConnected(n, listener[n].peer)
  /\ CanDial(n, listener[n].peer) => "loses" \in situation
  /\ Handled(n)
  /\ UNCHANGED <<situation, process, connection, discovered_nodes, queue, net>>

-----------------------------------------------------------------------------
StartStep(n) == CreateProvider(n) \/ SetDiscoveryListener(n) \/ StartAnnouncing(n)

ListenerStep(n) ==
  Answer(n) \/ IgnoreDiscovery(n) \/ ConnectPeer(n) \/ FailToConnect(n)

DiscoveryNext ==
  \/ \E n \in Node :
       \/ StartProcess(n) \/ StartStep(n) \/ Crash(n)
       \/ StopTransport(n) \/ ShutdownDiscovery(n)
       \/ Tick(n) \/ Multicast(n) \/ ListenerStep(n)
       \/ \E p \in Node : Receive(n, p)
  \/ \E d \in net : Lose(d)

\* Calls and tasks run on, time passes, and of datagrams that are sent and dials
\* that are tried again and again not all are lost.
DiscoverySpec ==
  /\ DiscoveryInit /\ [][DiscoveryNext]_discoveryVars
  /\ \A n \in Node :
       /\ WF_discoveryVars(StartStep(n)) /\ WF_discoveryVars(ShutdownDiscovery(n))
       /\ WF_discoveryVars(Tick(n)) /\ WF_discoveryVars(Multicast(n))
       /\ WF_discoveryVars(ListenerStep(n))
       /\ SF_discoveryVars(ConnectPeer(n))
       /\ \A p \in Node : SF_discoveryVars(Receive(n, p))

-----------------------------------------------------------------------------
(***************************************************************************)
(* Properties.  The names ending in _<word> above are wrong variants of    *)
(* the operator that follows them; nothing here uses them.                 *)
(***************************************************************************)

Running(n) == Is(n, {"running"})

\* The connection leads to the process that the peer is now.
Live(n, p) ==
  IsConnected(n, p) /\ connection[n][p] = process[p].life /\ CanDial(n, p)

\* Whatever is lost, however the starts overlap, and though dialling may fail and
\* the discovery listener come late: of two nodes that stay up each comes to have
\* a connection to the other, also after a crash of its own.
NodesConnect ==
  \A n \in Node : \A p \in Node \ {n} :
    Running(n) /\ Running(p) ~> IsConnected(n, p) \/ ~Running(n) \/ ~Running(p)

\* "Only respond if this is a new peer we haven't seen before": the responses to
\* responses come to an end.  Once no node announces itself the net falls silent.
SilenceFalls ==
  <>[](\A n \in Node : ~Announces(n)) => <>[](net = {})

\* is_connected, "Determine if there's an active connection to the specified peer",
\* for which a discovery is ignored: two nodes that stay up come to be connected.
ConnectionLives ==
  \A n \in Node : \A p \in Node \ {n} :
    Running(n) /\ Running(p) ~> Live(n, p) \/ ~Running(n) \/ ~Running(p)

\* "Stop announcing this node's presence": a node that is shut down sends nothing.
StoppedSilent ==
  [][\A n \in Node : Is(n, {"stopped"}) =>
       \A d \in net' \ net : d.from # n]_discoveryVars

=============================================================================

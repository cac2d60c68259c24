--------------------------- MODULE QuicTransport ---------------------------
(***************************************************************************)
(* The QUIC transport of some nodes: connect_peer with its handshake, the  *)
(* accept loop, the receivers of the connections, send_message,            *)
(* update_peers, disconnect, start and stop, over quinn connections as the *)
(* code in src/ relies on them.                                            *)
(*                                                                         *)
(* A task keeps a Mutex across steps only where it may wait with it; two   *)
(* looks at one peer of which both must succeed are one.  Reading a stream *)
(* and processing its message, up to the next wait, is one step, and the   *)
(* stream is the receiver's until the processing is over.  Stream pools    *)
(* are left out: no stream is ever returned to one.  A NodeInfo is the     *)
(* node it is of (NodeInfoSync has its versions).                          *)
(***************************************************************************)
EXTENDS Naturals, Sequences, FiniteSets

CONSTANTS
  Node,
  Call,         \* calls of the transports' operations
  None,
  Situation,    \* the situations an instance looks at
  Workers,      \* threads of the runtime of each node
  StreamLimit,  \* max_idle_streams_per_peer, used as max_concurrent_uni_streams
  StatusLimit   \* the capacity of the channel PeerState::status_tx

\* What a situation fixes: the calls, each at most once and after another one has
\* returned, whether dialling may fail, and which connections may break.
Scripts ==
  [Call -> [kind : {"connect", "send", "update", "disconnect", "start", "stop", "none"},
            node : Node, peer : Node, after : Call \cup {None}, addresses : Nat]]

ASSUME ConstantsAssumption ==
  /\ IsFiniteSet(Node) /\ IsFiniteSet(Call)
  /\ None \notin Node \cup Call
  /\ {Workers, StreamLimit, StatusLimit} \subseteq Nat \ {0}
  /\ \A s \in Situation : s.script \in Scripts /\ s.fails \in BOOLEAN /\ s.breaks \subseteq Call
  \* A node skips its own announcements, so it never dials itself.
  /\ \A s \in Situation, c \in Call :
       s.script[c].kind = "connect" => s.script[c].node # s.script[c].peer

\* A connection is named after the connect_peer call that dials it, and so are
\* what its two nodes make of it: a PeerState and a receiver at each end.
End == Node \X Call
AcceptTask == Node \X {None}
Task == Call \cup End \cup AcceptTask

ASSUME NamesAssumption ==
  /\ None \notin End
  /\ Call \cap (End \cup AcceptTask) = {}

\* Keys of ConnectionPool.peers: the id of a node, or "temp-<address of a node>".
Key == [peer : Node, temp : BOOLEAN]
Id(n) == [peer |-> n, temp |-> FALSE]
Temp(n) == [peer |-> n, temp |-> TRUE]

InfoType == {"HANDSHAKE", "HANDSHAKE_RESPONSE", "UPDATE"}
Message == [type : InfoType \cup {"OTHER"}, source : Node, to : Key, call : Call]

Steps == {
  "idle", "looking", "dialing", "pooling", "stuck", "pushing",  \* calls
  "collecting", "updating", "removing", "clearing", "storing", "starting",
  "halting", "closing", "draining", "joining", "ok", "err",
  "establishing", "inserting", "setting",                 \* get_or_create_peer
  "sending", "streaming", "opening", "finishing",         \* send_message
  "unborn", "born", "accepting", "locking", "reading", "ended" }

VARIABLES
  situation,
  transport,    \* QuicTransportImpl and QuicTransport of each node
  peer_state,   \* every PeerState: its connection, the holder of that Mutex, ...
  connection,   \* how far each connection has come
  unread,       \* the streams of each end that nobody has read yet, in order
  task          \* where each task stands, and what it holds

vars == <<situation, transport, peer_state, connection, unread, task>>

Impl ==
  [running : BOOLEAN,
   endpoint : {"none", "open", "closed"}, endpoint_lock : Call \cup {None},
   background_tasks : SUBSET Task, tasks_lock : Call \cup {None},
   peers : [Key -> End \cup {None}],  \* the ConnectionPool ...
   iterating : SUBSET Call,           \* ... and who iterates over it
   announced : SUBSET Node,           \* whose NodeInfo went to subscribers
   skipped : SUBSET Node,             \* history: whose did not, see StopFinish
   handled : SUBSET Call]             \* whose message went to the handler

PeerState ==
  [connection : Call \cup {None}, holder : Task \cup {None},
   node_info : Node \cup {None}, status : 0..StatusLimit]

\* Of a task: its PeerState and connection in hand; the message it sends, and the
\* PeerState and connection it sends through; and what is left to do.
Local ==
  [step : Steps, state : End \cup {None}, conn : Call \cup {None},
   msg : Message \cup {None}, peer : End \cup {None}, via : Call \cup {None},
   rest : SUBSET Key, todo : SUBSET Key, joins : SUBSET Task, tried : Nat]

TypeOK ==
  /\ situation \in Situation
  /\ transport \in [Node -> Impl]
  /\ peer_state \in [End -> PeerState]
  /\ connection \in [Call -> {"none", "queued", "accepted", "broken"}]
  /\ unread \in [End -> Seq(Message)] /\ \A e \in End : Len(unread[e]) <= StreamLimit
  /\ task \in [Task -> Local]

script == situation.script
NodeOf(t) == IF t \in Call THEN script[t].node ELSE t[1]
Peer(c) == script[c].peer
Ends(k) == {<<script[k].node, k>>, <<Peer(k), k>>}
Returned(c) == task[c].step \in {"ok", "err"}

Fresh(step) ==
  [step |-> step, state |-> None, conn |-> None, msg |-> None, peer |-> None,
   via |-> None, rest |-> {}, todo |-> {}, joins |-> {}, tried |-> 0]

\* Nodes are up, or will be started by one of the calls.
StartsLater(n) == \E c \in Call : script[c].kind = "start" /\ script[c].node = n

\* As new makes a transport, with the endpoint and the accept task of one that is up.
NewTransport(n, up) ==
  [running |-> up, endpoint |-> IF up THEN "open" ELSE "none", endpoint_lock |-> None,
   background_tasks |-> IF up THEN {<<n, None>>} ELSE {}, tasks_lock |-> None,
   peers |-> [k \in Key |-> None], iterating |-> {}, announced |-> {},
   skipped |-> {}, handled |-> {}]

NewPeerState == [connection |-> None, holder |-> None, node_info |-> None, status |-> 0]

Init ==
  /\ situation \in Situation
  /\ transport = [n \in Node |-> NewTransport(n, ~StartsLater(n))]
  /\ peer_state = [s \in End |-> NewPeerState]
  /\ connection = [k \in Call |-> "none"]
  /\ unread = [e \in End |-> <<>>]
  /\ task = [t \in Task |-> Fresh(IF t \in Call THEN "idle"
                                  ELSE IF t \in End \/ StartsLater(t[1]) THEN "unborn"
                                  ELSE "accepting")]

-----------------------------------------------------------------------------
\* quinn.  A connection lives as long as both nodes have a handle of it: in the
\* queue of the endpoint, in the hands of a task, or in a PeerState that the pool
\* or a task still has.

Reachable(n, s) ==
  \/ \E k \in Key : transport[n].peers[k] = s
  \/ \E t \in Task : NodeOf(t) = n /\ s \in {task[t].state, task[t].peer}

HasHandle(n, k) ==
  \/ connection[k] = "queued" /\ n = Peer(k)
  \/ \E t \in Task : NodeOf(t) = n /\ k \in {task[t].conn, task[t].via}
  \/ \E s \in End : peer_state[s].connection = k /\ s[1] = n /\ Reachable(n, s)

Live(k) ==
  /\ connection[k] \in {"queued", "accepted"}
  /\ \A e \in Ends(k) : transport[e[1]].endpoint = "open" /\ HasHandle(e[1], k)

Break(k) ==
  /\ k \in situation.breaks
  /\ connection[k] = "accepted" /\ Live(k)
  /\ connection' = [connection EXCEPT ![k] = "broken"]
  /\ UNCHANGED <<situation, transport, peer_state, unread, task>>

-----------------------------------------------------------------------------
\* The runtime.  A DashMap makes whoever writes to it wait for the iterations of
\* it on the thread, which then runs no other task.
OnThread == {"inserting", "removing"}

CanRun(t) ==
  \/ task[t].step \in OnThread
  \/ Cardinality({u \in Task : NodeOf(u) = NodeOf(t) /\ task[u].step \in OnThread}) < Workers

At(t, step) == task[t].step = step /\ CanRun(t)

Begins(c, kind) ==
  /\ At(c, "idle")
  /\ script[c].kind = kind
  /\ script[c].after # None => Returned(script[c].after)

Go(t, step) == task' = [task EXCEPT ![t].step = step]
Return(c, result) == task' = [task EXCEPT ![c] = Fresh(result)]
GoOrFail(c, condition, step) == IF condition THEN Go(c, step) ELSE Return(c, "err")

OnlyTask == UNCHANGED <<situation, transport, peer_state, connection, unread>>
OnlyTransport == UNCHANGED <<situation, peer_state, connection, unread>>
OnlyPeerState == UNCHANGED <<situation, transport, connection, unread>>

\* The Mutex around the connection of a PeerState.
Free(s) == peer_state[s].holder = None
Connected(s) == peer_state[s].connection # None

-----------------------------------------------------------------------------
\* connect_peer.

ConnectPeer(c) ==
  /\ Begins(c, "connect")
  /\ LET s == transport[NodeOf(c)].peers[Id(Peer(c))]
     IN  IF transport[NodeOf(c)].running /\ script[c].addresses > 0
         THEN task' = [task EXCEPT ![c].step = IF s = None THEN "dialing" ELSE "looking",
                                   ![c].state = s]
         ELSE Return(c, "err")
  /\ OnlyTask

\* The entry of the pool counts as connected as long as it has a connection, and
\* then a task that does nothing is returned.
LookAtPeer(c) ==
  /\ At(c, "looking")
  /\ Free(task[c].state)
  /\ task' = [task EXCEPT ![c].state = None,
                ![c].step = IF Connected(task[c].state) THEN "pushing" ELSE "dialing"]
  /\ OnlyTask

Dials(c) == At(c, "dialing") /\ transport[NodeOf(c)].endpoint_lock = None
CanDial(c) == \A n \in {NodeOf(c), Peer(c)} : transport[n].endpoint = "open"

\* The endpoint of the peer answers by itself, its accept loop comes later.
Dial(c) ==
  /\ Dials(c) /\ CanDial(c)
  /\ connection' = [connection EXCEPT ![c] = "queued"]
  /\ task' = [task EXCEPT ![c].step = "pooling", ![c].conn = c]
  /\ UNCHANGED <<situation, transport, peer_state, unread>>

\* The next address, if there is one.
FailToDial(c) ==
  /\ Dials(c)
  /\ situation.fails \/ ~CanDial(c)
  /\ IF task[c].tried + 1 < script[c].addresses
     THEN task' = [task EXCEPT ![c].tried = @ + 1]
     ELSE Return(c, "err")
  /\ OnlyTask

\* Once in the pool (see below): set_connection puts the status into a channel that
\* nobody reads, and the receiver is spawned.  When the channel is full, the call
\* waits for ever, with the Mutex.
SetConnection(c) ==
  /\ c \in Call /\ At(c, "setting")
  /\ LET s == task[c].state
     IN  /\ Free(s)
         /\ IF peer_state[s].status < StatusLimit
            THEN /\ peer_state' = [peer_state EXCEPT ![s].connection = c, ![s].status = @ + 1]
                 /\ task' = [task EXCEPT
                       ![c] = [Fresh("pushing") EXCEPT !.state = s],
                       ![<<NodeOf(c), c>>] = [Fresh("locking") EXCEPT !.state = s]]
            ELSE /\ peer_state' = [peer_state EXCEPT ![s].connection = c, ![s].holder = c]
                 /\ Go(c, "stuck")
  /\ OnlyPeerState

\* Back in the public connect_peer: the task is kept for stop to wait for, and
\* handshake_peer sends the NodeInfo to the peer.
PushTask(c) ==
  /\ At(c, "pushing")
  /\ transport[NodeOf(c)].tasks_lock = None
  /\ transport' = [transport EXCEPT ![NodeOf(c)].background_tasks =
                     @ \cup {e \in {<<NodeOf(c), c>>} : task[e].step # "unborn"}]
  /\ task' = [task EXCEPT ![c] = [Fresh("sending") EXCEPT
                !.msg = [type |-> "HANDSHAKE", source |-> NodeOf(c),
                         to |-> Id(Peer(c)), call |-> c]]]
  /\ OnlyTransport

-----------------------------------------------------------------------------
\* ConnectionPool::get_or_create_peer, by connect_peer and handle_new_connection.

KeyOf(t) == IF t \in Call THEN Id(Peer(t)) ELSE Temp(script[t[2]].node)
NewState(t) == IF t \in Call THEN <<NodeOf(t), t>> ELSE t

GetPeer(t) ==
  /\ At(t, "pooling") \/ At(t, "establishing")
  /\ LET s == transport[NodeOf(t)].peers[KeyOf(t)]
     IN  task' = [task EXCEPT ![t].step = IF s = None THEN "inserting" ELSE "setting",
                              ![t].state = IF s = None THEN NewState(t) ELSE s]
  /\ OnlyTask

\* Not one step with the look-up: of two tasks that found nothing the last one wins.
InsertPeer(t) ==
  /\ At(t, "inserting")
  /\ transport[NodeOf(t)].iterating = {}
  /\ transport' = [transport EXCEPT ![NodeOf(t)].peers[KeyOf(t)] = task[t].state]
  /\ Go(t, "setting")
  /\ OnlyTransport

-----------------------------------------------------------------------------
\* send_message, by calls and by the receiver that answers a handshake.

Receives(t) ==
  task' = [task EXCEPT ![t] = [Fresh("locking") EXCEPT !.state = task[t].state]]

Fails(t) == IF t \in Call THEN Return(t, "err") ELSE Receives(t)

Send(c) ==
  /\ Begins(c, "send")
  /\ task' = [task EXCEPT ![c].step = "sending",
                ![c].msg = [type |-> "OTHER", source |-> NodeOf(c),
                            to |-> Id(Peer(c)), call |-> c]]
  /\ OnlyTask

SendMessage(t) ==
  /\ At(t, "sending")
  /\ LET s == transport[NodeOf(t)].peers[task[t].msg.to]
     IN  IF transport[NodeOf(t)].running /\ s # None
         THEN task' = [task EXCEPT ![t].step = "streaming", ![t].peer = s]
         ELSE Fails(t)
  /\ OnlyTask

\* is_connected and get_send_stream: the Mutex is kept until the peer allows one
\* more stream.
MayOpen(t) ==
  \/ At(t, "streaming") /\ Free(task[t].peer)
  \/ At(t, "opening")

Through(t) == peer_state[task[t].peer].connection
Far(t) == CHOOSE e \in Ends(Through(t)) : e[1] # NodeOf(t)
Usable(t) == Connected(task[t].peer) /\ Live(Through(t))

\* A receiver has the stream of its message in hand as long as it answers it: only
\* then does the stream make room for another one.
Answering == {"sending", "streaming", "opening", "finishing"}
Streams(e) == <<e[1], task[e].conn>>
Held(f) == {e \in End : task[e].step \in Answering /\ Streams(e) = f}

HasRoom_OffByOne(t) == Len(unread[Far(t)]) + Cardinality(Held(Far(t))) <= StreamLimit

HasRoom(t) == Len(unread[Far(t)]) + Cardinality(Held(Far(t))) < StreamLimit

OpenStream(t) ==
  /\ MayOpen(t) /\ Usable(t) /\ HasRoom(t)
  /\ unread' = [unread EXCEPT ![Far(t)] = Append(@, task[t].msg)]
  /\ task' = [task EXCEPT ![t].step = "finishing", ![t].via = Through(t)]
  /\ peer_state' = [peer_state EXCEPT ![task[t].peer].holder = None]
  /\ UNCHANGED <<situation, transport, connection>>

WaitForStream(t) ==
  /\ At(t, "streaming") /\ Free(task[t].peer)
  /\ Usable(t) /\ ~HasRoom(t)
  /\ peer_state' = [peer_state EXCEPT ![task[t].peer].holder = t]
  /\ Go(t, "opening")
  /\ OnlyPeerState

FailToOpen(t) ==
  /\ MayOpen(t) /\ ~Usable(t)
  /\ peer_state' = [peer_state EXCEPT ![task[t].peer].holder = None]
  /\ Fails(t)
  /\ OnlyPeerState

\* finish() waits for quinn of the peer to acknowledge, not for its receiver.
FinishStream(c) ==
  /\ c \in Call /\ At(c, "finishing")
  /\ IF script[c].kind = "update"
     THEN task' = [task EXCEPT ![c] = [Fresh("updating") EXCEPT !.todo = task[c].todo]]
     ELSE Return(c, "ok")
  /\ OnlyTask

\* A receiver announces the NodeInfo only now that its response is sent.
FinishResponse(e) ==
  /\ e \in End /\ At(e, "finishing")
  /\ transport' = [transport EXCEPT ![e[1]].announced = @ \cup {task[e].msg.to.peer}]
  /\ Receives(e)
  /\ OnlyTransport

FailToFinish(t) ==
  /\ At(t, "finishing")
  /\ ~Live(task[t].via)
  /\ Fails(t)
  /\ OnlyTask

\* The receiver at the other end has read the message (never the end of the stream)
\* and let go of it.
Dropped(t) ==
  LET f == CHOOSE e \in Ends(task[t].via) : e[1] # NodeOf(t)
  IN  /\ \A i \in DOMAIN unread[f] : unread[f][i] # task[t].msg
      /\ task[t].msg.type = "HANDSHAKE" =>
           \A e \in Held(f) : task[e].msg.call # task[t].msg.call

\* A stream dropped before its end is stopped by quinn of the receiver, and when
\* that overtakes the acknowledgement, finish() fails on a connection that lives:
\* of a message that has come.  A receiver then skips the announcement.
StopFinish(t) ==
  /\ At(t, "finishing")
  /\ Live(task[t].via) /\ Dropped(t)
  /\ transport' = [transport EXCEPT ![NodeOf(t)].skipped =
                     IF t \in End THEN @ \cup {task[t].msg.to.peer} ELSE @]
  /\ Fails(t)
  /\ OnlyTransport

SendStep(t) ==
  /\ task[t].step \in {"sending", "streaming", "opening", "finishing"}
  /\ \/ SendMessage(t) \/ OpenStream(t) \/ WaitForStream(t) \/ FailToOpen(t)
     \/ FinishStream(t) \/ FinishResponse(t)
     \/ FailToFinish(t) \/ StopFinish(t)

-----------------------------------------------------------------------------
\* update_peers.  get_connected_peers waits for the Mutex of each PeerState
\* inside its iteration of the pool; it passes those that are free at once.

Collect(c) ==
  LET n == NodeOf(c)
      start == Begins(c, "update")
      keys == IF start THEN {k \in Key : transport[n].peers[k] # None} ELSE task[c].rest
      now == {k \in keys : Free(transport[n].peers[k])}
  IN  /\ \/ start
         \/ At(c, "collecting") /\ now # {}
      /\ task' = [task EXCEPT ![c].step = IF now = keys THEN "updating" ELSE "collecting",
                    ![c].rest = keys \ now,
                    ![c].todo = @ \cup {k \in now : Connected(transport[n].peers[k])}]
      /\ transport' = [transport EXCEPT ![n].iterating =
                         IF now = keys THEN @ \ {c} ELSE @ \cup {c}]
      /\ OnlyTransport

UpdateNext(c) ==
  /\ At(c, "updating")
  /\ \E k \in task[c].todo :
       task' = [task EXCEPT ![c].step = "sending", ![c].todo = @ \ {k},
                  ![c].msg = [type |-> "UPDATE", source |-> NodeOf(c), to |-> k, call |-> c]]
  /\ OnlyTask

AllUpdated(c) == At(c, "updating") /\ task[c].todo = {} /\ Return(c, "ok") /\ OnlyTask

-----------------------------------------------------------------------------
\* disconnect: the connection leaves the pool, but a receiver keeps its handle.

Disconnect(c) ==
  /\ Begins(c, "disconnect")
  /\ GoOrFail(c, transport[NodeOf(c)].running, "removing")
  /\ OnlyTask

RemovePeer(c) ==
  /\ At(c, "removing")
  /\ transport[NodeOf(c)].iterating = {}
  /\ LET s == transport[NodeOf(c)].peers[Id(Peer(c))]
     IN  IF s = None THEN Return(c, "ok")
         ELSE task' = [task EXCEPT ![c].step = "clearing", ![c].state = s]
  /\ transport' = [transport EXCEPT ![NodeOf(c)].peers[Id(Peer(c))] = None]
  /\ OnlyTransport

ClearConnection(c) ==
  /\ At(c, "clearing")
  /\ Free(task[c].state)
  /\ peer_state' = [peer_state EXCEPT ![task[c].state].connection = None]
  /\ Return(c, "ok")
  /\ OnlyPeerState

-----------------------------------------------------------------------------
\* start: the port is bound, and free only once; running comes last.

AlreadyRunning(c) ==
  /\ Begins(c, "start")
  /\ transport[NodeOf(c)].running
  /\ Return(c, "ok")
  /\ OnlyTask

Start(c) ==
  /\ Begins(c, "start")
  /\ ~transport[NodeOf(c)].running
  /\ GoOrFail(c, transport[NodeOf(c)].endpoint = "none", "storing")
  /\ transport' = [transport EXCEPT ![NodeOf(c)].endpoint = IF @ = "none" THEN "open" ELSE @]
  /\ OnlyTransport

StoreEndpoint(c) ==
  /\ At(c, "storing")
  /\ transport[NodeOf(c)].endpoint_lock = None
  /\ transport' = [transport EXCEPT ![NodeOf(c)].endpoint_lock = c]
  /\ task' = [task EXCEPT ![c].step = "starting", ![<<NodeOf(c), None>>].step = "born"]
  /\ OnlyTransport

Started(c) ==
  /\ At(c, "starting")
  /\ transport[NodeOf(c)].tasks_lock = None
  /\ transport' = [transport EXCEPT
       ![NodeOf(c)].background_tasks = @ \cup {<<NodeOf(c), None>>},
       ![NodeOf(c)].running = TRUE, ![NodeOf(c)].endpoint_lock = None]
  /\ Return(c, "ok")
  /\ OnlyTransport

-----------------------------------------------------------------------------
\* stop: both locks are kept until every tracked task has ended.

Stop(c) ==
  /\ Begins(c, "stop")
  /\ IF transport[NodeOf(c)].running THEN Go(c, "halting") ELSE Return(c, "ok")
  /\ OnlyTask

Halt(c) ==
  /\ At(c, "halting")
  /\ transport' = [transport EXCEPT ![NodeOf(c)].running = FALSE]
  /\ Go(c, "closing")
  /\ OnlyTransport

Close_Forgotten(impl) == impl

Close(impl) == [impl EXCEPT !.endpoint = "closed"]

CloseEndpoint(c) ==
  /\ At(c, "closing")
  /\ transport[NodeOf(c)].endpoint_lock = None
  /\ transport' = [transport EXCEPT ![NodeOf(c)] = [Close(@) EXCEPT !.endpoint_lock = c]]
  /\ Go(c, "draining")
  /\ OnlyTransport

DrainTasks(c) ==
  /\ At(c, "draining")
  /\ transport[NodeOf(c)].tasks_lock = None
  /\ transport' = [transport EXCEPT ![NodeOf(c)].tasks_lock = c,
                                    ![NodeOf(c)].background_tasks = {}]
  /\ task' = [task EXCEPT ![c].step = "joining",
                          ![c].joins = transport[NodeOf(c)].background_tasks]
  /\ OnlyTransport

Joined_Detached(c) == TRUE

Joined(c) == \A t \in task[c].joins : task[t].step = "ended"

JoinTasks(c) ==
  /\ At(c, "joining")
  /\ Joined(c)
  /\ transport' = [transport EXCEPT ![NodeOf(c)].endpoint_lock = None,
                                    ![NodeOf(c)].tasks_lock = None]
  /\ Return(c, "ok")
  /\ OnlyTransport

-----------------------------------------------------------------------------
\* accept_connections and handle_new_connection.

\* The first look at the flag, which start sets after it has spawned the task ...
CheckRunning(x) ==
  /\ At(x, "born")
  /\ Go(x, IF transport[x[1]].running THEN "accepting" ELSE "ended")
  /\ OnlyTask

\* ... and the next ones.  The task for the connection is nobody's to wait for.
Accept(x, k) ==
  /\ At(x, "accepting")
  /\ transport[x[1]].endpoint = "open"
  /\ connection[k] = "queued" /\ Peer(k) = x[1]
  /\ connection' = [connection EXCEPT ![k] = "accepted"]
  /\ task' = [task EXCEPT ![x].step = IF transport[x[1]].running THEN "accepting" ELSE "ended",
                ![<<x[1], k>>] = [Fresh("establishing") EXCEPT !.conn = k]]
  /\ UNCHANGED <<situation, transport, peer_state, unread>>

EndAccept(x) ==
  /\ At(x, "accepting")
  /\ transport[x[1]].endpoint = "closed"
  /\ Go(x, "ended")
  /\ OnlyTask

FailToEstablish(e) ==
  /\ At(e, "establishing")
  /\ ~Live(task[e].conn)
  /\ task' = [task EXCEPT ![e] = Fresh("ended")]
  /\ OnlyTask

\* The entry of an address may be there already, with another connection.
SetIncoming(e) ==
  /\ e \in End /\ At(e, "setting")
  /\ Free(task[e].state)
  /\ peer_state' = [peer_state EXCEPT ![task[e].state].connection = e[2]]
  /\ Receives(e)
  /\ OnlyPeerState

-----------------------------------------------------------------------------
\* The receivers: spawn_message_receiver, receive_message and
\* process_incoming_message.

TakeConnection(e) ==
  /\ At(e, "locking")
  /\ Free(task[e].state)
  /\ task' = IF Connected(task[e].state)
             THEN [task EXCEPT ![e].step = "reading",
                               ![e].conn = peer_state[task[e].state].connection]
             ELSE [task EXCEPT ![e] = Fresh("ended")]
  /\ OnlyTask

EndReceiver(e) ==
  /\ At(e, "reading")
  /\ ~Live(task[e].conn)
  /\ task' = [task EXCEPT ![e] = Fresh("ended")]
  /\ OnlyTask

FirstMessage(e) == Head(unread[Streams(e)])

Reads(e, types) ==
  /\ At(e, "reading")
  /\ unread[Streams(e)] # <<>>
  /\ FirstMessage(e).type \in types
  /\ unread' = [unread EXCEPT ![Streams(e)] = Tail(@)]

Loop_Once(e) == task' = [task EXCEPT ![e] = Fresh("ended")]

Loop(e) == Receives(e)

HandleMessage(e) ==
  /\ Reads(e, {"OTHER"})
  /\ transport' = [transport EXCEPT ![e[1]].handled = @ \cup {FirstMessage(e).call}]
  /\ Loop(e)
  /\ UNCHANGED <<situation, peer_state, connection>>

\* The entry of whom a message is from is in the pool only if this node dialled it.
Source(e) == FirstMessage(e).source
Entry(e) == transport[e[1]].peers[Id(Source(e))]

SetNodeInfo_HandshakeOnly(e) ==
  peer_state' = IF Entry(e) = None \/ FirstMessage(e).type # "HANDSHAKE" THEN peer_state
                ELSE [peer_state EXCEPT ![Entry(e)].node_info = Source(e)]

SetNodeInfo(e) ==
  peer_state' = IF Entry(e) = None THEN peer_state
                ELSE [peer_state EXCEPT ![Entry(e)].node_info = Source(e)]

Announce(e) == transport' = [transport EXCEPT ![e[1]].announced = @ \cup {Source(e)}]

ReceiveInfo(e) ==
  /\ Reads(e, InfoType)
  /\ FirstMessage(e).type = "HANDSHAKE" => Entry(e) = None
  /\ SetNodeInfo(e) /\ Announce(e)
  /\ Loop(e)
  /\ UNCHANGED <<situation, connection>>

\* The response goes out on the connection this node has dialled, while the stream
\* of the handshake stays in hand.
AnswerHandshake(e) ==
  /\ Reads(e, {"HANDSHAKE"})
  /\ Entry(e) # None
  /\ SetNodeInfo(e)
  /\ task' = [task EXCEPT ![e].step = "sending",
                ![e].msg = [FirstMessage(e) EXCEPT !.type = "HANDSHAKE_RESPONSE",
                              !.source = e[1], !.to = Id(Source(e))]]
  /\ UNCHANGED <<situation, transport, connection>>

-----------------------------------------------------------------------------
Begin(c) ==
  \/ ConnectPeer(c) \/ Send(c) \/ Disconnect(c) \/ AlreadyRunning(c) \/ Start(c) \/ Stop(c)
  \/ task[c].step = "idle" /\ Collect(c)

CallStep(c) ==
  /\ task[c].step # "idle" /\ ~Returned(c)
  /\ \/ LookAtPeer(c) \/ Dial(c) \/ FailToDial(c)
     \/ GetPeer(c) \/ InsertPeer(c) \/ SetConnection(c) \/ PushTask(c)
     \/ SendStep(c) \/ Collect(c) \/ UpdateNext(c) \/ AllUpdated(c)
     \/ RemovePeer(c) \/ ClearConnection(c) \/ StoreEndpoint(c) \/ Started(c)
     \/ Halt(c) \/ CloseEndpoint(c) \/ DrainTasks(c) \/ JoinTasks(c)

AcceptStep(x) ==
  CheckRunning(x) \/ EndAccept(x) \/ \E k \in Call : Accept(x, k)

EndStep(e) ==
  /\ task[e].step \notin {"unborn", "ended"}
  /\ \/ FailToEstablish(e) \/ GetPeer(e) \/ InsertPeer(e) \/ SetIncoming(e)
     \/ TakeConnection(e) \/ EndReceiver(e)
     \/ HandleMessage(e) \/ ReceiveInfo(e) \/ AnswerHandshake(e) \/ SendStep(e)

Next ==
  \/ \E c \in Call : Begin(c) \/ CallStep(c) \/ Break(c)
  \/ \E x \in AcceptTask : AcceptStep(x)
  \/ \E e \in End : EndStep(e)

\* Tasks that can run are scheduled; what quinn is asked for comes or fails.
Spec ==
  /\ Init /\ [][Next]_vars
  /\ \A c \in Call : WF_vars(CallStep(c))
  /\ \A x \in AcceptTask : WF_vars(AcceptStep(x))
  /\ \A e \in End : WF_vars(EndStep(e))

-----------------------------------------------------------------------------
(***************************************************************************)
(* Properties.  The names ending in _<word> above are wrong variants of    *)
(* the operator that follows them; nothing here uses them.                 *)
(***************************************************************************)

Spawned(n, k) ==
  task[<<n, k>>].step \notin {"unborn", "establishing", "inserting", "setting"}

\* A connection that a node would send on has somebody to receive from it: once
\* its receiver is spawned, one that shares its PeerState reads it, or will when
\* done with what it has in hand.
StoredIsRead ==
  \A n \in Node, key \in Key :
    LET s == transport[n].peers[key]
        k == peer_state[s].connection
    IN  s # None => (k # None => (Spawned(n, k) /\ Live(k) =>
          \E e \in End :
            /\ e[1] = n /\ task[e].state = s
            /\ task[e].conn = k \/ task[e].step # "reading"))

\* A second stop finds running false and returns at once, while the first waits.
OnlyStop(c) ==
  /\ script[c].kind = "stop"
  /\ \A d \in Call : script[d].kind = "stop" /\ NodeOf(d) = NodeOf(c) => d = c

\* A receiver that its connect_peer stores, or is about to, for the next stop: as this
\* is after stop c had taken the tasks, c does not come after that connect_peer.
KeptLate(c, d) ==
  LET receiver == <<NodeOf(c), d>>
  IN  /\ d # script[c].after
      /\ task[d].step = "pushing" \/ receiver \in transport[NodeOf(c)].background_tasks

\* "Wait for background tasks to complete": when the only stop of a node has
\* returned, the receivers of the connections the node had dialled have ended, all
\* that were kept when stop took the tasks, so that of a connect_peer that had
\* returned before.  Nobody keeps, or waits for, those of incoming connections.
StopJoins ==
  \A c, d \in Call :
    OnlyStop(c) /\ task[c].step = "ok" /\ NodeOf(d) = NodeOf(c) =>
      task[<<NodeOf(c), d>>].step \in {"unborn", "ended"} \/ KeptLate(c, d)

\* ... and so do those: false of this code, whose stop does not know them.
StopJoinsAll ==
  \A c \in Call, e \in End :
    /\ OnlyStop(c) /\ task[c].step = "ok"
    /\ transport[NodeOf(c)].endpoint = "closed" /\ e[1] = NodeOf(c)
    => task[e].step \in {"unborn", "ended"}

\* Calls are made once, and what is owed to one stays owed until it is settled:
\* below, a set that ever grows empties for each of its members.
Settled(owed) == owed = {}

Calling == {c \in Call : task[c].step # "idle" /\ ~Returned(c)}

\* Every call returns: nobody waits for ever for a lock, a stream or a task.
CallsReturn == ~Settled(Calling) ~> Settled(Calling)

Connects(c) == script[c].kind = "connect" /\ task[c].step = "ok"

\* Nodes stay up and connected, and dial each other once.
Quiet ==
  /\ ~situation.fails /\ situation.breaks = {}
  /\ \A c \in Call : script[c].kind \notin {"start", "stop", "disconnect"}
  /\ \A c, d \in Call : {script[c].kind, script[d].kind} = {"connect"}
                          /\ NodeOf(c) = NodeOf(d) /\ Peer(c) = Peer(d) => c = d

Stored(n, m) ==
  LET s == transport[n].peers[Id(m)]
  IN  s # None /\ peer_state[s].node_info = m

\* The callers of connect_peer that the peer has neither announced nor skipped.
Unannounced ==
  {c \in Call : /\ Connects(c)
                /\ NodeOf(c) \notin transport[Peer(c)].announced \cup transport[Peer(c)].skipped}

\* handshake_peer, "Exchange node information": after connect_peer has returned Ok
\* the peer announces the caller, whatever became of earlier connections.
GreetedIsAnnounced ==
  LET greeted == {c \in Call : Connects(c) /\ NodeOf(c) \notin transport[Peer(c)].announced}
  IN  ~Settled(greeted) ~> Settled(greeted)

KnowsInfo(n, m) ==
  Stored(n, m) /\ m \in transport[n].announced \cup transport[n].skipped

HalfKnown ==
  {c \in Call : \E d \in Call :
     /\ Connects(c) /\ Connects(d) /\ NodeOf(c) = Peer(d) /\ Peer(c) = NodeOf(d)
     /\ ~KnowsInfo(NodeOf(c), Peer(c))}

\* At least so in quiet, also when the answer to a handshake fails because the
\* entry of the pool has no connection yet; and two nodes that dial each other, in
\* whatever order the handshakes, the responses and the entries of the pools come,
\* both end up with the NodeInfo of the other, announced unless the finish of their
\* own response to it was stopped.
NodesMeet ==
  Quiet /\ ~Settled(Unannounced \cup HalfKnown) ~> Settled(Unannounced \cup HalfKnown)

\* Two receivers never wait for the stream that the other one has in hand while it
\* answers: false when so many messages are on their way both ways that there is no
\* room beside the handshakes.  Neither answers then, reads or announces any more.
AnswersPass ==
  \A e, f \in End : task[e].step = "opening" /\ task[f].step = "opening" =>
    HasRoom(e) \/ HasRoom(f) \/ e \notin Held(Far(f)) \/ f \notin Held(Far(e))

Unhandled ==
  {c \in Call : /\ script[c].kind = "send" /\ task[c].step = "ok"
                /\ c \notin transport[Peer(c)].handled}

\* A message whose send_message has returned Ok is never lost: until it is handled,
\* the connection it waits on lives.
SentNotLost ==
  \A c \in Unhandled : \E e \in End :
    Live(e[2]) /\ \E i \in DOMAIN unread[e] : unread[e][i].call = c

\* At least in quiet it comes to the handler of the peer.
SentArrives == Quiet /\ ~Settled(Unhandled) ~> Settled(Unhandled)

\* NetworkTransport::connect_peer: "Returns the NodeInfo of the connected peer
\* after successful handshake", and handshake_peer: "the actual NodeInfo will be
\* sent via the channel".
PeerInfoComes ==
  LET unanswered == {c \in Call : Connects(c) /\ Peer(c) \notin transport[NodeOf(c)].announced}
  IN  ~Settled(unanswered) ~> Settled(unanswered)

\* After disconnect has returned, no message of the peer is processed.
DisconnectedSilent ==
  [][\A c \in Call : script[c].kind = "disconnect" /\ task[c].step = "ok" =>
       \A d \in transport'[NodeOf(c)].handled \ transport[NodeOf(c)].handled :
         NodeOf(d) # Peer(c)]_vars

=============================================================================

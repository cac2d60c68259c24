---------------------------- MODULE NodeInfoSync ----------------------------
(***************************************************************************)
(* How a change of what a running node offers reaches its peers: the tail  *)
(* of add_service, subscribe and unsubscribe, the debounced                *)
(* notify_node_change, the NODE_INFO_UPDATE and handshake messages of the  *)
(* transport, and the version test of the peer.  (RemoteServices has what  *)
(* a peer then does with an accepted NodeInfo.)                            *)
(*                                                                         *)
(* The behaviours begin when start() returns.  A connection is one ordered *)
(* sequence of messages: its receiver takes one stream after the other.    *)
(***************************************************************************)
EXTENDS Naturals, Sequences, FiniteSets

CONSTANTS
  Peer,
  Item,         \* what a NodeInfo may list: services, their actions and events
  Call,         \* calls of add_service, subscribe or unsubscribe
  HandleOf,     \* the Node value (the application's, or a clone) of each call
  Running,      \* the Node values whose own running flag is set
  NoCall, NoInfo,
  Situation     \* the situations an instance looks at, see Situations

Handle == {HandleOf[k] : k \in Call}

\* What may happen in a behaviour, and so what its properties can ask:
Situations == {
  "exclusive",  \* calls on one Node value exclude each other (&mut self)
  "apart",      \* calls come further apart than a notification takes
  "late",       \* peers connect when they will, not before the first change
  "breaks" }    \* a connection may break, and a living one fail a sender's finish

\* start() bumps the version once and each call at most once.
NodeInfo == [version : 0..(Cardinality(Call) + 1), items : SUBSET Item]

ASSUME ConstantsAssumption ==
  /\ IsFiniteSet(Call) /\ Running \subseteq Handle
  /\ NoCall \notin Call /\ NoInfo \notin NodeInfo
  /\ Situation \subseteq SUBSET Situations

VARIABLES
  items,            \* what a NodeInfo made now would list
  registry_version,
  call,             \* where each call stands, and the version it bumped to
  debounce,         \* debounce_notify_task of each Node value: the task kept
  task,             \* the debounce task each call spawned
  aborted,          \* the tasks whose abort() has yet to take effect
  local_node,       \* the NodeInfo the transport was created with
  link,             \* the connection of each peer
  inbox,            \* messages on their way to each peer
  known,            \* what each peer holds of this node
  situation         \* which of the Situations this behaviour is in

syncVars == <<items, registry_version, call, debounce, task, aborted, local_node,
          link, inbox, known, situation>>

peers == <<link, inbox, known>>
node == <<items, registry_version, local_node, situation>>

SyncTypeOK ==
  /\ items \subseteq Item
  /\ registry_version \in 1..(Cardinality(Call) + 1)
  /\ call \in [Call -> [pc : {"idle", "changed", "bumped", "aborting", "spawned", "done"},
                        version : 0..(Cardinality(Call) + 1)]]
  /\ debounce \in [Handle -> Call \cup {NoCall}]
  /\ task \in [Call -> [pc : {"none", "sleeping", "collected", "sending", "over"},
                        info : NodeInfo, todo : SUBSET Peer]]
  /\ aborted \subseteq Call
  /\ local_node \in NodeInfo
  /\ link \in [Peer -> {"down", "handshaking", "up", "broken"}]
  /\ inbox \in [Peer -> Seq(NodeInfo)]
  /\ known \in [Peer -> NodeInfo \cup {NoInfo}]
  /\ situation \in Situation

\* create_transport took its NodeInfo before start() bumped the version.
SyncInit ==
  /\ items = {}
  /\ registry_version = 1
  /\ local_node = [version |-> 0, items |-> {}]
  /\ call = [k \in Call |-> [pc |-> "idle", version |-> 0]]
  /\ debounce = [h \in Handle |-> NoCall]
  /\ task = [k \in Call |-> [pc |-> "none", info |-> local_node, todo |-> {}]]
  /\ aborted = {}
  /\ situation \in Situation
  /\ inbox = [p \in Peer |-> <<>>]
  /\ IF "late" \in situation
     THEN /\ link = [p \in Peer |-> "down"]
          /\ known = [p \in Peer |-> NoInfo]
     ELSE /\ link = [p \in Peer |-> "up"]
          /\ known = [p \in Peer |-> local_node]

-----------------------------------------------------------------------------
\* A call on a Node value.

Busy(k) == call[k].pc \notin {"idle", "done"}

Live(k) == task[k].pc \in {"sleeping", "collected", "sending"}

MayCall(k) ==
  /\ "exclusive" \in situation => \A j \in Call : Busy(j) => HandleOf[j] # HandleOf[k]
  /\ "apart" \in situation => \A j \in Call : ~Busy(j) /\ ~Live(j)

\* The registry has taken or dropped something a NodeInfo lists.  A clone made
\* before the end of start() has its own running flag, never set.
Change(k) ==
  /\ call[k].pc = "idle"
  /\ MayCall(k)
  /\ \E i \in Item : items' = IF i \in items THEN items \ {i} ELSE items \cup {i}
  /\ call' = [call EXCEPT ![k].pc = IF HandleOf[k] \in Running THEN "changed" ELSE "done"]
  /\ UNCHANGED <<registry_version, local_node, situation, debounce, task, aborted, peers>>

BumpVersion_Twice(k) ==
  /\ call[k].pc = "changed"
  /\ registry_version' = registry_version + 2
  /\ call' = [call EXCEPT ![k].pc = "bumped", ![k].version = registry_version + 1]
  /\ UNCHANGED <<items, local_node, situation, debounce, task, aborted, peers>>

BumpVersion(k) ==
  /\ call[k].pc = "changed"
  /\ registry_version' = registry_version + 1
  /\ call' = [call EXCEPT ![k].pc = "bumped", ![k].version = registry_version + 1]
  /\ UNCHANGED <<items, local_node, situation, debounce, task, aborted, peers>>

\* notify_node_change takes the kept task and aborts it: asleep, it is gone;
\* later it ends at a point where it has to wait, if it gets to one.
AbortKept(k) ==
  /\ call[k].pc = "bumped"
  /\ call' = [call EXCEPT ![k].pc = "aborting"]
  /\ debounce' = [debounce EXCEPT ![HandleOf[k]] = NoCall]
  /\ LET kept == debounce[HandleOf[k]]
     IN  IF kept = NoCall \/ ~Live(kept)
         THEN UNCHANGED <<task, aborted>>
         ELSE IF task[kept].pc = "sleeping"
         THEN task' = [task EXCEPT ![kept].pc = "over"] /\ UNCHANGED aborted
         ELSE aborted' = aborted \cup {kept} /\ UNCHANGED task
  /\ UNCHANGED <<node, peers>>

SpawnTask(k) ==
  /\ call[k].pc = "aborting"
  /\ call' = [call EXCEPT ![k].pc = "spawned"]
  /\ task' = [task EXCEPT ![k].pc = "sleeping"]
  /\ UNCHANGED <<node, debounce, aborted, peers>>

\* The lock was released in between: what another call stored is overwritten,
\* and its task runs on.
StoreTask(k) ==
  /\ call[k].pc = "spawned"
  /\ call' = [call EXCEPT ![k].pc = "done"]
  /\ debounce' = [debounce EXCEPT ![HandleOf[k]] = k]
  /\ UNCHANGED <<node, task, aborted, peers>>

CallStep(k) == BumpVersion(k) \/ AbortKept(k) \/ SpawnTask(k) \/ StoreTask(k)

-----------------------------------------------------------------------------
\* The debounce task: notify_node_change_impl after the sleep.

\* collect_local_service_capabilities (its reads of the registry in one step).
Collect(k) ==
  /\ task[k].pc = "sleeping"
  /\ task' = [task EXCEPT ![k].pc = "collected", ![k].info.items = items]
  /\ UNCHANGED <<node, call, debounce, aborted, peers>>

\* Only then get_local_node_info loads the version; update_peers lists the
\* peers whose PeerState holds a connection, a broken one too.
LoadVersion(k) ==
  /\ task[k].pc = "collected"
  /\ task' = [task EXCEPT ![k].pc = "sending", ![k].info.version = registry_version,
                ![k].todo = {p \in Peer : link[p] # "down"}]
  /\ UNCHANGED <<node, call, debounce, aborted, peers>>

SendUpdate_Snapshot(k, p) ==
  /\ task[k].pc = "sending"
  /\ p \in task[k].todo
  /\ link[p] # "broken"
  /\ inbox' = [inbox EXCEPT ![p] = Append(@, local_node)]
  /\ task' = [task EXCEPT ![k].todo = @ \ {p}]
  /\ UNCHANGED <<node, call, debounce, aborted, link, known>>

SendUpdate(k, p) ==
  /\ task[k].pc = "sending"
  /\ p \in task[k].todo
  /\ link[p] # "broken"
  /\ inbox' = [inbox EXCEPT ![p] = Append(@, task[k].info)]
  /\ task' = [task EXCEPT ![k].todo = @ \ {p}]
  /\ UNCHANGED <<node, call, debounce, aborted, link, known>>

\* The ? of update_peers: the peers that come later are not told.
FailToSendUpdate(k, p) ==
  /\ task[k].pc = "sending"
  /\ p \in task[k].todo
  /\ link[p] = "broken"
  /\ task' = [task EXCEPT ![k].pc = "over", ![k].todo = {}]
  /\ UNCHANGED <<node, call, debounce, aborted, peers>>

\* The receiver drops a stream it has not read to its end: the message has come,
\* but its finish fails the same ?.
StopUpdate(k, p) ==
  /\ "breaks" \in situation
  /\ task[k].pc = "sending"
  /\ p \in task[k].todo
  /\ link[p] # "broken"
  /\ inbox' = [inbox EXCEPT ![p] = Append(@, task[k].info)]
  /\ task' = [task EXCEPT ![k].pc = "over", ![k].todo = {}]
  /\ UNCHANGED <<node, call, debounce, aborted, link, known>>

EndTask(k) ==
  /\ task[k].pc = "sending"
  /\ task[k].todo = {}
  /\ task' = [task EXCEPT ![k].pc = "over"]
  /\ UNCHANGED <<node, call, debounce, aborted, peers>>

AbortTask(k) ==
  /\ k \in aborted
  /\ task[k].pc = "sending"
  /\ task' = [task EXCEPT ![k].pc = "over", ![k].todo = {}]
  /\ UNCHANGED <<node, call, debounce, aborted, peers>>

TaskStep(k) ==
  \/ Collect(k) \/ LoadVersion(k) \/ EndTask(k) \/ AbortTask(k)
  \/ \E p \in Peer : SendUpdate(k, p) \/ FailToSendUpdate(k, p) \/ StopUpdate(k, p)

-----------------------------------------------------------------------------
\* The transport and the peers.

\* connect_peer by this node: the PeerState now holds the connection.  (One that
\* the peer opened is kept under a temporary id and gets no handshake response.)
Connect(p) ==
  /\ link[p] = "down"
  /\ link' = [link EXCEPT ![p] = "handshaking"]
  /\ UNCHANGED <<node, call, debounce, task, aborted, inbox, known>>

\* handshake_peer sends the NodeInfo the transport was created with.
Handshake(p) ==
  /\ link[p] = "handshaking"
  /\ link' = [link EXCEPT ![p] = "up"]
  /\ inbox' = [inbox EXCEPT ![p] = Append(@, local_node)]
  /\ UNCHANGED <<node, call, debounce, task, aborted, known>>

\* The PeerState keeps a dead connection, so the peer counts as connected and
\* no discovery of it connects again.
Break(p) ==
  /\ "breaks" \in situation
  /\ link[p] = "up"
  /\ link' = [link EXCEPT ![p] = "broken"]
  /\ inbox' = [inbox EXCEPT ![p] = <<>>]
  /\ UNCHANGED <<node, call, debounce, task, aborted, known>>

ReceiveInfo_Once(p) ==
  /\ inbox[p] # <<>>
  /\ known' = [known EXCEPT ![p] = IF @ = NoInfo THEN Head(inbox[p]) ELSE @]
  /\ inbox' = [inbox EXCEPT ![p] = Tail(@)]
  /\ UNCHANGED <<node, call, debounce, task, aborted, link>>

\* process_remote_capabilities at the peer: only a newer version counts.
ReceiveInfo(p) ==
  /\ inbox[p] # <<>>
  /\ LET info == Head(inbox[p])
     IN  known' = IF known[p] = NoInfo \/ info.version > known[p].version
                  THEN [known EXCEPT ![p] = info] ELSE known
  /\ inbox' = [inbox EXCEPT ![p] = Tail(@)]
  /\ UNCHANGED <<node, call, debounce, task, aborted, link>>

PeerStep(p) == Handshake(p) \/ ReceiveInfo(p)

SyncNext ==
  \/ \E k \in Call : Change(k) \/ CallStep(k) \/ TaskStep(k)
  \/ \E p \in Peer : Connect(p) \/ PeerStep(p) \/ Break(p)

\* Tasks are scheduled and sleeps end; a connection that does not break
\* delivers.  No call and no connection has to be made.
SyncSpec ==
  /\ SyncInit /\ [][SyncNext]_syncVars
  /\ \A k \in Call : WF_syncVars(CallStep(k)) /\ WF_syncVars(TaskStep(k))
  /\ \A p \in Peer : WF_syncVars(PeerStep(p))

-----------------------------------------------------------------------------
(***************************************************************************)
(* Properties.                                                             *)
(***************************************************************************)

ToldUnlessBroken(k, p) ==
  call[k].pc = "bumped" /\ link[p] = "up" ~>
    \/ known[p] # NoInfo /\ known[p].version >= call[k].version
    \/ link[p] = "broken"

\* Every version a call has bumped to, or a newer one, comes to every peer that
\* was connected then and stays so, whichever notifications were aborted in
\* between.  The doc of update_peers: "for each connected peer".
EveryPeerTold == \A k \in Call, p \in Peer : ToldUnlessBroken(k, p)

\* The same as long as no connection of any peer breaks and no finish fails.
AnnouncementArrives == "breaks" \notin situation => EveryPeerTold

\* The debounce: of the calls on one Node value, only the last one has a
\* notification coming.  False of this code when two calls overlap.
OneAsleep ==
  \A j, k \in Call :
    task[j].pc = "sleeping" /\ task[k].pc = "sleeping"
      /\ HandleOf[j] = HandleOf[k] => j = k

Settled == \A k \in Call : ~Busy(k)

LatestInfoComes ==
  \A p \in Peer :
    <>[](link[p] = "up" /\ Settled => known[p] # NoInfo /\ known[p].items = items)

\* Once the calls are over, every connected peer comes to hold, and keeps, what
\* the node offers in fact: when the calls come far apart, and to peers that
\* were connected before them and stay so.
LatestInfoArrives == situation = {"exclusive", "apart"} => LatestInfoComes

=============================================================================

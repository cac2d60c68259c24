-------------------------- MODULE RequestResponse --------------------------
(***************************************************************************)
(* A request to a remote action, from the handler that                     *)
(* RemoteService::create_action_handler makes on the calling node, through *)
(* Node::handle_network_request on the serving node, back to               *)
(* Node::handle_network_response on the caller.                            *)
(*                                                                         *)
(* Each message travels on a stream of its own and is handled by a task of *)
(* its own, so messages are handled in any order, and one whose connection *)
(* dies is never handled: the network is a set without fair delivery.      *)
(* Lock waits are left out here (each lock is held for one step of one     *)
(* task); the serializer lock, which is not, has a module of its own.      *)
(***************************************************************************)
EXTENDS FiniteSets

CONSTANTS
  Request,    \* the request ids (a fresh UUID each) the caller may use
  NoRequest   \* stands for an id no request has

ASSUME NoRequestAssumption == NoRequest \notin Request

VARIABLES
  pc,                \* where the task of each request stands at the caller
  pending_requests,  \* the ids whose oneshot sender is in the map
  channel,           \* what the oneshot channel of the request holds
  outcome,           \* what the caller was returned
  network,           \* messages on their way
  completing,        \* responses whose task at the caller holds the sender
  serving,           \* where the task of each request stands at the server
  effect             \* history: what the action handler did for it

caller == <<pc, outcome>>
server == <<serving, effect>>
vars == <<pc, pending_requests, channel, outcome, network, completing, serving, effect>>

-----------------------------------------------------------------------------
\* value is the id of the request whose execution made the payload.
Message == [type : {"Request", "Response", "Error"},
            correlation_id : Request, value : Request]

\* An answer in the channel, or returned to the caller.
Outcome == [kind : {"ok", "garbled", "serialize", "send", "timeout", "none"},
            value : Request \cup {NoRequest}]

Nothing(kind) == [kind |-> kind, value |-> NoRequest]

TypeOK ==
  /\ pc \in [Request -> {"idle", "inserted", "sending", "transmitting",
                         "failing", "waiting", "expired", "done"}]
  /\ pending_requests \subseteq Request
  /\ channel \in [Request -> Outcome]
  /\ outcome \in [Request -> Outcome]
  /\ network \subseteq Message
  /\ completing \subseteq Message
  /\ serving \in [Request -> {"none", "received", "succeeded", "failed", "finished"}]
  /\ effect \in [Request -> {"none", "success", "failure"}]

Init ==
  /\ pc = [r \in Request |-> "idle"]
  /\ pending_requests = {}
  /\ channel = [r \in Request |-> Nothing("none")]
  /\ outcome = [r \in Request |-> Nothing("none")]
  /\ network = {}
  /\ completing = {}
  /\ serving = [r \in Request |-> "none"]
  /\ effect = [r \in Request |-> "none"]

Goto(r, stage) == pc' = [pc EXCEPT ![r] = stage]

Return(r, result) ==
  /\ Goto(r, "done")
  /\ outcome' = [outcome EXCEPT ![r] = result]

\* The receiving half of the channel is dropped when the timeout fires.
Listening(r) == pc[r] \in {"inserted", "sending", "transmitting", "failing", "waiting"}

-----------------------------------------------------------------------------
\* The caller: the closure of create_action_handler.

InsertPending(r) ==
  /\ pc[r] = "idle"
  /\ pending_requests' = pending_requests \cup {r}
  /\ Goto(r, "inserted")
  /\ UNCHANGED <<channel, outcome, network, completing, server>>

SerializeParams(r) ==
  /\ pc[r] = "inserted"
  /\ Goto(r, "sending")
  /\ UNCHANGED <<pending_requests, channel, outcome, network, completing, server>>

\* The early return leaves the sender in the map.
FailToSerialize(r) ==
  /\ pc[r] = "inserted"
  /\ Return(r, Nothing("serialize"))
  /\ UNCHANGED <<pending_requests, channel, network, completing, server>>

\* send_message writes the stream; until finish() returns, the peer may have
\* read the message, and have answered it.
Transmit(r) ==
  /\ pc[r] = "sending"
  /\ network' = network \cup {[type |-> "Request", correlation_id |-> r, value |-> r]}
  /\ Goto(r, "transmitting")
  /\ UNCHANGED <<pending_requests, channel, outcome, completing, server>>

\* Not running, no such peer, not connected, no stream, or a write or finish()
\* that failed.
FailToSend(r) ==
  /\ pc[r] \in {"sending", "transmitting"}
  /\ Goto(r, "failing")
  /\ UNCHANGED <<pending_requests, channel, outcome, network, completing, server>>

Sent(r) ==
  /\ pc[r] = "transmitting"
  /\ Goto(r, "waiting")
  /\ UNCHANGED <<pending_requests, channel, outcome, network, completing, server>>

\* tokio's timeout polls the channel before it looks at the clock.
ReceiveAnswer(r) ==
  /\ pc[r] = "waiting"
  /\ channel[r].kind # "none"
  /\ Return(r, channel[r])
  /\ UNCHANGED <<pending_requests, channel, network, completing, server>>

TimeOut(r) ==
  /\ pc[r] = "waiting"
  /\ channel[r].kind = "none"
  /\ Goto(r, "expired")
  /\ UNCHANGED <<pending_requests, channel, outcome, network, completing, server>>

CleanUp_Clear(r) ==
  /\ pc[r] \in {"failing", "expired"}
  /\ pending_requests' = {}
  /\ Return(r, Nothing(IF pc[r] = "failing" THEN "send" ELSE "timeout"))
  /\ UNCHANGED <<channel, network, completing, server>>

CleanUp(r) ==
  /\ pc[r] \in {"failing", "expired"}
  /\ pending_requests' = pending_requests \ {r}
  /\ Return(r, Nothing(IF pc[r] = "failing" THEN "send" ELSE "timeout"))
  /\ UNCHANGED <<channel, network, completing, server>>

CallerStep(r) ==
  \/ SerializeParams(r) \/ FailToSerialize(r)
  \/ Transmit(r) \/ FailToSend(r) \/ Sent(r)
  \/ ReceiveAnswer(r) \/ TimeOut(r) \/ CleanUp(r)

-----------------------------------------------------------------------------
\* The server: handle_network_request, in a task of its own for each request.

Serve(r, from, to) ==
  /\ serving[r] = from
  /\ serving' = [serving EXCEPT ![r] = to]

ReceiveRequest(m) ==
  /\ m \in network
  /\ m.type = "Request"
  /\ network' = network \ {m}
  /\ Serve(m.correlation_id, "none", "received")
  /\ UNCHANGED <<caller, pending_requests, channel, completing, effect>>

\* The parameters do not deserialize: the task ends without a reply.
RejectRequest(r) ==
  /\ Serve(r, "received", "finished")
  /\ UNCHANGED <<caller, pending_requests, channel, network, completing, effect>>

\* local_request finds a handler and runs it ...
HandleRequest(r) ==
  /\ \/ /\ Serve(r, "received", "succeeded")
        /\ effect' = [effect EXCEPT ![r] = "success"]
     \/ /\ Serve(r, "received", "failed")
        /\ effect' = [effect EXCEPT ![r] = "failure"]
  /\ UNCHANGED <<caller, pending_requests, channel, network, completing>>

\* ... or finds none.
FindNoHandler(r) ==
  /\ Serve(r, "received", "failed")
  /\ UNCHANGED <<caller, pending_requests, channel, network, completing, effect>>

Reply(r, type) ==
  network' = network \cup {[type |-> type, correlation_id |-> r, value |-> r]}

SendResponse_NoCorrelation(r) ==
  /\ Serve(r, "succeeded", "finished")
  /\ network' = network \cup
       {[type |-> "Response", correlation_id |-> NoRequest, value |-> r]}
  /\ UNCHANGED <<caller, pending_requests, channel, completing, effect>>

SendResponse(r) ==
  /\ Serve(r, "succeeded", "finished")
  /\ Reply(r, "Response")
  /\ UNCHANGED <<caller, pending_requests, channel, completing, effect>>

SendError(r) ==
  /\ Serve(r, "failed", "finished")
  /\ Reply(r, "Error")
  /\ UNCHANGED <<caller, pending_requests, channel, completing, effect>>

\* The reply does not serialize, or send_message fails: that is only logged.
FailToReply(r) ==
  /\ serving[r] \in {"succeeded", "failed"}
  /\ serving' = [serving EXCEPT ![r] = "finished"]
  /\ UNCHANGED <<caller, pending_requests, channel, network, completing, effect>>

ServerStep(r) ==
  RejectRequest(r) \/ HandleRequest(r) \/ FindNoHandler(r)
    \/ SendResponse(r) \/ SendError(r) \/ FailToReply(r)

-----------------------------------------------------------------------------
\* Back at the caller: handle_network_message and handle_network_response.

\* "Unknown message type": an Error reply is dropped.
ReceiveError(m) ==
  /\ m \in network
  /\ m.type = "Error"
  /\ network' = network \ {m}
  /\ UNCHANGED <<caller, pending_requests, channel, completing, server>>

TakePending(m) ==
  /\ m \in network
  /\ m.type = "Response"
  /\ m.correlation_id \in pending_requests
  /\ network' = network \ {m}
  /\ pending_requests' = pending_requests \ {m.correlation_id}
  /\ completing' = completing \cup {m}
  /\ UNCHANGED <<caller, channel, server>>

\* "No response handler found for correlation ID".
DropLateResponse(m) ==
  /\ m \in network
  /\ m.type = "Response"
  /\ m.correlation_id \notin pending_requests
  /\ network' = network \ {m}
  /\ UNCHANGED <<caller, pending_requests, channel, completing, server>>

Complete_Anyone(m) ==
  /\ m \in completing
  /\ completing' = completing \ {m}
  /\ \E r \in Request, answer \in {[kind |-> "ok", value |-> m.value]} :
       channel' = IF Listening(r) THEN [channel EXCEPT ![r] = answer] ELSE channel
  /\ UNCHANGED <<caller, pending_requests, network, server>>

\* The payload deserializes or not; either way the sender is used, in vain when
\* the caller has dropped the receiver.
Complete(m) ==
  /\ m \in completing
  /\ completing' = completing \ {m}
  /\ \E answer \in {[kind |-> "ok", value |-> m.value], Nothing("garbled")} :
       channel' = IF Listening(m.correlation_id)
                  THEN [channel EXCEPT ![m.correlation_id] = answer] ELSE channel
  /\ UNCHANGED <<caller, pending_requests, network, server>>

MessageStep(m) ==
  ReceiveRequest(m) \/ ReceiveError(m) \/ TakePending(m) \/ DropLateResponse(m)

Next ==
  \/ \E r \in Request : InsertPending(r) \/ CallerStep(r) \/ ServerStep(r)
  \/ \E m \in network : MessageStep(m)
  \/ \E m \in completing : Complete(m)

SafeSpec == Init /\ [][Next]_vars

\* The caller's task is scheduled, its timer fires, and send_message returns: the
\* idle timeout of QUIC ends what the peer does not acknowledge.  Nothing is
\* assumed of the peer or of the network.
Spec == SafeSpec /\ \A r \in Request : WF_vars(CallerStep(r))

-----------------------------------------------------------------------------
(***************************************************************************)
(* Properties.                                                             *)
(***************************************************************************)

WaiterReachable ==
  \A r \in Request : Listening(r) =>
    \/ r \in pending_requests
    \/ \E m \in completing : m.correlation_id = r
    \/ channel[r].kind # "none"

SentEntriesFreed ==
  \A r \in pending_requests : pc[r] = "done" => outcome[r].kind = "serialize"

\* The map holds what it must and no more: a caller that still listens can still
\* be answered (its sender is in the map, in the hands of the task of its
\* response, or already used), and a finished request leaves nothing in the map,
\* unless its parameters did not serialize (see PendingFreed).
PendingMatchesWaiters == WaiterReachable /\ SentEntriesFreed

\* "Clean up the pending request": a finished request leaves nothing in the map.
PendingFreed == \A r \in pending_requests : pc[r] # "done"

\* A reply that arrives while its request waits settles the request.
ReplySettles ==
  [][\A m \in network \ network' :
       /\ m.type # "Request"
       /\ m.correlation_id \in pending_requests
       /\ pc[m.correlation_id] = "waiting"
       => m.correlation_id \notin pending_requests']_vars

\* The refinement mapping: a request answered with the result of another one
\* has a status that Rpc does not know.
StatusOf(r) ==
  CASE pc[r] = "idle" -> "unasked"
    [] pc[r] \notin {"idle", "done"} -> "open"
    [] pc[r] = "done" /\ outcome[r].kind # "ok" -> "failed"
    [] pc[r] = "done" /\ outcome[r].kind = "ok" ->
         IF outcome[r].value = r THEN "answered" ELSE "foreign"

Promise == INSTANCE Rpc WITH status <- [r \in Request |-> StatusOf(r)]

\* Whatever is lost, late or reordered, each request has one outcome in the end,
\* success only with its own result, and its action is executed at most once.
ImplementsRpc == Promise!Spec

ImplementsRpcSafely == Promise!SafeSpec

=============================================================================

----------------------- MODULE RequestResponseProofs -----------------------
(***************************************************************************)
(* Theorems about RequestResponse, for every set of requests and whatever  *)
(* the network loses or reorders; and about NodeInfoSync, for any peers,   *)
(* items and Node values and finitely many calls, whatever is aborted.     *)
(***************************************************************************)
EXTENDS RequestResponse, NodeInfoSync, FiniteSetTheorems, TLAPS

-----------------------------------------------------------------------------
(***************************************************************************)
(* The inductive invariant, in named parts.                                *)
(***************************************************************************)

\* Where a message can be, and a message carries the payload of the request it
\* is correlated with.
Messages == network \cup completing

Correlated == \A m \in Messages : m.value = m.correlation_id

\* What a request has left anywhere tells that it was made.
OnlyOnceAsked ==
  /\ \A m \in Messages : pc[m.correlation_id] # "idle"
  /\ \A r \in Request :
       \/ serving[r] # "none"
       \/ effect[r] # "none"
       \/ r \in pending_requests
       \/ channel[r].kind # "none"
       => pc[r] # "idle"

\* The action handler runs once in the server's task, and a response is sent, and
\* used, only after it succeeded.
EffectKnown ==
  /\ \A r \in Request :
       /\ serving[r] \in {"none", "received"} => effect[r] = "none"
       /\ serving[r] = "succeeded" => effect[r] = "success"
       /\ channel[r].kind = "ok" => effect[r] = "success"
  /\ \A m \in Messages : m.type = "Response" => effect[m.correlation_id] = "success"
  /\ \A m \in completing : m.type = "Response"

\* The channel of a request holds nothing but its own result.
OwnAnswer ==
  \A r \in Request :
    /\ channel[r].kind \in {"none", "ok", "garbled"}
    /\ channel[r].kind = "ok" => channel[r].value = r
    /\ pc[r] = "done" /\ outcome[r].kind = "ok" => outcome[r].value = r

\* The sender is in one place only: in the map, with the response's task, or used.
SenderInOnePlace ==
  /\ \A m \in completing : m.correlation_id \notin pending_requests
  /\ \A r \in pending_requests : channel[r].kind = "none"

IInv ==
  /\ TypeOK
  /\ Correlated
  /\ OnlyOnceAsked
  /\ EffectKnown
  /\ OwnAnswer
  /\ SenderInOnePlace
  /\ WaiterReachable
  /\ SentEntriesFreed

-----------------------------------------------------------------------------
\* A value of the channel is a record of the type of outcomes.
LEMMA NothingType ==
  ASSUME NEW kind \in {"ok", "garbled", "serialize", "send", "timeout", "none"}
  PROVE  Nothing(kind) \in Outcome /\ Nothing(kind).kind = kind
BY DEF Nothing, Outcome

LEMMA InitIInv == Init => IInv
<1> SUFFICES ASSUME Init PROVE IInv
  OBVIOUS
<1>1. TypeOK
  BY NothingType DEF Init, TypeOK
<1>2. \A r \in Request : channel[r].kind = "none" /\ pc[r] = "idle"
  BY NothingType DEF Init
<1> QED
  BY <1>1, <1>2 DEF Init, IInv, Correlated, Messages, OnlyOnceAsked, EffectKnown, OwnAnswer,
     SenderInOnePlace, WaiterReachable, SentEntriesFreed, Listening

\* A step of the caller preserves the invariant.
LEMMA CallerKeepsIInv ==
  ASSUME IInv, NEW r \in Request, InsertPending(r) \/ CallerStep(r)
  PROVE  IInv'
<1> USE DEF IInv, TypeOK, Messages, caller, server, Goto, Return
<1> DEFINE Rest == Correlated /\ OnlyOnceAsked /\ EffectKnown /\ OwnAnswer /\ SenderInOnePlace
           Reached == WaiterReachable /\ SentEntriesFreed
<1>1. CASE InsertPending(r)
  <2>1. TypeOK'
    BY <1>1 DEF InsertPending
  <2>2. Rest'
    BY <1>1 DEF InsertPending, Correlated, OnlyOnceAsked, EffectKnown, OwnAnswer, SenderInOnePlace
  <2>3. Reached'
    BY <1>1 DEF InsertPending, WaiterReachable, SentEntriesFreed, Listening, OnlyOnceAsked
  <2> QED BY <2>1, <2>2, <2>3
<1>2. CASE SerializeParams(r)
  <2>1. TypeOK'
    BY <1>2 DEF SerializeParams
  <2>2. Rest'
    BY <1>2 DEF SerializeParams, Correlated, OnlyOnceAsked, EffectKnown, OwnAnswer, SenderInOnePlace
  <2>3. Reached'
    BY <1>2 DEF SerializeParams, WaiterReachable, SentEntriesFreed, Listening
  <2> QED BY <2>1, <2>2, <2>3
<1>3. CASE FailToSerialize(r)
  <2>1. TypeOK'
    BY <1>3, NothingType DEF FailToSerialize
  <2>2. Rest'
    BY <1>3, NothingType
       DEF FailToSerialize, Correlated, OnlyOnceAsked, EffectKnown, OwnAnswer, SenderInOnePlace
  <2>3. Reached'
    BY <1>3, NothingType DEF FailToSerialize, WaiterReachable, SentEntriesFreed, Listening
  <2> QED BY <2>1, <2>2, <2>3
<1>4. CASE Transmit(r)
  <2> DEFINE m == [type |-> "Request", correlation_id |-> r, value |-> r]
  <2>1. m \in Message /\ m.type = "Request" /\ m.correlation_id = r /\ m.value = r
    BY DEF Message
  <2>2. network' = network \cup {m} /\ UNCHANGED <<pending_requests, channel, outcome, completing, server>>
        /\ pc[r] = "sending" /\ pc' = [pc EXCEPT ![r] = "transmitting"]
    BY <1>4 DEF Transmit
  <2> HIDE DEF m
  <2>3. TypeOK'
    BY <2>1, <2>2
  <2>4. Rest'
    BY <2>1, <2>2 DEF Correlated, OnlyOnceAsked, EffectKnown, OwnAnswer, SenderInOnePlace
  <2>5. Reached'
    BY <2>1, <2>2 DEF WaiterReachable, SentEntriesFreed, Listening
  <2> QED BY <2>3, <2>4, <2>5
<1>5. CASE FailToSend(r)
  <2>1. TypeOK'
    BY <1>5 DEF FailToSend
  <2>2. Rest'
    BY <1>5 DEF FailToSend, Correlated, OnlyOnceAsked, EffectKnown, OwnAnswer, SenderInOnePlace
  <2>3. Reached'
    BY <1>5 DEF FailToSend, WaiterReachable, SentEntriesFreed, Listening
  <2> QED BY <2>1, <2>2, <2>3
<1>6. CASE Sent(r)
  <2>1. TypeOK'
    BY <1>6 DEF Sent
  <2>2. Rest'
    BY <1>6 DEF Sent, Correlated, OnlyOnceAsked, EffectKnown, OwnAnswer, SenderInOnePlace
  <2>3. Reached'
    BY <1>6 DEF Sent, WaiterReachable, SentEntriesFreed, Listening
  <2> QED BY <2>1, <2>2, <2>3
<1>7. CASE ReceiveAnswer(r)
  <2>1. TypeOK'
    BY <1>7 DEF ReceiveAnswer
  <2>2. Rest'
    BY <1>7 DEF ReceiveAnswer, Correlated, OnlyOnceAsked, EffectKnown, OwnAnswer, SenderInOnePlace
  <2>3. Reached'
    BY <1>7 DEF ReceiveAnswer, WaiterReachable, SentEntriesFreed, Listening, SenderInOnePlace
  <2> QED BY <2>1, <2>2, <2>3
<1>8. CASE TimeOut(r)
  <2>1. TypeOK'
    BY <1>8 DEF TimeOut
  <2>2. Rest'
    BY <1>8 DEF TimeOut, Correlated, OnlyOnceAsked, EffectKnown, OwnAnswer, SenderInOnePlace
  <2>3. Reached'
    BY <1>8 DEF TimeOut, WaiterReachable, SentEntriesFreed, Listening
  <2> QED BY <2>1, <2>2, <2>3
<1>9. CASE CleanUp(r)
  <2> DEFINE result == Nothing(IF pc[r] = "failing" THEN "send" ELSE "timeout")
  <2>1. result \in Outcome /\ result.kind # "ok"
    BY NothingType
  <2>2. pc' = [pc EXCEPT ![r] = "done"] /\ outcome' = [outcome EXCEPT ![r] = result]
        /\ pending_requests' = pending_requests \ {r}
        /\ UNCHANGED <<channel, network, completing, server>>
    BY <1>9 DEF CleanUp
  <2> HIDE DEF result
  <2>3. TypeOK'
    BY <2>1, <2>2
  <2>4. Rest'
    BY <2>1, <2>2 DEF Correlated, OnlyOnceAsked, EffectKnown, OwnAnswer, SenderInOnePlace
  <2>5. Reached'
    BY <2>1, <2>2 DEF WaiterReachable, SentEntriesFreed, Listening
  <2> QED BY <2>3, <2>4, <2>5
<1> QED
  BY <1>1, <1>2, <1>3, <1>4, <1>5, <1>6, <1>7, <1>8, <1>9 DEF CallerStep

\* A step of the server's task preserves the invariant.
LEMMA ServerKeepsIInv ==
  ASSUME IInv, NEW r \in Request, ServerStep(r)
  PROVE  IInv'
<1> USE DEF IInv, TypeOK, Messages, caller, server, Serve
<1> DEFINE Rest == Correlated /\ OnlyOnceAsked /\ EffectKnown /\ OwnAnswer /\ SenderInOnePlace
           Reached == WaiterReachable /\ SentEntriesFreed
<1>1. CASE RejectRequest(r)
  <2>1. TypeOK'
    BY <1>1 DEF RejectRequest
  <2>2. Rest'
    BY <1>1 DEF RejectRequest, Correlated, OnlyOnceAsked, EffectKnown, OwnAnswer, SenderInOnePlace
  <2>3. Reached'
    BY <1>1 DEF RejectRequest, WaiterReachable, SentEntriesFreed, Listening
  <2> QED BY <2>1, <2>2, <2>3
<1>2. CASE HandleRequest(r)
  <2>1. TypeOK'
    BY <1>2 DEF HandleRequest
  <2>2. Rest'
    BY <1>2 DEF HandleRequest, Message, Correlated, OnlyOnceAsked, EffectKnown, OwnAnswer, SenderInOnePlace
  <2>3. Reached'
    BY <1>2 DEF HandleRequest, WaiterReachable, SentEntriesFreed, Listening
  <2> QED BY <2>1, <2>2, <2>3
<1>3. CASE FindNoHandler(r)
  <2>1. TypeOK'
    BY <1>3 DEF FindNoHandler
  <2>2. Rest'
    BY <1>3 DEF FindNoHandler, Correlated, OnlyOnceAsked, EffectKnown, OwnAnswer, SenderInOnePlace
  <2>3. Reached'
    BY <1>3 DEF FindNoHandler, WaiterReachable, SentEntriesFreed, Listening
  <2> QED BY <2>1, <2>2, <2>3
<1>4. CASE SendResponse(r)
  <2> DEFINE m == [type |-> "Response", correlation_id |-> r, value |-> r]
  <2>1. m \in Message /\ m.type = "Response" /\ m.correlation_id = r /\ m.value = r
    BY DEF Message
  <2>2. network' = network \cup {m} /\ UNCHANGED <<caller, pending_requests, channel, completing, effect>>
        /\ serving[r] = "succeeded" /\ serving' = [serving EXCEPT ![r] = "finished"]
    BY <1>4 DEF SendResponse, Reply
  <2> HIDE DEF m
  <2>3. TypeOK'
    BY <2>1, <2>2
  <2>4. Rest'
    BY <2>1, <2>2 DEF Correlated, OnlyOnceAsked, EffectKnown, OwnAnswer, SenderInOnePlace
  <2>5. Reached'
    BY <2>1, <2>2 DEF WaiterReachable, SentEntriesFreed, Listening
  <2> QED BY <2>3, <2>4, <2>5
<1>5. CASE SendError(r)
  <2> DEFINE m == [type |-> "Error", correlation_id |-> r, value |-> r]
  <2>1. m \in Message /\ m.type = "Error" /\ m.correlation_id = r /\ m.value = r
    BY DEF Message
  <2>2. network' = network \cup {m} /\ UNCHANGED <<caller, pending_requests, channel, completing, effect>>
        /\ serving[r] = "failed" /\ serving' = [serving EXCEPT ![r] = "finished"]
    BY <1>5 DEF SendError, Reply
  <2> HIDE DEF m
  <2>3. TypeOK'
    BY <2>1, <2>2
  <2>4. Rest'
    BY <2>1, <2>2 DEF Correlated, OnlyOnceAsked, EffectKnown, OwnAnswer, SenderInOnePlace
  <2>5. Reached'
    BY <2>1, <2>2 DEF WaiterReachable, SentEntriesFreed, Listening
  <2> QED BY <2>3, <2>4, <2>5
<1>6. CASE FailToReply(r)
  <2>1. TypeOK'
    BY <1>6 DEF FailToReply
  <2>2. Rest'
    BY <1>6 DEF FailToReply, Correlated, OnlyOnceAsked, EffectKnown, OwnAnswer, SenderInOnePlace
  <2>3. Reached'
    BY <1>6 DEF FailToReply, WaiterReachable, SentEntriesFreed, Listening
  <2> QED BY <2>1, <2>2, <2>3
<1> QED
  BY <1>1, <1>2, <1>3, <1>4, <1>5, <1>6 DEF ServerStep

\* A message that is received, by either node, preserves the invariant.
LEMMA MessageKeepsIInv ==
  ASSUME IInv, NEW m \in network, MessageStep(m)
  PROVE  IInv'
<1> USE DEF IInv, TypeOK, Messages, caller, server
<1> DEFINE Rest == Correlated /\ OnlyOnceAsked /\ EffectKnown /\ OwnAnswer /\ SenderInOnePlace
           Reached == WaiterReachable /\ SentEntriesFreed
<1>m. m \in Message /\ m.correlation_id \in Request
  BY DEF Message
<1>1. CASE ReceiveRequest(m)
  <2>1. TypeOK'
    BY <1>m, <1>1 DEF ReceiveRequest, Serve
  <2>2. Rest'
    BY <1>m, <1>1 DEF ReceiveRequest, Serve, Correlated, OnlyOnceAsked, EffectKnown, OwnAnswer, SenderInOnePlace
  <2>3. Reached'
    BY <1>m, <1>1 DEF ReceiveRequest, Serve, WaiterReachable, SentEntriesFreed, Listening
  <2> QED BY <2>1, <2>2, <2>3
<1>2. CASE ReceiveError(m)
  <2>1. TypeOK'
    BY <1>m, <1>2 DEF ReceiveError
  <2>2. Rest'
    BY <1>m, <1>2 DEF ReceiveError, Correlated, OnlyOnceAsked, EffectKnown, OwnAnswer, SenderInOnePlace
  <2>3. Reached'
    BY <1>m, <1>2 DEF ReceiveError, WaiterReachable, SentEntriesFreed, Listening
  <2> QED BY <2>1, <2>2, <2>3
<1>3. CASE TakePending(m)
  <2>1. TypeOK'
    BY <1>m, <1>3 DEF TakePending
  <2>2. Rest'
    BY <1>m, <1>3 DEF TakePending, Correlated, OnlyOnceAsked, EffectKnown, OwnAnswer, SenderInOnePlace
  <2>3. Reached'
    BY <1>m, <1>3 DEF TakePending, WaiterReachable, SentEntriesFreed, Listening
  <2> QED BY <2>1, <2>2, <2>3
<1>4. CASE DropLateResponse(m)
  <2>1. TypeOK'
    BY <1>m, <1>4 DEF DropLateResponse
  <2>2. Rest'
    BY <1>m, <1>4 DEF DropLateResponse, Correlated, OnlyOnceAsked, EffectKnown, OwnAnswer, SenderInOnePlace
  <2>3. Reached'
    BY <1>m, <1>4 DEF DropLateResponse, WaiterReachable, SentEntriesFreed, Listening
  <2> QED BY <2>1, <2>2, <2>3
<1> QED
  BY <1>1, <1>2, <1>3, <1>4 DEF MessageStep

\* The task of a response, which uses the sender it took, preserves the invariant.
LEMMA CompleteKeepsIInv ==
  ASSUME IInv, NEW m \in completing, Complete(m)
  PROVE  IInv'
<1> USE DEF IInv, TypeOK, Messages, caller, server
<1> DEFINE c == m.correlation_id
<1>1. m \in Message /\ c \in Request /\ m.value = c /\ effect[c] = "success"
  BY DEF Message, Correlated, EffectKnown
<1>2. PICK answer \in {[kind |-> "ok", value |-> m.value], Nothing("garbled")} :
        channel' = IF Listening(c) THEN [channel EXCEPT ![c] = answer] ELSE channel
  BY DEF Complete
<1>3. /\ answer \in Outcome
      /\ answer.kind \in {"ok", "garbled"}
      /\ answer.kind = "ok" => answer.value = c
  BY <1>1, <1>2, NothingType DEF Outcome
<1>4. completing' = completing \ {m} /\ UNCHANGED <<caller, pending_requests, network, server>>
  BY DEF Complete
<1> HIDE DEF c
<1>5. TypeOK'
  BY <1>1, <1>2, <1>3, <1>4
<1>6. (Correlated /\ OnlyOnceAsked)'
  <2>1. c \in Request /\ pc[c] # "idle"
    BY <1>1 DEF c, OnlyOnceAsked
  <2> QED BY <1>1, <1>2, <1>4, <2>1 DEF Correlated, OnlyOnceAsked
<1>7. (EffectKnown /\ OwnAnswer)'
  BY <1>1, <1>2, <1>3, <1>4 DEF EffectKnown, OwnAnswer
<1>8. SenderInOnePlace'
  <2>1. c \notin pending_requests
    BY DEF c, SenderInOnePlace
  <2> QED BY <1>2, <1>4, <2>1 DEF SenderInOnePlace
<1>9. WaiterReachable'
  <2> SUFFICES ASSUME NEW r \in Request, Listening(r)', r \notin pending_requests',
                      channel'[r].kind = "none"
               PROVE  \E n \in completing' : n.correlation_id = r
    BY DEF WaiterReachable
  <2>1. Listening(r) /\ r \notin pending_requests
    BY <1>4 DEF Listening
  <2>2. r # c /\ channel[r].kind = "none"
    BY <1>1, <1>2, <1>3, <2>1
  <2>3. PICK n \in completing : n.correlation_id = r
    BY <2>1, <2>2 DEF WaiterReachable
  <2> QED BY <1>4, <2>2, <2>3 DEF c
<1>10. SentEntriesFreed'
  BY <1>4 DEF SentEntriesFreed
<1> QED BY <1>5, <1>6, <1>7, <1>8, <1>9, <1>10

LEMMA StutterKeepsIInv == IInv /\ UNCHANGED vars => IInv'
BY DEF IInv, vars, caller, server, TypeOK, Messages, Correlated, OnlyOnceAsked, EffectKnown,
   OwnAnswer, SenderInOnePlace, WaiterReachable, SentEntriesFreed, Listening

\* The strengthening of the two invariants below holds throughout.
THEOREM Invariance == SafeSpec => []IInv
<1>1. IInv /\ [Next]_vars => IInv'
  <2> SUFFICES ASSUME IInv, Next PROVE IInv'
    BY StutterKeepsIInv
  <2> QED BY CallerKeepsIInv, ServerKeepsIInv, MessageKeepsIInv, CompleteKeepsIInv DEF Next
<1> QED BY InitIInv, <1>1, PTL DEF SafeSpec

\* Every variable keeps its type, for any set of requests.
THEOREM TypeCorrect == Spec => []TypeOK
<1>1. IInv => TypeOK
  BY DEF IInv
<1> QED BY Invariance, <1>1, PTL DEF Spec

\* A caller that listens can be answered, and a finished request has no entry in
\* pending_requests unless its parameters did not serialize (remote_service.rs
\* 208-270 with handle_network_response), for any number of concurrent requests
\* and any fate of their messages.
THEOREM PendingExact == Spec => []PendingMatchesWaiters
<1>1. IInv => PendingMatchesWaiters
  BY DEF IInv, PendingMatchesWaiters
<1> QED BY Invariance, <1>1, PTL DEF Spec

-----------------------------------------------------------------------------
(***************************************************************************)
(* The protocol implements what Rpc promises.                              *)
(***************************************************************************)

\* The mapping by cases, before and after a step.
StatusMeans ==
  \A r \in Request :
    /\ pc[r] = "idle" => StatusOf(r) = "unasked"
    /\ pc[r] \notin {"idle", "done"} => StatusOf(r) = "open"
    /\ pc[r] = "done" /\ outcome[r].kind # "ok" => StatusOf(r) = "failed"
    /\ pc[r] = "done" /\ outcome[r].kind = "ok" /\ outcome[r].value = r
         => StatusOf(r) = "answered"

LEMMA StatusIs == StatusMeans /\ StatusMeans'
<1>1. StatusMeans
  BY DEF StatusMeans, StatusOf
<1>2. StatusMeans'
  BY DEF StatusMeans, StatusOf
<1> QED BY <1>1, <1>2

\* A step of one request's caller changes the status of no other request.
LEMMA StatusesFrom ==
  ASSUME TypeOK, NEW r \in Request, NEW stage, NEW result,
         pc' = [pc EXCEPT ![r] = stage],
         outcome' = [outcome EXCEPT ![r] = result] \/ outcome' = outcome
  PROVE  [q \in Request |-> StatusOf(q)]'
           = [[q \in Request |-> StatusOf(q)] EXCEPT ![r] = StatusOf(r)']
<1>1. \A q \in Request \ {r} : StatusOf(q)' = StatusOf(q)
  BY DEF TypeOK, StatusOf
<1> QED BY <1>1

LEMMA StatusesKept ==
  ASSUME UNCHANGED <<pc, outcome>>
  PROVE  [q \in Request |-> StatusOf(q)]' = [q \in Request |-> StatusOf(q)]
BY DEF StatusOf

\* Each step of a caller asks, fails, succeeds, or shows nothing.
LEMMA CallerRefines ==
  ASSUME IInv, NEW r \in Request, InsertPending(r) \/ CallerStep(r)
  PROVE  [Promise!Next]_Promise!vars
<1> DEFINE status == [q \in Request |-> StatusOf(q)]
<1> USE DEF IInv, TypeOK, Goto, Return, server
<1> SUFFICES \/ Promise!Ask(r) \/ Promise!Fail(r) \/ Promise!Succeed(r)
             \/ status' = status /\ effect' = effect
  BY DEF Promise!Next, Promise!vars
<1>1. CASE InsertPending(r)
  <2>1. status' = [status EXCEPT ![r] = StatusOf(r)']
    BY <1>1, StatusesFrom DEF InsertPending
  <2>2. StatusOf(r) = "unasked" /\ StatusOf(r)' = "open"
    BY <1>1, StatusIs DEF InsertPending, StatusMeans
  <2> QED BY <1>1, <2>1, <2>2 DEF InsertPending, Promise!Ask
<1>2. CASE FailToSerialize(r) \/ CleanUp(r)
  <2> PICK kind \in {"serialize", "send", "timeout"} :
         pc' = [pc EXCEPT ![r] = "done"] /\ outcome' = [outcome EXCEPT ![r] = Nothing(kind)]
    BY <1>2 DEF FailToSerialize, CleanUp
  <2>1. status' = [status EXCEPT ![r] = StatusOf(r)']
    BY StatusesFrom
  <2>2. pc[r] \notin {"idle", "done"} /\ effect' = effect
    BY <1>2 DEF FailToSerialize, CleanUp
  <2>3. pc'[r] = "done" /\ outcome'[r].kind # "ok"
    BY NothingType
  <2>4. StatusOf(r) = "open" /\ StatusOf(r)' = "failed"
    BY <2>2, <2>3, StatusIs DEF StatusMeans
  <2> QED BY <2>1, <2>2, <2>4 DEF Promise!Fail
<1>3. CASE ReceiveAnswer(r)
  <2>1. status' = [status EXCEPT ![r] = StatusOf(r)']
    BY <1>3, StatusesFrom DEF ReceiveAnswer
  <2>2. StatusOf(r) = "open" /\ effect' = effect
    BY <1>3, StatusIs DEF ReceiveAnswer, StatusMeans
  <2>3. pc'[r] = "done" /\ outcome'[r] = channel[r]
    BY <1>3 DEF ReceiveAnswer
  <2>4. CASE channel[r].kind = "ok"
    <3>1. channel[r].value = r /\ effect[r] = "success"
      BY <2>4 DEF OwnAnswer, EffectKnown
    <3>2. StatusOf(r)' = "answered"
      BY <2>3, <2>4, <3>1, StatusIs DEF StatusMeans
    <3> QED BY <2>1, <2>2, <3>1, <3>2 DEF Promise!Succeed
  <2>5. CASE channel[r].kind # "ok"
    <3>1. StatusOf(r)' = "failed"
      BY <2>3, <2>5, StatusIs DEF StatusMeans
    <3> QED BY <2>1, <2>2, <3>1 DEF Promise!Fail
  <2> QED BY <2>4, <2>5
<1>4. CASE SerializeParams(r) \/ Transmit(r) \/ FailToSend(r) \/ Sent(r) \/ TimeOut(r)
  <2> PICK stage \in {"sending", "transmitting", "failing", "waiting", "expired"} :
         pc' = [pc EXCEPT ![r] = stage] /\ outcome' = outcome
    BY <1>4 DEF SerializeParams, Transmit, FailToSend, Sent, TimeOut
  <2>1. status' = [status EXCEPT ![r] = StatusOf(r)']
    BY StatusesFrom
  <2>2. pc[r] \notin {"idle", "done"} /\ effect' = effect
    BY <1>4 DEF SerializeParams, Transmit, FailToSend, Sent, TimeOut
  <2>3. StatusOf(r) = "open" /\ StatusOf(r)' = "open"
    BY <2>2, StatusIs DEF StatusMeans
  <2> QED BY <2>1, <2>2, <2>3
<1> QED BY <1>1, <1>2, <1>3, <1>4 DEF CallerStep

\* Each step of a server's task executes the action, for the first time, or shows
\* nothing.
LEMMA ServerRefines ==
  ASSUME IInv, NEW r \in Request, ServerStep(r)
  PROVE  [Promise!Next]_Promise!vars
<1> DEFINE status == [q \in Request |-> StatusOf(q)]
<1>1. status' = status
  BY StatusesKept DEF ServerStep, RejectRequest, HandleRequest, FindNoHandler, SendResponse,
     SendError, FailToReply, caller
<1>2. CASE HandleRequest(r)
  <2>1. PICK result \in {"success", "failure"} : effect' = [effect EXCEPT ![r] = result]
    BY <1>2 DEF HandleRequest
  <2>2. serving[r] = "received"
    BY <1>2 DEF HandleRequest, Serve
  <2>3. effect[r] = "none" /\ pc[r] # "idle"
    BY <2>2 DEF IInv, EffectKnown, OnlyOnceAsked
  <2>4. status[r] # "unasked"
    BY <2>3 DEF StatusOf, IInv, OwnAnswer
  <2>5. Promise!Execute(r, result)
    BY <1>1, <2>1, <2>3, <2>4 DEF Promise!Execute
  <2> QED BY <2>5 DEF Promise!Next
<1>3. CASE ~ HandleRequest(r)
  <2>1. effect' = effect
    BY <1>3 DEF ServerStep, RejectRequest, FindNoHandler, SendResponse, SendError, FailToReply
  <2> QED BY <1>1, <2>1 DEF Promise!vars
<1> QED BY <1>2, <1>3

\* A request to a remote action, whatever is lost, late or reordered, has at most
\* one outcome, success only with its own result and after its action succeeded,
\* and the action is executed at most once: RequestResponse implements Rpc, but
\* for the fairness.
THEOREM ImplementsRpcSafety == Spec => ImplementsRpcSafely
<1>1. Init => Promise!Init
  BY StatusIs DEF Init, Promise!Init, StatusMeans
<1>2. IInv /\ [Next]_vars => [Promise!Next]_Promise!vars
  <2> SUFFICES ASSUME IInv, [Next]_vars PROVE [Promise!Next]_Promise!vars
    OBVIOUS
  <2>1. CASE \E r \in Request : InsertPending(r) \/ CallerStep(r)
    BY <2>1, CallerRefines
  <2>2. CASE \E r \in Request : ServerStep(r)
    BY <2>2, ServerRefines
  <2>3. CASE UNCHANGED <<pc, outcome, effect>>
    BY <2>3, StatusesKept DEF Promise!vars
  <2>4. ASSUME NEW m \in network, MessageStep(m) PROVE UNCHANGED <<pc, outcome, effect>>
    BY <2>4 DEF MessageStep, ReceiveRequest, ReceiveError, TakePending, DropLateResponse,
       caller, server
  <2>5. ASSUME NEW m \in completing, Complete(m) PROVE UNCHANGED <<pc, outcome, effect>>
    BY <2>5 DEF Complete, caller, server
  <2>6. UNCHANGED vars => UNCHANGED <<pc, outcome, effect>>
    BY DEF vars, caller, server
  <2> QED BY <2>1, <2>2, <2>3, <2>4, <2>5, <2>6 DEF Next
<1> QED
  BY Invariance, <1>1, <1>2, PTL DEF Spec, SafeSpec, ImplementsRpcSafely, Promise!SafeSpec

-----------------------------------------------------------------------------
(***************************************************************************)
(* How a change reaches the peers: NodeInfoSync, for any peers, items and  *)
(* finitely many calls.                                                    *)
(***************************************************************************)

\* The calls that have bumped the version; start() did it once before.
Bumped == {k \in Call : call[k].version # 0}

VersionInv ==
  /\ registry_version = Cardinality(Bumped) + 1
  /\ \A k \in Call : /\ call[k].pc \in {"idle", "changed"} => call[k].version = 0
                     /\ call[k].version <= registry_version

SyncInv == SyncTypeOK /\ VersionInv

\* The type of what a call and its task are, for the steps that change one of them.
CallRecord ==
  [pc : {"idle", "changed", "bumped", "aborting", "spawned", "done"},
   version : 0..(Cardinality(Call) + 1)]

TaskRecord ==
  [pc : {"none", "sleeping", "collected", "sending", "over"},
   info : NodeInfo, todo : SUBSET Peer]

LEMMA CallsCounted ==
  /\ Cardinality(Call) \in Nat
  /\ \A S : S \subseteq Call => /\ IsFiniteSet(S) /\ Cardinality(S) \in Nat
                               /\ Cardinality(S) <= Cardinality(Call)
BY ConstantsAssumption, FS_CardinalityType, FS_Subset

LEMMA SyncInitInv == SyncInit => SyncInv
<1> SUFFICES ASSUME SyncInit PROVE SyncInv OBVIOUS
<1> USE DEF SyncInit
<1>1. Cardinality(Call) \in Nat BY CallsCounted
<1>2. 0 \in 0..(Cardinality(Call) + 1) /\ 1 \in 1..(Cardinality(Call) + 1) BY <1>1
<1>3. local_node \in NodeInfo BY <1>2 DEF NodeInfo
<1>4. SyncTypeOK
  <2>1. call \in [Call -> CallRecord] BY <1>2 DEF CallRecord
  <2>2. task \in [Call -> TaskRecord] BY <1>3 DEF TaskRecord
  <2>3. link \in [Peer -> {"down", "handshaking", "up", "broken"}] OBVIOUS
  <2>4. known \in [Peer -> NodeInfo \cup {NoInfo}] BY <1>3
  <2>5. <<>> \in Seq(NodeInfo) OBVIOUS
  <2>6. inbox \in [Peer -> Seq(NodeInfo)] BY <2>5
  <2> QED BY <1>2, <1>3, <2>1, <2>2, <2>3, <2>4, <2>6 DEF SyncTypeOK, CallRecord, TaskRecord
<1>5. Bumped = {} BY DEF Bumped
<1>6. VersionInv BY <1>5, FS_EmptySet DEF VersionInv
<1> QED BY <1>4, <1>6 DEF SyncInv

\* A step that bumps no version leaves what the versions are.
LEMMA VersionStays ==
  ASSUME SyncInv, registry_version' = registry_version, call' \in [Call -> CallRecord],
         \A k \in Call : /\ call'[k].version = call[k].version
                         /\ call'[k].pc \in {"idle", "changed"} => call[k].pc \in {"idle", "changed"}
  PROVE  VersionInv'
<1>1. Bumped' = Bumped BY DEF Bumped
<1> QED BY <1>1 DEF VersionInv, SyncInv

LEMMA SyncStepInv == SyncInv /\ [SyncNext]_syncVars => SyncInv'
<1> SUFFICES ASSUME SyncInv, [SyncNext]_syncVars PROVE SyncInv' OBVIOUS
<1>0. /\ items \subseteq Item /\ registry_version \in 1..(Cardinality(Call) + 1)
      /\ call \in [Call -> CallRecord] /\ debounce \in [Handle -> Call \cup {NoCall}]
      /\ task \in [Call -> TaskRecord] /\ aborted \subseteq Call /\ local_node \in NodeInfo
      /\ link \in [Peer -> {"down", "handshaking", "up", "broken"}]
      /\ inbox \in [Peer -> Seq(NodeInfo)] /\ known \in [Peer -> NodeInfo \cup {NoInfo}]
      /\ situation \in Situation /\ VersionInv
  BY DEF SyncInv, SyncTypeOK, CallRecord, TaskRecord
<1> DEFINE Types ==
      /\ items' \subseteq Item /\ registry_version' \in 1..(Cardinality(Call) + 1)
      /\ call' \in [Call -> CallRecord] /\ debounce' \in [Handle -> Call \cup {NoCall}]
      /\ task' \in [Call -> TaskRecord] /\ aborted' \subseteq Call /\ local_node' \in NodeInfo
      /\ link' \in [Peer -> {"down", "handshaking", "up", "broken"}]
      /\ inbox' \in [Peer -> Seq(NodeInfo)] /\ known' \in [Peer -> NodeInfo \cup {NoInfo}]
      /\ situation' \in Situation
<1>t. Types => SyncTypeOK' BY DEF SyncTypeOK, CallRecord, TaskRecord
\* One call is given another pc, and nothing else about it.
<1>c. ASSUME NEW k \in Call, NEW to \in {"idle", "changed", "bumped", "aborting", "spawned", "done"},
             call' = [call EXCEPT ![k].pc = to]
      PROVE  /\ call' \in [Call -> CallRecord]
             /\ \A j \in Call : /\ call'[j].version = call[j].version
                                /\ call'[j].pc = IF j = k THEN to ELSE call[j].pc
  BY <1>0, <1>c DEF CallRecord
\* One task becomes another one.
<1>k. ASSUME NEW k \in Call, NEW new \in TaskRecord, task' = [task EXCEPT ![k] = new]
      PROVE  task' \in [Call -> TaskRecord]
  BY <1>0, <1>k
<1>v. ASSUME call' = call, registry_version' = registry_version PROVE VersionInv'
  BY <1>0, <1>v, VersionStays
<1>n. ASSUME NEW k \in Call
      PROVE  /\ \A to \in {"none", "sleeping", "collected", "sending", "over"} :
                  [task[k] EXCEPT !.pc = to] \in TaskRecord
             /\ [task[k] EXCEPT !.pc = "over", !.todo = {}] \in TaskRecord
             /\ [task[k] EXCEPT !.pc = "collected", !.info.items = items] \in TaskRecord
             /\ [task[k] EXCEPT !.pc = "sending", !.info.version = registry_version,
                                !.todo = {p \in Peer : link[p] # "down"}] \in TaskRecord
             /\ \A p \in Peer : [task[k] EXCEPT !.todo = @ \ {p}] \in TaskRecord
             /\ task[k].info \in NodeInfo
  <2>1. task[k] \in TaskRecord BY <1>0
  <2>2. registry_version \in 0..(Cardinality(Call) + 1) BY <1>0
  <2> QED BY <1>0, <2>1, <2>2 DEF TaskRecord, NodeInfo
<1>1. ASSUME NEW k \in Call, Change(k) PROVE SyncInv'
  <2>1. /\ call[k].pc = "idle"
        /\ \/ call' = [call EXCEPT ![k].pc = "changed"]
           \/ call' = [call EXCEPT ![k].pc = "done"]
        /\ \E i \in Item : items' = IF i \in items THEN items \ {i} ELSE items \cup {i}
        /\ UNCHANGED <<registry_version, local_node, situation, debounce, task, aborted,
                       link, inbox, known>>
    BY <1>1 DEF Change, peers
  <2>3. /\ call' \in [Call -> CallRecord]
        /\ \A j \in Call : /\ call'[j].version = call[j].version
                           /\ j # k => call'[j].pc = call[j].pc
    BY <1>c, <2>1
  <2>4. items' \subseteq Item BY <1>0, <2>1
  <2>5. VersionInv' BY <2>1, <2>3, VersionStays
  <2> QED BY <1>0, <1>t, <2>1, <2>3, <2>4, <2>5 DEF SyncInv
<1>2. ASSUME NEW k \in Call, BumpVersion(k) PROVE SyncInv'
  <2>1. /\ call[k].pc = "changed" /\ registry_version' = registry_version + 1
        /\ call' = [call EXCEPT ![k].pc = "bumped", ![k].version = registry_version + 1]
        /\ UNCHANGED <<items, local_node, situation, debounce, task, aborted,
                       link, inbox, known>>
    BY <1>2 DEF BumpVersion, peers
  <2>2. call[k].version = 0 BY <1>0, <2>1 DEF VersionInv
  <2>3. k \notin Bumped /\ Bumped \subseteq Call BY <2>2 DEF Bumped
  <2>4. Cardinality(Bumped \cup {k}) = Cardinality(Bumped) + 1
    BY <2>3, CallsCounted, FS_AddElement
  <2>5. Bumped \cup {k} \subseteq Call BY <2>3
  <2>6. Cardinality(Bumped) + 1 <= Cardinality(Call) /\ Cardinality(Bumped) \in Nat
        /\ Cardinality(Call) \in Nat
    BY <2>3, <2>4, <2>5, CallsCounted
  <2>7. registry_version + 1 \in 1..(Cardinality(Call) + 1) /\ registry_version \in Nat
        /\ registry_version + 1 \in 0..(Cardinality(Call) + 1) /\ registry_version + 1 # 0
    BY <1>0, <2>6 DEF VersionInv
  <2>8. /\ call' \in [Call -> CallRecord]
        /\ \A j \in Call : /\ call'[j].version = IF j = k THEN registry_version + 1 ELSE call[j].version
                           /\ call'[j].pc = IF j = k THEN "bumped" ELSE call[j].pc
    BY <1>0, <2>1, <2>7 DEF CallRecord
  <2>9. Bumped' = Bumped \cup {k} BY <2>7, <2>8 DEF Bumped
  <2>10. \A j \in Call : call[j].version \in Nat /\ call[j].version <= registry_version
    BY <1>0 DEF VersionInv, CallRecord
  <2>11. \A j \in Call : call'[j].version <= registry_version'
    BY <2>1, <2>7, <2>8, <2>10
  <2>12. VersionInv' BY <1>0, <2>1, <2>4, <2>8, <2>9, <2>11 DEF VersionInv
  <2> QED BY <1>0, <1>t, <2>1, <2>7, <2>8, <2>12 DEF SyncInv
<1>3. ASSUME NEW k \in Call, AbortKept(k) PROVE SyncInv'
  <2> DEFINE kept == debounce[HandleOf[k]]
  <2>1. /\ call[k].pc = "bumped" /\ call' = [call EXCEPT ![k].pc = "aborting"]
        /\ debounce' = [debounce EXCEPT ![HandleOf[k]] = NoCall]
        /\ \/ UNCHANGED <<task, aborted>>
           \/ kept # NoCall /\ task' = [task EXCEPT ![kept].pc = "over"] /\ UNCHANGED aborted
           \/ kept # NoCall /\ aborted' = aborted \cup {kept} /\ UNCHANGED task
        /\ UNCHANGED <<items, registry_version, local_node, situation, link, inbox, known>>
    BY <1>3 DEF AbortKept, node, peers
  <2>2. /\ call' \in [Call -> CallRecord]
        /\ \A j \in Call : /\ call'[j].version = call[j].version
                           /\ call'[j].pc = IF j = k THEN "aborting" ELSE call[j].pc
    BY <1>c, <2>1
  <2>3. debounce' \in [Handle -> Call \cup {NoCall}] BY <1>0, <2>1
  <2>4. HandleOf[k] \in Handle /\ (kept # NoCall => kept \in Call) BY <1>0 DEF Handle
  <2>5. task' \in [Call -> TaskRecord] /\ aborted' \subseteq Call
    <3>1. CASE UNCHANGED <<task, aborted>> BY <1>0, <3>1
    <3>2. CASE kept # NoCall /\ task' = [task EXCEPT ![kept].pc = "over"] /\ UNCHANGED aborted
      <4> DEFINE new == [task[kept] EXCEPT !.pc = "over"]
      <4>1. kept \in Call BY <2>4, <3>2
      <4>2. new \in TaskRecord BY <1>n, <4>1
      <4>3. task' = [task EXCEPT ![kept] = new] BY <1>0, <3>2
      <4> HIDE DEF new, kept
      <4>4. task' \in [Call -> TaskRecord] BY <1>k, <4>1, <4>2, <4>3
      <4> QED BY <1>0, <3>2, <4>4
    <3>3. CASE kept # NoCall /\ aborted' = aborted \cup {kept} /\ UNCHANGED task
      BY <1>0, <2>4, <3>3
    <3> QED BY <2>1, <3>1, <3>2, <3>3
  <2>6. VersionInv' BY <2>1, <2>2, VersionStays
  <2> QED BY <1>0, <1>t, <2>1, <2>2, <2>3, <2>5, <2>6 DEF SyncInv
<1>4. ASSUME NEW k \in Call, SpawnTask(k) PROVE SyncInv'
  <2> DEFINE new == [task[k] EXCEPT !.pc = "sleeping"]
  <2>1. /\ call[k].pc = "aborting" /\ call' = [call EXCEPT ![k].pc = "spawned"]
        /\ task' = [task EXCEPT ![k] = new]
        /\ UNCHANGED <<items, registry_version, local_node, situation, debounce, aborted,
                       link, inbox, known>>
    BY <1>4 DEF SpawnTask, node, peers
  <2>2. new \in TaskRecord BY <1>n
  <2> HIDE DEF new
  <2>3. task' \in [Call -> TaskRecord] BY <1>k, <2>1, <2>2
  <2>4. /\ call' \in [Call -> CallRecord]
        /\ \A j \in Call : /\ call'[j].version = call[j].version
                           /\ call'[j].pc = IF j = k THEN "spawned" ELSE call[j].pc
    BY <1>c, <2>1
  <2>5. VersionInv' BY <2>1, <2>4, VersionStays
  <2> QED BY <1>0, <1>t, <2>1, <2>3, <2>4, <2>5 DEF SyncInv
<1>5. ASSUME NEW k \in Call, StoreTask(k) PROVE SyncInv'
  <2>1. /\ call[k].pc = "spawned" /\ call' = [call EXCEPT ![k].pc = "done"]
        /\ debounce' = [debounce EXCEPT ![HandleOf[k]] = k]
        /\ UNCHANGED <<items, registry_version, local_node, situation, task, aborted,
                       link, inbox, known>>
    BY <1>5 DEF StoreTask, node, peers
  <2>2. /\ call' \in [Call -> CallRecord]
        /\ \A j \in Call : /\ call'[j].version = call[j].version
                           /\ call'[j].pc = IF j = k THEN "done" ELSE call[j].pc
    BY <1>c, <2>1
  <2>3. debounce' \in [Handle -> Call \cup {NoCall}] BY <1>0, <2>1
  <2>4. VersionInv' BY <2>1, <2>2, VersionStays
  <2> QED BY <1>0, <1>t, <2>1, <2>2, <2>3, <2>4 DEF SyncInv
\* The steps of a task and of a peer leave the calls and the version.
<1>6. ASSUME NEW k \in Call, NEW new \in TaskRecord, task' = [task EXCEPT ![k] = new],
             inbox' \in [Peer -> Seq(NodeInfo)],
             UNCHANGED <<items, registry_version, local_node, situation, call, debounce, aborted,
                         link, known>>
      PROVE  SyncInv'
  <2>1. task' \in [Call -> TaskRecord] BY <1>6, <1>k
  <2>2. VersionInv' BY <1>6, <1>v
  <2> QED BY <1>0, <1>6, <1>t, <2>1, <2>2 DEF SyncInv
<1>7. ASSUME NEW k \in Call, TaskStep(k) PROVE SyncInv'
  <2>1. CASE Collect(k)
    <3> DEFINE new == [task[k] EXCEPT !.pc = "collected", !.info.items = items]
    <3>1. new \in TaskRecord BY <1>n
    <3>2. task' = [task EXCEPT ![k] = new]
          /\ UNCHANGED <<items, registry_version, local_node, situation, call, debounce,
                         aborted, link, inbox, known>>
      BY <2>1 DEF Collect, node, peers
    <3> HIDE DEF new
    <3> QED BY <1>0, <1>6, <3>1, <3>2
  <2>2. CASE LoadVersion(k)
    <3> DEFINE new == [task[k] EXCEPT !.pc = "sending", !.info.version = registry_version,
                                      !.todo = {p \in Peer : link[p] # "down"}]
    <3>1. new \in TaskRecord BY <1>n
    <3>2. task' = [task EXCEPT ![k] = new]
          /\ UNCHANGED <<items, registry_version, local_node, situation, call, debounce,
                         aborted, link, inbox, known>>
      BY <2>2 DEF LoadVersion, node, peers
    <3> HIDE DEF new
    <3> QED BY <1>0, <1>6, <3>1, <3>2
  <2>3. CASE EndTask(k)
    <3> DEFINE new == [task[k] EXCEPT !.pc = "over"]
    <3>1. new \in TaskRecord BY <1>n
    <3>2. task' = [task EXCEPT ![k] = new]
          /\ UNCHANGED <<items, registry_version, local_node, situation, call, debounce,
                         aborted, link, inbox, known>>
      BY <2>3 DEF EndTask, node, peers
    <3> HIDE DEF new
    <3> QED BY <1>0, <1>6, <3>1, <3>2
  <2>4. CASE AbortTask(k) \/ \E p \in Peer : FailToSendUpdate(k, p)
    <3> DEFINE new == [task[k] EXCEPT !.pc = "over", !.todo = {}]
    <3>1. new \in TaskRecord BY <1>n
    <3>2. task' = [task EXCEPT ![k] = new]
          /\ UNCHANGED <<items, registry_version, local_node, situation, call, debounce,
                         aborted, link, inbox, known>>
      BY <2>4 DEF AbortTask, FailToSendUpdate, node, peers
    <3> HIDE DEF new
    <3> QED BY <1>0, <1>6, <3>1, <3>2
  <2>5. ASSUME NEW p \in Peer, SendUpdate(k, p) PROVE SyncInv'
    <3> DEFINE new == [task[k] EXCEPT !.todo = @ \ {p}]
               list == Append(inbox[p], task[k].info)
    <3>1. new \in TaskRecord BY <1>n
    <3>2. /\ task' = [task EXCEPT ![k] = new] /\ inbox' = [inbox EXCEPT ![p] = list]
          /\ UNCHANGED <<items, registry_version, local_node, situation, call, debounce,
                         aborted, link, known>>
      BY <2>5 DEF SendUpdate, node
    <3>3. list \in Seq(NodeInfo)
      <4>1. task[k].info \in NodeInfo /\ inbox[p] \in Seq(NodeInfo) BY <1>0, <1>n
      <4> QED BY <4>1
    <3> HIDE DEF new, list
    <3>4. inbox' \in [Peer -> Seq(NodeInfo)] BY <1>0, <3>2, <3>3
    <3> QED BY <1>6, <3>1, <3>2, <3>4
  <2>6. ASSUME NEW p \in Peer, StopUpdate(k, p) PROVE SyncInv'
    <3> DEFINE new == [task[k] EXCEPT !.pc = "over", !.todo = {}]
               list == Append(inbox[p], task[k].info)
    <3>1. new \in TaskRecord BY <1>n
    <3>2. /\ task' = [task EXCEPT ![k] = new] /\ inbox' = [inbox EXCEPT ![p] = list]
          /\ UNCHANGED <<items, registry_version, local_node, situation, call, debounce,
                         aborted, link, known>>
      BY <2>6 DEF StopUpdate, node
    <3>3. list \in Seq(NodeInfo)
      <4>1. task[k].info \in NodeInfo /\ inbox[p] \in Seq(NodeInfo) BY <1>0, <1>n
      <4> QED BY <4>1
    <3> HIDE DEF new, list
    <3>4. inbox' \in [Peer -> Seq(NodeInfo)] BY <1>0, <3>2, <3>3
    <3> QED BY <1>6, <3>1, <3>2, <3>4
  <2> QED BY <1>7, <2>1, <2>2, <2>3, <2>4, <2>5, <2>6 DEF TaskStep
<1>8. ASSUME link' \in [Peer -> {"down", "handshaking", "up", "broken"}],
             inbox' \in [Peer -> Seq(NodeInfo)], known' \in [Peer -> NodeInfo \cup {NoInfo}],
             UNCHANGED <<items, registry_version, local_node, situation, call, debounce, task,
                         aborted>>
      PROVE  SyncInv'
  <2>1. VersionInv' BY <1>8, <1>v
  <2> QED BY <1>0, <1>8, <1>t, <2>1 DEF SyncInv
<1>9. ASSUME NEW p \in Peer, Connect(p) PROVE SyncInv'
  BY <1>0, <1>8, <1>9 DEF Connect, node
<1>10. ASSUME NEW p \in Peer, Handshake(p) PROVE SyncInv'
  <2>1. Append(inbox[p], local_node) \in Seq(NodeInfo) BY <1>0
  <2> QED BY <1>0, <1>8, <1>10, <2>1 DEF Handshake, node
<1>11. ASSUME NEW p \in Peer, Break(p) PROVE SyncInv'
  <2>1. <<>> \in Seq(NodeInfo) OBVIOUS
  <2> QED BY <1>0, <1>8, <1>11, <2>1 DEF Break, node
<1>12. ASSUME NEW p \in Peer, ReceiveInfo(p) PROVE SyncInv'
  <2>1. inbox[p] \in Seq(NodeInfo) /\ inbox[p] # <<>> BY <1>0, <1>12 DEF ReceiveInfo
  <2>2. Head(inbox[p]) \in NodeInfo /\ Tail(inbox[p]) \in Seq(NodeInfo) BY <2>1
  <2>3. known' = [known EXCEPT ![p] = Head(inbox[p])] \/ known' = known
    BY <1>12 DEF ReceiveInfo
  <2> QED BY <1>0, <1>8, <1>12, <2>2, <2>3 DEF ReceiveInfo, node
<1>13. ASSUME UNCHANGED syncVars PROVE SyncInv'
  <2>1. VersionInv' BY <1>13, <1>v DEF syncVars
  <2> QED BY <1>0, <1>13, <1>t, <2>1 DEF SyncInv, syncVars
<1> QED BY <1>1, <1>2, <1>3, <1>4, <1>5, <1>7, <1>9, <1>10, <1>11, <1>12, <1>13
        DEF SyncNext, CallStep, PeerStep

\* Every variable of NodeInfoSync keeps its type: the version stays within one bump for
\* start() and one for each call.
THEOREM SyncTypeCorrect == SyncSpec => []SyncTypeOK
<1>1. SyncInv => SyncTypeOK BY DEF SyncInv
<1> QED BY <1>1, SyncInitInv, SyncStepInv, PTL DEF SyncSpec

-----------------------------------------------------------------------------
(***************************************************************************)
(* What the two liveness properties of NodeInfoSync promise is not lost on *)
(* the way: once nothing moves any more, it has arrived.                   *)
(***************************************************************************)

\* No call is on its way, no notification, and nothing to this peer.
Quiet(p) == Settled /\ (\A k \in Call : ~Live(k)) /\ inbox[p] = <<>>

\* A task is spawned by the call that has its name, and what is aborted is past its sleep.
TaskInv ==
  /\ \A k \in Call : task[k].pc # "none" => call[k].pc \in {"spawned", "done"}
  /\ \A k \in aborted : task[k].pc \notin {"none", "sleeping"}
  /\ "breaks" \notin situation => \A p \in Peer : link[p] # "broken"

\* A call or its task that will send a peer this version or a newer one.
Brings(k, version, p) ==
  \/ call[k].pc \in {"bumped", "aborting"}
  \/ /\ k \notin aborted
     /\ \/ task[k].pc \in {"sleeping", "collected"}
        \/ task[k].pc = "sending" /\ p \in task[k].todo /\ task[k].info.version >= version

Knows(p, version) == known[p] # NoInfo /\ known[p].version >= version

\* The version, or a newer one, has come to a peer or is coming.
Reaches(version, p) ==
  \/ Knows(p, version)
  \/ \E i \in DOMAIN inbox[p] : inbox[p][i].version >= version
  \/ \E k \in Call : Brings(k, version, p)

OnItsWay(k, p) ==
  /\ "breaks" \notin situation /\ link[p] = "up" /\ call[k].pc \notin {"idle", "changed"}
  /\ Reaches(call[k].version, p)

\* The newest a peer has been sent.
Newest(p) == IF inbox[p] = <<>> THEN known[p] ELSE inbox[p][Len(inbox[p])]

\* A call, or its task, that has not yet sent a peer what it has to.
Owes(k, p) ==
  \/ call[k].pc \in {"bumped", "aborting"}
  \/ task[k].pc \in {"sleeping", "collected"}
  \/ task[k].pc = "sending" /\ p \in task[k].todo

Active(k) == Busy(k) \/ Live(k)

\* When the calls come far apart, and all peers were connected before:
ApartInv ==
  /\ aborted = {}
  /\ \A j, k \in Call : Active(j) /\ Active(k) => j = k
  /\ \A k \in Call :
       /\ task[k].pc \in {"collected", "sending"} => task[k].info.items = items
       /\ task[k].pc = "sending" => task[k].info.version = registry_version

PeerInv(p) ==
  /\ link[p] = "up" /\ known[p] # NoInfo
  /\ \A i \in DOMAIN inbox[p] : known[p].version < inbox[p][i].version
  /\ \A i, j \in DOMAIN inbox[p] : i < j => inbox[p][i].version < inbox[p][j].version
  /\ Newest(p).version <= registry_version
  /\ \A k \in Call : Owes(k, p) => Newest(p).version < registry_version
  /\ (\A k \in Call : call[k].pc # "changed" /\ ~Owes(k, p)) => Newest(p).items = items

AllApart == Running = Handle /\ situation = {"exclusive", "apart"}

LatestInv == AllApart => ApartInv /\ \A p \in Peer : PeerInv(p)

\* What the steps make of a call and of a task, field by field.
LEMMA CallBecomes ==
  ASSUME SyncInv, NEW k \in Call
  PROVE  \A to : call' = [call EXCEPT ![k].pc = to]
           => /\ call'[k].pc = to /\ call'[k].version = call[k].version
              /\ \A j \in Call : j # k => call'[j] = call[j]
<1>1. call \in [Call -> CallRecord] BY DEF SyncInv, SyncTypeOK, CallRecord
<1>2. call[k] \in CallRecord BY <1>1
<1>3. ASSUME NEW to, call' = [call EXCEPT ![k].pc = to]
      PROVE  /\ call'[k].pc = to /\ call'[k].version = call[k].version
             /\ \A j \in Call : j # k => call'[j] = call[j]
  <2> DEFINE new == [call[k] EXCEPT !.pc = to]
  <2>1. call' = [call EXCEPT ![k] = new] BY <1>3
  <2>2. new.pc = to /\ new.version = call[k].version BY <1>2 DEF CallRecord
  <2> HIDE DEF new
  <2> QED BY <1>1, <2>1, <2>2
<1> QED BY <1>3

LEMMA TaskBecomes ==
  ASSUME SyncInv, NEW k \in Call
  PROVE  /\ \A to : task' = [task EXCEPT ![k].pc = to]
              => /\ task'[k].pc = to /\ task'[k].info = task[k].info
                 /\ task'[k].todo = task[k].todo
                 /\ \A j \in Call : j # k => task'[j] = task[j]
         /\ \A to, rest : task' = [task EXCEPT ![k].pc = to, ![k].todo = rest]
              => /\ task'[k].pc = to /\ task'[k].info = task[k].info /\ task'[k].todo = rest
                 /\ \A j \in Call : j # k => task'[j] = task[j]
         /\ \A p : task' = [task EXCEPT ![k].todo = @ \ {p}]
              => /\ task'[k].pc = task[k].pc /\ task'[k].info = task[k].info
                 /\ task'[k].todo = task[k].todo \ {p}
                 /\ \A j \in Call : j # k => task'[j] = task[j]
         /\ Collect(k)
              => /\ task'[k].pc = "collected" /\ task'[k].info.items = items
                 /\ \A j \in Call : j # k => task'[j] = task[j]
         /\ LoadVersion(k)
              => /\ task'[k].pc = "sending" /\ task'[k].todo = {p \in Peer : link[p] # "down"}
                 /\ task'[k].info.version = registry_version
                 /\ task'[k].info.items = task[k].info.items
                 /\ \A j \in Call : j # k => task'[j] = task[j]
<1>1. task \in [Call -> TaskRecord] BY DEF SyncInv, SyncTypeOK, TaskRecord
<1>2. task[k] \in TaskRecord /\ task[k].info \in NodeInfo BY <1>1 DEF TaskRecord
<1>3. ASSUME NEW new, task' = [task EXCEPT ![k] = new]
      PROVE  task'[k] = new /\ \A j \in Call : j # k => task'[j] = task[j]
  BY <1>1, <1>3
<1>4. ASSUME NEW to, task' = [task EXCEPT ![k].pc = to]
      PROVE  /\ task'[k].pc = to /\ task'[k].info = task[k].info /\ task'[k].todo = task[k].todo
             /\ \A j \in Call : j # k => task'[j] = task[j]
  <2> DEFINE new == [task[k] EXCEPT !.pc = to]
  <2>1. task' = [task EXCEPT ![k] = new] BY <1>4
  <2>2. new.pc = to /\ new.info = task[k].info /\ new.todo = task[k].todo
    BY <1>2 DEF TaskRecord
  <2> HIDE DEF new
  <2> QED BY <1>3, <2>1, <2>2
<1>5. ASSUME NEW to, NEW rest, task' = [task EXCEPT ![k].pc = to, ![k].todo = rest]
      PROVE  /\ task'[k].pc = to /\ task'[k].info = task[k].info /\ task'[k].todo = rest
             /\ \A j \in Call : j # k => task'[j] = task[j]
  <2> DEFINE new == [task[k] EXCEPT !.pc = to, !.todo = rest]
  <2>1. task' = [task EXCEPT ![k] = new] BY <1>1, <1>5
  <2>2. new.pc = to /\ new.info = task[k].info /\ new.todo = rest
    BY <1>2 DEF TaskRecord
  <2> HIDE DEF new
  <2> QED BY <1>3, <2>1, <2>2
<1>6. ASSUME NEW p, task' = [task EXCEPT ![k].todo = @ \ {p}]
      PROVE  /\ task'[k].pc = task[k].pc /\ task'[k].info = task[k].info
             /\ task'[k].todo = task[k].todo \ {p}
             /\ \A j \in Call : j # k => task'[j] = task[j]
  <2> DEFINE new == [task[k] EXCEPT !.todo = @ \ {p}]
  <2>1. task' = [task EXCEPT ![k] = new] BY <1>6
  <2>2. /\ new.pc = task[k].pc /\ new.info = task[k].info
        /\ new.todo = task[k].todo \ {p}
    BY <1>2 DEF TaskRecord
  <2> HIDE DEF new
  <2> QED BY <1>3, <2>1, <2>2
<1>7. ASSUME Collect(k)
      PROVE  /\ task'[k].pc = "collected" /\ task'[k].info.items = items
             /\ \A j \in Call : j # k => task'[j] = task[j]
  <2> DEFINE new == [task[k] EXCEPT !.pc = "collected", !.info.items = items]
  <2>1. task' = [task EXCEPT ![k] = new] BY <1>1, <1>7 DEF Collect
  <2>2. new.pc = "collected" /\ new.info.items = items BY <1>2 DEF TaskRecord, NodeInfo
  <2> HIDE DEF new
  <2> QED BY <1>3, <2>1, <2>2
<1>8. ASSUME LoadVersion(k)
      PROVE  /\ task'[k].pc = "sending" /\ task'[k].todo = {p \in Peer : link[p] # "down"}
             /\ task'[k].info.version = registry_version
             /\ task'[k].info.items = task[k].info.items
             /\ \A j \in Call : j # k => task'[j] = task[j]
  <2> DEFINE new == [task[k] EXCEPT !.pc = "sending", !.info.version = registry_version,
                                    !.todo = {p \in Peer : link[p] # "down"}]
  <2>1. task' = [task EXCEPT ![k] = new] BY <1>1, <1>8 DEF LoadVersion
  <2>2. /\ new.pc = "sending" /\ new.todo = {p \in Peer : link[p] # "down"}
        /\ new.info.version = registry_version /\ new.info.items = task[k].info.items
    BY <1>2 DEF TaskRecord, NodeInfo
  <2> HIDE DEF new
  <2> QED BY <1>3, <2>1, <2>2
<1> QED BY <1>4, <1>5, <1>6, <1>7, <1>8

LEMMA TaskInitInv == SyncInit => TaskInv
<1> SUFFICES ASSUME SyncInit PROVE TaskInv OBVIOUS
<1> USE DEF SyncInit
<1>1. \A k \in Call : task[k].pc = "none" OBVIOUS
<1>2. \A p \in Peer : link[p] # "broken"
  <2>1. CASE "late" \in situation BY <2>1
  <2>2. CASE "late" \notin situation BY <2>2
  <2> QED BY <2>1, <2>2
<1> QED BY <1>1, <1>2 DEF TaskInv

LEMMA TaskStepInv == SyncInv /\ TaskInv /\ [SyncNext]_syncVars => TaskInv'
<1> SUFFICES ASSUME SyncInv, TaskInv, [SyncNext]_syncVars PROVE TaskInv' OBVIOUS
<1>0. /\ debounce \in [Handle -> Call \cup {NoCall}] /\ aborted \subseteq Call
      /\ call \in [Call -> CallRecord]
      /\ link \in [Peer -> {"down", "handshaking", "up", "broken"}]
  BY DEF SyncInv, SyncTypeOK, CallRecord
<1> USE DEF TaskInv
<1>1. ASSUME NEW k \in Call, Change(k) PROVE TaskInv'
  <2>1. /\ call[k].pc = "idle"
        /\ \A j \in Call : j # k => call'[j] = call[j]
        /\ UNCHANGED <<task, aborted, link, situation>>
    BY <1>0, <1>1 DEF Change, peers
  <2> QED BY <1>0, <2>1
<1>2. ASSUME NEW k \in Call, BumpVersion(k) PROVE TaskInv'
  <2>1. /\ call[k].pc = "changed"
        /\ \A j \in Call : j # k => call'[j] = call[j]
        /\ UNCHANGED <<task, aborted, link, situation>>
    BY <1>0, <1>2 DEF BumpVersion, peers
  <2> QED BY <1>0, <2>1
<1>3. ASSUME NEW k \in Call, AbortKept(k) PROVE TaskInv'
  <2> DEFINE kept == debounce[HandleOf[k]]
  <2>1. /\ call[k].pc = "bumped" /\ call' = [call EXCEPT ![k].pc = "aborting"]
        /\ \/ UNCHANGED <<task, aborted>>
           \/ /\ kept # NoCall /\ Live(kept) /\ UNCHANGED aborted
              /\ task[kept].pc = "sleeping" /\ task' = [task EXCEPT ![kept].pc = "over"]
           \/ /\ kept # NoCall /\ Live(kept) /\ UNCHANGED task
              /\ task[kept].pc # "sleeping" /\ aborted' = aborted \cup {kept}
        /\ UNCHANGED <<situation, link>>
    BY <1>3 DEF AbortKept, node, peers
  <2>2. \A j \in Call : j # k => call'[j] = call[j] BY <2>1, CallBecomes
  <2>3. kept # NoCall => kept \in Call BY <1>0 DEF Handle
  <2>4. task[k].pc = "none" BY <2>1
  <2> HIDE DEF kept
  <2>5. CASE UNCHANGED <<task, aborted>> BY <1>0, <2>1, <2>2, <2>4, <2>5
  <2>6. CASE /\ kept # NoCall /\ Live(kept) /\ UNCHANGED aborted
             /\ task[kept].pc = "sleeping" /\ task' = [task EXCEPT ![kept].pc = "over"]
    <3>1. kept \in Call /\ kept # k BY <2>3, <2>4, <2>6
    <3>2. task'[kept].pc = "over" /\ \A j \in Call : j # kept => task'[j] = task[j]
      BY <2>6, <3>1, TaskBecomes
    <3> QED BY <1>0, <2>1, <2>2, <2>4, <2>6, <3>1, <3>2
  <2>7. CASE /\ kept # NoCall /\ Live(kept) /\ UNCHANGED task
             /\ task[kept].pc # "sleeping" /\ aborted' = aborted \cup {kept}
    <3>1. task[kept].pc \notin {"none", "sleeping"} BY <2>7 DEF Live
    <3> QED BY <1>0, <2>1, <2>2, <2>4, <2>7, <3>1
  <2> QED BY <2>1, <2>5, <2>6, <2>7
<1>4. ASSUME NEW k \in Call, SpawnTask(k) PROVE TaskInv'
  <2>1. /\ call[k].pc = "aborting" /\ call' = [call EXCEPT ![k].pc = "spawned"]
        /\ task' = [task EXCEPT ![k].pc = "sleeping"]
        /\ UNCHANGED <<aborted, situation, link>>
    BY <1>4 DEF SpawnTask, node, peers
  <2>2. call'[k].pc = "spawned" /\ \A j \in Call : j # k => call'[j] = call[j]
    BY <2>1, CallBecomes
  <2>3. task'[k].pc = "sleeping" /\ \A j \in Call : j # k => task'[j] = task[j]
    BY <2>1, TaskBecomes
  <2>4. k \notin aborted BY <2>1
  <2> QED BY <1>0, <2>1, <2>2, <2>3, <2>4
<1>5. ASSUME NEW k \in Call, StoreTask(k) PROVE TaskInv'
  <2>1. /\ call[k].pc = "spawned" /\ call' = [call EXCEPT ![k].pc = "done"]
        /\ UNCHANGED <<task, aborted, situation, link>>
    BY <1>5 DEF StoreTask, node, peers
  <2>2. call'[k].pc = "done" /\ \A j \in Call : j # k => call'[j] = call[j]
    BY <2>1, CallBecomes
  <2> QED BY <1>0, <2>1, <2>2
<1>6. ASSUME NEW k \in Call, TaskStep(k) PROVE TaskInv'
  <2>1. UNCHANGED <<call, aborted, situation, link>>
    BY <1>6 DEF TaskStep, Collect, LoadVersion, EndTask, AbortTask, SendUpdate,
                FailToSendUpdate, StopUpdate, node, peers
  <2>2. task[k].pc \in {"sleeping", "collected", "sending"}
    BY <1>6 DEF TaskStep, Collect, LoadVersion, EndTask, AbortTask, SendUpdate,
                FailToSendUpdate, StopUpdate
  <2>3. /\ task'[k].pc \in {"collected", "sending", "over"}
        /\ \A j \in Call : j # k => task'[j] = task[j]
    <3>1. CASE Collect(k) BY <3>1, TaskBecomes
    <3>2. CASE LoadVersion(k) BY <3>2, TaskBecomes
    <3>3. CASE EndTask(k) BY <3>3, TaskBecomes DEF EndTask
    <3>4. CASE AbortTask(k) \/ \E p \in Peer : FailToSendUpdate(k, p) \/ StopUpdate(k, p)
      BY <3>4, TaskBecomes DEF AbortTask, FailToSendUpdate, StopUpdate
    <3>5. CASE \E p \in Peer : SendUpdate(k, p)
      BY <3>5, TaskBecomes DEF SendUpdate
    <3> QED BY <1>6, <3>1, <3>2, <3>3, <3>4, <3>5 DEF TaskStep
  <2> QED BY <1>0, <2>1, <2>2, <2>3
<1>7. ASSUME NEW p \in Peer, Connect(p) \/ PeerStep(p) \/ Break(p) PROVE TaskInv'
  <2>1. UNCHANGED <<call, task, aborted, situation>>
    BY <1>7 DEF Connect, PeerStep, Handshake, ReceiveInfo, Break, node
  <2>2. "breaks" \notin situation => \A q \in Peer : link'[q] # "broken"
    BY <1>0, <1>7 DEF Connect, PeerStep, Handshake, ReceiveInfo, Break
  <2> QED BY <1>0, <2>1, <2>2
<1>8. CASE UNCHANGED syncVars BY <1>8 DEF syncVars
<1> QED BY <1>1, <1>2, <1>3, <1>4, <1>5, <1>6, <1>7, <1>8 DEF SyncNext, CallStep

\* What has come to a peer, or is coming, is not lost on the way: neither a
\* notification that is aborted nor one that is overtaken takes it away.
LEMMA ReachesStays ==
  ASSUME SyncInv, TaskInv, NEW p \in Peer, NEW version \in Nat,
         "breaks" \notin situation, link[p] = "up", version <= registry_version,
         Reaches(version, p), [SyncNext]_syncVars
  PROVE  Reaches(version, p)' /\ link'[p] = "up"
<1>0. /\ debounce \in [Handle -> Call \cup {NoCall}] /\ aborted \subseteq Call
      /\ call \in [Call -> CallRecord] /\ task \in [Call -> TaskRecord]
      /\ link \in [Peer -> {"down", "handshaking", "up", "broken"}]
      /\ inbox \in [Peer -> Seq(NodeInfo)] /\ known \in [Peer -> NodeInfo \cup {NoInfo}]
      /\ local_node \in NodeInfo /\ registry_version \in Nat
      /\ \A info \in NodeInfo : info.version \in Nat
  <2>1. Cardinality(Call) \in Nat BY CallsCounted
  <2>2. \A info \in NodeInfo : info.version \in Nat BY <2>1 DEF NodeInfo
  <2>3. registry_version \in Nat BY <2>1 DEF SyncInv, SyncTypeOK
  <2> QED BY <2>2, <2>3 DEF SyncInv, SyncTypeOK, CallRecord, TaskRecord
\* As long as the peer and its messages are left alone:
<1>a. ASSUME UNCHANGED <<known, inbox>>,
             \A k \in Call : Brings(k, version, p) => \E j \in Call : Brings(j, version, p)'
      PROVE  Reaches(version, p)'
  BY <1>a DEF Reaches, Knows
<1>1. ASSUME NEW k \in Call, Change(k) PROVE Reaches(version, p)' /\ link'[p] = "up"
  <2>1. /\ call[k].pc = "idle"
        /\ \A j \in Call : j # k => call'[j] = call[j]
        /\ UNCHANGED <<task, aborted, link, inbox, known>>
    BY <1>0, <1>1 DEF Change, peers
  <2>2. task[k].pc = "none" BY <2>1 DEF TaskInv
  <2>3. ASSUME NEW j \in Call, Brings(j, version, p) PROVE Brings(j, version, p)'
    BY <2>1, <2>2, <2>3 DEF Brings
  <2> QED BY <1>a, <2>1, <2>3
<1>2. ASSUME NEW k \in Call, BumpVersion(k) PROVE Reaches(version, p)' /\ link'[p] = "up"
  <2>1. /\ call'[k].pc = "bumped" /\ UNCHANGED <<link, inbox, known>>
    BY <1>0, <1>2 DEF BumpVersion, peers, CallRecord
  <2>2. Brings(k, version, p)' BY <2>1 DEF Brings
  <2> QED BY <1>a, <2>1, <2>2
<1>3. ASSUME NEW k \in Call, AbortKept(k) PROVE Reaches(version, p)' /\ link'[p] = "up"
  <2>1. call' = [call EXCEPT ![k].pc = "aborting"] /\ UNCHANGED <<link, inbox, known>>
    BY <1>3 DEF AbortKept, peers
  <2>2. call'[k].pc = "aborting" BY <2>1, CallBecomes
  <2>3. Brings(k, version, p)' BY <2>2 DEF Brings
  <2> QED BY <1>a, <2>1, <2>3
<1>4. ASSUME NEW k \in Call, SpawnTask(k) PROVE Reaches(version, p)' /\ link'[p] = "up"
  <2>1. /\ call[k].pc = "aborting" /\ task' = [task EXCEPT ![k].pc = "sleeping"]
        /\ UNCHANGED <<aborted, link, inbox, known>>
    BY <1>4 DEF SpawnTask, node, peers
  <2>2. task'[k].pc = "sleeping" BY <2>1, TaskBecomes
  <2>3. k \notin aborted' BY <2>1 DEF TaskInv
  <2>4. Brings(k, version, p)' BY <2>2, <2>3 DEF Brings
  <2> QED BY <1>a, <2>1, <2>4
<1>5. ASSUME NEW k \in Call, StoreTask(k) PROVE Reaches(version, p)' /\ link'[p] = "up"
  <2>1. /\ call[k].pc = "spawned" /\ call' = [call EXCEPT ![k].pc = "done"]
        /\ UNCHANGED <<task, aborted, link, inbox, known>>
    BY <1>5 DEF StoreTask, node, peers
  <2>2. \A j \in Call : j # k => call'[j] = call[j] BY <2>1, CallBecomes
  <2>3. ASSUME NEW j \in Call, Brings(j, version, p) PROVE Brings(j, version, p)'
    BY <2>1, <2>2, <2>3 DEF Brings
  <2> QED BY <1>a, <2>1, <2>3
<1>6. ASSUME NEW k \in Call, Collect(k) \/ LoadVersion(k)
      PROVE  Reaches(version, p)' /\ link'[p] = "up"
  <2>1. UNCHANGED <<call, aborted, link, inbox, known>>
    BY <1>6 DEF Collect, LoadVersion, node, peers
  <2>2. /\ task[k].pc \in {"sleeping", "collected"}
        /\ \/ task'[k].pc = "collected"
           \/ /\ task'[k].pc = "sending" /\ task'[k].info.version = registry_version
              /\ task'[k].todo = {q \in Peer : link[q] # "down"}
        /\ \A j \in Call : j # k => task'[j] = task[j]
    <3>1. CASE Collect(k) BY <3>1, TaskBecomes DEF Collect
    <3>2. CASE LoadVersion(k) BY <3>2, TaskBecomes DEF LoadVersion
    <3> QED BY <1>6, <3>1, <3>2
  <2>3. ASSUME NEW j \in Call, Brings(j, version, p) PROVE Brings(j, version, p)'
    <3>1. CASE j # k BY <2>1, <2>2, <2>3, <3>1 DEF Brings
    <3>2. CASE j = k
      <4>1. task'[k].pc = "sending" => p \in task'[k].todo /\ task'[k].info.version >= version
        BY <1>0, <2>2
      <4> QED BY <2>1, <2>2, <2>3, <3>2, <4>1 DEF Brings
    <3> QED BY <3>1, <3>2
  <2> QED BY <1>a, <2>1, <2>3
<1>7. ASSUME NEW k \in Call, EndTask(k) \/ AbortTask(k)
      PROVE  Reaches(version, p)' /\ link'[p] = "up"
  <2>1. UNCHANGED <<call, aborted, link, inbox, known>>
    BY <1>7 DEF EndTask, AbortTask, node, peers
  <2>2. /\ task[k].pc = "sending" /\ (task[k].todo = {} \/ k \in aborted)
        /\ \A j \in Call : j # k => task'[j] = task[j]
    <3>1. CASE EndTask(k) BY <3>1, TaskBecomes DEF EndTask
    <3>2. CASE AbortTask(k) BY <3>2, TaskBecomes DEF AbortTask
    <3> QED BY <1>7, <3>1, <3>2
  <2>3. ASSUME NEW j \in Call, Brings(j, version, p) PROVE Brings(j, version, p)'
    BY <2>1, <2>2, <2>3 DEF Brings
  <2> QED BY <1>a, <2>1, <2>3
<1>8. ASSUME NEW k \in Call, NEW q \in Peer, SendUpdate(k, q)
      PROVE  Reaches(version, p)' /\ link'[p] = "up"
  <2> DEFINE info == task[k].info
  <2>1. /\ task' = [task EXCEPT ![k].todo = @ \ {q}]
        /\ inbox' = [inbox EXCEPT ![q] = Append(@, info)]
        /\ UNCHANGED <<call, aborted, link, known>>
    BY <1>8 DEF SendUpdate, node
  <2>2. info \in NodeInfo BY <1>0 DEF TaskRecord
  <2>3. /\ task'[k].pc = task[k].pc /\ task'[k].info = info /\ task'[k].todo = task[k].todo \ {q}
        /\ \A j \in Call : j # k => task'[j] = task[j]
    BY <2>1, TaskBecomes
  <2> HIDE DEF info
  <2>4. /\ \A i \in DOMAIN inbox[p] : i \in DOMAIN inbox'[p] /\ inbox'[p][i] = inbox[p][i]
        /\ p = q => /\ Len(inbox[p]) + 1 \in DOMAIN inbox'[p]
                    /\ inbox'[p][Len(inbox[p]) + 1] = info
    <3>1. inbox[p] \in Seq(NodeInfo) /\ inbox'[p] = IF p = q THEN Append(inbox[p], info)
                                                            ELSE inbox[p]
      BY <1>0, <2>1
    <3> QED BY <2>2, <3>1
  <2>5. CASE Knows(p, version) BY <2>1, <2>5 DEF Reaches, Knows
  <2>6. CASE \E i \in DOMAIN inbox[p] : inbox[p][i].version >= version
    <3>1. PICK i \in DOMAIN inbox[p] : inbox[p][i].version >= version BY <2>6
    <3>2. i \in DOMAIN inbox'[p] /\ inbox'[p][i].version >= version BY <2>4, <3>1
    <3> QED BY <2>1, <3>2 DEF Reaches
  <2>7. ASSUME NEW j \in Call, Brings(j, version, p) PROVE Reaches(version, p)'
    <3>1. CASE j = k /\ p = q /\ info.version >= version BY <2>4, <3>1 DEF Reaches
    <3>2. CASE ~(j = k /\ p = q /\ info.version >= version)
      <4>1. Brings(j, version, p)' BY <2>1, <2>3, <2>7, <3>2 DEF Brings, info
      <4> QED BY <4>1 DEF Reaches
    <3> QED BY <3>1, <3>2
  <2> QED BY <2>1, <2>5, <2>6, <2>7 DEF Reaches
<1>9. ASSUME NEW k \in Call, NEW q \in Peer, FailToSendUpdate(k, q) \/ StopUpdate(k, q)
      PROVE  Reaches(version, p)' /\ link'[p] = "up"
  BY <1>9 DEF FailToSendUpdate, StopUpdate, TaskInv
\* A connection that is being made is another peer's.
<1>10. ASSUME NEW q \in Peer, Connect(q) \/ Handshake(q)
       PROVE  Reaches(version, p)' /\ link'[p] = "up"
  <2>1. q # p BY <1>10 DEF Connect, Handshake
  <2>2. UNCHANGED <<call, task, aborted, known>> /\ inbox'[p] = inbox[p] /\ link'[p] = link[p]
    BY <1>0, <1>10, <2>1 DEF Connect, Handshake, node
  <2> QED BY <2>2 DEF Reaches, Knows, Brings
<1>11. ASSUME NEW q \in Peer, Break(q) PROVE Reaches(version, p)' /\ link'[p] = "up"
  BY <1>11 DEF Break
<1>12. ASSUME NEW q \in Peer, ReceiveInfo(q) PROVE Reaches(version, p)' /\ link'[p] = "up"
  <2>1. UNCHANGED <<call, task, aborted, link>> BY <1>12 DEF ReceiveInfo, node
  <2>2. CASE q # p
    <3>1. inbox'[p] = inbox[p] /\ known'[p] = known[p] BY <1>0, <1>12, <2>2 DEF ReceiveInfo
    <3> QED BY <2>1, <3>1 DEF Reaches, Knows, Brings
  <2>3. CASE q = p
    <3> DEFINE head == inbox[p][1]
    <3>1. inbox[p] \in Seq(NodeInfo) /\ inbox[p] # <<>> BY <1>0, <1>12, <2>3 DEF ReceiveInfo
    <3>2. head \in NodeInfo /\ head = Head(inbox[p]) BY <3>1
    <3>3. inbox'[p] = Tail(inbox[p])
          /\ known' = IF known[p] = NoInfo \/ head.version > known[p].version
                      THEN [known EXCEPT ![p] = head] ELSE known
      BY <1>0, <1>12, <2>3, <3>2 DEF ReceiveInfo
    <3>4. head # NoInfo BY <3>2, ConstantsAssumption
    <3>5. known'[p] # NoInfo /\ known'[p].version >= head.version
          /\ (known[p] # NoInfo => known'[p].version >= known[p].version)
      <4> HIDE DEF head
      <4>1. CASE known[p] = NoInfo \/ head.version > known[p].version
        <5>1. known'[p] = head BY <1>0, <3>3, <4>1
        <5>2. head.version \in Nat BY <1>0, <3>2
        <5>3. known[p] # NoInfo => known[p].version \in Nat BY <1>0
        <5> QED BY <3>4, <4>1, <5>1, <5>2, <5>3
      <4>2. CASE ~(known[p] = NoInfo \/ head.version > known[p].version)
        <5>1. known'[p] = known[p] /\ known[p] \in NodeInfo BY <1>0, <3>3, <4>2
        <5>2. head.version \in Nat /\ known[p].version \in Nat BY <1>0, <3>2, <5>1
        <5> QED BY <4>2, <5>1, <5>2
      <4> QED BY <4>1, <4>2
    <3> HIDE DEF head
    <3>6. known'[p].version \in Nat /\ head.version \in Nat
          /\ (known[p] # NoInfo => known[p].version \in Nat)
      BY <1>0, <3>2, <3>3
    <3>7. CASE Knows(p, version)
      <4>1. known'[p] # NoInfo /\ known'[p].version >= version
        BY <3>5, <3>6, <3>7 DEF Knows
      <4> QED BY <2>1, <4>1 DEF Reaches, Knows
    <3>8. ASSUME NEW i \in DOMAIN inbox[p], inbox[p][i].version >= version
          PROVE  Reaches(version, p)'
      <4>1. CASE i = 1
        <5>1. head.version >= version BY <3>8, <4>1 DEF head
        <5> QED BY <3>5, <3>6, <5>1 DEF Reaches, Knows
      <4>2. CASE i # 1
        <5>1. i - 1 \in DOMAIN Tail(inbox[p]) /\ Tail(inbox[p])[i - 1] = inbox[p][i]
          BY <3>1, <4>2
        <5> QED BY <3>3, <3>8, <5>1 DEF Reaches
      <4> QED BY <4>1, <4>2
    <3>9. ASSUME NEW j \in Call, Brings(j, version, p) PROVE Reaches(version, p)'
      BY <2>1, <3>9 DEF Reaches, Brings
    <3> QED BY <2>1, <3>7, <3>8, <3>9 DEF Reaches
  <2> QED BY <2>2, <2>3
<1>13. CASE UNCHANGED syncVars BY <1>13 DEF syncVars, Reaches, Knows, Brings
<1> QED BY <1>1, <1>2, <1>3, <1>4, <1>5, <1>6, <1>7, <1>8, <1>9, <1>10, <1>11, <1>12, <1>13
        DEF SyncNext, CallStep, TaskStep, PeerStep

\* A call that has bumped the version keeps it.
LEMMA VersionKept ==
  ASSUME SyncInv, [SyncNext]_syncVars, NEW k \in Call, call[k].pc \notin {"idle", "changed"}
  PROVE  call'[k].version = call[k].version /\ call'[k].pc \notin {"idle", "changed"}
<1>1. ASSUME NEW j \in Call, Change(j) \/ BumpVersion(j)
      PROVE  call'[k] = call[k]
  BY <1>1 DEF Change, BumpVersion, SyncInv, SyncTypeOK
<1>2. ASSUME NEW j \in Call, AbortKept(j) PROVE call'[k].version = call[k].version
                                                /\ call'[k].pc \notin {"idle", "changed"}
  BY <1>2, CallBecomes DEF AbortKept
<1>3. ASSUME NEW j \in Call, SpawnTask(j) PROVE call'[k].version = call[k].version
                                                /\ call'[k].pc \notin {"idle", "changed"}
  BY <1>3, CallBecomes DEF SpawnTask
<1>4. ASSUME NEW j \in Call, StoreTask(j) PROVE call'[k].version = call[k].version
                                                /\ call'[k].pc \notin {"idle", "changed"}
  BY <1>4, CallBecomes DEF StoreTask
<1>5. ASSUME NEW j \in Call, TaskStep(j) PROVE call' = call
  BY <1>5 DEF TaskStep, Collect, LoadVersion, EndTask, AbortTask, SendUpdate,
              FailToSendUpdate, StopUpdate
<1>6. ASSUME NEW p \in Peer, Connect(p) \/ PeerStep(p) \/ Break(p) PROVE call' = call
  BY <1>6 DEF Connect, PeerStep, Handshake, ReceiveInfo, Break
<1>7. CASE UNCHANGED syncVars BY <1>7 DEF syncVars
<1> QED BY <1>1, <1>2, <1>3, <1>4, <1>5, <1>6, <1>7 DEF SyncNext, CallStep

LEMMA SituationStays == [SyncNext]_syncVars => situation' = situation
<1>1. ASSUME NEW k \in Call, Change(k) \/ CallStep(k) PROVE situation' = situation
  BY <1>1 DEF Change, CallStep, BumpVersion, AbortKept, SpawnTask, StoreTask, node
<1>2. ASSUME NEW k \in Call, TaskStep(k) PROVE situation' = situation
  BY <1>2 DEF TaskStep, Collect, LoadVersion, EndTask, AbortTask, SendUpdate,
              FailToSendUpdate, StopUpdate, node
<1>3. ASSUME NEW p \in Peer, Connect(p) \/ PeerStep(p) \/ Break(p) PROVE situation' = situation
  BY <1>3 DEF Connect, PeerStep, Handshake, ReceiveInfo, Break, node
<1> QED BY <1>1, <1>2, <1>3 DEF SyncNext, syncVars

LEMMA OnItsWayStays ==
  ASSUME SyncInv, TaskInv, [SyncNext]_syncVars, NEW k \in Call, NEW p \in Peer, OnItsWay(k, p)
  PROVE  OnItsWay(k, p)'
<1>1. call[k].version \in Nat /\ call[k].version <= registry_version
  <2>1. Cardinality(Call) \in Nat BY CallsCounted
  <2> QED BY <2>1 DEF SyncInv, SyncTypeOK, VersionInv
<1>2. Reaches(call[k].version, p)' /\ link'[p] = "up"
  <2> DEFINE version == call[k].version
  <2>1. version \in Nat /\ version <= registry_version BY <1>1
  <2>2. Reaches(version, p) /\ "breaks" \notin situation /\ link[p] = "up" BY DEF OnItsWay
  <2>3. version' = version BY VersionKept DEF OnItsWay
  <2> QED BY <2>1, <2>2, <2>3, ReachesStays
<1> QED BY <1>2, VersionKept, SituationStays DEF OnItsWay

LEMMA QuietMeansTold ==
  ASSUME NEW k \in Call, NEW p \in Peer, OnItsWay(k, p), Quiet(p)
  PROVE  Knows(p, call[k].version)
BY DEF OnItsWay, Reaches, Brings, Quiet, Settled, Busy, Live

\* What AnnouncementArrives rests on: while no connection breaks, a version a call has
\* bumped to is never lost to a peer that was connected then, whatever is aborted or
\* overtaken in between, so that whenever nothing moves any more the peer has it, or
\* a newer one.
THEOREM NothingLost ==
  SyncSpec =>
    \A k \in Call, p \in Peer :
      []("breaks" \notin situation /\ call[k].pc = "bumped" /\ link[p] = "up"
           => [](Quiet(p) => Knows(p, call[k].version)))
<1> SUFFICES ASSUME NEW k \in Call, NEW p \in Peer
             PROVE  SyncSpec =>
                      []("breaks" \notin situation /\ call[k].pc = "bumped" /\ link[p] = "up"
                           => [](Quiet(p) => Knows(p, call[k].version)))
  OBVIOUS
<1>1. SyncInit => SyncInv /\ TaskInv BY SyncInitInv, TaskInitInv
<1>2. SyncInv /\ TaskInv /\ [SyncNext]_syncVars => (SyncInv /\ TaskInv)'
  BY SyncStepInv, TaskStepInv
<1>3. "breaks" \notin situation /\ call[k].pc = "bumped" /\ link[p] = "up" => OnItsWay(k, p)
  BY DEF OnItsWay, Reaches, Brings
<1>4. SyncInv /\ TaskInv /\ OnItsWay(k, p) /\ [SyncNext]_syncVars => OnItsWay(k, p)'
  BY OnItsWayStays
<1>5. OnItsWay(k, p) => (Quiet(p) => Knows(p, call[k].version)) BY QuietMeansTold
<1> QED BY <1>1, <1>2, <1>3, <1>4, <1>5, PTL DEF SyncSpec

LEMMA LatestInitInv == SyncInit => LatestInv
<1> SUFFICES ASSUME SyncInit, AllApart PROVE ApartInv /\ \A p \in Peer : PeerInv(p)
  BY DEF LatestInv
<1>1. /\ \A k \in Call : call[k].pc = "idle" /\ task[k].pc = "none"
      /\ aborted = {} /\ items = {} /\ registry_version = 1
      /\ local_node = [version |-> 0, items |-> {}]
      /\ \A p \in Peer : link[p] = "up" /\ known[p] = local_node /\ inbox[p] = <<>>
  BY DEF SyncInit, AllApart
<1>2. local_node # NoInfo
  BY SyncInitInv, ConstantsAssumption DEF SyncInv, SyncTypeOK
<1>3. ApartInv BY <1>1 DEF ApartInv, Active, Busy, Live
<1>4. ASSUME NEW p \in Peer PROVE PeerInv(p)
  <2>1. inbox[p] = <<>> /\ known[p].version = 0 /\ known[p].items = {} /\ link[p] = "up"
    BY <1>1
  <2>2. Newest(p) = known[p] BY <2>1 DEF Newest
  <2>3. DOMAIN inbox[p] = {} BY <2>1
  <2> QED BY <1>1, <1>2, <2>1, <2>2, <2>3 DEF PeerInv
<1> QED BY <1>3, <1>4

\* A step that leaves a peer, what it has been sent and what it has yet to be sent.
LEMMA PeerStays ==
  ASSUME NEW p \in Peer, PeerInv(p),
         link'[p] = link[p], inbox'[p] = inbox[p], known'[p] = known[p],
         items' = items, registry_version' = registry_version,
         \A k \in Call : (Owes(k, p)' <=> Owes(k, p))
                         /\ (call'[k].pc = "changed" <=> call[k].pc = "changed")
  PROVE  PeerInv(p)'
<1>1. Newest(p)' = Newest(p) BY DEF Newest
<1> QED BY <1>1 DEF PeerInv

\* What a peer owed a newer version is sent, it takes for newer.
LEMMA PeerIsSent ==
  ASSUME SyncInv, NEW p \in Peer, PeerInv(p), NEW info \in NodeInfo,
         inbox'[p] = Append(inbox[p], info), link'[p] = link[p], known'[p] = known[p],
         items' = items, registry_version' = registry_version,
         info.version = registry_version, info.items = items,
         Newest(p).version < registry_version,
         \A k \in Call : ~Owes(k, p)'
  PROVE  PeerInv(p)'
<1>0. /\ \A any \in NodeInfo : any.version \in Nat
      /\ inbox[p] \in Seq(NodeInfo) /\ known[p] \in NodeInfo \cup {NoInfo}
      /\ registry_version \in Nat
  <2>1. Cardinality(Call) \in Nat BY CallsCounted
  <2>2. \A any \in NodeInfo : any.version \in Nat BY <2>1 DEF NodeInfo
  <2> QED BY <2>1, <2>2 DEF SyncInv, SyncTypeOK
<1> DEFINE n == Len(inbox[p])
<1>1. /\ n \in Nat /\ DOMAIN inbox[p] = 1..n /\ DOMAIN inbox'[p] = 1..(n + 1)
      /\ inbox'[p][n + 1] = info /\ inbox'[p] # <<>> /\ Len(inbox'[p]) = n + 1
      /\ \A i \in 1..n : inbox'[p][i] = inbox[p][i] /\ inbox[p][i] \in NodeInfo
      /\ inbox[p] = <<>> <=> n = 0
  BY <1>0
<1>2. Newest(p)' = info BY <1>1 DEF Newest
<1>3. Newest(p) = IF n = 0 THEN known[p] ELSE inbox[p][n] BY <1>1 DEF Newest
<1> HIDE DEF n
<1>4. known[p] \in NodeInfo /\ known[p].version \in Nat BY <1>0 DEF PeerInv
<1>5. known[p].version <= Newest(p).version
      /\ \A i \in 1..n : inbox[p][i].version <= Newest(p).version
  <2>1. CASE n = 0 BY <1>1, <1>3, <1>4, <2>1
  <2>2. CASE n # 0
    <3>1. n \in 1..n BY <1>1, <2>2
    <3>2. \A i \in 1..n : inbox[p][i].version \in Nat BY <1>0, <1>1
    <3>3. Newest(p) = inbox[p][n] /\ Newest(p).version \in Nat BY <1>3, <2>2, <3>1, <3>2
    <3>4. known[p].version < Newest(p).version BY <1>1, <3>1, <3>3 DEF PeerInv
    <3>5. ASSUME NEW i \in 1..n PROVE inbox[p][i].version <= Newest(p).version
      <4>1. CASE i = n BY <3>3, <4>1
      <4>2. CASE i # n
        <5>1. i < n BY <1>1, <4>2
        <5>2. inbox[p][i].version < inbox[p][n].version BY <1>1, <3>1, <5>1 DEF PeerInv
        <5> QED BY <3>2, <3>3, <5>2
      <4> QED BY <4>1, <4>2
    <3> QED BY <1>4, <3>3, <3>4, <3>5
  <2> QED BY <2>1, <2>2
<1>6. Newest(p) \in NodeInfo /\ Newest(p).version \in Nat
  <2>1. n # 0 => n \in 1..n BY <1>1
  <2> QED BY <1>0, <1>1, <1>3, <1>4, <2>1
<1>7. known'[p].version < info.version BY <1>4, <1>5, <1>6, <1>0
<1>8. \A i \in 1..n : inbox'[p][i].version < info.version /\ known'[p].version < inbox'[p][i].version
  <2> SUFFICES ASSUME NEW i \in 1..n
               PROVE  inbox'[p][i].version < info.version /\ known'[p].version < inbox'[p][i].version
    OBVIOUS
  <2>1. inbox'[p][i] = inbox[p][i] /\ inbox[p][i].version \in Nat BY <1>0, <1>1
  <2>2. known[p].version < inbox[p][i].version BY <1>1 DEF PeerInv
  <2>3. inbox[p][i].version <= Newest(p).version BY <1>5
  <2> QED BY <1>0, <1>6, <2>1, <2>2, <2>3
<1>9. \A i \in DOMAIN inbox'[p] : known'[p].version < inbox'[p][i].version
  BY <1>1, <1>7, <1>8
<1>10. ASSUME NEW i \in DOMAIN inbox'[p], NEW j \in DOMAIN inbox'[p], i < j
       PROVE  inbox'[p][i].version < inbox'[p][j].version
  <2>1. CASE j = n + 1
    <3>1. i \in 1..n BY <1>1, <1>10, <2>1
    <3> QED BY <1>1, <1>8, <2>1, <3>1
  <2>2. CASE j # n + 1
    <3>1. i \in 1..n /\ j \in 1..n BY <1>1, <1>10, <2>2
    <3> QED BY <1>1, <1>10, <3>1 DEF PeerInv
  <2> QED BY <2>1, <2>2
<1>11. info.version <= registry_version BY <1>0
<1> QED BY <1>2, <1>9, <1>10, <1>11 DEF PeerInv

\* What a peer takes out of its inbox is newer than what it holds.
LEMMA PeerReceives ==
  ASSUME SyncInv, NEW p \in Peer, PeerInv(p), ReceiveInfo(p)
  PROVE  PeerInv(p)'
<1>0. inbox \in [Peer -> Seq(NodeInfo)] /\ known \in [Peer -> NodeInfo \cup {NoInfo}]
  BY DEF SyncInv, SyncTypeOK
<1> DEFINE n == Len(inbox[p])
<1>1. /\ inbox[p] \in Seq(NodeInfo) /\ inbox[p] # <<>> /\ inbox'[p] = Tail(inbox[p])
      /\ UNCHANGED <<items, registry_version, call, task, link>>
  BY <1>0 DEF ReceiveInfo, node
<1>2. /\ n \in Nat /\ n >= 1 /\ DOMAIN inbox[p] = 1..n /\ DOMAIN inbox'[p] = 1..(n - 1)
      /\ \A i \in 1..(n - 1) : inbox'[p][i] = inbox[p][i + 1]
      /\ \A i \in 1..n : inbox[p][i] \in NodeInfo
      /\ inbox'[p] = <<>> <=> n = 1
      /\ Len(inbox'[p]) = n - 1 /\ Head(inbox[p]) = inbox[p][1]
  <2>1. inbox'[p] \in Seq(NodeInfo) /\ Len(inbox'[p]) = n - 1 BY <1>1
  <2>2. n \in Nat /\ n >= 1 /\ DOMAIN inbox[p] = 1..n BY <1>1
  <2>3. DOMAIN inbox'[p] = 1..(n - 1) BY <2>1
  <2>4. \A list \in Seq(NodeInfo) : list = <<>> <=> Len(list) = 0 OBVIOUS
  <2>5. \A i \in 1..(n - 1) : inbox'[p][i] = inbox[p][i + 1] BY <1>1
  <2>6. \A i \in 1..n : inbox[p][i] \in NodeInfo BY <1>1
  <2>7. Head(inbox[p]) = inbox[p][1] BY <1>1
  <2> HIDE DEF n
  <2>8. inbox'[p] = <<>> <=> n = 1 BY <2>1, <2>2, <2>4
  <2> QED BY <2>1, <2>2, <2>3, <2>5, <2>6, <2>7, <2>8
<1>n. inbox[p] # <<>> => Newest(p) = inbox[p][n] BY DEF Newest
<1> HIDE DEF n
<1>3. 1 \in 1..n /\ known[p].version < inbox[p][1].version
  <2>1. 1 \in 1..n BY <1>2
  <2> QED BY <1>2, <2>1 DEF PeerInv
<1>4. known'[p] = inbox[p][1]
  <2>1. inbox[p][1].version > known[p].version
    <3>1. known[p] \in NodeInfo /\ inbox[p][1] \in NodeInfo BY <1>0, <1>2, <1>3 DEF PeerInv
    <3>2. Cardinality(Call) \in Nat BY CallsCounted
    <3>3. known[p].version \in Nat /\ inbox[p][1].version \in Nat BY <3>1, <3>2 DEF NodeInfo
    <3> QED BY <1>3, <3>3
  <2> QED BY <1>0, <1>2, <2>1 DEF ReceiveInfo
<1>5. known'[p] # NoInfo
  <2>1. inbox[p][1] \in NodeInfo BY <1>2, <1>3
  <2> QED BY <1>4, <2>1, ConstantsAssumption
<1>6. Newest(p)' = Newest(p)
  <2>1. Newest(p) = inbox[p][n] BY <1>1, <1>n
  <2>2. CASE n = 1 BY <1>2, <1>4, <2>1, <2>2 DEF Newest
  <2>3. CASE n # 1
    <3>1. inbox'[p] # <<>> /\ n - 1 \in 1..(n - 1) BY <1>2, <2>3
    <3>2. Newest(p)' = inbox'[p][n - 1] BY <1>2, <3>1 DEF Newest
    <3> QED BY <1>2, <2>1, <3>1, <3>2
  <2> QED BY <2>2, <2>3
<1>7. \A i \in DOMAIN inbox'[p] : known'[p].version < inbox'[p][i].version
  <2> SUFFICES ASSUME NEW i \in 1..(n - 1) PROVE known'[p].version < inbox'[p][i].version
    BY <1>2
  <2>1. 1 \in 1..n /\ i + 1 \in 1..n /\ 1 < i + 1 BY <1>2
  <2> QED BY <1>2, <1>4, <2>1 DEF PeerInv
<1>8. \A i, j \in DOMAIN inbox'[p] : i < j => inbox'[p][i].version < inbox'[p][j].version
  <2> SUFFICES ASSUME NEW i \in 1..(n - 1), NEW j \in 1..(n - 1), i < j
               PROVE  inbox'[p][i].version < inbox'[p][j].version
    BY <1>2
  <2>1. i + 1 \in 1..n /\ j + 1 \in 1..n /\ i + 1 < j + 1 BY <1>2
  <2> QED BY <1>2, <2>1 DEF PeerInv
<1>9. \A k \in Call : Owes(k, p)' <=> Owes(k, p) BY <1>1 DEF Owes
<1> QED BY <1>1, <1>5, <1>6, <1>7, <1>8, <1>9 DEF PeerInv

LEMMA LatestStepInv ==
  ASSUME SyncInv, TaskInv, LatestInv, [SyncNext]_syncVars
  PROVE  LatestInv'
<1> DEFINE Latest == ApartInv /\ \A p \in Peer : PeerInv(p)
<1>0. /\ debounce \in [Handle -> Call \cup {NoCall}]
      /\ call \in [Call -> CallRecord] /\ task \in [Call -> TaskRecord]
      /\ inbox \in [Peer -> Seq(NodeInfo)]
  BY DEF SyncInv, SyncTypeOK, CallRecord, TaskRecord
<1>a. SUFFICES ASSUME AllApart PROVE Latest'
  <2>1. AllApart' => AllApart BY SituationStays DEF AllApart
  <2> QED BY <1>a, <2>1 DEF LatestInv
<1>b. /\ aborted = {}
      /\ \A j, k \in Call : Active(j) /\ Active(k) => j = k
      /\ \A k \in Call : /\ task[k].pc \in {"collected", "sending"} => task[k].info.items = items
                         /\ task[k].pc = "sending" => task[k].info.version = registry_version
      /\ \A p \in Peer : PeerInv(p) /\ link[p] = "up"
      /\ Running = Handle /\ "breaks" \notin situation
      /\ "exclusive" \in situation /\ "apart" \in situation
  BY <1>a DEF LatestInv, AllApart, ApartInv, PeerInv
\* Only what is active has anything to send.
<1>c. \A k \in Call, p \in Peer : Owes(k, p) => Active(k) BY DEF Owes, Active, Busy, Live
\* While nothing else is active, nothing else becomes so.
<1>d. ASSUME NEW k \in Call, Active(k), aborted' = aborted,
             \A j \in Call : j # k => call'[j] = call[j] /\ task'[j] = task[j],
             task'[k].pc \in {"collected", "sending"} => task'[k].info.items = items',
             task'[k].pc = "sending" => task'[k].info.version = registry_version'
      PROVE  ApartInv'
  <2>1. \A j \in Call : j # k => ~Active(j) /\ ~Active(j)'
    BY <1>b, <1>d DEF Active, Busy, Live
  <2>2. \A j \in Call : j # k => task'[j].pc \notin {"collected", "sending"}
    BY <2>1 DEF Active, Live
  <2> QED BY <1>b, <1>d, <2>1, <2>2 DEF ApartInv
\* The peers are left alone, and what is to be sent to each.
<1>e. ASSUME NEW k \in Call, UNCHANGED <<items, registry_version, link, inbox, known>>,
             \A j \in Call : j # k => call'[j] = call[j] /\ task'[j] = task[j],
             \A p \in Peer : Owes(k, p)' <=> Owes(k, p),
             call'[k].pc = "changed" <=> call[k].pc = "changed"
      PROVE  \A p \in Peer : PeerInv(p)'
  <2> SUFFICES ASSUME NEW p \in Peer PROVE PeerInv(p)' OBVIOUS
  <2>1. \A j \in Call : /\ Owes(j, p)' <=> Owes(j, p)
                        /\ call'[j].pc = "changed" <=> call[j].pc = "changed"
    BY <1>e DEF Owes
  <2> QED BY <1>b, <1>e, <2>1, PeerStays
<1>1. ASSUME NEW k \in Call, Change(k) PROVE Latest'
  <2>1. /\ \A j \in Call : ~Busy(j) /\ ~Live(j)
        /\ call' = [call EXCEPT ![k].pc = "changed"]
        /\ UNCHANGED <<registry_version, task, aborted, link, inbox, known>>
    BY <1>b, <1>1 DEF Change, MayCall, Handle, peers
  <2>2. call'[k].pc = "changed" /\ \A j \in Call : j # k => call'[j] = call[j]
    BY <2>1, CallBecomes
  <2>3. \A j \in Call : j # k => ~Active(j)' BY <2>1, <2>2 DEF Active, Busy, Live
  <2>4. \A j \in Call : task'[j].pc \notin {"collected", "sending"} BY <2>1 DEF Live
  <2>5. ApartInv' BY <1>b, <2>1, <2>3, <2>4 DEF ApartInv
  <2>6. ASSUME NEW p \in Peer PROVE PeerInv(p)'
    <3>1. \A j \in Call : Owes(j, p)' => Owes(j, p) BY <2>1, <2>2 DEF Owes
    <3>2. Newest(p)' = Newest(p) BY <2>1 DEF Newest
    <3>3. ~(\A j \in Call : call'[j].pc # "changed" /\ ~Owes(j, p)') BY <2>2
    <3> QED BY <1>b, <2>1, <3>1, <3>2, <3>3 DEF PeerInv
  <2> QED BY <2>5, <2>6
<1>2. ASSUME NEW k \in Call, BumpVersion(k) PROVE Latest'
  <2>1. /\ call[k].pc = "changed" /\ registry_version' = registry_version + 1
        /\ call'[k].pc = "bumped" /\ \A j \in Call : j # k => call'[j] = call[j]
        /\ UNCHANGED <<items, task, aborted, link, inbox, known>>
    BY <1>0, <1>2 DEF BumpVersion, peers, CallRecord
  <2>2. Active(k) /\ task[k].pc = "none" BY <2>1 DEF Active, Busy, TaskInv
  <2>3. ApartInv' BY <1>d, <2>1, <2>2
  <2>4. ASSUME NEW p \in Peer PROVE PeerInv(p)'
    <3>1. Newest(p)' = Newest(p) BY <2>1 DEF Newest
    <3>2. Newest(p).version <= registry_version /\ Newest(p).version \in Nat
          /\ registry_version \in Nat
      <4>1. Newest(p) \in NodeInfo
        <5>1. CASE inbox[p] = <<>> BY <1>b, <5>1 DEF Newest, PeerInv, SyncInv, SyncTypeOK
        <5>2. CASE inbox[p] # <<>>
          <6>1. inbox[p] \in Seq(NodeInfo) BY <1>0
          <6>2. Len(inbox[p]) \in DOMAIN inbox[p] BY <5>2, <6>1
          <6> QED BY <5>2, <6>1, <6>2 DEF Newest
        <5> QED BY <5>1, <5>2
      <4>2. Cardinality(Call) \in Nat BY CallsCounted
      <4>3. Newest(p).version \in Nat BY <4>1, <4>2 DEF NodeInfo
      <4>4. registry_version \in Nat BY <4>2 DEF SyncInv, SyncTypeOK
      <4> QED BY <1>b, <4>3, <4>4 DEF PeerInv
    <3>3. Newest(p)'.version < registry_version' /\ Newest(p)'.version <= registry_version'
      BY <2>1, <3>1, <3>2
    <3>4. Owes(k, p)' BY <2>1 DEF Owes
    <3> QED BY <1>b, <2>1, <3>3, <3>4 DEF PeerInv
  <2> QED BY <2>3, <2>4
<1>3. ASSUME NEW k \in Call, AbortKept(k) PROVE Latest'
  <2> DEFINE kept == debounce[HandleOf[k]]
  <2>1. /\ call[k].pc = "bumped" /\ call' = [call EXCEPT ![k].pc = "aborting"]
        /\ \/ UNCHANGED <<task, aborted>>
           \/ kept # NoCall /\ Live(kept)
        /\ UNCHANGED <<items, registry_version, link, inbox, known>>
    BY <1>3 DEF AbortKept, node, peers
  <2>2. call'[k].pc = "aborting" /\ \A j \in Call : j # k => call'[j] = call[j]
    BY <2>1, CallBecomes
  <2>3. Active(k) /\ task[k].pc = "none" BY <2>1 DEF Active, Busy, TaskInv
  <2>4. kept # NoCall => kept \in Call BY <1>0 DEF Handle
  <2> HIDE DEF kept
  <2>5. UNCHANGED <<task, aborted>>
    <3>1. ASSUME kept # NoCall, Live(kept) PROVE FALSE
      <4>1. kept = k BY <1>b, <2>3, <2>4, <3>1 DEF Active
      <4> QED BY <2>3, <3>1, <4>1 DEF Live
    <3> QED BY <2>1, <3>1
  <2>6. ApartInv' BY <1>d, <2>2, <2>3, <2>5
  <2>7. \A p \in Peer : Owes(k, p)' <=> Owes(k, p) BY <2>1, <2>2, <2>5 DEF Owes
  <2> QED BY <1>e, <2>1, <2>2, <2>5, <2>6, <2>7
<1>4. ASSUME NEW k \in Call, SpawnTask(k) PROVE Latest'
  <2>1. /\ call[k].pc = "aborting" /\ call' = [call EXCEPT ![k].pc = "spawned"]
        /\ task' = [task EXCEPT ![k].pc = "sleeping"]
        /\ UNCHANGED <<items, registry_version, aborted, link, inbox, known>>
    BY <1>4 DEF SpawnTask, node, peers
  <2>2. call'[k].pc = "spawned" /\ \A j \in Call : j # k => call'[j] = call[j]
    BY <2>1, CallBecomes
  <2>3. task'[k].pc = "sleeping" /\ \A j \in Call : j # k => task'[j] = task[j]
    BY <2>1, TaskBecomes
  <2>4. Active(k) BY <2>1 DEF Active, Busy
  <2>5. ApartInv' BY <1>d, <2>1, <2>2, <2>3, <2>4
  <2>6. \A p \in Peer : Owes(k, p)' <=> Owes(k, p) BY <2>1, <2>3 DEF Owes
  <2> QED BY <1>e, <2>1, <2>2, <2>3, <2>5, <2>6
<1>5. ASSUME NEW k \in Call, StoreTask(k) PROVE Latest'
  <2>1. /\ call[k].pc = "spawned" /\ call' = [call EXCEPT ![k].pc = "done"]
        /\ UNCHANGED <<items, registry_version, task, aborted, link, inbox, known>>
    BY <1>5 DEF StoreTask, node, peers
  <2>2. call'[k].pc = "done" /\ \A j \in Call : j # k => call'[j] = call[j]
    BY <2>1, CallBecomes
  <2>3. Active(k) BY <2>1 DEF Active, Busy
  <2>4. ApartInv' BY <1>b, <1>d, <2>1, <2>2, <2>3
  <2>5. \A p \in Peer : Owes(k, p)' <=> Owes(k, p) BY <2>1, <2>2 DEF Owes
  <2> QED BY <1>e, <2>1, <2>2, <2>4, <2>5
<1>6. ASSUME NEW k \in Call, Collect(k) \/ LoadVersion(k) \/ EndTask(k) PROVE Latest'
  <2>1. UNCHANGED <<items, registry_version, call, aborted, link, inbox, known>>
    BY <1>6 DEF Collect, LoadVersion, EndTask, node, peers
  <2>2. Active(k) BY <1>6 DEF Collect, LoadVersion, EndTask, Active, Live
  <2>3. /\ \A j \in Call : j # k => task'[j] = task[j]
        /\ task'[k].pc \in {"collected", "sending"} => task'[k].info.items = items
        /\ task'[k].pc = "sending" => task'[k].info.version = registry_version
        /\ \A p \in Peer : Owes(k, p)' <=> Owes(k, p)
    <3>1. CASE Collect(k)
      <4>1. task[k].pc = "sleeping" /\ task'[k].pc = "collected" /\ task'[k].info.items = items
            /\ \A j \in Call : j # k => task'[j] = task[j]
        BY <3>1, TaskBecomes DEF Collect
      <4> QED BY <2>1, <4>1 DEF Owes
    <3>2. CASE LoadVersion(k)
      <4>1. /\ task[k].pc = "collected" /\ task'[k].pc = "sending"
            /\ task'[k].todo = {p \in Peer : link[p] # "down"}
            /\ task'[k].info.version = registry_version
            /\ task'[k].info.items = task[k].info.items
            /\ \A j \in Call : j # k => task'[j] = task[j]
        BY <3>2, TaskBecomes DEF LoadVersion
      <4>2. \A p \in Peer : p \in task'[k].todo BY <1>b, <4>1
      <4> QED BY <1>b, <2>1, <4>1, <4>2 DEF Owes
    <3>3. CASE EndTask(k)
      <4>1. /\ task[k].pc = "sending" /\ task[k].todo = {} /\ task'[k].pc = "over"
            /\ \A j \in Call : j # k => task'[j] = task[j]
        BY <3>3, TaskBecomes DEF EndTask
      <4> QED BY <2>1, <4>1 DEF Owes
    <3> QED BY <1>6, <3>1, <3>2, <3>3
  <2>4. ApartInv' BY <1>d, <2>1, <2>2, <2>3
  <2> QED BY <1>e, <2>1, <2>3, <2>4
<1>7. ASSUME NEW k \in Call, NEW q \in Peer, SendUpdate(k, q) PROVE Latest'
  <2> DEFINE info == task[k].info
  <2>1. /\ task[k].pc = "sending" /\ q \in task[k].todo
        /\ task' = [task EXCEPT ![k].todo = @ \ {q}]
        /\ inbox' = [inbox EXCEPT ![q] = Append(@, info)]
        /\ UNCHANGED <<items, registry_version, call, aborted, link, known>>
    BY <1>7 DEF SendUpdate, node
  <2>2. info \in NodeInfo /\ info.version = registry_version /\ info.items = items
    BY <1>0, <1>b, <2>1 DEF TaskRecord
  <2>3. /\ task'[k].pc = "sending" /\ task'[k].info = info /\ task'[k].todo = task[k].todo \ {q}
        /\ \A j \in Call : j # k => task'[j] = task[j]
    BY <2>1, TaskBecomes
  <2> HIDE DEF info
  <2>4. Active(k) /\ call[k].pc \in {"spawned", "done"} BY <2>1 DEF Active, Live, TaskInv
  <2>5. ApartInv' BY <1>d, <2>1, <2>2, <2>3, <2>4
  <2>6. \A j \in Call : j # k => ~Active(j) BY <1>b, <2>4
  <2>7. PeerInv(q)'
    <3>1. Owes(k, q) BY <2>1 DEF Owes
    <3>2. Newest(q).version < registry_version BY <1>b, <3>1 DEF PeerInv
    <3>3. ASSUME NEW j \in Call PROVE ~Owes(j, q)'
      <4>1. CASE j = k BY <2>1, <2>3, <2>4, <4>1 DEF Owes
      <4>2. CASE j # k
        <5>1. ~Owes(j, q) BY <1>c, <2>6, <4>2
        <5> QED BY <2>1, <2>3, <4>2, <5>1 DEF Owes
      <4> QED BY <4>1, <4>2
    <3>4. inbox'[q] = Append(inbox[q], info) BY <1>0, <2>1
    <3> QED BY <1>b, <2>1, <2>2, <3>2, <3>3, <3>4, PeerIsSent
  <2>8. ASSUME NEW p \in Peer, p # q PROVE PeerInv(p)'
    <3>1. inbox'[p] = inbox[p] BY <1>0, <2>1, <2>8
    <3>2. \A j \in Call : Owes(j, p)' <=> Owes(j, p) BY <2>1, <2>3, <2>8 DEF Owes
    <3> QED BY <1>b, <2>1, <3>1, <3>2, PeerStays
  <2> QED BY <2>5, <2>7, <2>8
\* No connection is broken and none is being made, and nothing is aborted.
<1>8. ASSUME NEW k \in Call,
             AbortTask(k) \/ \E p \in Peer : FailToSendUpdate(k, p) \/ StopUpdate(k, p)
      PROVE  Latest'
  BY <1>b, <1>8 DEF AbortTask, FailToSendUpdate, StopUpdate
<1>9. ASSUME NEW p \in Peer, Connect(p) \/ Handshake(p) \/ Break(p) PROVE Latest'
  BY <1>b, <1>9 DEF Connect, Handshake, Break
<1>10. ASSUME NEW q \in Peer, ReceiveInfo(q) PROVE Latest'
  <2>1. UNCHANGED <<items, registry_version, call, task, aborted, link>>
    BY <1>10 DEF ReceiveInfo, node
  <2>2. ApartInv' BY <1>b, <2>1 DEF ApartInv, Active, Busy, Live
  <2>3. PeerInv(q)' BY <1>b, <1>10, PeerReceives
  <2>4. ASSUME NEW p \in Peer, p # q PROVE PeerInv(p)'
    <3>1. inbox'[p] = inbox[p] /\ known'[p] = known[p]
      BY <1>0, <1>10, <2>4 DEF ReceiveInfo, SyncInv, SyncTypeOK
    <3>2. \A j \in Call : Owes(j, p)' <=> Owes(j, p) BY <2>1 DEF Owes
    <3> QED BY <1>b, <2>1, <3>1, <3>2, PeerStays
  <2> QED BY <2>2, <2>3, <2>4
<1>11. CASE UNCHANGED syncVars
  <2>1. ApartInv' BY <1>b, <1>11 DEF syncVars, ApartInv, Active, Busy, Live
  <2>2. ASSUME NEW p \in Peer PROVE PeerInv(p)'
    <3>1. \A j \in Call : Owes(j, p)' <=> Owes(j, p) BY <1>11 DEF syncVars, Owes
    <3> QED BY <1>b, <1>11, <3>1, PeerStays DEF syncVars
  <2> QED BY <2>1, <2>2
<1> HIDE DEF Latest
<1> QED BY <1>1, <1>2, <1>3, <1>4, <1>5, <1>6, <1>7, <1>8, <1>9, <1>10, <1>11
        DEF SyncNext, CallStep, TaskStep, PeerStep

\* What LatestInfoArrives rests on: when the calls come far apart, and to peers that were
\* connected before them and stay so, every peer to which nothing is on its way any more
\* holds what the node offers in fact.
THEOREM QuietMeansLatest ==
  SyncSpec => [](AllApart => \A p \in Peer : Quiet(p) => known[p] # NoInfo
                                                         /\ known[p].items = items)
<1> DEFINE AtRest == \A p \in Peer : Quiet(p) => known[p] # NoInfo /\ known[p].items = items
<1>1. SyncInit => SyncInv /\ TaskInv /\ LatestInv BY SyncInitInv, TaskInitInv, LatestInitInv
<1>2. SyncInv /\ TaskInv /\ LatestInv /\ [SyncNext]_syncVars => (SyncInv /\ TaskInv /\ LatestInv)'
  BY SyncStepInv, TaskStepInv, LatestStepInv
<1>3. LatestInv => (AllApart => AtRest)
  <2> SUFFICES ASSUME LatestInv, AllApart, NEW p \in Peer, Quiet(p)
               PROVE  known[p] # NoInfo /\ known[p].items = items
    OBVIOUS
  <2>1. PeerInv(p) BY DEF LatestInv
  <2>2. \A k \in Call : call[k].pc # "changed" /\ ~Owes(k, p)
    BY DEF Quiet, Settled, Busy, Live, Owes
  <2>3. Newest(p) = known[p] BY DEF Quiet, Newest
  <2> QED BY <2>1, <2>2, <2>3 DEF PeerInv
<1> QED BY <1>1, <1>2, <1>3, PTL DEF SyncSpec

=============================================================================

------------------------ MODULE QuicTransportProofs -------------------------
(***************************************************************************)
(* Theorems about QuicTransport, for any number of nodes and calls,        *)
(* whatever the calls are, in whatever order, and however small the limits.*)
(***************************************************************************)
EXTENDS QuicTransport, SequenceTheorems, FiniteSetTheorems, TLAPS

-----------------------------------------------------------------------------
(***************************************************************************)
(* Where tasks stand and what they hold there.                             *)
(***************************************************************************)

Sending == {"sending", "streaming", "opening", "finishing"}
Receiving == Sending \cup {"locking", "reading"}
Pooling == {"inserting", "setting"}

CallSteps ==
  {"idle", "looking", "dialing", "pooling", "stuck", "pushing", "collecting", "updating",
   "removing", "clearing", "storing", "starting", "halting", "closing", "draining",
   "joining", "ok", "err"} \cup Pooling \cup Sending

EndSteps == {"unborn", "establishing", "ended"} \cup Pooling \cup Receiving

AcceptSteps == {"unborn", "born", "accepting", "ended"}

\* A task stands where its code has a point to wait, and has what it needs there.
Fits(t, w) ==
  /\ t \in Call => w.step \in CallSteps
  /\ t \in End => w.step \in EndSteps
  /\ t \in AcceptTask => w.step \in AcceptSteps
  /\ w.step \in Pooling \cup {"looking", "clearing", "locking", "reading"} => w.state \in End
  /\ t \in End /\ w.step \in Sending => w.state \in End
  /\ w.step \in Sending => w.msg \in Message
  /\ w.step \in {"streaming", "opening", "finishing"} => w.peer \in End
  /\ w.step = "finishing" => w.via \in Call
  /\ w.step = "reading" => w.conn \in Call

TasksOK == \A t \in Task : Fits(t, task[t])

Inv1 == TypeOK /\ TasksOK

\* The kinds of tasks are apart.
LEMMA TaskKinds ==
  /\ Call \cap End = {} /\ Call \cap AcceptTask = {} /\ End \cap AcceptTask = {}
  /\ None \notin Call /\ None \notin Node /\ None \notin End
BY ConstantsAssumption, NamesAssumption DEF End, AcceptTask

\* A situation gives every call a node, a peer and what it comes after.
LEMMA ScriptType ==
  ASSUME situation \in Situation, NEW c \in Call
  PROVE  /\ NodeOf(c) \in Node /\ Peer(c) \in Node
         /\ script[c].node = NodeOf(c) /\ script[c].peer = Peer(c)
         /\ script[c].after \in Call \cup {None} /\ script[c].addresses \in Nat
         /\ script[c].kind = "connect" => NodeOf(c) # Peer(c)
BY ConstantsAssumption DEF Scripts, script, NodeOf, Peer

LEMMA TaskType ==
  ASSUME situation \in Situation, NEW t \in Task
  PROVE  /\ NodeOf(t) \in Node
         /\ t \notin Call => NodeOf(t) = t[1]
         /\ t \in Call \/ t \in End =>
              KeyOf(t) \in Key /\ NewState(t) \in End /\ NewState(t)[1] = NodeOf(t)
<1>1. CASE t \in Call
  BY <1>1, ScriptType, TaskKinds DEF KeyOf, NewState, Key, Id, End, NodeOf
<1>2. CASE t \in End
  <2>1. t[1] \in Node /\ t[2] \in Call /\ t \notin Call
    BY <1>2, TaskKinds DEF End
  <2>2. script[t[2]].node \in Node
    BY <2>1, ScriptType DEF NodeOf
  <2> QED BY <1>2, <2>1, <2>2 DEF KeyOf, NewState, Key, Temp, NodeOf
<1>3. CASE t \in AcceptTask
  BY <1>3, TaskKinds DEF NodeOf, AcceptTask
<1> QED BY <1>1, <1>2, <1>3 DEF Task

LEMMA Keys == \A n \in Node : Id(n) \in Key /\ Temp(n) \in Key
BY DEF Id, Temp, Key

LEMMA FreshType ==
  \A step \in Steps :
    /\ Fresh(step) \in Local /\ Fresh(step).step = step
    /\ Fresh(step).joins = {} /\ Fresh(step).conn = None /\ Fresh(step).via = None
    /\ Fresh(step).state = None /\ Fresh(step).peer = None
BY DEF Fresh, Local

\* What a step does to one task, and to the transport of one node.
LEMMA SetTask ==
  ASSUME Inv1, situation' = situation, NEW t \in Task, NEW w \in Local, Fits(t, w),
         task' = [task EXCEPT ![t] = w]
  PROVE  task' \in [Task -> Local] /\ TasksOK'
<1>1. task \in [Task -> Local] BY DEF Inv1, TypeOK
<1>2. \A u \in Task : task'[u] = IF u = t THEN w ELSE task[u] BY <1>1
<1> QED BY <1>1, <1>2 DEF Inv1, TasksOK, Fits

LEMMA SetTwo ==
  ASSUME Inv1, situation' = situation,
         NEW t \in Task, NEW w \in Local, Fits(t, w),
         NEW u \in Task, NEW v \in Local, Fits(u, v), t # u,
         task' = [task EXCEPT ![t] = w, ![u] = v]
  PROVE  task' \in [Task -> Local] /\ TasksOK'
<1>1. task \in [Task -> Local] BY DEF Inv1, TypeOK
<1>2. \A x \in Task : task'[x] = IF x = u THEN v ELSE IF x = t THEN w ELSE task[x] BY <1>1
<1> QED BY <1>1, <1>2 DEF Inv1, TasksOK, Fits

\* The three ways a task goes on: to a step, out of its call, or back to its loop.
LEMMA GoType ==
  ASSUME Inv1, situation' = situation, NEW t \in Task, NEW step \in Steps,
         Fits(t, [task[t] EXCEPT !.step = step]), Go(t, step)
  PROVE  task' \in [Task -> Local] /\ TasksOK'
<1> DEFINE w == [task[t] EXCEPT !.step = step]
<1>1. task[t] \in Local BY DEF Inv1, TypeOK
<1>2. w \in Local BY <1>1 DEF Local
<1>3. task' = [task EXCEPT ![t] = w] BY <1>1 DEF Go, Inv1, TypeOK
<1> HIDE DEF w
<1> QED BY <1>2, <1>3, SetTask DEF w

LEMMA ReturnType ==
  ASSUME Inv1, situation' = situation, NEW c \in Call, NEW result \in {"ok", "err"},
         Return(c, result)
  PROVE  task' \in [Task -> Local] /\ TasksOK'
<1>1. c \in Task /\ c \notin End /\ c \notin AcceptTask BY TaskKinds DEF Task
<1>2. Fresh(result) \in Local /\ Fits(c, Fresh(result))
  BY <1>1, FreshType DEF Steps, Fits, CallSteps, Pooling, Sending
<1> QED BY <1>1, <1>2, SetTask DEF Return

LEMMA ReceivesType ==
  ASSUME Inv1, situation' = situation, NEW e \in End, task[e].state \in End, Receives(e)
  PROVE  task' \in [Task -> Local] /\ TasksOK'
<1> DEFINE w == [Fresh("locking") EXCEPT !.state = task[e].state]
<1>1. e \in Task /\ e \notin Call /\ e \notin AcceptTask BY TaskKinds DEF Task
<1>2. Fresh("locking") \in Local /\ Fresh("locking").step = "locking" BY FreshType DEF Steps
<1>3. w \in Local /\ w.step = "locking" /\ w.state \in End BY <1>2 DEF Local
<1>4. Fits(e, w)
  <2> HIDE DEF w
  <2> QED BY <1>1, <1>3 DEF Fits, EndSteps, Receiving, Pooling, Sending
<1> QED BY <1>1, <1>3, <1>4, SetTask DEF Receives

LEMMA EndsType ==
  ASSUME Inv1, situation' = situation, NEW e \in End, task' = [task EXCEPT ![e] = Fresh("ended")]
  PROVE  task' \in [Task -> Local] /\ TasksOK'
<1>1. e \in Task /\ e \notin Call /\ e \notin AcceptTask BY TaskKinds DEF Task
<1>2. Fresh("ended") \in Local /\ Fits(e, Fresh("ended"))
  BY <1>1, FreshType DEF Steps, Fits, EndSteps, Pooling, Sending
<1> QED BY <1>1, <1>2, SetTask

LEMMA FailsType ==
  ASSUME Inv1, situation' = situation, NEW t \in Call \cup End, task[t].step \in Sending, Fails(t)
  PROVE  task' \in [Task -> Local] /\ TasksOK'
<1>1. CASE t \in Call BY <1>1, ReturnType DEF Fails
<1>2. CASE t \in End
  <2>1. t \notin Call /\ t \in Task BY <1>2, TaskKinds DEF Task
  <2>2. task[t].state \in End BY <1>2, <2>1 DEF Inv1, TasksOK, Fits
  <2> QED BY <1>2, <2>1, <2>2, ReceivesType DEF Fails
<1> QED BY <1>1, <1>2

-----------------------------------------------------------------------------
(***************************************************************************)
(* TypeOK: connect_peer.                                                   *)
(***************************************************************************)

\* What is in hand of a task, and in the transport of its node.
Hand(t) ==
  /\ t \in Task /\ t \notin AcceptTask /\ (t \in Call <=> t \notin End)
  /\ task[t] \in Local /\ Fits(t, task[t])
  /\ NodeOf(t) \in Node /\ transport[NodeOf(t)] \in Impl
  /\ KeyOf(t) \in Key /\ NewState(t) \in End
  /\ \A k \in Key : transport[NodeOf(t)].peers[k] \in End \cup {None}
  /\ t \in Call => Peer(t) \in Node /\ Id(Peer(t)) \in Key /\ <<NodeOf(t), t>> \in End
  /\ t \in End => NodeOf(t) = t[1] /\ t[1] \in Node /\ t[2] \in Call

LEMMA InHand == ASSUME Inv1, NEW t, t \in Call \/ t \in End PROVE Hand(t)
<1>1. t \in Task /\ t \notin AcceptTask /\ (t \in Call <=> t \notin End)
  BY TaskKinds DEF Task
<1>2. NodeOf(t) \in Node /\ KeyOf(t) \in Key /\ NewState(t) \in End
  BY <1>1, TaskType DEF Inv1, TypeOK
<1>3. transport[NodeOf(t)] \in Impl /\ task[t] \in Local /\ Fits(t, task[t])
  BY <1>1, <1>2 DEF Inv1, TypeOK, TasksOK
<1>4. \A k \in Key : transport[NodeOf(t)].peers[k] \in End \cup {None}
  BY <1>3 DEF Impl
<1>5. t \in Call => Peer(t) \in Node /\ Id(Peer(t)) \in Key /\ <<NodeOf(t), t>> \in End
  BY <1>2, ScriptType, Keys DEF Inv1, TypeOK, End
<1>6. t \in End => NodeOf(t) = t[1] /\ t[1] \in Node /\ t[2] \in Call
  BY <1>1 DEF NodeOf, End
<1> QED BY <1>1, <1>2, <1>3, <1>4, <1>5, <1>6 DEF Hand

LEMMA ConnectPeerType ==
  ASSUME Inv1, NEW c \in Call, ConnectPeer(c)
  PROVE  Inv1'
<1>0. Hand(c) /\ task[c] \in Local BY InHand DEF Hand
<1> DEFINE s == transport[NodeOf(c)].peers[Id(Peer(c))]
           w == [task[c] EXCEPT !.step = IF s = None THEN "dialing" ELSE "looking", !.state = s]
           go == transport[NodeOf(c)].running /\ script[c].addresses > 0
           v == IF go THEN w ELSE Fresh("err")
<1>1. s \in End \cup {None} BY <1>0 DEF Hand
<1>2. w \in Local /\ Fits(c, w)
  <2> HIDE DEF s
  <2>1. w \in Local BY <1>1, <1>0 DEF Local, Steps
  <2> QED BY <1>1, <2>1, <1>0 DEF Hand, Local, Fits, CallSteps, Pooling, Sending
<1>3. Fresh("err") \in Local /\ Fits(c, Fresh("err"))
  BY <1>0, FreshType DEF Hand, Steps, Fits, CallSteps, Pooling, Sending
<1>4. task' = [task EXCEPT ![c] = v] /\ situation' = situation
  BY <1>0 DEF Hand, ConnectPeer, Return, OnlyTask, Inv1, TypeOK
<1>5. v \in Local /\ Fits(c, v) BY <1>2, <1>3
<1>6. task' \in [Task -> Local] /\ TasksOK'
  <2> HIDE DEF v
  <2> QED BY <1>4, <1>5, <1>0, SetTask DEF Hand
<1> QED BY <1>6 DEF ConnectPeer, OnlyTask, Inv1, TypeOK

LEMMA LookAtPeerType ==
  ASSUME Inv1, NEW c \in Call, LookAtPeer(c)
  PROVE  Inv1'
<1>0. Hand(c) /\ task[c] \in Local BY InHand DEF Hand
<1> DEFINE step == IF Connected(task[c].state) THEN "pushing" ELSE "dialing"
           w == [task[c] EXCEPT !.state = None, !.step = step]
<1>1. w \in Local BY <1>0 DEF Local, Steps
<1>a. Fits(c, w) BY <1>0 DEF Hand, Local, Fits, CallSteps, Pooling, Sending
<1>2. task' = [task EXCEPT ![c] = w] /\ situation' = situation
  BY <1>0 DEF Hand, LookAtPeer, OnlyTask, Inv1, TypeOK
<1>3. task' \in [Task -> Local] /\ TasksOK'
  <2> HIDE DEF w
  <2> QED BY <1>1, <1>a, <1>2, <1>0, SetTask DEF Hand
<1> QED BY <1>3 DEF LookAtPeer, OnlyTask, Inv1, TypeOK

LEMMA DialType ==
  ASSUME Inv1, NEW c \in Call, Dial(c)
  PROVE  Inv1'
<1>0. Hand(c) /\ task[c] \in Local BY InHand DEF Hand
<1> DEFINE w == [task[c] EXCEPT !.step = "pooling", !.conn = c]
<1>1. w \in Local BY <1>0 DEF Local, Steps
<1>a. Fits(c, w) BY <1>0 DEF Hand, Local, Fits, CallSteps, Pooling, Sending
<1>2. task' = [task EXCEPT ![c] = w] /\ situation' = situation
  BY <1>0 DEF Hand, Dial, Inv1, TypeOK
<1>3. task' \in [Task -> Local] /\ TasksOK'
  <2> HIDE DEF w
  <2> QED BY <1>1, <1>a, <1>2, <1>0, SetTask DEF Hand
<1> QED BY <1>3 DEF Dial, Inv1, TypeOK

LEMMA FailToDialType ==
  ASSUME Inv1, NEW c \in Call, FailToDial(c)
  PROVE  Inv1'
<1>0. Hand(c) /\ task[c] \in Local BY InHand DEF Hand
<1> DEFINE w == [task[c] EXCEPT !.tried = @ + 1]
           more == task[c].tried + 1 < script[c].addresses
           v == IF more THEN w ELSE Fresh("err")
<1>1. w \in Local BY <1>0 DEF Local, Steps
<1>a. Fits(c, w) BY <1>0 DEF Hand, Local, Fits, CallSteps, Pooling, Sending
<1>2. Fresh("err") \in Local /\ Fits(c, Fresh("err"))
  BY <1>0, FreshType DEF Hand, Steps, Fits, CallSteps, Pooling, Sending
<1>3. task' = [task EXCEPT ![c] = v] /\ situation' = situation
  BY <1>0 DEF Hand, FailToDial, Return, OnlyTask, Inv1, TypeOK
<1>4. v \in Local /\ Fits(c, v) BY <1>1, <1>a, <1>2
<1>5. task' \in [Task -> Local] /\ TasksOK'
  <2> HIDE DEF v
  <2> QED BY <1>3, <1>4, <1>0, SetTask DEF Hand
<1> QED BY <1>5 DEF FailToDial, OnlyTask, Inv1, TypeOK

LEMMA SetConnectionType ==
  ASSUME Inv1, NEW c \in Call, SetConnection(c)
  PROVE  Inv1'
<1>0. Hand(c) /\ task[c] \in Local BY InHand DEF Hand
<1> DEFINE s == task[c].state
           w == [Fresh("pushing") EXCEPT !.state = s]
           r == <<NodeOf(c), c>>
           v == [Fresh("locking") EXCEPT !.state = s]
<1>1. s \in End /\ task[c].step = "setting"
  BY <1>0 DEF Hand, SetConnection, At, Fits, Pooling
<1>2. w \in Local /\ w.step = "pushing" /\ v \in Local /\ v.step = "locking" /\ v.state = s
  <2>1. \A step \in {"pushing", "locking"} : Fresh(step) \in Local /\ Fresh(step).step = step
    BY FreshType DEF Steps
  <2> HIDE DEF s
  <2> QED BY <1>1, <2>1 DEF Local
<1>3. r \in End /\ r # c BY <1>0 DEF Hand
<1>4. Fits(c, w)
  <2> HIDE DEF w
  <2> QED BY <1>2, <1>0 DEF Hand, Fits, CallSteps, Pooling, Sending
<1>5. Fits(r, v)
  <2> HIDE DEF v
  <2>1. r \notin Call /\ r \notin AcceptTask BY <1>3, TaskKinds
  <2> HIDE DEF r, s
  <2> QED BY <1>1, <1>2, <2>1 DEF Fits, EndSteps, Receiving, Pooling, Sending
<1>6. ASSUME peer_state[s].status < StatusLimit PROVE task' \in [Task -> Local] /\ TasksOK'
  <2>1. task' = [task EXCEPT ![c] = w, ![r] = v] /\ situation' = situation
    BY <1>6 DEF SetConnection, OnlyPeerState
  <2>2. c \in Task /\ r \in Task BY <1>3, <1>0 DEF Hand, Task
  <2> HIDE DEF w, v, r
  <2> QED BY <1>2, <1>3, <1>4, <1>5, <2>1, <2>2, SetTwo
<1>7. ASSUME ~(peer_state[s].status < StatusLimit) PROVE task' \in [Task -> Local] /\ TasksOK'
  <2>1. Go(c, "stuck") /\ situation' = situation
    BY <1>7 DEF SetConnection, OnlyPeerState
  <2>2. Fits(c, [task[c] EXCEPT !.step = "stuck"])
    BY <1>0 DEF Hand, Local, Fits, CallSteps, Pooling, Sending
  <2> QED BY <2>1, <2>2, <1>0, GoType DEF Hand, Steps
<1>8. peer_state' \in [End -> PeerState]
  <2>1. peer_state[s] \in PeerState /\ peer_state \in [End -> PeerState] /\ c \in Task
    BY <1>1, <1>0 DEF Inv1, TypeOK, Hand
  <2>2. \/ /\ peer_state' = [peer_state EXCEPT ![s].connection = c, ![s].status = @ + 1]
           /\ peer_state[s].status < StatusLimit
        \/ peer_state' = [peer_state EXCEPT ![s].connection = c, ![s].holder = c]
    BY DEF SetConnection
  <2>3. StatusLimit \in Nat BY ConstantsAssumption
  <2> HIDE DEF s
  <2> QED BY <1>1, <2>1, <2>2, <2>3 DEF PeerState
<1> QED BY <1>6, <1>7, <1>8 DEF SetConnection, OnlyPeerState, Inv1, TypeOK

LEMMA PushTaskType ==
  ASSUME Inv1, NEW c \in Call, PushTask(c)
  PROVE  Inv1'
<1>0. Hand(c) /\ task[c] \in Local BY InHand DEF Hand
<1> DEFINE m == [type |-> "HANDSHAKE", source |-> NodeOf(c), to |-> Id(Peer(c)), call |-> c]
           w == [Fresh("sending") EXCEPT !.msg = m]
<1>1. m \in Message BY <1>0 DEF Hand, Message, InfoType
<1>2. w \in Local /\ w.step = "sending" /\ w.msg = m
  <2>1. Fresh("sending") \in Local /\ Fresh("sending").step = "sending" BY FreshType DEF Steps
  <2> HIDE DEF m
  <2> QED BY <1>1, <2>1 DEF Local
<1>3. Fits(c, w)
  <2> HIDE DEF w, m
  <2> QED BY <1>1, <1>2, <1>0 DEF Hand, Fits, CallSteps, Pooling, Sending
<1>4. task' = [task EXCEPT ![c] = w] /\ situation' = situation
  BY <1>0 DEF Hand, PushTask, OnlyTransport, Inv1, TypeOK
<1>5. task' \in [Task -> Local] /\ TasksOK'
  <2> HIDE DEF w
  <2> QED BY <1>2, <1>3, <1>4, <1>0, SetTask DEF Hand
<1>6. transport' \in [Node -> Impl]
  <2>1. <<NodeOf(c), c>> \in Task BY <1>0 DEF Hand, Task
  <2> QED BY <2>1, <1>0 DEF Hand, PushTask, Impl, Inv1, TypeOK
<1> QED BY <1>5, <1>6 DEF PushTask, OnlyTransport, Inv1, TypeOK

LEMMA GetPeerType ==
  ASSUME Inv1, NEW t \in Call \cup End, GetPeer(t)
  PROVE  Inv1'
<1>0. Hand(t) /\ task[t] \in Local BY InHand DEF Hand
<1> DEFINE s == transport[NodeOf(t)].peers[KeyOf(t)]
           w == [task[t] EXCEPT !.step = IF s = None THEN "inserting" ELSE "setting",
                                !.state = IF s = None THEN NewState(t) ELSE s]
<1>1. s \in End \cup {None} /\ NewState(t) \in End BY <1>0 DEF Hand
<1>2. w \in Local /\ Fits(t, w)
  <2> HIDE DEF s
  <2>1. w \in Local BY <1>1, <1>0 DEF Local, Steps
  <2> QED BY <1>1, <2>1, <1>0
      DEF Hand, Local, Fits, CallSteps, EndSteps, Receiving, Pooling, Sending
<1>3. task' = [task EXCEPT ![t] = w] /\ situation' = situation
  BY <1>0 DEF Hand, GetPeer, OnlyTask, Inv1, TypeOK
<1>4. task' \in [Task -> Local] /\ TasksOK'
  <2> HIDE DEF w
  <2> QED BY <1>2, <1>3, <1>0, SetTask DEF Hand
<1> QED BY <1>4 DEF GetPeer, OnlyTask, Inv1, TypeOK

LEMMA InsertPeerType ==
  ASSUME Inv1, NEW t \in Call \cup End, InsertPeer(t)
  PROVE  Inv1'
<1>0. Hand(t) /\ task[t] \in Local BY InHand DEF Hand
<1>1. task[t].step = "inserting" /\ task[t].state \in End
  BY <1>0 DEF Hand, InsertPeer, At, Fits, Pooling
<1>2. Fits(t, [task[t] EXCEPT !.step = "setting"])
  BY <1>1, <1>0 DEF Hand, Local, Fits, CallSteps, EndSteps, Receiving, Pooling, Sending
<1>3. task' \in [Task -> Local] /\ TasksOK'
  BY <1>2, <1>0, GoType DEF Hand, Steps, InsertPeer, OnlyTransport
<1>4. transport' \in [Node -> Impl]
  BY <1>1, <1>0 DEF Hand, InsertPeer, Impl, Inv1, TypeOK
<1> QED BY <1>3, <1>4 DEF InsertPeer, OnlyTransport, Inv1, TypeOK

-----------------------------------------------------------------------------
(***************************************************************************)
(* TypeOK: send_message.                                                   *)
(***************************************************************************)

LEMMA SendType ==
  ASSUME Inv1, NEW c \in Call, Send(c)
  PROVE  Inv1'
<1>0. Hand(c) /\ task[c] \in Local BY InHand DEF Hand
<1> DEFINE m == [type |-> "OTHER", source |-> NodeOf(c), to |-> Id(Peer(c)), call |-> c]
           w == [task[c] EXCEPT !.step = "sending", !.msg = m]
<1>1. m \in Message BY <1>0 DEF Hand, Message
<1>2. w \in Local /\ Fits(c, w)
  <2> HIDE DEF m
  <2>1. w \in Local BY <1>0, <1>1 DEF Local, Steps
  <2> QED BY <1>0, <1>1, <2>1 DEF Hand, Local, Fits, CallSteps, Pooling, Sending
<1>3. task' = [task EXCEPT ![c] = w] /\ situation' = situation
  BY <1>0 DEF Hand, Send, OnlyTask, Inv1, TypeOK
<1>4. task' \in [Task -> Local] /\ TasksOK'
  <2> HIDE DEF w
  <2> QED BY <1>0, <1>2, <1>3, SetTask DEF Hand
<1> QED BY <1>4 DEF Send, OnlyTask, Inv1, TypeOK

LEMMA SendMessageType ==
  ASSUME Inv1, NEW t \in Call \cup End, SendMessage(t)
  PROVE  Inv1'
<1>0. Hand(t) /\ task[t] \in Local BY InHand DEF Hand
<1> DEFINE s == transport[NodeOf(t)].peers[task[t].msg.to]
           w == [task[t] EXCEPT !.step = "streaming", !.peer = s]
<1>1. task[t].step = "sending" /\ task[t].msg \in Message
  BY <1>0 DEF Hand, SendMessage, At, Fits, Sending
<1>2. s \in End \cup {None} /\ (t \in End => task[t].state \in End)
  BY <1>1, <1>0 DEF Message, Hand, Fits, Sending
<1>3. CASE transport[NodeOf(t)].running /\ s # None
  <2>1. w \in Local /\ Fits(t, w)
    <3> HIDE DEF s
    <3>1. w \in Local BY <1>0, <1>2 DEF Local, Steps
    <3> QED BY <1>0, <1>1, <1>2, <1>3, <3>1
        DEF Hand, Local, Fits, CallSteps, EndSteps, Receiving, Pooling, Sending
  <2>2. task' = [task EXCEPT ![t] = w] /\ situation' = situation
    BY <1>0, <1>3 DEF Hand, SendMessage, OnlyTask, Inv1, TypeOK
  <2>3. task' \in [Task -> Local] /\ TasksOK'
    <3> HIDE DEF w
    <3> QED BY <1>0, <2>1, <2>2, SetTask DEF Hand
  <2> QED BY <2>3 DEF SendMessage, OnlyTask, Inv1, TypeOK
<1>4. CASE ~(transport[NodeOf(t)].running /\ s # None)
  <2>1. Fails(t) /\ situation' = situation BY <1>4 DEF SendMessage, OnlyTask
  <2>2. task' \in [Task -> Local] /\ TasksOK' BY <1>1, <2>1, FailsType DEF Sending
  <2> QED BY <2>2 DEF SendMessage, OnlyTask, Inv1, TypeOK
<1> QED BY <1>3, <1>4

\* A PeerState after its Mutex was taken or given back.
LEMMA HoldType ==
  ASSUME Inv1, NEW s \in End, NEW h \in Task \cup {None},
         peer_state' = [peer_state EXCEPT ![s].holder = h]
  PROVE  peer_state' \in [End -> PeerState]
<1>1. peer_state[s] \in PeerState /\ peer_state \in [End -> PeerState] BY DEF Inv1, TypeOK
<1> QED BY <1>1 DEF PeerState

\* The room a peer gives is at least taken up by the streams nobody has read.
LEMMA RoomType ==
  ASSUME Inv1, NEW t, HasRoom(t), Len(unread[Far(t)]) \in Nat
  PROVE  Len(unread[Far(t)]) < StreamLimit
<1>1. IsFiniteSet(End) BY ConstantsAssumption, FS_Product DEF End
<1>2. Held(Far(t)) \in SUBSET End BY DEF Held
<1>3. Cardinality(Held(Far(t))) \in Nat BY <1>1, <1>2, FS_Subset, FS_CardinalityType
<1>4. StreamLimit \in Nat BY ConstantsAssumption
<1>5. Len(unread[Far(t)]) + Cardinality(Held(Far(t))) < StreamLimit BY DEF HasRoom
<1> HIDE DEF Held
<1> QED BY <1>3, <1>4, <1>5

LEMMA OpenStreamType ==
  ASSUME Inv1, NEW t \in Call \cup End, OpenStream(t)
  PROVE  Inv1'
<1>0. Hand(t) /\ task[t] \in Local BY InHand DEF Hand
<1> DEFINE w == [task[t] EXCEPT !.step = "finishing", !.via = Through(t)]
<1>1. /\ task[t].step \in {"streaming", "opening"} /\ task[t].msg \in Message
      /\ task[t].peer \in End /\ (t \in End => task[t].state \in End)
  BY <1>0 DEF Hand, OpenStream, MayOpen, At, Fits, Sending
<1>2. Through(t) \in Call
  BY <1>1 DEF OpenStream, Usable, Connected, Through, Inv1, TypeOK, PeerState
<1>3. w \in Local /\ Fits(t, w)
  <2>1. w \in Local BY <1>0, <1>2 DEF Local, Steps
  <2> QED BY <1>0, <1>1, <1>2, <2>1
      DEF Hand, Local, Fits, CallSteps, EndSteps, Receiving, Pooling, Sending
<1>4. task' = [task EXCEPT ![t] = w] /\ situation' = situation
  BY <1>0 DEF Hand, OpenStream, Inv1, TypeOK
<1>5. task' \in [Task -> Local] /\ TasksOK'
  <2> HIDE DEF w
  <2> QED BY <1>0, <1>3, <1>4, SetTask DEF Hand
<1>6. peer_state' \in [End -> PeerState]
  BY <1>1, HoldType DEF OpenStream
<1>7. unread' \in [End -> Seq(Message)] /\ \A e \in End : Len(unread'[e]) <= StreamLimit
  <2> DEFINE f == Far(t)
             m == task[t].msg
  <2>1. unread' = [unread EXCEPT ![f] = Append(@, m)] BY DEF OpenStream
  <2>2. unread \in [End -> Seq(Message)] /\ \A e \in End : Len(unread[e]) <= StreamLimit
    BY DEF Inv1, TypeOK
  <2>3. \A e \in End : Len(unread[e]) \in Nat BY <2>2
  <2>4. f \in End => Len(unread[f]) < StreamLimit BY <2>3, RoomType DEF OpenStream
  <2>5. m \in Message BY <1>1
  <2> HIDE DEF f, m
  <2>6. \A e \in End : unread'[e] = IF e = f THEN Append(unread[e], m) ELSE unread[e]
    BY <2>1, <2>2
  <2>7. \A e \in End :
          Append(unread[e], m) \in Seq(Message) /\ Len(Append(unread[e], m)) = Len(unread[e]) + 1
    BY <2>2, <2>5
  <2>8. \A e \in End : unread'[e] \in Seq(Message) BY <2>2, <2>6, <2>7
  <2>9. f \in End => Len(Append(unread[f], m)) <= StreamLimit
    <3>1. StreamLimit \in Nat BY ConstantsAssumption
    <3>2. \A i \in Nat : i < StreamLimit => i + 1 <= StreamLimit BY <3>1
    <3> QED BY <2>3, <2>4, <2>7, <3>2
  <2>10. \A e \in End : Len(unread'[e]) <= StreamLimit BY <2>2, <2>6, <2>9
  <2> QED BY <2>1, <2>2, <2>8, <2>10
<1> QED BY <1>5, <1>6, <1>7 DEF OpenStream, Inv1, TypeOK

LEMMA WaitForStreamType ==
  ASSUME Inv1, NEW t \in Call \cup End, WaitForStream(t)
  PROVE  Inv1'
<1>0. Hand(t) /\ task[t] \in Local BY InHand DEF Hand
<1>1. /\ task[t].step = "streaming" /\ task[t].msg \in Message
      /\ task[t].peer \in End /\ (t \in End => task[t].state \in End)
  BY <1>0 DEF Hand, WaitForStream, At, Fits, Sending
<1>2. Fits(t, [task[t] EXCEPT !.step = "opening"])
  BY <1>0, <1>1 DEF Hand, Local, Fits, CallSteps, EndSteps, Receiving, Pooling, Sending
<1>3. task' \in [Task -> Local] /\ TasksOK'
  <2>1. "opening" \in Steps BY DEF Steps
  <2> QED BY <1>0, <1>2, <2>1, GoType DEF Hand, WaitForStream, OnlyPeerState
<1>4. peer_state' \in [End -> PeerState]
  BY <1>0, <1>1, HoldType DEF Hand, WaitForStream
<1> QED BY <1>3, <1>4 DEF WaitForStream, OnlyPeerState, Inv1, TypeOK

LEMMA FailToOpenType ==
  ASSUME Inv1, NEW t \in Call \cup End, FailToOpen(t)
  PROVE  Inv1'
<1>0. Hand(t) BY InHand
<1>1. task[t].step \in Sending /\ task[t].peer \in End
  BY <1>0 DEF Hand, FailToOpen, MayOpen, At, Fits, Sending
<1>2. task' \in [Task -> Local] /\ TasksOK'
  BY <1>1, FailsType DEF FailToOpen, OnlyPeerState
<1>3. peer_state' \in [End -> PeerState]
  BY <1>1, HoldType DEF FailToOpen
<1> QED BY <1>2, <1>3 DEF FailToOpen, OnlyPeerState, Inv1, TypeOK

LEMMA FinishStreamType ==
  ASSUME Inv1, NEW c \in Call, FinishStream(c)
  PROVE  Inv1'
<1>0. Hand(c) /\ task[c] \in Local BY InHand DEF Hand
<1> DEFINE w == [Fresh("updating") EXCEPT !.todo = task[c].todo]
<1>1. CASE script[c].kind = "update"
  <2>1. task' = [task EXCEPT ![c] = w] /\ situation' = situation
    BY <1>1 DEF FinishStream, OnlyTask
  <2>2. w \in Local /\ w.step = "updating"
    <3>1. Fresh("updating") \in Local /\ Fresh("updating").step = "updating"
      BY FreshType DEF Steps
    <3> QED BY <1>0, <3>1 DEF Local
  <2>3. Fits(c, w)
    <3> HIDE DEF w
    <3> QED BY <1>0, <2>2 DEF Hand, Fits, CallSteps, Pooling, Sending
  <2>4. task' \in [Task -> Local] /\ TasksOK'
    <3> HIDE DEF w
    <3> QED BY <1>0, <2>1, <2>2, <2>3, SetTask DEF Hand
  <2> QED BY <2>4 DEF FinishStream, OnlyTask, Inv1, TypeOK
<1>2. CASE script[c].kind # "update"
  <2>1. task' \in [Task -> Local] /\ TasksOK'
    BY <1>2, ReturnType DEF FinishStream, OnlyTask
  <2> QED BY <2>1 DEF FinishStream, OnlyTask, Inv1, TypeOK
<1> QED BY <1>1, <1>2

LEMMA FinishResponseType ==
  ASSUME Inv1, NEW e \in End, FinishResponse(e)
  PROVE  Inv1'
<1>0. Hand(e) BY InHand
<1>1. task[e].state \in End /\ task[e].msg \in Message
  BY <1>0 DEF Hand, FinishResponse, At, Fits, Sending
<1>2. task' \in [Task -> Local] /\ TasksOK'
  BY <1>1, ReceivesType DEF FinishResponse, OnlyTransport
<1>3. transport' \in [Node -> Impl]
  <2>1. task[e].msg.to.peer \in Node BY <1>1 DEF Message, Key
  <2> QED BY <1>0, <2>1 DEF Hand, FinishResponse, Impl, Inv1, TypeOK
<1> QED BY <1>2, <1>3 DEF FinishResponse, OnlyTransport, Inv1, TypeOK

LEMMA FailToFinishType ==
  ASSUME Inv1, NEW t \in Call \cup End, FailToFinish(t)
  PROVE  Inv1'
<1>1. task[t].step \in Sending BY DEF FailToFinish, At, Sending
<1>2. task' \in [Task -> Local] /\ TasksOK' BY <1>1, FailsType DEF FailToFinish, OnlyTask
<1> QED BY <1>2 DEF FailToFinish, OnlyTask, Inv1, TypeOK

LEMMA StopFinishType ==
  ASSUME Inv1, NEW t \in Call \cup End, StopFinish(t)
  PROVE  Inv1'
<1>0. Hand(t) BY InHand
<1>1. task[t].step \in Sending /\ task[t].msg \in Message
  BY <1>0 DEF Hand, StopFinish, At, Fits, Sending
<1>2. task' \in [Task -> Local] /\ TasksOK' BY <1>1, FailsType DEF StopFinish, OnlyTransport
<1>3. transport' \in [Node -> Impl]
  <2>1. task[t].msg.to.peer \in Node BY <1>1 DEF Message, Key
  <2> QED BY <1>0, <2>1 DEF Hand, StopFinish, Impl, Inv1, TypeOK
<1> QED BY <1>2, <1>3 DEF StopFinish, OnlyTransport, Inv1, TypeOK

LEMMA SendStepType ==
  ASSUME Inv1, NEW t \in Call \cup End, SendStep(t)
  PROVE  Inv1'
<1>1. t \in Call \/ t \in End OBVIOUS
<1>2. ASSUME FinishStream(t) PROVE Inv1' BY <1>2, FinishStreamType DEF FinishStream
<1>3. ASSUME FinishResponse(t) PROVE Inv1' BY <1>3, FinishResponseType DEF FinishResponse
<1> QED BY <1>2, <1>3, SendMessageType, OpenStreamType, WaitForStreamType, FailToOpenType,
           FailToFinishType, StopFinishType DEF SendStep

-----------------------------------------------------------------------------
(***************************************************************************)
(* TypeOK: update_peers and disconnect.                                    *)
(***************************************************************************)

LEMMA CollectType ==
  ASSUME Inv1, NEW c \in Call, Collect(c)
  PROVE  Inv1'
<1>0. Hand(c) /\ task[c] \in Local BY InHand DEF Hand
<1> DEFINE n == NodeOf(c)
           start == Begins(c, "update")
           keys == IF start THEN {k \in Key : transport[n].peers[k] # None} ELSE task[c].rest
           now == {k \in keys : Free(transport[n].peers[k])}
           more == {k \in now : Connected(transport[n].peers[k])}
           step == IF now = keys THEN "updating" ELSE "collecting"
           rest == keys \ now
           todo == task[c].todo \cup more
           w == [task[c] EXCEPT !.step = step, !.rest = rest, !.todo = todo]
<1>1. keys \subseteq Key BY <1>0 DEF Local
<1>2. rest \subseteq Key /\ todo \subseteq Key /\ step \in {"updating", "collecting"}
  <2> HIDE DEF keys
  <2> QED BY <1>0, <1>1 DEF Local
<1>3. task' = [task EXCEPT ![c] = w] /\ situation' = situation
  <2>1. task' = [task EXCEPT ![c].step = step, ![c].rest = rest, ![c].todo = @ \cup more]
    BY DEF Collect
  <2> HIDE DEF step, rest, more
  <2> QED BY <1>0, <2>1 DEF Hand, Inv1, TypeOK, Collect, OnlyTransport
<1>4. w \in Local /\ Fits(c, w)
  <2> HIDE DEF step, rest, todo
  <2>1. w \in Local BY <1>0, <1>2 DEF Local, Steps
  <2> QED BY <1>0, <1>2, <2>1 DEF Hand, Local, Fits, CallSteps, Pooling, Sending
<1>5. task' \in [Task -> Local] /\ TasksOK'
  <2> HIDE DEF w
  <2> QED BY <1>0, <1>3, <1>4, SetTask DEF Hand
<1>6. transport' \in [Node -> Impl]
  <2> DEFINE i == IF now = keys THEN transport[n].iterating \ {c}
                  ELSE transport[n].iterating \cup {c}
  <2>1. transport' = [transport EXCEPT ![n].iterating = i]
    BY <1>0 DEF Hand, Collect, Inv1, TypeOK
  <2>2. i \subseteq Call BY <1>0 DEF Hand, Impl
  <2> HIDE DEF i
  <2> QED BY <1>0, <2>1, <2>2 DEF Hand, Impl, Inv1, TypeOK
<1> QED BY <1>5, <1>6 DEF Collect, OnlyTransport, Inv1, TypeOK

LEMMA UpdateNextType ==
  ASSUME Inv1, NEW c \in Call, UpdateNext(c)
  PROVE  Inv1'
<1>0. Hand(c) /\ task[c] \in Local BY InHand DEF Hand
<1>1. PICK k \in task[c].todo :
        task' = [task EXCEPT ![c].step = "sending", ![c].todo = @ \ {k},
                   ![c].msg = [type |-> "UPDATE", source |-> NodeOf(c), to |-> k, call |-> c]]
  BY DEF UpdateNext
<1> DEFINE m == [type |-> "UPDATE", source |-> NodeOf(c), to |-> k, call |-> c]
           w == [task[c] EXCEPT !.step = "sending", !.todo = @ \ {k}, !.msg = m]
<1>2. m \in Message BY <1>0 DEF Hand, Local, Message, InfoType
<1>3. w \in Local /\ Fits(c, w)
  <2> HIDE DEF m
  <2>1. w \in Local BY <1>0, <1>2 DEF Local, Steps
  <2> QED BY <1>0, <1>2, <2>1 DEF Hand, Local, Fits, CallSteps, Pooling, Sending
<1>4. task' = [task EXCEPT ![c] = w] /\ situation' = situation
  BY <1>0, <1>1 DEF Hand, UpdateNext, OnlyTask, Inv1, TypeOK
<1>5. task' \in [Task -> Local] /\ TasksOK'
  <2> HIDE DEF w
  <2> QED BY <1>0, <1>3, <1>4, SetTask DEF Hand
<1> QED BY <1>5 DEF UpdateNext, OnlyTask, Inv1, TypeOK

LEMMA RemovePeerType ==
  ASSUME Inv1, NEW c \in Call, RemovePeer(c)
  PROVE  Inv1'
<1>0. Hand(c) /\ task[c] \in Local BY InHand DEF Hand
<1> DEFINE s == transport[NodeOf(c)].peers[Id(Peer(c))]
           w == [task[c] EXCEPT !.step = "clearing", !.state = s]
<1>1. s \in End \cup {None} BY <1>0 DEF Hand
<1>2. transport' \in [Node -> Impl]
  BY <1>0 DEF Hand, RemovePeer, Impl, Inv1, TypeOK
<1>3. CASE s = None
  <2>1. task' \in [Task -> Local] /\ TasksOK'
    BY <1>3, ReturnType DEF RemovePeer, OnlyTransport
  <2> QED BY <1>2, <2>1 DEF RemovePeer, OnlyTransport, Inv1, TypeOK
<1>4. CASE s # None
  <2>1. w \in Local /\ Fits(c, w)
    <3> HIDE DEF s
    <3>1. w \in Local BY <1>0, <1>1 DEF Local, Steps
    <3> QED BY <1>0, <1>1, <1>4, <3>1 DEF Hand, Local, Fits, CallSteps, Pooling, Sending
  <2>2. task' = [task EXCEPT ![c] = w] /\ situation' = situation
    BY <1>0, <1>4 DEF Hand, RemovePeer, OnlyTransport, Inv1, TypeOK
  <2>3. task' \in [Task -> Local] /\ TasksOK'
    <3> HIDE DEF w
    <3> QED BY <1>0, <2>1, <2>2, SetTask DEF Hand
  <2> QED BY <1>2, <2>3 DEF RemovePeer, OnlyTransport, Inv1, TypeOK
<1> QED BY <1>3, <1>4

LEMMA LeaveType ==
  ASSUME Inv1, NEW c \in Call, AllUpdated(c) \/ Disconnect(c) \/ ClearConnection(c)
  PROVE  Inv1'
<1>0. Hand(c) /\ task[c] \in Local BY InHand DEF Hand
<1>1. ASSUME AllUpdated(c) PROVE Inv1'
  BY <1>1, ReturnType DEF AllUpdated, OnlyTask, Inv1, TypeOK
<1>2. ASSUME Disconnect(c) PROVE Inv1'
  <2>1. Fits(c, [task[c] EXCEPT !.step = "removing"]) /\ "removing" \in Steps
    BY <1>0 DEF Hand, Local, Fits, CallSteps, Pooling, Sending, Steps
  <2>2. task' \in [Task -> Local] /\ TasksOK'
    BY <1>0, <1>2, <2>1, GoType, ReturnType DEF Hand, Disconnect, GoOrFail, OnlyTask
  <2> QED BY <1>2, <2>2 DEF Disconnect, OnlyTask, Inv1, TypeOK
<1>3. ASSUME ClearConnection(c) PROVE Inv1'
  <2>1. task[c].state \in End BY <1>0, <1>3 DEF Hand, ClearConnection, At, Fits
  <2>2. peer_state' \in [End -> PeerState]
    BY <1>3, <2>1 DEF ClearConnection, PeerState, Inv1, TypeOK
  <2> QED BY <1>3, <2>2, ReturnType DEF ClearConnection, OnlyPeerState, Inv1, TypeOK
<1> QED BY <1>1, <1>2, <1>3

-----------------------------------------------------------------------------
(***************************************************************************)
(* TypeOK: start and stop.                                                 *)
(***************************************************************************)

LEMMA StartType ==
  ASSUME Inv1, NEW c \in Call, AlreadyRunning(c) \/ Start(c)
  PROVE  Inv1'
<1>0. Hand(c) /\ task[c] \in Local BY InHand DEF Hand
<1>1. ASSUME AlreadyRunning(c) PROVE Inv1'
  BY <1>1, ReturnType DEF AlreadyRunning, OnlyTask, Inv1, TypeOK
<1>2. ASSUME Start(c) PROVE Inv1'
  <2>1. Fits(c, [task[c] EXCEPT !.step = "storing"]) /\ "storing" \in Steps
    BY <1>0 DEF Hand, Local, Fits, CallSteps, Pooling, Sending, Steps
  <2>2. task' \in [Task -> Local] /\ TasksOK'
    BY <1>0, <1>2, <2>1, GoType, ReturnType DEF Hand, Start, GoOrFail, OnlyTransport
  <2> DEFINE x == IF transport[NodeOf(c)].endpoint = "none" THEN "open"
                  ELSE transport[NodeOf(c)].endpoint
  <2>3. x \in {"open", "closed"} BY <1>0 DEF Hand, Impl
  <2>4. transport' = [transport EXCEPT ![NodeOf(c)].endpoint = x]
    BY <1>0, <1>2 DEF Hand, Start, Inv1, TypeOK
  <2>5. transport' \in [Node -> Impl]
    <3> HIDE DEF x
    <3> QED BY <1>0, <2>3, <2>4 DEF Hand, Impl, Inv1, TypeOK
  <2> QED BY <1>2, <2>2, <2>5 DEF Start, OnlyTransport, Inv1, TypeOK
<1> QED BY <1>1, <1>2

LEMMA StoreEndpointType ==
  ASSUME Inv1, NEW c \in Call, StoreEndpoint(c)
  PROVE  Inv1'
<1>0. Hand(c) /\ task[c] \in Local BY InHand DEF Hand
<1> DEFINE x == <<NodeOf(c), None>>
           w == [task[c] EXCEPT !.step = "starting"]
           v == [task[x] EXCEPT !.step = "born"]
<1>1. x \in AcceptTask /\ x \in Task /\ x # c /\ x \notin Call /\ x \notin End
  BY <1>0, TaskKinds DEF Hand, AcceptTask, Task
<1>2. task[x] \in Local BY <1>1 DEF Inv1, TypeOK
<1>3. w \in Local BY <1>0 DEF Local, Steps
<1>4. v \in Local /\ v.step = "born" BY <1>2 DEF Local, Steps
<1>5. Fits(c, w) BY <1>0 DEF Hand, Local, Fits, CallSteps, Pooling, Sending
<1>6. Fits(x, v)
  <2> HIDE DEF v, x
  <2> QED BY <1>1, <1>4 DEF Fits, AcceptSteps, Pooling, Sending
<1>7. task' = [task EXCEPT ![c] = w, ![x] = v] /\ situation' = situation
  <2>1. task' = [task EXCEPT ![c].step = "starting", ![x].step = "born"]
    BY DEF StoreEndpoint
  <2> HIDE DEF x
  <2> QED BY <1>0, <1>1, <2>1 DEF Hand, StoreEndpoint, OnlyTransport, Inv1, TypeOK
<1>8. task' \in [Task -> Local] /\ TasksOK'
  <2> HIDE DEF w, v, x
  <2> QED BY <1>0, <1>1, <1>3, <1>4, <1>5, <1>6, <1>7, SetTwo DEF Hand
<1>9. transport' \in [Node -> Impl]
  BY <1>0 DEF Hand, StoreEndpoint, Impl, Inv1, TypeOK
<1> QED BY <1>8, <1>9 DEF StoreEndpoint, OnlyTransport, Inv1, TypeOK

LEMMA StartedType ==
  ASSUME Inv1, NEW c \in Call, Started(c)
  PROVE  Inv1'
<1>0. Hand(c) BY InHand
<1>1. task' \in [Task -> Local] /\ TasksOK' BY ReturnType DEF Started, OnlyTransport
<1>2. transport' \in [Node -> Impl]
  <2> DEFINE x == <<NodeOf(c), None>>
             i == [transport[NodeOf(c)] EXCEPT
                     !.background_tasks = @ \cup {x}, !.running = TRUE, !.endpoint_lock = None]
  <2>1. x \in Task /\ transport[NodeOf(c)] \in Impl BY <1>0 DEF Hand, AcceptTask, Task
  <2>2. i \in Impl
    <3> HIDE DEF x
    <3> QED BY <2>1 DEF Impl
  <2>3. transport' = [transport EXCEPT ![NodeOf(c)] = i]
    BY <1>0 DEF Hand, Started, Inv1, TypeOK
  <2> HIDE DEF i
  <2> QED BY <1>0, <2>2, <2>3 DEF Hand, Inv1, TypeOK
<1> QED BY <1>1, <1>2 DEF Started, OnlyTransport, Inv1, TypeOK

LEMMA StopType ==
  ASSUME Inv1, NEW c \in Call, Stop(c) \/ Halt(c) \/ CloseEndpoint(c)
  PROVE  Inv1'
<1>0. Hand(c) /\ task[c] \in Local BY InHand DEF Hand
<1>1. \A step \in {"halting", "closing", "draining"} :
        step \in Steps /\ Fits(c, [task[c] EXCEPT !.step = step])
  BY <1>0 DEF Hand, Local, Fits, CallSteps, Pooling, Sending, Steps
<1>2. ASSUME Stop(c) PROVE Inv1'
  <2>1. task' \in [Task -> Local] /\ TasksOK'
    BY <1>0, <1>1, <1>2, GoType, ReturnType DEF Hand, Stop, OnlyTask
  <2> QED BY <1>2, <2>1 DEF Stop, OnlyTask, Inv1, TypeOK
<1>3. ASSUME Halt(c) PROVE Inv1'
  <2>1. task' \in [Task -> Local] /\ TasksOK'
    BY <1>0, <1>1, <1>3, GoType DEF Hand, Halt, OnlyTransport
  <2>2. transport' \in [Node -> Impl]
    BY <1>0, <1>3 DEF Hand, Halt, Impl, Inv1, TypeOK
  <2> QED BY <1>3, <2>1, <2>2 DEF Halt, OnlyTransport, Inv1, TypeOK
<1>4. ASSUME CloseEndpoint(c) PROVE Inv1'
  <2>1. task' \in [Task -> Local] /\ TasksOK'
    BY <1>0, <1>1, <1>4, GoType DEF Hand, CloseEndpoint, OnlyTransport
  <2>2. transport' \in [Node -> Impl]
    BY <1>0, <1>4 DEF Hand, CloseEndpoint, Close, Impl, Inv1, TypeOK
  <2> QED BY <1>4, <2>1, <2>2 DEF CloseEndpoint, OnlyTransport, Inv1, TypeOK
<1> QED BY <1>2, <1>3, <1>4

LEMMA JoinType ==
  ASSUME Inv1, NEW c \in Call, DrainTasks(c) \/ JoinTasks(c)
  PROVE  Inv1'
<1>0. Hand(c) /\ task[c] \in Local BY InHand DEF Hand
<1>1. ASSUME DrainTasks(c) PROVE Inv1'
  <2> DEFINE j == transport[NodeOf(c)].background_tasks
             w == [task[c] EXCEPT !.step = "joining", !.joins = j]
  <2>1. j \subseteq Task BY <1>0 DEF Hand, Impl
  <2>2. w \in Local /\ Fits(c, w)
    <3> HIDE DEF j
    <3>1. w \in Local BY <1>0, <2>1 DEF Local, Steps
    <3> QED BY <1>0, <3>1 DEF Hand, Local, Fits, CallSteps, Pooling, Sending
  <2>3. task' = [task EXCEPT ![c] = w] /\ situation' = situation
    BY <1>0, <1>1 DEF Hand, DrainTasks, OnlyTransport, Inv1, TypeOK
  <2>4. task' \in [Task -> Local] /\ TasksOK'
    <3> HIDE DEF w
    <3> QED BY <1>0, <2>2, <2>3, SetTask DEF Hand
  <2>5. transport' \in [Node -> Impl]
    BY <1>0, <1>1 DEF Hand, DrainTasks, Impl, Inv1, TypeOK
  <2> QED BY <1>1, <2>4, <2>5 DEF DrainTasks, OnlyTransport, Inv1, TypeOK
<1>2. ASSUME JoinTasks(c) PROVE Inv1'
  <2>1. task' \in [Task -> Local] /\ TasksOK'
    BY <1>2, ReturnType DEF JoinTasks, OnlyTransport
  <2>2. transport' \in [Node -> Impl]
    BY <1>0, <1>2 DEF Hand, JoinTasks, Impl, Inv1, TypeOK
  <2> QED BY <1>2, <2>1, <2>2 DEF JoinTasks, OnlyTransport, Inv1, TypeOK
<1> QED BY <1>1, <1>2

-----------------------------------------------------------------------------
(***************************************************************************)
(* TypeOK: the accept loop and the receivers.                              *)
(***************************************************************************)

LEMMA AcceptType ==
  ASSUME Inv1, NEW x \in AcceptTask, AcceptStep(x)
  PROVE  Inv1'
<1>0. x \in Task /\ x \notin Call /\ x \notin End /\ task[x] \in Local /\ x[1] \in Node
  BY TaskKinds DEF Task, AcceptTask, Inv1, TypeOK
<1>1. \A step \in {"accepting", "ended"} :
        step \in Steps /\ Fits(x, [task[x] EXCEPT !.step = step])
  BY <1>0 DEF Local, Fits, AcceptSteps, Pooling, Sending, Steps
<1>2. ASSUME CheckRunning(x) PROVE Inv1'
  <2>1. task' \in [Task -> Local] /\ TasksOK'
    BY <1>0, <1>1, <1>2, GoType DEF CheckRunning, OnlyTask
  <2> QED BY <1>2, <2>1 DEF CheckRunning, OnlyTask, Inv1, TypeOK
<1>3. ASSUME EndAccept(x) PROVE Inv1'
  <2>1. task' \in [Task -> Local] /\ TasksOK'
    BY <1>0, <1>1, <1>3, GoType DEF EndAccept, OnlyTask
  <2> QED BY <1>3, <2>1 DEF EndAccept, OnlyTask, Inv1, TypeOK
<1>4. ASSUME NEW k \in Call, Accept(x, k) PROVE Inv1'
  <2> DEFINE e == <<x[1], k>>
             step == IF transport[x[1]].running THEN "accepting" ELSE "ended"
             w == [task[x] EXCEPT !.step = step]
             v == [Fresh("establishing") EXCEPT !.conn = k]
  <2>1. e \in End /\ e \in Task /\ e # x /\ e \notin Call /\ e \notin AcceptTask
    BY <1>0, TaskKinds DEF End, Task
  <2>2. w \in Local /\ Fits(x, w)
    <3>1. step \in {"accepting", "ended"} OBVIOUS
    <3> HIDE DEF step
    <3>2. w \in Local BY <1>0, <1>1, <3>1 DEF Local
    <3>3. w.step \in {"accepting", "ended"} BY <1>0, <3>1 DEF Local
    <3> HIDE DEF w
    <3>4. Fits(x, w) BY <1>0, <3>3 DEF Fits, AcceptSteps, Pooling, Sending
    <3> QED BY <3>2, <3>4
  <2>3. v \in Local /\ v.step = "establishing"
    <3>1. Fresh("establishing") \in Local /\ Fresh("establishing").step = "establishing"
      BY FreshType DEF Steps
    <3> QED BY <3>1 DEF Local
  <2>4. Fits(e, v)
    <3> HIDE DEF v, e
    <3> QED BY <2>1, <2>3 DEF Fits, EndSteps, Receiving, Pooling, Sending
  <2>5. task' = [task EXCEPT ![x] = w, ![e] = v] /\ situation' = situation
    <3>1. task' = [task EXCEPT ![x].step = step, ![e] = v] BY <1>4 DEF Accept
    <3> HIDE DEF e, v, step
    <3> QED BY <1>0, <1>4, <2>1, <3>1 DEF Accept, Inv1, TypeOK
  <2>6. task' \in [Task -> Local] /\ TasksOK'
    <3> HIDE DEF w, v, e
    <3> QED BY <1>0, <2>1, <2>2, <2>3, <2>4, <2>5, SetTwo
  <2> QED BY <1>4, <2>6 DEF Accept, Inv1, TypeOK
<1> QED BY <1>2, <1>3, <1>4 DEF AcceptStep

LEMMA EstablishType ==
  ASSUME Inv1, NEW e \in End, FailToEstablish(e) \/ SetIncoming(e) \/ EndReceiver(e)
  PROVE  Inv1'
<1>0. Hand(e) BY InHand
<1>1. ASSUME FailToEstablish(e) PROVE Inv1'
  BY <1>1, EndsType DEF FailToEstablish, OnlyTask, Inv1, TypeOK
<1>2. ASSUME EndReceiver(e) PROVE Inv1'
  BY <1>2, EndsType DEF EndReceiver, OnlyTask, Inv1, TypeOK
<1>3. ASSUME SetIncoming(e) PROVE Inv1'
  <2>1. task[e].state \in End BY <1>0, <1>3 DEF Hand, SetIncoming, At, Fits, Pooling
  <2>2. peer_state' \in [End -> PeerState]
    BY <1>0, <1>3, <2>1 DEF Hand, SetIncoming, PeerState, Inv1, TypeOK
  <2> QED BY <1>3, <2>1, <2>2, ReceivesType DEF SetIncoming, OnlyPeerState, Inv1, TypeOK
<1> QED BY <1>1, <1>2, <1>3

LEMMA TakeConnectionType ==
  ASSUME Inv1, NEW e \in End, TakeConnection(e)
  PROVE  Inv1'
<1>0. Hand(e) /\ task[e] \in Local BY InHand DEF Hand
<1> DEFINE s == task[e].state
           k == peer_state[s].connection
           w == [task[e] EXCEPT !.step = "reading", !.conn = k]
<1>1. s \in End BY <1>0 DEF Hand, TakeConnection, At, Fits
<1>2. CASE Connected(s)
  <2>1. k \in Call BY <1>1, <1>2 DEF Connected, PeerState, Inv1, TypeOK
  <2>2. w \in Local /\ Fits(e, w)
    <3> HIDE DEF k
    <3>1. w \in Local BY <1>0, <2>1 DEF Local, Steps
    <3>2. w.step = "reading" /\ w.conn = k /\ w.state = s BY <1>0 DEF Local
    <3>3. e \notin Call /\ e \notin AcceptTask BY <1>0 DEF Hand
    <3> HIDE DEF w, s
    <3> QED BY <1>1, <2>1, <3>1, <3>2, <3>3 DEF Fits, EndSteps, Receiving, Pooling, Sending
  <2>3. task' = [task EXCEPT ![e] = w] /\ situation' = situation
    BY <1>0, <1>2 DEF Hand, TakeConnection, OnlyTask, Inv1, TypeOK
  <2>4. task' \in [Task -> Local] /\ TasksOK'
    <3> HIDE DEF w
    <3> QED BY <1>0, <2>2, <2>3, SetTask DEF Hand
  <2> QED BY <2>4 DEF TakeConnection, OnlyTask, Inv1, TypeOK
<1>3. CASE ~Connected(s)
  <2>1. task' \in [Task -> Local] /\ TasksOK'
    BY <1>3, EndsType DEF TakeConnection, OnlyTask
  <2> QED BY <2>1 DEF TakeConnection, OnlyTask, Inv1, TypeOK
<1> QED BY <1>2, <1>3

\* A message that is read is one, and what is left of its stream too.
LEMMA ReadsType ==
  ASSUME Inv1, NEW e \in End, NEW types, Reads(e, types)
  PROVE  /\ task[e].step = "reading" /\ task[e].state \in End
         /\ FirstMessage(e) \in Message /\ Source(e) \in Node
         /\ Entry(e) \in End \cup {None}
         /\ unread' \in [End -> Seq(Message)] /\ \A f \in End : Len(unread'[f]) <= StreamLimit
<1>0. Hand(e) BY InHand
<1> DEFINE f == Streams(e)
<1>1. task[e].step = "reading" /\ task[e].state \in End /\ task[e].conn \in Call
  BY <1>0 DEF Hand, Reads, At, Fits
<1>2. f \in End BY <1>0, <1>1 DEF Hand, Streams, End
<1>3. unread[f] # <<>> /\ unread' = [unread EXCEPT ![f] = Tail(@)] BY DEF Reads
<1>4. unread \in [End -> Seq(Message)] /\ \A g \in End : Len(unread[g]) <= StreamLimit
  BY DEF Inv1, TypeOK
<1>5. Head(unread[f]) \in Message
  <2> HIDE DEF f
  <2> QED BY <1>2, <1>3, <1>4
<1>6. FirstMessage(e) \in Message BY <1>5 DEF FirstMessage
<1>7. Source(e) \in Node BY <1>6 DEF Source, Message
<1>8. Entry(e) \in End \cup {None} BY <1>0, <1>7, Keys DEF Hand, Entry
<1>9. unread' \in [End -> Seq(Message)] /\ \A g \in End : Len(unread'[g]) <= StreamLimit
  <2> HIDE DEF f
  <2>1. Tail(unread[f]) \in Seq(Message) /\ Len(Tail(unread[f])) = Len(unread[f]) - 1
    BY <1>2, <1>3, <1>4
  <2>2. \A g \in End : unread'[g] = IF g = f THEN Tail(unread[g]) ELSE unread[g]
    BY <1>3, <1>4
  <2>3. StreamLimit \in Nat BY ConstantsAssumption
  <2>4. \A g \in End : unread'[g] \in Seq(Message) BY <1>4, <2>1, <2>2
  <2>5. Len(unread[f]) \in Nat BY <1>2, <1>4
  <2>6. Len(Tail(unread[f])) <= StreamLimit BY <1>2, <1>4, <2>1, <2>3, <2>5
  <2>7. \A g \in End : Len(unread'[g]) <= StreamLimit BY <1>4, <2>2, <2>6
  <2> QED BY <1>3, <1>4, <2>4, <2>7
<1> QED BY <1>1, <1>6, <1>7, <1>8, <1>9

LEMMA SetNodeInfoType ==
  ASSUME Inv1, NEW e \in End, Source(e) \in Node, Entry(e) \in End \cup {None}, SetNodeInfo(e)
  PROVE  peer_state' \in [End -> PeerState]
BY DEF SetNodeInfo, PeerState, Inv1, TypeOK

LEMMA ReadType ==
  ASSUME Inv1, NEW e \in End, HandleMessage(e) \/ ReceiveInfo(e)
  PROVE  Inv1'
<1>0. Hand(e) BY InHand
<1>1. ASSUME HandleMessage(e) PROVE Inv1'
  <2>1. PICK types : Reads(e, types) BY <1>1 DEF HandleMessage
  <2>2. task' \in [Task -> Local] /\ TasksOK'
    BY <1>1, <2>1, ReadsType, ReceivesType DEF HandleMessage, Loop
  <2>3. transport' \in [Node -> Impl]
    <3>1. FirstMessage(e).call \in Call BY <2>1, ReadsType DEF Message
    <3> QED BY <1>0, <1>1, <3>1 DEF Hand, HandleMessage, Impl, Inv1, TypeOK
  <2> QED BY <1>1, <2>1, <2>2, <2>3, ReadsType DEF HandleMessage, Inv1, TypeOK
<1>2. ASSUME ReceiveInfo(e) PROVE Inv1'
  <2>1. PICK types : Reads(e, types) BY <1>2 DEF ReceiveInfo
  <2>2. task' \in [Task -> Local] /\ TasksOK'
    BY <1>2, <2>1, ReadsType, ReceivesType DEF ReceiveInfo, Loop
  <2>3. Source(e) \in Node BY <2>1, ReadsType
  <2>4. transport' \in [Node -> Impl]
    BY <1>0, <1>2, <2>3 DEF Hand, ReceiveInfo, Announce, Impl, Inv1, TypeOK
  <2>5. peer_state' \in [End -> PeerState]
    BY <1>2, <2>1, ReadsType, SetNodeInfoType DEF ReceiveInfo
  <2> QED BY <1>2, <2>1, <2>2, <2>4, <2>5, ReadsType DEF ReceiveInfo, Inv1, TypeOK
<1> QED BY <1>1, <1>2

LEMMA AnswerType ==
  ASSUME Inv1, NEW e \in End, AnswerHandshake(e)
  PROVE  Inv1'
<1>0. Hand(e) /\ task[e] \in Local BY InHand DEF Hand
<1>1. Reads(e, {"HANDSHAKE"}) BY DEF AnswerHandshake
<1> DEFINE first == FirstMessage(e)
           m == [first EXCEPT !.type = "HANDSHAKE_RESPONSE", !.source = e[1],
                              !.to = Id(Source(e))]
           w == [task[e] EXCEPT !.step = "sending", !.msg = m]
<1>2. m \in Message
  <2>1. first \in Message /\ Id(Source(e)) \in Key /\ e[1] \in Node
    BY <1>0, <1>1, ReadsType, Keys DEF Hand
  <2> HIDE DEF first
  <2> QED BY <2>1 DEF Message, InfoType
<1>3. w \in Local /\ Fits(e, w)
  <2> HIDE DEF m
  <2>1. w \in Local BY <1>0, <1>2 DEF Local, Steps
  <2>2. w.step = "sending" /\ w.msg = m /\ w.state = task[e].state BY <1>0 DEF Local
  <2>3. task[e].state \in End BY <1>1, ReadsType
  <2> HIDE DEF w
  <2> QED BY <1>0, <1>2, <2>1, <2>2, <2>3
      DEF Hand, Fits, EndSteps, Receiving, Pooling, Sending
<1>4. task' = [task EXCEPT ![e] = w] /\ situation' = situation
  BY <1>0 DEF Hand, AnswerHandshake, Inv1, TypeOK
<1>5. task' \in [Task -> Local] /\ TasksOK'
  <2> HIDE DEF w
  <2> QED BY <1>0, <1>3, <1>4, SetTask DEF Hand
<1>6. peer_state' \in [End -> PeerState]
  BY <1>1, ReadsType, SetNodeInfoType DEF AnswerHandshake
<1>7. unread' \in [End -> Seq(Message)] /\ \A f \in End : Len(unread'[f]) <= StreamLimit
  BY <1>1, ReadsType
<1> QED BY <1>5, <1>6, <1>7 DEF AnswerHandshake, Inv1, TypeOK

-----------------------------------------------------------------------------

LEMMA InitType == Init => Inv1
<1> SUFFICES ASSUME Init PROVE Inv1 OBVIOUS
<1>1. situation \in Situation BY DEF Init
<1>2. transport \in [Node -> Impl]
  <2>1. \A n \in Node, up \in BOOLEAN : NewTransport(n, up) \in Impl
    BY DEF NewTransport, Impl, Task, AcceptTask
  <2>2. \A n \in Node : StartsLater(n) \in BOOLEAN BY DEF StartsLater
  <2> QED BY <2>1, <2>2 DEF Init
<1>3. peer_state \in [End -> PeerState]
  <2>1. StatusLimit \in Nat BY ConstantsAssumption
  <2>2. NewPeerState \in PeerState BY <2>1 DEF NewPeerState, PeerState
  <2> QED BY <2>2 DEF Init
<1>4. connection \in [Call -> {"none", "queued", "accepted", "broken"}] BY DEF Init
<1>5. unread \in [End -> Seq(Message)] /\ \A e \in End : Len(unread[e]) <= StreamLimit
  <2>1. StreamLimit \in Nat BY ConstantsAssumption
  <2> QED BY <2>1 DEF Init
<1>6. \A t \in Task : \E step \in {"idle", "unborn", "accepting"} :
        /\ task[t] = Fresh(step)
        /\ t \in Call <=> step = "idle"
        /\ step = "accepting" => t \in AcceptTask
  BY TaskKinds DEF Init, Task
<1>7. \A step \in {"idle", "unborn", "accepting"} :
        Fresh(step) \in Local /\ Fresh(step).step = step
  BY FreshType DEF Steps
<1>8. task \in [Task -> Local] BY <1>6, <1>7 DEF Init
<1>9. TasksOK
  <2> SUFFICES ASSUME NEW t \in Task PROVE Fits(t, task[t]) BY DEF TasksOK
  <2>1. PICK step \in {"idle", "unborn", "accepting"} :
          /\ task[t] = Fresh(step)
          /\ t \in Call <=> step = "idle"
          /\ step = "accepting" => t \in AcceptTask
    BY <1>6
  <2>2. task[t].step = step BY <1>7, <2>1
  <2>3. step = "accepting" => t \notin End BY <2>1, TaskKinds
  <2>4. step = "idle" => t \notin End /\ t \notin AcceptTask BY <2>1, TaskKinds
  <2> QED BY <2>1, <2>2, <2>3, <2>4
      DEF Fits, CallSteps, EndSteps, AcceptSteps, Receiving, Pooling, Sending
<1> QED BY <1>1, <1>2, <1>3, <1>4, <1>5, <1>8, <1>9 DEF Inv1, TypeOK

LEMMA BreakType == ASSUME Inv1, NEW k \in Call, Break(k) PROVE Inv1'
BY DEF Break, Inv1, TypeOK, TasksOK

LEMMA NextType == ASSUME Inv1, [Next]_vars PROVE Inv1'
<1>1. ASSUME NEW c \in Call, Begin(c) PROVE Inv1'
  BY <1>1, ConnectPeerType, SendType, LeaveType, StartType, StopType, CollectType DEF Begin
<1>2. ASSUME NEW c \in Call, CallStep(c) PROVE Inv1'
  <2>1. c \in Call \cup End OBVIOUS
  <2> QED BY <1>2, <2>1, LookAtPeerType, DialType, FailToDialType, GetPeerType, InsertPeerType,
             SetConnectionType, PushTaskType, SendStepType, CollectType, UpdateNextType,
             LeaveType, RemovePeerType, StoreEndpointType, StartedType, StopType, JoinType
          DEF CallStep
<1>3. ASSUME NEW e \in End, EndStep(e) PROVE Inv1'
  <2>1. e \in Call \cup End OBVIOUS
  <2> QED BY <1>3, <2>1, EstablishType, GetPeerType, InsertPeerType, TakeConnectionType,
             ReadType, AnswerType, SendStepType DEF EndStep
<1>4. CASE UNCHANGED vars BY <1>4 DEF vars, Inv1, TypeOK, TasksOK
<1> QED BY <1>1, <1>2, <1>3, <1>4, AcceptType, BreakType DEF Next

\* Whatever the calls do to each other: no stream takes more than the peer allows,
\* no channel of statuses more than it holds, and a task that goes on has what it
\* needs for it, a PeerState, a message or a connection (quic_transport.rs, peer_state.rs).
THEOREM TypeCorrect == Spec => []TypeOK
<1>1. Inv1 => TypeOK BY DEF Inv1
<1> QED BY <1>1, InitType, NextType, PTL DEF Spec

-----------------------------------------------------------------------------
(***************************************************************************)
(* StopJoins.  Of every step it matters what becomes of receivers, of the  *)
(* tasks to wait for, of the flag running, and of calls.                   *)
(***************************************************************************)

Connecting == {"looking", "dialing", "pooling", "stuck"} \cup Pooling
Halted == {"closing", "draining", "joining"}
Other == {"collecting", "updating", "removing", "clearing", "storing", "starting"} \cup Sending

\* The receiver of what a call of connect_peer dials.
Receiver(b) == <<NodeOf(b), b>>
Gone(b) == task[Receiver(b)].step \in {"unborn", "ended"}
Tasks(n) == transport[n].background_tasks
Running(n) == transport[n].running

\* From where to where a call goes, and what that needs or does.
Opens(c) ==
  LET n == NodeOf(c)
  IN  /\ task[c].step = "idle"
      /\ script[c].after # None => Returned(script[c].after)
      /\ \/ /\ script[c].kind = "stop"
            /\ task'[c].step = IF Running(n) THEN "halting" ELSE "ok"
         \/ /\ script[c].kind = "connect" /\ Running(n)
            /\ task'[c].step \in {"looking", "dialing"}
         \/ script[c].kind # "stop" /\ task'[c].step \in Other \cup {"ok", "err"}

Edge(c) ==
  \/ task'[c].step = task[c].step /\ task'[c].joins = task[c].joins
  \/ Opens(c)
  \/ task[c].step = "halting" /\ task'[c].step = "closing"
  \/ task[c].step = "closing" /\ task'[c].step = "draining"
  \/ /\ task[c].step = "draining" /\ task'[c].step = "joining"
     /\ task'[c].joins = Tasks(NodeOf(c))
  \/ /\ task[c].step = "joining" /\ task'[c].step = "ok"
     /\ \A t \in task[c].joins : task[t].step = "ended"
  \/ task[c].step \in Connecting /\ task'[c].step \in Connecting \cup {"pushing", "err"}
  \/ /\ task[c].step = "pushing" /\ task'[c].step = "sending"
     /\ Gone(c) \/ Receiver(c) \in Tasks(NodeOf(c))'
  \/ task[c].step \in Other /\ task'[c].step \in Other \cup {"ok", "err"}

\* A receiver is born when its connection is set, and ends once.
Life(b) ==
  LET r == Receiver(b)
  IN  \/ task'[r].step = task[r].step
      \/ task[r].step \notin {"unborn", "ended"} /\ task'[r].step # "unborn"
      \/ task[b].step = "setting" /\ task'[b].step = "pushing"

Moves ==
  /\ situation' = situation
  /\ \A c \in Call : Edge(c) /\ Life(c)
  /\ \A n \in Node :
       \/ Tasks(n) \subseteq Tasks(n)'
       \/ \E d \in Call : /\ NodeOf(d) = n /\ task[d].step = "draining"
                          /\ task'[d].step = "joining" /\ task'[d].joins = Tasks(n)
  /\ \A n \in Node :
       \/ Running(n) => Running(n)'
       \/ \E d \in Call : NodeOf(d) = n /\ task[d].step = "halting" /\ task'[d].step = "closing"
  /\ \A k \in Call : connection'[k] = "none" \/ connection[k] # "none" \/ task[k].step = "dialing"

Alone(t) == \A u \in Task : u # t => task'[u] = task[u]
SameFlags ==
  \A n \in Node : Running(n)' = Running(n) /\ Tasks(n)' = Tasks(n)

\* Most calls' steps change nothing but where the call stands.
LEMMA CallMoves ==
  ASSUME Inv1, NEW c \in Call, situation' = situation, connection' = connection,
         Alone(c), Edge(c), SameFlags
  PROVE  Moves
<1>1. \A b \in Call : b \in Task /\ Receiver(b) \in Task /\ Receiver(b) # c
  <2>1. \A b \in Call : b \in Task /\ Receiver(b) \in End
    BY InHand DEF Hand, Receiver
  <2> QED BY <2>1, TaskKinds DEF Task
<1>2. \A b \in Call : b # c => Edge(b) BY <1>1 DEF Alone, Edge
<1>3. \A b \in Call : Life(b) BY <1>1 DEF Alone, Life
<1> QED BY <1>2, <1>3 DEF Moves, SameFlags

LEMMA GoEdge ==
  ASSUME Inv1, NEW t \in Task, NEW step, Go(t, step)
  PROVE  Alone(t) /\ task'[t].step = step /\ task'[t].joins = task[t].joins
<1>1. task \in [Task -> Local] /\ task[t] \in Local BY DEF Inv1, TypeOK
<1> QED BY <1>1 DEF Go, Alone, Local

LEMMA ReturnEdge ==
  ASSUME Inv1, NEW c \in Call, NEW result, Return(c, result)
  PROVE  Alone(c) /\ task'[c].step = result
<1>1. c \in Task BY DEF Task
<1>2. task \in [Task -> Local] BY DEF Inv1, TypeOK
<1> QED BY <1>1, <1>2 DEF Return, Fresh, Alone

LEMMA BeginMoves ==
  ASSUME Inv1, NEW c \in Call,
         ConnectPeer(c) \/ Send(c) \/ Disconnect(c) \/ AlreadyRunning(c) \/ Stop(c)
  PROVE  Moves
<1>0. Hand(c) /\ c \in Task /\ task[c] \in Local /\ task \in [Task -> Local]
  BY InHand DEF Hand, Inv1, TypeOK
<1>1. ASSUME ConnectPeer(c) PROVE Alone(c) /\ Opens(c)
  <2> DEFINE s == transport[NodeOf(c)].peers[Id(Peer(c))]
  <2>1. CASE Running(NodeOf(c)) /\ script[c].addresses > 0
    <3>1. task' = [task EXCEPT ![c].step = IF s = None THEN "dialing" ELSE "looking",
                               ![c].state = s]
      BY <1>1, <2>1 DEF ConnectPeer, Running
    <3>2. Alone(c) /\ task'[c].step \in {"looking", "dialing"}
      <4> HIDE DEF s
      <4> QED BY <1>0, <3>1 DEF Local, Alone
    <3> QED BY <1>1, <2>1, <3>2 DEF ConnectPeer, Begins, At, Opens
  <2>2. CASE ~(Running(NodeOf(c)) /\ script[c].addresses > 0)
    BY <1>1, <2>2, ReturnEdge DEF ConnectPeer, Running, Begins, At, Opens
  <2> QED BY <2>1, <2>2
<1>2. ASSUME Send(c) PROVE Alone(c) /\ Opens(c)
  <2>1. Alone(c) /\ task'[c].step = "sending"
    BY <1>0, <1>2 DEF Send, Local, Alone
  <2> QED BY <1>2, <2>1 DEF Send, Begins, At, Opens, Other, Sending
<1>3. ASSUME Disconnect(c) PROVE Alone(c) /\ Opens(c)
  BY <1>0, <1>3, GoEdge, ReturnEdge
  DEF Disconnect, GoOrFail, Begins, At, Opens, Other
<1>4. ASSUME AlreadyRunning(c) PROVE Alone(c) /\ Opens(c)
  BY <1>4, ReturnEdge DEF AlreadyRunning, Begins, At, Opens
<1>5. ASSUME Stop(c) PROVE Alone(c) /\ Opens(c)
  BY <1>0, <1>5, GoEdge, ReturnEdge DEF Stop, Begins, At, Opens, Running
<1>6. Alone(c) /\ Edge(c) BY <1>1, <1>2, <1>3, <1>4, <1>5 DEF Edge
<1>7. situation' = situation /\ transport' = transport /\ connection' = connection
  BY DEF ConnectPeer, Send, Disconnect, AlreadyRunning, Stop, OnlyTask
<1> QED BY <1>6, <1>7, CallMoves DEF SameFlags, Running, Tasks

LEMMA StartMoves ==
  ASSUME Inv1, NEW c \in Call, Start(c)
  PROVE  Moves
<1>0. Hand(c) /\ c \in Task /\ transport \in [Node -> Impl]
  BY InHand DEF Hand, Inv1, TypeOK
<1>1. Alone(c) /\ Opens(c)
  BY <1>0, GoEdge, ReturnEdge DEF Start, GoOrFail, Begins, At, Opens, Other
<1>2. SameFlags
  BY <1>0 DEF Hand, Start, SameFlags, Running, Tasks, Impl
<1> QED BY <1>1, <1>2, CallMoves DEF Start, OnlyTransport, Edge

LEMMA DialMoves ==
  ASSUME Inv1, NEW c \in Call,
         LookAtPeer(c) \/ FailToDial(c) \/ GetPeer(c) \/ InsertPeer(c)
  PROVE  Moves
<1>0. Hand(c) /\ c \in Task /\ task[c] \in Local /\ task \in [Task -> Local]
  BY InHand DEF Hand, Inv1, TypeOK
<1>1. ASSUME LookAtPeer(c) PROVE Alone(c) /\ Edge(c) /\ SameFlags
  BY <1>0, <1>1 DEF LookAtPeer, At, Local, Alone, Edge, Connecting, SameFlags, OnlyTask,
     Running, Tasks
<1>2. ASSUME FailToDial(c) PROVE Alone(c) /\ Edge(c) /\ SameFlags
  <2>1. CASE task[c].tried + 1 < script[c].addresses
    <3>1. Alone(c) /\ task'[c].step = task[c].step /\ task'[c].joins = task[c].joins
      BY <1>0, <1>2, <2>1 DEF FailToDial, Local, Alone
    <3> QED BY <1>2, <3>1 DEF FailToDial, Edge, SameFlags, OnlyTask, Running, Tasks
  <2>2. CASE ~(task[c].tried + 1 < script[c].addresses)
    BY <1>2, <2>2, ReturnEdge DEF FailToDial, Dials, At, Edge, Connecting, SameFlags, OnlyTask,
       Running, Tasks
  <2> QED BY <2>1, <2>2
<1>3. ASSUME GetPeer(c) PROVE Alone(c) /\ Edge(c) /\ SameFlags
  <2>1. task[c].step = "pooling"
    BY <1>0, <1>3 DEF Hand, GetPeer, At, Fits, CallSteps, Pooling, Sending
  <2>2. Alone(c) /\ task'[c].step \in Pooling
    BY <1>0, <1>3 DEF GetPeer, Local, Alone, Pooling
  <2> QED BY <1>3, <2>1, <2>2 DEF GetPeer, Edge, Connecting, SameFlags, OnlyTask, Running, Tasks
<1>4. ASSUME InsertPeer(c) PROVE Alone(c) /\ Edge(c) /\ SameFlags
  <2>1. Alone(c) /\ task[c].step = "inserting" /\ task'[c].step = "setting"
    BY <1>0, <1>4, GoEdge DEF InsertPeer, At
  <2>2. SameFlags
    BY <1>0, <1>4 DEF Hand, InsertPeer, SameFlags, Running, Tasks, Impl, Inv1, TypeOK
  <2> QED BY <2>1, <2>2 DEF Edge, Connecting, Pooling
<1>5. situation' = situation /\ connection' = connection
  BY DEF LookAtPeer, FailToDial, GetPeer, InsertPeer, OnlyTask, OnlyTransport
<1> QED BY <1>1, <1>2, <1>3, <1>4, <1>5, CallMoves

\* A connection comes from dialling.
LEMMA ConnectionMoves ==
  ASSUME Inv1, NEW c \in Call, Dial(c)
  PROVE  Moves
<1>0. Hand(c) /\ c \in Task /\ task[c] \in Local /\ task \in [Task -> Local]
      /\ connection \in [Call -> {"none", "queued", "accepted", "broken"}]
  BY InHand DEF Hand, Inv1, TypeOK
<1>1. Alone(c) /\ task[c].step = "dialing" /\ task'[c].step = "pooling"
  BY <1>0 DEF Dial, Dials, At, Local, Alone
<1>2. \A b \in Call : b \in Task /\ Receiver(b) \in Task /\ Receiver(b) # c
  <2>1. \A b \in Call : b \in Task /\ Receiver(b) \in End
    BY InHand DEF Hand, Receiver
  <2> QED BY <2>1, TaskKinds DEF Task
<1>3. Edge(c) BY <1>1 DEF Edge, Connecting
<1>4. \A b \in Call : Edge(b)
  <2>1. \A b \in Call : b # c => Edge(b) BY <1>1, <1>2 DEF Alone, Edge
  <2> QED BY <1>3, <2>1
<1>5. \A b \in Call : Life(b) BY <1>1, <1>2 DEF Alone, Life
<1>6. \A k \in Call : connection'[k] = "none" \/ connection[k] # "none" \/ task[k].step = "dialing"
  BY <1>0, <1>1 DEF Dial
<1> QED BY <1>4, <1>5, <1>6 DEF Moves, Dial, Tasks, Running

LEMMA SetMoves ==
  ASSUME Inv1, NEW c \in Call, SetConnection(c)
  PROVE  Moves
<1>0. Hand(c) /\ c \in Task /\ task[c] \in Local /\ task \in [Task -> Local]
  BY InHand DEF Hand, Inv1, TypeOK
<1> DEFINE s == task[c].state
           r == Receiver(c)
<1>1. \A b \in Call :
        b \in Task /\ Receiver(b) \in Task /\ Receiver(b) \notin Call /\ (Receiver(b) = r => b = c)
  <2>1. \A b \in Call : b \in Task /\ Receiver(b) \in End
    BY InHand DEF Hand, Receiver
  <2> QED BY <2>1, TaskKinds DEF Task, Receiver
<1>2. task[c].step = "setting" BY DEF SetConnection, At
<1>3. /\ \A u \in Task : u # c /\ u # r => task'[u] = task[u]
      /\ \/ task'[c].step = "pushing"
         \/ task'[c].step = "stuck" /\ task'[r] = task[r]
  <2>1. CASE peer_state[s].status < StatusLimit
    <3> DEFINE w == [Fresh("pushing") EXCEPT !.state = s]
               v == [Fresh("locking") EXCEPT !.state = s]
    <3>1. task' = [task EXCEPT ![c] = w, ![r] = v]
      BY <2>1 DEF SetConnection, Receiver
    <3>2. w.step = "pushing"
      <4> HIDE DEF s
      <4> QED BY DEF Fresh
    <3>3. c \in Task /\ r # c BY <1>1
    <3> HIDE DEF r, w, v
    <3> QED BY <1>0, <3>1, <3>2, <3>3
  <2>2. CASE ~(peer_state[s].status < StatusLimit)
    <3>1. Go(c, "stuck") BY <2>2 DEF SetConnection
    <3> QED BY <1>0, <1>1, <3>1, GoEdge DEF Alone
  <2> QED BY <2>1, <2>2
<1>5. \A b \in Call : Edge(b)
  <2>1. Edge(c) BY <1>2, <1>3 DEF Edge, Connecting, Pooling
  <2>2. \A b \in Call : b # c => Edge(b) BY <1>1, <1>3 DEF Edge
  <2> QED BY <2>1, <2>2
<1>6. \A b \in Call : Life(b)
  <2>1. Life(c) BY <1>2, <1>3 DEF Life
  <2>2. \A b \in Call : b # c => Life(b) BY <1>1, <1>3 DEF Life
  <2> QED BY <2>1, <2>2
<1> QED BY <1>5, <1>6 DEF Moves, SetConnection, OnlyPeerState, Tasks, Running

\* The tasks to wait for, and whether the node runs, where a call changes them.
LEMMA FlagMoves ==
  ASSUME Inv1, NEW c \in Call, situation' = situation, connection' = connection,
         Alone(c), Edge(c),
         \A n \in Node :
           \/ Tasks(n) \subseteq Tasks(n)'
           \/ n = NodeOf(c) /\ task[c].step = "draining" /\ task'[c].step = "joining"
              /\ task'[c].joins = Tasks(n),
         \A n \in Node :
           \/ Running(n) => Running(n)'
           \/ n = NodeOf(c) /\ task[c].step = "halting" /\ task'[c].step = "closing"
  PROVE  Moves
<1>1. \A b \in Call : b \in Task /\ Receiver(b) \in Task /\ Receiver(b) # c
  <2>1. \A b \in Call : b \in Task /\ Receiver(b) \in End
    BY InHand DEF Hand, Receiver
  <2> QED BY <2>1, TaskKinds DEF Task
<1>2. \A b \in Call : b # c => Edge(b) BY <1>1 DEF Alone, Edge
<1>3. \A b \in Call : Life(b) BY <1>1 DEF Alone, Life
<1> QED BY <1>2, <1>3 DEF Moves

LEMMA PushMoves ==
  ASSUME Inv1, NEW c \in Call, PushTask(c)
  PROVE  Moves
<1>0. Hand(c) /\ c \in Task /\ task[c] \in Local /\ task \in [Task -> Local]
      /\ transport \in [Node -> Impl] /\ Receiver(c) \in Task /\ Receiver(c) # c
  BY InHand, TaskKinds DEF Hand, Inv1, TypeOK, Receiver, Task
<1> DEFINE m == [type |-> "HANDSHAKE", source |-> NodeOf(c), to |-> Id(Peer(c)), call |-> c]
           w == [Fresh("sending") EXCEPT !.msg = m]
<1>1. Alone(c) /\ task'[c].step = "sending"
  <2>1. task' = [task EXCEPT ![c] = w] BY DEF PushTask
  <2>2. w.step = "sending" BY DEF Fresh
  <2> HIDE DEF w
  <2> QED BY <1>0, <2>1, <2>2 DEF Alone
<1>2. \A n \in Node : Tasks(n) \subseteq Tasks(n)' /\ Running(n)' = Running(n)
  BY <1>0 DEF Hand, PushTask, Tasks, Running, Impl
<1>3. Gone(c) \/ Receiver(c) \in Tasks(NodeOf(c))'
  <2> DEFINE r == Receiver(c)
             bg == transport[NodeOf(c)].background_tasks \cup {e \in {r} : task[e].step # "unborn"}
  <2>1. transport' = [transport EXCEPT ![NodeOf(c)].background_tasks = bg]
    BY <1>0 DEF Hand, PushTask, Receiver
  <2>2. Tasks(NodeOf(c))' = bg
    <3> HIDE DEF bg
    <3>1. NodeOf(c)' = NodeOf(c) BY <1>0 DEF Hand, PushTask, OnlyTransport, NodeOf, script
    <3> QED BY <1>0, <2>1, <3>1 DEF Hand, Tasks, Impl
  <2>3. task[r].step # "unborn" => r \in bg OBVIOUS
  <2> QED BY <2>2, <2>3 DEF Gone
<1>4. Edge(c) BY <1>1, <1>3 DEF PushTask, At, Edge
<1> QED BY <1>1, <1>2, <1>4, FlagMoves DEF PushTask, OnlyTransport

\* A step of a receiver, or of the task that becomes one.
LEMMA EndMoves ==
  ASSUME Inv1, NEW e \in End, situation' = situation, connection' = connection,
         Alone(e), task[e].step \notin {"unborn", "ended"}, task'[e].step # "unborn", SameFlags
  PROVE  Moves
<1>1. \A b \in Call : b \in Task /\ b # e /\ Receiver(b) \in Task
  <2>1. \A b \in Call : b \in Task /\ Receiver(b) \in End
    BY InHand DEF Hand, Receiver
  <2> QED BY <2>1, TaskKinds DEF Task
<1>2. \A b \in Call : Edge(b) BY <1>1 DEF Alone, Edge
<1>3. \A b \in Call : Life(b) BY <1>1 DEF Alone, Life
<1> QED BY <1>2, <1>3 DEF Moves, SameFlags

\* In between, send_message is alike for both.
Sends(t) ==
  /\ situation' = situation /\ connection' = connection /\ SameFlags
  /\ Alone(t) /\ task[t].step \in Sending
  /\ t \in Call => task'[t].step \in Sending \cup {"updating", "ok", "err"}
  /\ t \in End => task'[t].step \in Sending \cup {"locking"}

LEMMA FailsEdge ==
  ASSUME Inv1, NEW t \in Call \cup End, Fails(t)
  PROVE  /\ Alone(t)
         /\ t \in Call => task'[t].step = "err"
         /\ t \in End => task'[t].step = "locking"
<1>0. Hand(t) /\ t \in Task /\ task \in [Task -> Local] BY InHand DEF Hand, Inv1, TypeOK
<1>1. CASE t \in Call BY <1>0, <1>1, ReturnEdge DEF Hand, Fails
<1>2. CASE t \in End
  <2>1. task' = [task EXCEPT ![t] = [Fresh("locking") EXCEPT !.state = task[t].state]]
    BY <1>0, <1>2 DEF Hand, Fails, Receives
  <2> QED BY <1>0, <1>2, <2>1 DEF Hand, Fresh, Alone
<1> QED BY <1>1, <1>2

LEMMA SendStepEdge ==
  ASSUME Inv1, NEW t \in Call \cup End, SendStep(t)
  PROVE  Sends(t)
<1>0. Hand(t) /\ t \in Task /\ task[t] \in Local /\ task \in [Task -> Local]
      /\ task[t].step \in Sending
  BY InHand DEF Hand, Inv1, TypeOK, SendStep, Sending
<1> DEFINE Result == /\ Alone(t)
                     /\ t \in Call => task'[t].step \in Sending \cup {"updating", "ok", "err"}
                     /\ t \in End => task'[t].step \in Sending \cup {"locking"}
           Same == situation' = situation /\ connection' = connection /\ SameFlags
<1>1. ASSUME SendMessage(t) PROVE Result /\ Same
  <2>1. Same BY <1>1 DEF SendMessage, OnlyTask, SameFlags, Running, Tasks
  <2> DEFINE s == transport[NodeOf(t)].peers[task[t].msg.to]
  <2>2. CASE transport[NodeOf(t)].running /\ s # None
    <3>1. task' = [task EXCEPT ![t].step = "streaming", ![t].peer = s]
      BY <1>1, <2>2 DEF SendMessage
    <3> HIDE DEF s
    <3> QED BY <1>0, <2>1, <3>1 DEF Local, Alone, Sending
  <2>3. CASE ~(transport[NodeOf(t)].running /\ s # None)
    BY <1>1, <2>1, <2>3, FailsEdge DEF SendMessage
  <2> QED BY <2>2, <2>3
<1>2. ASSUME OpenStream(t) PROVE Result /\ Same
  <2>1. task' = [task EXCEPT ![t].step = "finishing", ![t].via = Through(t)]
    BY <1>2 DEF OpenStream
  <2>2. Result BY <1>0, <2>1 DEF Local, Alone, Sending
  <2> QED BY <1>2, <2>2 DEF OpenStream, SameFlags, Running, Tasks
<1>3. ASSUME WaitForStream(t) PROVE Result /\ Same
  BY <1>0, <1>3, GoEdge DEF WaitForStream, OnlyPeerState, SameFlags, Running, Tasks, Sending
<1>4. ASSUME FailToOpen(t) PROVE Result /\ Same
  BY <1>4, FailsEdge DEF FailToOpen, OnlyPeerState, SameFlags, Running, Tasks
<1>5. ASSUME FinishStream(t) PROVE Result /\ Same
  <2>1. t \in Call /\ t \notin End BY <1>0, <1>5 DEF Hand, FinishStream
  <2>2. CASE script[t].kind = "update"
    <3>1. task' = [task EXCEPT ![t] = [Fresh("updating") EXCEPT !.todo = task[t].todo]]
      BY <1>5, <2>2 DEF FinishStream
    <3>2. Result BY <1>0, <2>1, <3>1 DEF Fresh, Alone
    <3> QED BY <1>5, <3>2 DEF FinishStream, OnlyTask, SameFlags, Running, Tasks
  <2>3. CASE script[t].kind # "update"
    BY <1>5, <2>1, <2>3, ReturnEdge DEF FinishStream, OnlyTask, SameFlags, Running, Tasks
  <2> QED BY <2>2, <2>3
<1>6. ASSUME FinishResponse(t) PROVE Result /\ Same
  <2>1. t \in End /\ t \notin Call BY <1>0, <1>6 DEF Hand, FinishResponse
  <2>2. task' = [task EXCEPT ![t] = [Fresh("locking") EXCEPT !.state = task[t].state]]
    BY <1>6 DEF FinishResponse, Receives
  <2>3. Result BY <1>0, <2>1, <2>2 DEF Fresh, Alone
  <2>4. SameFlags
    BY <1>0, <1>6 DEF Hand, FinishResponse, SameFlags, Running, Tasks, Impl, Inv1, TypeOK
  <2> QED BY <1>6, <2>3, <2>4 DEF FinishResponse, OnlyTransport
<1>7. ASSUME FailToFinish(t) PROVE Result /\ Same
  BY <1>7, FailsEdge DEF FailToFinish, OnlyTask, SameFlags, Running, Tasks
<1>8. ASSUME StopFinish(t) PROVE Result /\ Same
  <2>1. SameFlags
    BY <1>0, <1>8 DEF Hand, StopFinish, SameFlags, Running, Tasks, Impl, Inv1, TypeOK
  <2> QED BY <1>8, <2>1, FailsEdge DEF StopFinish, OnlyTransport
<1> QED BY <1>0, <1>1, <1>2, <1>3, <1>4, <1>5, <1>6, <1>7, <1>8 DEF SendStep, Sends

LEMMA SendMoves ==
  ASSUME Inv1, NEW t \in Call \cup End, SendStep(t)
  PROVE  Moves
<1>1. Sends(t) BY SendStepEdge
<1>2. CASE t \in Call
  <2>1. Edge(t) BY <1>1, <1>2 DEF Sends, Edge, Other
  <2> QED BY <1>1, <1>2, <2>1, CallMoves DEF Sends
<1>3. CASE t \in End
  BY <1>1, <1>3, EndMoves DEF Sends, Sending
<1> QED BY <1>2, <1>3

LEMMA UpdateMoves ==
  ASSUME Inv1, NEW c \in Call,
         Collect(c) \/ UpdateNext(c) \/ AllUpdated(c) \/ RemovePeer(c) \/ ClearConnection(c)
  PROVE  Moves
<1>0. Hand(c) /\ c \in Task /\ task[c] \in Local /\ task \in [Task -> Local]
      /\ transport \in [Node -> Impl]
  BY InHand DEF Hand, Inv1, TypeOK
<1>1. ASSUME Collect(c) PROVE Alone(c) /\ Edge(c) /\ SameFlags
  <2> DEFINE n == NodeOf(c)
             keys == IF Begins(c, "update") THEN {k \in Key : transport[n].peers[k] # None}
                     ELSE task[c].rest
             now == {k \in keys : Free(transport[n].peers[k])}
             more == {k \in now : Connected(transport[n].peers[k])}
             rest == keys \ now
             step == IF now = keys THEN "updating" ELSE "collecting"
  <2>0. step \in {"updating", "collecting"} OBVIOUS
  <2>1. task' = [task EXCEPT ![c].step = step, ![c].rest = rest, ![c].todo = @ \cup more]
    BY <1>1 DEF Collect
  <2>a. Begins(c, "update") \/ task[c].step = "collecting" BY <1>1 DEF Collect, At
  <2>b. PICK it : transport' = [transport EXCEPT ![n].iterating = it] BY <1>1 DEF Collect
  <2> HIDE DEF step, rest, more
  <2>2. Alone(c) /\ task'[c].step = step BY <1>0, <2>1 DEF Local, Alone
  <2>4. SameFlags BY <1>0, <2>b DEF Hand, SameFlags, Running, Tasks, Impl
  <2>5. Opens(c) \/ task[c].step = "collecting"
    BY <2>a, <2>0, <2>2 DEF Begins, At, Opens, Other
  <2> QED BY <2>0, <2>2, <2>4, <2>5 DEF Edge, Other
<1>2. ASSUME UpdateNext(c) PROVE Alone(c) /\ Edge(c) /\ SameFlags
  <2>1. Alone(c) /\ task'[c].step = "sending" /\ task[c].step = "updating"
    <3>1. PICK k, m : task' = [task EXCEPT ![c].step = "sending", ![c].todo = @ \ {k},
                                           ![c].msg = m]
      BY <1>2 DEF UpdateNext
    <3> QED BY <1>0, <1>2, <3>1 DEF UpdateNext, At, Local, Alone
  <2> QED BY <1>2, <2>1 DEF UpdateNext, Edge, Other, Sending, SameFlags, OnlyTask, Running, Tasks
<1>3. ASSUME AllUpdated(c) PROVE Alone(c) /\ Edge(c) /\ SameFlags
  BY <1>3, ReturnEdge DEF AllUpdated, At, Edge, Other, SameFlags, OnlyTask, Running, Tasks
<1>4. ASSUME RemovePeer(c) PROVE Alone(c) /\ Edge(c) /\ SameFlags
  <2> DEFINE s == transport[NodeOf(c)].peers[Id(Peer(c))]
  <2>1. Alone(c) /\ task'[c].step \in {"ok", "clearing"}
    <3>1. CASE s = None BY <1>4, <3>1, ReturnEdge DEF RemovePeer
    <3>2. CASE s # None
      <4>1. task' = [task EXCEPT ![c].step = "clearing", ![c].state = s]
        BY <1>4, <3>2 DEF RemovePeer
      <4> HIDE DEF s
      <4> QED BY <1>0, <4>1 DEF Local, Alone
    <3> QED BY <3>1, <3>2
  <2>2. SameFlags BY <1>0, <1>4 DEF Hand, RemovePeer, SameFlags, Running, Tasks, Impl
  <2> QED BY <1>4, <2>1, <2>2 DEF RemovePeer, At, Edge, Other
<1>5. ASSUME ClearConnection(c) PROVE Alone(c) /\ Edge(c) /\ SameFlags
  BY <1>5, ReturnEdge DEF ClearConnection, At, Edge, Other, SameFlags, OnlyPeerState, Running, Tasks
<1>6. situation' = situation /\ connection' = connection
  BY DEF Collect, UpdateNext, AllUpdated, RemovePeer, ClearConnection, OnlyTask, OnlyTransport,
         OnlyPeerState
<1> QED BY <1>1, <1>2, <1>3, <1>4, <1>5, <1>6, CallMoves

LEMMA StopMoves ==
  ASSUME Inv1, NEW c \in Call,
         Started(c) \/ Halt(c) \/ CloseEndpoint(c) \/ DrainTasks(c) \/ JoinTasks(c)
  PROVE  Moves
<1>0. Hand(c) /\ c \in Task /\ task[c] \in Local /\ task \in [Task -> Local]
      /\ transport \in [Node -> Impl] /\ transport[NodeOf(c)] \in Impl
  BY InHand DEF Hand, Inv1, TypeOK
<1>1. situation' = situation /\ connection' = connection
  BY DEF Started, Halt, CloseEndpoint, DrainTasks, JoinTasks, OnlyTransport
<1>2. ASSUME Started(c) PROVE Moves
  <2> DEFINE bg == transport[NodeOf(c)].background_tasks \cup {<<NodeOf(c), None>>}
  <2>1. transport' = [transport EXCEPT ![NodeOf(c)].background_tasks = bg,
                        ![NodeOf(c)].running = TRUE, ![NodeOf(c)].endpoint_lock = None]
    BY <1>0, <1>2 DEF Started, Hand
  <2>2. \A n \in Node : Tasks(n) \subseteq Tasks(n)' /\ (Running(n) => Running(n)')
    <3>1. transport[NodeOf(c)].background_tasks \subseteq bg OBVIOUS
    <3> HIDE DEF bg
    <3> QED BY <1>0, <2>1, <3>1 DEF Hand, Tasks, Running, Impl
  <2>3. Alone(c) /\ task[c].step = "starting" /\ task'[c].step = "ok"
    BY <1>2, ReturnEdge DEF Started, At
  <2>4. Edge(c) BY <2>3 DEF Edge, Other
  <2> QED BY <1>1, <2>2, <2>3, <2>4, FlagMoves
<1>3. ASSUME Halt(c) PROVE Moves
  <2>1. \A n \in Node : Tasks(n) \subseteq Tasks(n)' /\ (n # NodeOf(c) => Running(n)' = Running(n))
    BY <1>0, <1>3 DEF Hand, Halt, Tasks, Running, Impl
  <2>2. Alone(c) /\ task[c].step = "halting" /\ task'[c].step = "closing"
    BY <1>0, <1>3, GoEdge DEF Halt, At
  <2>3. Edge(c) BY <2>2 DEF Edge
  <2> QED BY <1>1, <2>1, <2>2, <2>3, FlagMoves
<1>4. ASSUME CloseEndpoint(c) PROVE Moves
  <2> DEFINE i == [Close(transport[NodeOf(c)]) EXCEPT !.endpoint_lock = c]
  <2>1. transport' = [transport EXCEPT ![NodeOf(c)] = i]
    BY <1>4 DEF CloseEndpoint
  <2>2. /\ i.background_tasks = transport[NodeOf(c)].background_tasks
        /\ i.running = transport[NodeOf(c)].running
    BY <1>0 DEF Close, Impl
  <2>3. SameFlags
    <3> HIDE DEF i
    <3> QED BY <1>0, <2>1, <2>2 DEF Hand, SameFlags, Tasks, Running
  <2>4. Alone(c) /\ task[c].step = "closing" /\ task'[c].step = "draining"
    BY <1>0, <1>4, GoEdge DEF CloseEndpoint, At
  <2>5. Edge(c) BY <2>4 DEF Edge
  <2> QED BY <1>1, <2>3, <2>4, <2>5, CallMoves
<1>5. ASSUME DrainTasks(c) PROVE Moves
  <2> DEFINE bg == transport[NodeOf(c)].background_tasks
  <2>1. task' = [task EXCEPT ![c].step = "joining", ![c].joins = bg] BY <1>5 DEF DrainTasks
  <2>2. Alone(c) /\ task'[c].step = "joining" /\ task'[c].joins = Tasks(NodeOf(c))
    <3> HIDE DEF bg
    <3>1. Alone(c) /\ task'[c].step = "joining" /\ task'[c].joins = bg
      BY <1>0, <2>1 DEF Local, Alone
    <3> QED BY <3>1 DEF bg, Tasks
  <2>3. task[c].step = "draining" BY <1>5 DEF DrainTasks, At
  <2>4. \A n \in Node : Running(n)' = Running(n) /\ (n # NodeOf(c) => Tasks(n)' = Tasks(n))
    BY <1>0, <1>5 DEF Hand, DrainTasks, Running, Tasks, Impl
  <2>5. Edge(c) BY <2>2, <2>3 DEF Edge
  <2> QED BY <1>1, <2>2, <2>3, <2>4, <2>5, FlagMoves
<1>6. ASSUME JoinTasks(c) PROVE Moves
  <2>1. Alone(c) /\ task[c].step = "joining" /\ task'[c].step = "ok"
    BY <1>6, ReturnEdge DEF JoinTasks, At
  <2>2. Edge(c) BY <1>6, <2>1 DEF JoinTasks, Joined, Edge
  <2>3. SameFlags BY <1>0, <1>6 DEF Hand, JoinTasks, SameFlags, Running, Tasks, Impl
  <2> QED BY <1>1, <2>1, <2>2, <2>3, CallMoves
<1> QED BY <1>2, <1>3, <1>4, <1>5, <1>6

\* Only connect_peer dials, so nobody accepts a connection of its own.
Kinds ==
  /\ \A c \in Call : task[c].step \in Connecting \cup {"pushing"} => script[c].kind = "connect"
  /\ \A c \in Call : task[c].step \in Halted \cup {"halting"} => script[c].kind = "stop"
  /\ \A c \in Call : task[c].step \in Other => script[c].kind # "stop"
  /\ \A k \in Call : connection[k] # "none" => script[k].kind = "connect"

\* The accept task of a node, and the one it makes for a connection.
LEMMA AcceptMoves ==
  ASSUME Inv1, Kinds,
         (\E c \in Call : StoreEndpoint(c)) \/ \E x \in AcceptTask : AcceptStep(x)
  PROVE  Moves
<1>0. /\ task \in [Task -> Local] /\ transport \in [Node -> Impl]
      /\ connection \in [Call -> {"none", "queued", "accepted", "broken"}]
  BY DEF Inv1, TypeOK
<1>1. \A b \in Call :
        /\ b \in Task /\ b \notin AcceptTask /\ Receiver(b) \in End /\ Receiver(b) \in Task
        /\ Receiver(b) \notin AcceptTask /\ Receiver(b)[2] = b /\ Receiver(b)[1] = NodeOf(b)
  <2>1. \A b \in Call : b \in Task /\ Receiver(b) \in End /\ b \notin AcceptTask
    BY InHand DEF Hand, Receiver
  <2> QED BY <2>1, TaskKinds DEF Task, Receiver
<1>2. ASSUME NEW c \in Call, StoreEndpoint(c) PROVE Moves
  <2> DEFINE y == <<NodeOf(c), None>>
  <2>1. Hand(c) /\ y \in AcceptTask BY InHand DEF Hand, AcceptTask
  <2>2. \A u \in Task : u # c /\ u \notin AcceptTask => task'[u] = task[u]
    BY <1>0, <1>2, <2>1 DEF StoreEndpoint
  <2>3. task[c].step = "storing" /\ task'[c].step = "starting"
    <3>1. task' = [task EXCEPT ![c].step = "starting", ![y].step = "born"]
      BY <1>2 DEF StoreEndpoint
    <3>2. c # y /\ c \in Task BY <1>1, <2>1
    <3>3. task'[c].step = "starting"
      <4> HIDE DEF y
      <4> QED BY <1>0, <3>1, <3>2 DEF Local
    <3> QED BY <1>2, <3>3 DEF StoreEndpoint, At
  <2>4. \A b \in Call : Edge(b)
    <3>1. Edge(c) BY <2>3 DEF Edge, Other
    <3>2. \A b \in Call : b # c => Edge(b) BY <1>1, <2>2 DEF Edge
    <3> QED BY <3>1, <3>2
  <2>5. \A b \in Call : Life(b)
    <3>1. \A b \in Call : Receiver(b) # c BY <1>1, TaskKinds
    <3> QED BY <1>1, <2>2, <3>1 DEF Life
  <2>6. \A n \in Node : Running(n)' = Running(n) /\ Tasks(n)' = Tasks(n)
    BY <1>0, <1>2, <2>1 DEF Hand, StoreEndpoint, Running, Tasks, Impl
  <2> QED BY <1>2, <2>4, <2>5, <2>6 DEF Moves, StoreEndpoint, OnlyTransport
<1>3. ASSUME NEW x \in AcceptTask, CheckRunning(x) \/ EndAccept(x) PROVE Moves
  <2>1. \A u \in Task : u # x => task'[u] = task[u]
    BY <1>0, <1>3 DEF CheckRunning, EndAccept, Go
  <2>2. \A b \in Call : Edge(b) /\ Life(b)
    BY <1>1, <2>1 DEF Edge, Life
  <2> QED BY <1>3, <2>2 DEF Moves, CheckRunning, EndAccept, OnlyTask, Running, Tasks
<1>4. ASSUME NEW x \in AcceptTask, NEW k \in Call, Accept(x, k) PROVE Moves
  <2>1. \A u \in Task : u # x /\ u # <<x[1], k>> => task'[u] = task[u]
    BY <1>0, <1>4 DEF Accept
  <2>2. \A b \in Call : Receiver(b) # <<x[1], k>> /\ b # <<x[1], k>>
    <3>1. script[k].kind = "connect" /\ Peer(k) = x[1] BY <1>4 DEF Accept, Kinds
    <3>2. NodeOf(k) # x[1] BY <3>1, ScriptType DEF Inv1, TypeOK
    <3>3. <<x[1], k>> \in End BY DEF AcceptTask, End
    <3> QED BY <1>1, <3>2, <3>3, TaskKinds
  <2>3. \A b \in Call : Edge(b) /\ Life(b)
    BY <1>1, <2>1, <2>2 DEF Edge, Life
  <2>4. \A j \in Call : connection'[j] = "none" \/ connection[j] # "none"
    BY <1>0, <1>4 DEF Accept
  <2> QED BY <1>4, <2>3, <2>4 DEF Moves, Accept, Running, Tasks
<1> QED BY <1>2, <1>3, <1>4 DEF AcceptStep

LEMMA ReceiverMoves ==
  ASSUME Inv1, NEW e \in End,
         \/ FailToEstablish(e) \/ GetPeer(e) \/ InsertPeer(e) \/ SetIncoming(e)
         \/ TakeConnection(e) \/ EndReceiver(e)
         \/ HandleMessage(e) \/ ReceiveInfo(e) \/ AnswerHandshake(e)
  PROVE  Moves
<1>0. Hand(e) /\ e \in Task /\ task[e] \in Local /\ task \in [Task -> Local]
      /\ transport \in [Node -> Impl]
  BY InHand DEF Hand, Inv1, TypeOK
<1> DEFINE Result == Alone(e) /\ task[e].step \notin {"unborn", "ended"}
                              /\ task'[e].step # "unborn"
<1>a. ASSUME task' = [task EXCEPT ![e] = Fresh("ended")] PROVE Alone(e) /\ task'[e].step # "unborn"
  BY <1>0, <1>a DEF Alone, Fresh
<1>b. ASSUME Receives(e) PROVE Alone(e) /\ task'[e].step # "unborn"
  <2>1. task' = [task EXCEPT ![e] = [Fresh("locking") EXCEPT !.state = task[e].state]]
    BY <1>b DEF Receives
  <2> QED BY <1>0, <2>1 DEF Alone, Fresh
<1>1. ASSUME FailToEstablish(e) PROVE Result
  BY <1>a, <1>1 DEF FailToEstablish, At
<1>2. ASSUME GetPeer(e) PROVE Result
  BY <1>0, <1>2 DEF GetPeer, At, Local, Alone
<1>3. ASSUME InsertPeer(e) PROVE Result
  BY <1>0, <1>3, GoEdge DEF InsertPeer, At
<1>4. ASSUME SetIncoming(e) PROVE Result
  BY <1>b, <1>4 DEF SetIncoming, At
<1>5. ASSUME TakeConnection(e) PROVE Result
  BY <1>0, <1>a, <1>5 DEF TakeConnection, At, Local, Alone
<1>6. ASSUME EndReceiver(e) PROVE Result
  BY <1>a, <1>6 DEF EndReceiver, At
<1>7. ASSUME HandleMessage(e) \/ ReceiveInfo(e) PROVE Result
  BY <1>b, <1>7 DEF HandleMessage, ReceiveInfo, Reads, At, Loop
<1>8. ASSUME AnswerHandshake(e) PROVE Result
  <2>1. PICK m : task' = [task EXCEPT ![e].step = "sending", ![e].msg = m]
    BY <1>8 DEF AnswerHandshake
  <2> QED BY <1>0, <1>8, <2>1 DEF AnswerHandshake, Reads, At, Local, Alone
<1>9. SameFlags
  <2>1. CASE transport' = transport BY <2>1 DEF SameFlags, Running, Tasks
  <2>2. CASE InsertPeer(e) BY <1>0, <2>2 DEF Hand, InsertPeer, SameFlags, Running, Tasks, Impl
  <2>3. CASE HandleMessage(e)
    BY <1>0, <2>3 DEF Hand, HandleMessage, SameFlags, Running, Tasks, Impl
  <2>4. CASE ReceiveInfo(e)
    BY <1>0, <2>4 DEF Hand, ReceiveInfo, Announce, SameFlags, Running, Tasks, Impl
  <2> QED BY <2>1, <2>2, <2>3, <2>4
      DEF FailToEstablish, GetPeer, SetIncoming, TakeConnection, EndReceiver, AnswerHandshake,
          OnlyTask, OnlyPeerState
<1>10. situation' = situation /\ connection' = connection
  BY DEF FailToEstablish, GetPeer, InsertPeer, SetIncoming, TakeConnection, EndReceiver,
         HandleMessage, ReceiveInfo, AnswerHandshake, OnlyTask, OnlyTransport, OnlyPeerState
<1> QED BY <1>1, <1>2, <1>3, <1>4, <1>5, <1>6, <1>7, <1>8, <1>9, <1>10, EndMoves

LEMMA StutterMoves ==
  ASSUME UNCHANGED <<situation, transport, task>>,
         connection' = connection \/ \E k \in Call : Break(k),
         Inv1
  PROVE  Moves
<1>1. \A c \in Call : Edge(c) BY DEF Edge
<1>2. \A c \in Call : Life(c) BY DEF Life
<1>3. \A k \in Call : connection'[k] = "none" \/ connection[k] # "none"
  BY DEF Break, Inv1, TypeOK
<1> QED BY <1>1, <1>2, <1>3 DEF Moves, Tasks, Running

LEMMA NextMoves == ASSUME Inv1, Kinds, [Next]_vars PROVE Moves
<1>1. ASSUME NEW c \in Call, Begin(c) PROVE Moves
  BY <1>1, BeginMoves, StartMoves, UpdateMoves DEF Begin
<1>2. ASSUME NEW c \in Call, CallStep(c) PROVE Moves
  <2>1. c \in Call \cup End OBVIOUS
  <2>2. ASSUME StoreEndpoint(c) PROVE Moves BY <2>2, AcceptMoves
  <2> QED BY <1>2, <2>1, <2>2, DialMoves, ConnectionMoves, SetMoves, PushMoves, SendMoves,
             UpdateMoves, StopMoves DEF CallStep
<1>3. ASSUME NEW k \in Call, Break(k) PROVE Moves
  BY <1>3, StutterMoves DEF Break
<1>4. ASSUME NEW x \in AcceptTask, AcceptStep(x) PROVE Moves BY <1>4, AcceptMoves
<1>5. ASSUME NEW e \in End, EndStep(e) PROVE Moves
  <2>1. e \in Call \cup End OBVIOUS
  <2> QED BY <1>5, <2>1, ReceiverMoves, SendMoves DEF EndStep
<1>6. CASE UNCHANGED vars BY <1>6, StutterMoves DEF vars
<1> QED BY <1>1, <1>2, <1>3, <1>4, <1>5, <1>6 DEF Next

\* The inductive invariant: calls keep their order, receivers come from connect_peer
\* on a node that runs or has run, and are known to those who will wait for them.
InOrder ==
  \A c \in Call : task[c].step # "idle" /\ script[c].after # None => Returned(script[c].after)

SpawnInv ==
  \A b \in Call : task[Receiver(b)].step # "unborn" =>
    script[b].kind = "connect" /\ task[b].step \in {"pushing", "ok", "err"} \cup Other

HasHalted(n) ==
  \E d \in Call :
    script[d].kind = "stop" /\ NodeOf(d) = n /\ task[d].step \in Halted \cup {"ok", "err"}

UpInv ==
  \A b \in Call :
    task[b].step \in Connecting \/ task[Receiver(b)].step # "unborn" =>
      Running(NodeOf(b)) \/ HasHalted(NodeOf(b))

IsJoining(b) ==
  \E d \in Call : /\ NodeOf(d) = NodeOf(b) /\ task[d].step = "joining"
                  /\ Receiver(b) \in task[d].joins

TrackInv ==
  \A b \in Call : ~Gone(b) /\ task[b].step # "pushing" =>
    Receiver(b) \in Tasks(NodeOf(b)) \/ IsJoining(b)

LastStop ==
  \A c \in Call :
    LET b == script[c].after
    IN  OnlyStop(c) /\ b # None => (NodeOf(b) = NodeOf(c) =>
          /\ task[c].step = "joining" => Gone(b) \/ Receiver(b) \in task[c].joins
          /\ task[c].step = "ok" => Gone(b))

JoinInv == Kinds /\ InOrder /\ SpawnInv /\ UpInv /\ TrackInv /\ LastStop

\* What does not change: who the calls are of, and what is done once.
LEMMA Scripted ==
  ASSUME Inv1, Inv1', Moves
  PROVE  /\ script' = script
         /\ \A c \in Call :
              /\ NodeOf(c)' = NodeOf(c) /\ Receiver(c)' = Receiver(c) /\ OnlyStop(c)' = OnlyStop(c)
              /\ NodeOf(c) \in Node /\ script[c].after \in Call \cup {None}
              /\ Returned(c) => task'[c].step = task[c].step
              /\ task[c].step # "idle" => task'[c].step # "idle"
              /\ Gone(c) /\ task[c].step # "setting" => task'[Receiver(c)].step = task[Receiver(c)].step
<1>1. situation' = situation BY DEF Moves
<1>2. script' = script BY <1>1 DEF script
<1>3. \A c \in Call : NodeOf(c)' = NodeOf(c) BY <1>2 DEF NodeOf
<1> SUFFICES ASSUME NEW c \in Call
             PROVE  /\ NodeOf(c)' = NodeOf(c) /\ Receiver(c)' = Receiver(c)
                    /\ OnlyStop(c)' = OnlyStop(c)
                    /\ NodeOf(c) \in Node /\ script[c].after \in Call \cup {None}
                    /\ Returned(c) => task'[c].step = task[c].step
                    /\ task[c].step # "idle" => task'[c].step # "idle"
                    /\ Gone(c) /\ task[c].step # "setting" =>
                         task'[Receiver(c)].step = task[Receiver(c)].step
  BY <1>2
<1>4. Edge(c) /\ Life(c) BY DEF Moves
<1>5. Returned(c) => task'[c].step = task[c].step
  BY <1>4 DEF Edge, Opens, Returned, Connecting, Pooling, Other, Sending
<1>6. task[c].step # "idle" => task'[c].step # "idle"
  BY <1>4 DEF Edge, Opens, Connecting, Pooling, Other, Sending
<1>7. Gone(c) /\ task[c].step # "setting" => task'[Receiver(c)].step = task[Receiver(c)].step
  BY <1>4 DEF Life, Gone
<1>8. OnlyStop(c)' = OnlyStop(c) BY <1>2, <1>3 DEF OnlyStop
<1>9. NodeOf(c) \in Node /\ script[c].after \in Call \cup {None} BY ScriptType DEF Inv1, TypeOK
<1> QED BY <1>3, <1>5, <1>6, <1>7, <1>8, <1>9 DEF Receiver

LEMMA KindsStep ==
  ASSUME Inv1, Inv1', Moves, JoinInv
  PROVE  Kinds' /\ InOrder'
<1>1. script' = script BY Scripted
<1>2. ASSUME NEW c \in Call
      PROVE  /\ (task[c].step \in Connecting \cup {"pushing"} => script[c].kind = "connect")'
             /\ (task[c].step \in Halted \cup {"halting"} => script[c].kind = "stop")'
             /\ (task[c].step \in Other => script[c].kind # "stop")'
  <2>1. Edge(c) BY DEF Moves
  <2>2. /\ task[c].step \in Connecting \cup {"pushing"} => script[c].kind = "connect"
        /\ task[c].step \in Halted \cup {"halting"} => script[c].kind = "stop"
        /\ task[c].step \in Other => script[c].kind # "stop"
    BY DEF JoinInv, Kinds
  <2> QED BY <1>1, <2>1, <2>2
      DEF Edge, Opens, Connecting, Pooling, Halted, Other, Sending
<1>3. ASSUME NEW k \in Call PROVE (connection[k] # "none" => script[k].kind = "connect")'
  BY <1>1 DEF Moves, JoinInv, Kinds, Connecting
<1>4. ASSUME NEW c \in Call
      PROVE  (task[c].step # "idle" /\ script[c].after # None => Returned(script[c].after))'
  <2>1. Edge(c) BY DEF Moves
  <2>2. task[c].step # "idle" /\ script[c].after # None => Returned(script[c].after)
    BY DEF JoinInv, InOrder
  <2>3. task'[c].step # "idle" /\ script[c].after # None => Returned(script[c].after)
    BY <2>1, <2>2 DEF Edge, Opens, Connecting, Pooling, Other, Sending
  <2>4. script[c].after # None => script[c].after \in Call BY Scripted
  <2> QED BY <1>1, <2>3, <2>4, Scripted DEF Returned
<1> QED BY <1>2, <1>3, <1>4 DEF Kinds, InOrder

LEMMA SpawnStep ==
  ASSUME Inv1, Inv1', Moves, JoinInv
  PROVE  SpawnInv'
<1> SUFFICES ASSUME NEW b \in Call, task'[Receiver(b)].step # "unborn"
             PROVE  script[b].kind = "connect"
                    /\ task'[b].step \in {"pushing", "ok", "err"} \cup Other
  BY Scripted DEF SpawnInv
<1>1. Edge(b) /\ Life(b) BY DEF Moves
<1>2. \/ task[Receiver(b)].step # "unborn"
      \/ task[b].step = "setting" /\ task'[b].step = "pushing"
  BY <1>1 DEF Life
<1>3. CASE task[Receiver(b)].step # "unborn"
  <2>1. script[b].kind = "connect" /\ task[b].step \in {"pushing", "ok", "err"} \cup Other
    BY <1>3 DEF JoinInv, SpawnInv
  <2> QED BY <1>1, <2>1 DEF Edge, Opens, Connecting, Pooling, Other, Sending
<1>4. CASE task[b].step = "setting" /\ task'[b].step = "pushing"
  BY <1>4 DEF JoinInv, Kinds, Connecting, Pooling
<1> QED BY <1>2, <1>3, <1>4

LEMMA UpStep ==
  ASSUME Inv1, Inv1', Moves, JoinInv
  PROVE  UpInv'
<1> SUFFICES ASSUME NEW b \in Call,
                    task'[b].step \in Connecting \/ task'[Receiver(b)].step # "unborn"
             PROVE  Running(NodeOf(b))' \/ HasHalted(NodeOf(b))'
  BY Scripted DEF UpInv
<1> DEFINE n == NodeOf(b)
<1>0. n \in Node /\ NodeOf(b)' = n BY Scripted
<1>1. Edge(b) /\ Life(b) BY DEF Moves
<1>2. HasHalted(n) => HasHalted(n)'
  <2> SUFFICES ASSUME NEW d \in Call, script[d].kind = "stop", NodeOf(d) = n,
                      task[d].step \in Halted \cup {"ok", "err"}
               PROVE  HasHalted(n)'
    BY DEF HasHalted
  <2>1. Edge(d) BY DEF Moves
  <2>2. task'[d].step \in Halted \cup {"ok", "err"}
    BY <2>1 DEF Edge, Opens, Halted, Connecting, Pooling, Other, Sending
  <2> QED BY <1>0, <2>2, Scripted DEF HasHalted
<1>3. Running(n) => Running(n)' \/ HasHalted(n)'
  <2> SUFFICES ASSUME NEW d \in Call, NodeOf(d) = n, task[d].step = "halting",
                      task'[d].step = "closing"
               PROVE  HasHalted(n)'
    BY <1>0 DEF Moves
  <2>1. script[d].kind = "stop" BY DEF JoinInv, Kinds
  <2> QED BY <1>0, <2>1, Scripted DEF HasHalted, Halted
<1>4. Running(n) \/ HasHalted(n)
  <2>1. CASE task[b].step \in Connecting \/ task[Receiver(b)].step # "unborn"
    BY <2>1 DEF JoinInv, UpInv
  <2>2. CASE task[b].step \notin Connecting /\ task[Receiver(b)].step = "unborn"
    <3>1. task'[Receiver(b)].step = "unborn"
      BY <1>1, <2>2 DEF Life, Connecting, Pooling
    <3>2. task'[b].step \in Connecting BY <3>1
    <3>3. Opens(b) /\ Running(n)
      BY <1>1, <2>2, <3>2 DEF Edge, Opens, Connecting, Pooling, Other, Sending
    <3> QED BY <3>3
  <2> QED BY <2>1, <2>2
<1> QED BY <1>0, <1>2, <1>3, <1>4

LEMMA TrackStep ==
  ASSUME Inv1, Inv1', Moves, JoinInv
  PROVE  TrackInv'
<1> SUFFICES ASSUME NEW b \in Call, ~Gone(b)', task'[b].step # "pushing"
             PROVE  Receiver(b) \in Tasks(NodeOf(b))' \/ IsJoining(b)'
  BY Scripted DEF TrackInv
<1> DEFINE n == NodeOf(b)
           r == Receiver(b)
<1>0. n \in Node /\ NodeOf(b)' = n /\ Receiver(b)' = r BY Scripted
<1>1. Edge(b) /\ Life(b) BY DEF Moves
<1>2. ~Gone(b)
  <2>1. task'[r].step \notin {"unborn", "ended"} BY <1>0 DEF Gone
  <2> QED BY <1>1, <2>1 DEF Life, Gone
<1>3. CASE task[b].step = "pushing"
  <2>1. r \in Tasks(NodeOf(b))'
    BY <1>1, <1>2, <1>3 DEF Edge, Opens, Connecting, Pooling, Other, Sending
  <2> QED BY <2>1
<1>4. CASE task[b].step # "pushing"
  <2>1. r \in Tasks(n) \/ IsJoining(b) BY <1>2, <1>4 DEF JoinInv, TrackInv
  <2>2. CASE r \in Tasks(n)
    <3>1. CASE Tasks(n) \subseteq Tasks(n)' BY <1>0, <2>2, <3>1
    <3>2. CASE \E d \in Call : /\ NodeOf(d) = n /\ task[d].step = "draining"
                               /\ task'[d].step = "joining" /\ task'[d].joins = Tasks(n)
      <4>1. PICK d \in Call : NodeOf(d) = n /\ task'[d].step = "joining" /\ task'[d].joins = Tasks(n)
        BY <3>2
      <4> QED BY <1>0, <2>2, <4>1, Scripted DEF IsJoining
    <3> QED BY <1>0, <3>1, <3>2 DEF Moves
  <2>3. CASE IsJoining(b)
    <3>1. PICK d \in Call : NodeOf(d) = n /\ task[d].step = "joining" /\ r \in task[d].joins
      BY <2>3 DEF IsJoining
    <3>2. Edge(d) BY DEF Moves
    <3>3. task[r].step # "ended" BY <1>2 DEF Gone
    <3>4. task'[d].step = "joining" /\ task'[d].joins = task[d].joins
      BY <3>1, <3>2, <3>3 DEF Edge, Opens, Connecting, Pooling, Other, Sending
    <3> QED BY <1>0, <3>1, <3>4, Scripted DEF IsJoining
  <2> QED BY <2>1, <2>2, <2>3
<1> QED BY <1>3, <1>4

LEMMA LastStep ==
  ASSUME Inv1, Inv1', Moves, JoinInv
  PROVE  LastStop'
<1>1. script' = script BY Scripted
<1> SUFFICES ASSUME NEW c \in Call, NEW b, b = script[c].after, OnlyStop(c), b # None,
                    NodeOf(b)' = NodeOf(c)'
             PROVE  /\ task'[c].step = "joining" => Gone(b)' \/ Receiver(b)' \in task'[c].joins
                    /\ task'[c].step = "ok" => Gone(b)'
  BY <1>1, Scripted DEF LastStop
<1>2. b \in Call BY Scripted
<1>3. NodeOf(b) = NodeOf(c) BY <1>2, Scripted
<1>4. Edge(c) BY DEF Moves
<1>5. /\ task[c].step = "joining" => Gone(b) \/ Receiver(b) \in task[c].joins
      /\ task[c].step = "ok" => Gone(b)
  BY <1>3 DEF JoinInv, LastStop
<1>6. ASSUME task'[c].step \in {"joining", "ok"} PROVE Returned(b)
  <2>1. CASE task[c].step = "idle"
    BY <1>4, <1>6, <2>1 DEF Edge, Opens, Connecting, Pooling, Other, Sending
  <2>2. CASE task[c].step # "idle" BY <2>2 DEF JoinInv, InOrder
  <2> QED BY <2>1, <2>2
<1>7. ASSUME Returned(b), Gone(b) PROVE Gone(b)'
  <2>1. task[b].step # "setting" BY <1>7 DEF Returned
  <2>2. task'[Receiver(b)].step = task[Receiver(b)].step /\ Receiver(b)' = Receiver(b)
    BY <1>2, <1>7, <2>1, Scripted
  <2> QED BY <1>7, <2>2 DEF Gone
<1>8. ASSUME task'[c].step = "joining" PROVE Gone(b)' \/ Receiver(b)' \in task'[c].joins
  <2>1. Receiver(b)' = Receiver(b) BY <1>2, Scripted
  <2>2. CASE task[c].step = "joining"
    <3>1. task'[c].joins = task[c].joins
      BY <1>4, <1>8, <2>2 DEF Edge, Opens, Connecting, Pooling, Other, Sending
    <3> QED BY <1>5, <1>6, <1>7, <1>8, <2>1, <2>2, <3>1
  <2>3. CASE task[c].step # "joining"
    <3>1. task[c].step = "draining" /\ task'[c].joins = Tasks(NodeOf(c))
      BY <1>4, <1>8, <2>3 DEF Edge, Opens, Connecting, Pooling, Other, Sending
    <3>2. ~IsJoining(b)
      <4> SUFFICES ASSUME NEW d \in Call, NodeOf(d) = NodeOf(b), task[d].step = "joining"
                   PROVE  FALSE
        BY DEF IsJoining
      <4>1. script[d].kind = "stop" BY DEF JoinInv, Kinds, Halted
      <4>2. d = c BY <1>3, <4>1 DEF OnlyStop
      <4> QED BY <3>1, <4>2
    <3>3. Gone(b) \/ Receiver(b) \in Tasks(NodeOf(b))
      <4>1. task[b].step # "pushing" BY <1>6, <1>8 DEF Returned
      <4> QED BY <1>2, <3>2, <4>1 DEF JoinInv, TrackInv
    <3> QED BY <1>3, <1>6, <1>7, <1>8, <2>1, <3>1, <3>3
  <2> QED BY <2>2, <2>3
<1>9. ASSUME task'[c].step = "ok" PROVE Gone(b)'
  <2>1. Gone(b)
    <3>1. CASE task[c].step = "ok" BY <1>5, <3>1
    <3>2. CASE task[c].step = "joining"
      <4>1. \A t \in task[c].joins : task[t].step = "ended"
        BY <1>4, <1>9, <3>2 DEF Edge, Opens, Connecting, Pooling, Other, Sending
      <4> QED BY <1>5, <3>2, <4>1 DEF Gone
    <3>3. CASE task[c].step \notin {"ok", "joining"}
      <4>1. script[c].kind = "stop" BY DEF OnlyStop
      <4>2. \/ task[c].step = "idle" /\ ~Running(NodeOf(c))
            \/ task[c].step \in Other
        BY <1>4, <1>9, <3>3, <4>1 DEF Edge, Opens, Connecting, Pooling, Sending
      <4>3. task[c].step \notin Other BY <4>1 DEF JoinInv, Kinds
      <4>4. ~HasHalted(NodeOf(c))
        <5> SUFFICES ASSUME NEW d \in Call, script[d].kind = "stop", NodeOf(d) = NodeOf(c),
                            task[d].step \in Halted \cup {"ok", "err"}
                     PROVE  FALSE
          BY DEF HasHalted
        <5>1. d = c BY DEF OnlyStop
        <5> QED BY <4>2, <4>3, <5>1 DEF Halted
      <4>5. task[Receiver(b)].step = "unborn"
        BY <1>2, <1>3, <4>2, <4>3, <4>4 DEF JoinInv, UpInv
      <4> QED BY <4>5 DEF Gone
    <3> QED BY <3>1, <3>2, <3>3
  <2> QED BY <1>6, <1>7, <1>9, <2>1
<1> QED BY <1>8, <1>9

LEMMA JoinInit == Init => JoinInv
<1> SUFFICES ASSUME Init PROVE JoinInv OBVIOUS
<1>0. Inv1 BY InitType
<1>1. \A c \in Call :
        /\ task[c].step = "idle" /\ task[Receiver(c)].step = "unborn" /\ connection[c] = "none"
  <2> SUFFICES ASSUME NEW c \in Call
               PROVE  /\ task[c].step = "idle" /\ task[Receiver(c)].step = "unborn"
                      /\ connection[c] = "none"
    OBVIOUS
  <2>1. c \in Task /\ Receiver(c) \in End /\ Receiver(c) \in Task /\ Receiver(c) \notin Call
    BY <1>0, InHand, TaskKinds DEF Hand, Receiver, Task
  <2>2. task[c] = Fresh("idle") /\ task[Receiver(c)] = Fresh("unborn") BY <2>1 DEF Init
  <2> QED BY <2>2 DEF Fresh, Init
<1> QED BY <1>1 DEF JoinInv, Kinds, InOrder, SpawnInv, UpInv, TrackInv, LastStop, Gone,
           Connecting, Pooling, Halted, Other, Sending

LEMMA JoinStep == ASSUME Inv1, JoinInv, [Next]_vars PROVE Inv1' /\ JoinInv'
<1>1. Inv1' BY NextType
<1>2. Moves BY NextMoves DEF JoinInv
<1> QED BY <1>1, <1>2, KindsStep, SpawnStep, UpStep, TrackStep, LastStep DEF JoinInv

\* "Wait for background tasks to complete" (stop, quic_transport.rs 603-612): whatever
\* else goes on, when the only stop of a node has returned, the receivers of the
\* connections the node has dialled have ended, but for those that a connect_peer
\* stores after stop had taken the tasks.
THEOREM StopJoinsReceivers == Spec => []StopJoins
<1>1. Inv1 /\ JoinInv => StopJoins
  <2> SUFFICES ASSUME Inv1, JoinInv, NEW c \in Call, NEW d \in Call,
                      OnlyStop(c), task[c].step = "ok", NodeOf(d) = NodeOf(c)
               PROVE  task[<<NodeOf(c), d>>].step \in {"unborn", "ended"} \/ KeptLate(c, d)
    BY DEF StopJoins
  <2>1. CASE d = script[c].after
    <3>1. d # None BY TaskKinds
    <3> QED BY <2>1, <3>1 DEF JoinInv, LastStop, Gone, Receiver
  <2>2. CASE d # script[c].after
    <3>1. ~IsJoining(d)
      <4> SUFFICES ASSUME NEW b \in Call, NodeOf(b) = NodeOf(d), task[b].step = "joining"
                   PROVE  FALSE
        BY DEF IsJoining
      <4>1. script[b].kind = "stop" BY DEF JoinInv, Kinds, Halted
      <4>2. b = c BY <4>1 DEF OnlyStop
      <4> QED BY <4>2
    <3>2. Gone(d) \/ task[d].step = "pushing" \/ Receiver(d) \in Tasks(NodeOf(d))
      BY <3>1 DEF JoinInv, TrackInv
    <3> QED BY <2>2, <3>2 DEF KeptLate, Gone, Receiver, Tasks
  <2> QED BY <2>1, <2>2
<1> QED BY <1>1, InitType, JoinInit, JoinStep, PTL DEF Spec

-----------------------------------------------------------------------------
(***************************************************************************)
(* StoredIsRead.  Of every step it matters which PeerStates and which      *)
(* connections a task may come to know, and how receivers go on.           *)
(***************************************************************************)

Dialing == {"idle", "looking", "dialing"}
Early == {"establishing"} \cup Pooling
Known(s) == peer_state[s].connection

\* A task gets a PeerState of its node or makes a new one, and a connection of its
\* node or dials a new one.
TaskFlow(t) ==
  /\ \A s \in End : s \in {task'[t].state, task'[t].peer} =>
       \/ Reachable(NodeOf(t), s)
       \/ /\ s = NewState(t) /\ t \in Call \cup End
          /\ task[t].step \in {"pooling", "establishing"} /\ task'[t].step \in Pooling
  /\ \A k \in Call : k \in {task'[t].conn, task'[t].via} =>
       HasHandle(NodeOf(t), k) \/ connection[k] = "none"

Accepted(e) ==
  /\ connection[e[2]] = "queued" /\ Peer(e[2]) = e[1]
  /\ task'[e].step = "establishing" /\ task'[e].conn = e[2]
  /\ connection'[e[2]] = "accepted"

EndEdge(e) ==
  LET w == task[e]
      v == task'[e]
  IN  \/ v.step = w.step /\ v.conn = w.conn /\ v.state = w.state
      \/ Accepted(e)
      \/ /\ task[e[2]].step = "setting" /\ e = Receiver(e[2])
         /\ v.step = "locking" /\ v.state = task[e[2]].state
      \/ w.step \in Early /\ v.step \in Pooling /\ v.conn = w.conn
      \/ w.step = "setting" /\ v.step = "locking" /\ v.state = w.state
      \/ w.step \in Receiving /\ v.step \in Receiving \ {"reading"} /\ v.state = w.state
      \/ w.step = "locking" /\ v.step = "reading" /\ v.state = w.state /\ v.conn = Known(w.state)
      \/ w.step = "establishing" /\ v.step = "ended"
      \/ w.step = "locking" /\ v.step = "ended" /\ Known(w.state) = None
      \/ w.step = "reading" /\ v.step = "ended" /\ ~Live(w.conn)

Dialed(c) ==
  /\ task[c].step = "dialing" /\ task'[c].step = "pooling" /\ task'[c].conn = c
  /\ connection'[c] = "queued"
  /\ \A e \in Ends(c) : transport[e[1]].endpoint = "open"

DialEdge(c) ==
  /\ task'[c].step \in Dialing => task[c].step \in Dialing
  /\ task'[c].step \in {"pooling"} \cup Pooling =>
       \/ task[c].step \in {"pooling"} \cup Pooling /\ task'[c].conn = task[c].conn
       \/ Dialed(c)
  /\ task'[c].step = "pooling" => task[c].step \in {"dialing", "pooling"}
  /\ task[c].step = "stuck" => task'[c].step = "stuck"

\* A connection is put into a PeerState by the task that has it, which goes on to
\* receive, or to be stuck.
SetFlow(s) ==
  \/ peer_state'[s].connection \in {Known(s), None}
  \/ \E c \in Call :
       /\ task[c].step = "setting" /\ task[c].state = s /\ peer_state'[s].connection = c
       /\ \/ task'[c].step = "stuck"
          \/ task'[Receiver(c)].step = "locking" /\ task'[Receiver(c)].state = s
  \/ \E e \in End :
       /\ task[e].step = "setting" /\ task[e].state = s /\ peer_state'[s].connection = e[2]
       /\ task'[e].step = "locking" /\ task'[e].state = s

ConnectionEdge(k) ==
  \/ connection'[k] = connection[k]
  \/ Dialed(k)
  \/ /\ connection[k] = "queued" /\ connection'[k] = "accepted"
     /\ Accepted(<<Peer(k), k>>)
  \/ connection[k] = "accepted" /\ connection'[k] = "broken"

PoolFlow ==
  /\ \A n \in Node, key \in Key, s \in End : transport'[n].peers[key] = s => Reachable(n, s)
  /\ \A n \in Node : \/ transport'[n].endpoint \in {transport[n].endpoint, "closed"}
                     \/ transport[n].endpoint = "none"

Flows ==
  /\ situation' = situation
  /\ \A t \in Task : TaskFlow(t)
  /\ \A e \in End : EndEdge(e)
  /\ \A c \in Call : DialEdge(c)
  /\ \A s \in End : SetFlow(s)
  /\ \A k \in Call : ConnectionEdge(k)
  /\ PoolFlow

\* What keeps still gets nothing new.
Keeps(t) ==
  /\ task'[t].state \in {task[t].state, None} /\ task'[t].peer \in {task[t].peer, None}
  /\ task'[t].conn \in {task[t].conn, None} /\ task'[t].via \in {task[t].via, None}

LEMMA KeepsFlow ==
  ASSUME Inv1, NEW t \in Task, Keeps(t)
  PROVE  TaskFlow(t)
BY TaskKinds DEF Keeps, TaskFlow, Reachable, HasHandle

SamePool ==
  \A n \in Node : /\ transport'[n].peers = transport[n].peers
                  /\ \/ transport'[n].endpoint \in {transport[n].endpoint, "closed"}
                     \/ transport[n].endpoint = "none"

LEMMA SamePoolFlow == ASSUME SamePool PROVE PoolFlow
BY DEF SamePool, PoolFlow, Reachable

SameKnown == \A s \in End : peer_state'[s].connection \in {Known(s), None}

\* A step of a call that dials nothing and sets nothing.
LEMMA CallFlows ==
  ASSUME Inv1, NEW c \in Call, situation' = situation, connection' = connection,
         Alone(c), TaskFlow(c), DialEdge(c), SameKnown, PoolFlow
  PROVE  Flows
<1>0. c \in Task /\ c \notin End /\ \A e \in End : e \in Task /\ e # c BY TaskKinds DEF Task
<1>a. \A b \in Call : b \in Task BY DEF Task
<1>1. \A t \in Task : TaskFlow(t)
  <2>1. \A t \in Task : t # c => Keeps(t) BY DEF Alone, Keeps
  <2> QED BY <2>1, KeepsFlow
<1>2. \A e \in End : EndEdge(e) BY <1>0 DEF Alone, EndEdge
<1>3. \A b \in Call : DialEdge(b)
  <2>1. \A b \in Call : b # c => DialEdge(b)
    BY <1>a DEF Alone, DialEdge, Dialing, Pooling
  <2> QED BY <2>1
<1>4. \A s \in End : SetFlow(s) BY DEF SameKnown, SetFlow
<1> QED BY <1>1, <1>2, <1>3, <1>4 DEF Flows, ConnectionEdge

\* A step of a receiver that sets nothing.
LEMMA EndFlows ==
  ASSUME Inv1, NEW e \in End, situation' = situation, connection' = connection,
         Alone(e), TaskFlow(e), EndEdge(e), \A s \in End : SetFlow(s), PoolFlow
  PROVE  Flows
<1>0. e \in Task /\ \A b \in Call : b \in Task /\ b # e BY TaskKinds DEF Task
<1>a. \A f \in End : f \in Task BY DEF Task
<1>1. \A t \in Task : TaskFlow(t)
  <2>1. \A t \in Task : t # e => Keeps(t) BY DEF Alone, Keeps
  <2> QED BY <2>1, KeepsFlow
<1>2. \A f \in End : EndEdge(f)
  <2>1. \A f \in End : f # e => EndEdge(f) BY <1>a DEF Alone, EndEdge
  <2> QED BY <2>1
<1>3. \A b \in Call : DialEdge(b) BY <1>0 DEF Alone, DialEdge, Dialing, Pooling
<1> QED BY <1>1, <1>2, <1>3 DEF Flows, ConnectionEdge

\* A PeerState is made once, by the task it is named after, and belongs to its node.
Born(s) ==
  LET c == s[2]
  IN  IF s[1] = NodeOf(c) THEN task[c].step \notin Dialing \cup {"pooling"}
      ELSE task[s].step \notin {"unborn", "establishing"}

RefInv ==
  /\ \A n \in Node, s \in End : Reachable(n, s) => s[1] = n /\ Born(s)
  /\ \A s \in End : Known(s) # None => Born(s)

\* The steps most calls' actions come down to.
Plain(c) ==
  /\ task'[c].step \notin Dialing \cup {"pooling"} \cup Pooling
  /\ task[c].step # "stuck"

LEMMA PlainFlows ==
  ASSUME Inv1, NEW c \in Call, situation' = situation, connection' = connection,
         Alone(c), Keeps(c), Plain(c), SameKnown, SamePool
  PROVE  Flows
<1>1. c \in Task BY DEF Task
<1> QED BY <1>1, CallFlows, KeepsFlow, SamePoolFlow DEF Plain, DialEdge

LEMMA GoKeeps ==
  ASSUME Inv1, NEW t \in Task, NEW step, Go(t, step)
  PROVE  /\ Keeps(t) /\ Alone(t) /\ task'[t].step = step
         /\ task'[t].conn = task[t].conn /\ task'[t].state = task[t].state
<1>1. task \in [Task -> Local] /\ task[t] \in Local BY DEF Inv1, TypeOK
<1> QED BY <1>1 DEF Go, Alone, Keeps, Local

LEMMA ReturnKeeps ==
  ASSUME Inv1, NEW c \in Call, NEW result, Return(c, result)
  PROVE  Keeps(c) /\ Alone(c) /\ task'[c].step = result
<1>1. c \in Task BY DEF Task
<1>2. task \in [Task -> Local] BY DEF Inv1, TypeOK
<1> QED BY <1>1, <1>2 DEF Return, Fresh, Alone, Keeps

LEMMA ReceivesKeeps ==
  ASSUME Inv1, NEW e \in End, Receives(e)
  PROVE  Keeps(e) /\ Alone(e) /\ task'[e].step = "locking" /\ task'[e].state = task[e].state
<1>1. e \in Task /\ task \in [Task -> Local] BY DEF Task, Inv1, TypeOK
<1>2. task' = [task EXCEPT ![e] = [Fresh("locking") EXCEPT !.state = task[e].state]]
  BY DEF Receives
<1> QED BY <1>1, <1>2 DEF Fresh, Alone, Keeps

LEMMA EndsKeeps ==
  ASSUME Inv1, NEW e \in End, task' = [task EXCEPT ![e] = Fresh("ended")]
  PROVE  Keeps(e) /\ Alone(e) /\ task'[e].step = "ended"
<1>1. e \in Task /\ task \in [Task -> Local] BY DEF Task, Inv1, TypeOK
<1> QED BY <1>1 DEF Fresh, Alone, Keeps

LEMMA BeginFlows ==
  ASSUME Inv1, NEW c \in Call,
         Send(c) \/ Disconnect(c) \/ AlreadyRunning(c) \/ Start(c) \/ Stop(c)
  PROVE  Flows
<1>0. Hand(c) /\ c \in Task /\ task[c] \in Local /\ task \in [Task -> Local]
      /\ transport \in [Node -> Impl]
  BY InHand DEF Hand, Inv1, TypeOK
<1> DEFINE Result == Alone(c) /\ Keeps(c) /\ Plain(c)
<1>1. ASSUME Send(c) PROVE Result
  <2>1. PICK m : task' = [task EXCEPT ![c].step = "sending", ![c].msg = m] BY <1>1 DEF Send
  <2> QED BY <1>0, <1>1, <2>1 DEF Send, Begins, At, Local, Alone, Keeps, Plain, Dialing, Pooling
<1>2. ASSUME Disconnect(c) PROVE Result
  BY <1>0, <1>2, GoKeeps, ReturnKeeps DEF Disconnect, GoOrFail, Begins, At, Plain, Dialing, Pooling
<1>3. ASSUME AlreadyRunning(c) PROVE Result
  BY <1>3, ReturnKeeps DEF AlreadyRunning, Begins, At, Plain, Dialing, Pooling
<1>4. ASSUME Start(c) PROVE Result
  BY <1>0, <1>4, GoKeeps, ReturnKeeps DEF Start, GoOrFail, Begins, At, Plain, Dialing, Pooling
<1>5. ASSUME Stop(c) PROVE Result
  BY <1>0, <1>5, GoKeeps, ReturnKeeps DEF Stop, Begins, At, Plain, Dialing, Pooling
<1>6. SamePool
  <2>1. CASE transport' = transport BY <2>1 DEF SamePool
  <2>2. CASE Start(c) BY <1>0, <2>2 DEF Hand, Start, SamePool, Impl
  <2> QED BY <2>1, <2>2 DEF Send, Disconnect, AlreadyRunning, Stop, OnlyTask
<1>7. situation' = situation /\ connection' = connection /\ peer_state' = peer_state
  BY DEF Send, Disconnect, AlreadyRunning, Start, Stop, OnlyTask, OnlyTransport
<1> QED BY <1>1, <1>2, <1>3, <1>4, <1>5, <1>6, <1>7, PlainFlows DEF SameKnown, Known

\* The PeerStates of the pool are in reach.
LEMMA PoolReach ==
  \A n \in Node, key \in Key : Reachable(n, transport[n].peers[key])
BY DEF Reachable

LEMMA ConnectPeerFlows ==
  ASSUME Inv1, NEW c \in Call, ConnectPeer(c)
  PROVE  Flows
<1>0. Hand(c) /\ c \in Task /\ task[c] \in Local /\ task \in [Task -> Local]
  BY InHand DEF Hand, Inv1, TypeOK
<1> DEFINE s == transport[NodeOf(c)].peers[Id(Peer(c))]
<1>1. situation' = situation /\ connection' = connection /\ SameKnown /\ PoolFlow
  BY SamePoolFlow DEF ConnectPeer, OnlyTask, SameKnown, Known, SamePool
<1>2. CASE transport[NodeOf(c)].running /\ script[c].addresses > 0
  <2>1. task' = [task EXCEPT ![c].step = IF s = None THEN "dialing" ELSE "looking", ![c].state = s]
    BY <1>2 DEF ConnectPeer
  <2>2. /\ Alone(c) /\ task'[c].step \in {"looking", "dialing"} /\ task'[c].state = s
        /\ task'[c].peer = task[c].peer /\ task'[c].conn = task[c].conn
        /\ task'[c].via = task[c].via
    <3> HIDE DEF s
    <3> QED BY <1>0, <2>1 DEF Local, Alone
  <2>3. Reachable(NodeOf(c), s) BY <1>0, PoolReach DEF Hand
  <2>4. TaskFlow(c)
    <3> HIDE DEF s
    <3> QED BY <1>0, <2>2, <2>3 DEF TaskFlow, Reachable, HasHandle
  <2>5. DialEdge(c)
    BY <2>2 DEF ConnectPeer, Begins, At, DialEdge, Dialing, Pooling
  <2> QED BY <1>1, <2>2, <2>4, <2>5, CallFlows
<1>3. CASE ~(transport[NodeOf(c)].running /\ script[c].addresses > 0)
  <2>1. Alone(c) /\ Keeps(c) /\ task'[c].step = "err"
    BY <1>3, ReturnKeeps DEF ConnectPeer
  <2>2. Plain(c) BY <2>1 DEF ConnectPeer, Begins, At, Plain, Dialing, Pooling
  <2>3. SamePool BY DEF ConnectPeer, OnlyTask, SamePool
  <2> QED BY <1>1, <2>1, <2>2, <2>3, PlainFlows
<1> QED BY <1>2, <1>3

LEMMA DialFlows ==
  ASSUME Inv1, NEW c \in Call,
         LookAtPeer(c) \/ FailToDial(c) \/ InsertPeer(c) \/ PushTask(c)
  PROVE  Flows
<1>0. Hand(c) /\ c \in Task /\ task[c] \in Local /\ task \in [Task -> Local]
      /\ transport \in [Node -> Impl]
  BY InHand DEF Hand, Inv1, TypeOK
<1> DEFINE Result == Alone(c) /\ Keeps(c) /\ DialEdge(c) /\ PoolFlow
<1>1. ASSUME LookAtPeer(c) PROVE Result
  BY <1>0, <1>1, SamePoolFlow
  DEF LookAtPeer, At, Local, Alone, Keeps, DialEdge, Dialing, Pooling, OnlyTask, SamePool
<1>2. ASSUME FailToDial(c) PROVE Result
  <2>0. PoolFlow BY <1>2, SamePoolFlow DEF FailToDial, OnlyTask, SamePool
  <2>1. CASE task[c].tried + 1 < script[c].addresses
    <3>1. Alone(c) /\ Keeps(c) /\ task'[c].step = "dialing" /\ task[c].step = "dialing"
      BY <1>0, <1>2, <2>1 DEF FailToDial, Dials, At, Local, Alone, Keeps
    <3> QED BY <2>0, <3>1 DEF DialEdge, Dialing, Pooling
  <2>2. CASE ~(task[c].tried + 1 < script[c].addresses)
    BY <1>2, <2>0, <2>2, ReturnKeeps DEF FailToDial, Dials, At, DialEdge, Dialing, Pooling
  <2> QED BY <2>1, <2>2
<1>3. ASSUME InsertPeer(c) PROVE Result
  <2>1. Alone(c) /\ Keeps(c) /\ task[c].step = "inserting" /\ task'[c].step = "setting"
        /\ task'[c].conn = task[c].conn
    BY <1>0, <1>3, GoKeeps DEF InsertPeer, At
  <2>2. DialEdge(c) BY <2>1 DEF DialEdge, Dialing, Pooling
  <2>3. PoolFlow
    <3>1. \A n \in Node : transport'[n].endpoint = transport[n].endpoint
      BY <1>0, <1>3 DEF Hand, InsertPeer, Impl
    <3>2. ASSUME NEW n \in Node, NEW key \in Key, NEW s \in End, transport'[n].peers[key] = s
          PROVE  Reachable(n, s)
      <4>1. \/ transport'[n].peers[key] = transport[n].peers[key]
            \/ n = NodeOf(c) /\ transport'[n].peers[key] = task[c].state
        BY <1>0, <1>3 DEF Hand, InsertPeer, Impl
      <4> QED BY <1>0, <3>2, <4>1 DEF Reachable
    <3> QED BY <3>1, <3>2 DEF PoolFlow
  <2> QED BY <2>1, <2>2, <2>3
<1>4. ASSUME PushTask(c) PROVE Result
  <2>1. PICK m : task' = [task EXCEPT ![c] = [Fresh("sending") EXCEPT !.msg = m]]
    BY <1>4 DEF PushTask
  <2>2. Alone(c) /\ Keeps(c) /\ task'[c].step = "sending"
    BY <1>0, <2>1 DEF Fresh, Alone, Keeps
  <2>3. DialEdge(c) BY <1>4, <2>2 DEF PushTask, At, DialEdge, Dialing, Pooling
  <2>4. SamePool BY <1>0, <1>4 DEF Hand, PushTask, SamePool, Impl
  <2> QED BY <2>2, <2>3, <2>4, SamePoolFlow
<1>5. situation' = situation /\ connection' = connection /\ SameKnown
  BY DEF LookAtPeer, FailToDial, InsertPeer, PushTask, OnlyTask, OnlyTransport, SameKnown, Known
<1>6. TaskFlow(c) BY <1>0, <1>1, <1>2, <1>3, <1>4, KeepsFlow
<1> QED BY <1>1, <1>2, <1>3, <1>4, <1>5, <1>6, CallFlows

LEMMA GetPeerFlow ==
  ASSUME Inv1, NEW t \in Call \cup End, GetPeer(t)
  PROVE  /\ TaskFlow(t) /\ Alone(t) /\ task'[t].step \in Pooling /\ task'[t].conn = task[t].conn
         /\ task[t].step \in {"pooling", "establishing"}
<1>0. Hand(t) /\ t \in Task /\ task[t] \in Local /\ task \in [Task -> Local]
  BY InHand DEF Hand, Inv1, TypeOK
<1> DEFINE s == transport[NodeOf(t)].peers[KeyOf(t)]
<1>1. task[t].step \in {"pooling", "establishing"} BY DEF GetPeer, At
<1>2. task' = [task EXCEPT ![t].step = IF s = None THEN "inserting" ELSE "setting",
                           ![t].state = IF s = None THEN NewState(t) ELSE s]
  BY DEF GetPeer
<1>3. Reachable(NodeOf(t), s) BY <1>0, PoolReach DEF Hand
<1>4. /\ Alone(t) /\ task'[t].step \in Pooling /\ task'[t].conn = task[t].conn
      /\ task'[t].state \in {s, NewState(t)} /\ task'[t].peer = task[t].peer
      /\ task'[t].via = task[t].via
  <2> HIDE DEF s
  <2> QED BY <1>0, <1>2 DEF Local, Alone, Pooling
<1>5. TaskFlow(t)
  <2> HIDE DEF s
  <2> QED BY <1>0, <1>1, <1>3, <1>4 DEF TaskFlow, Reachable, HasHandle
<1> QED BY <1>1, <1>4, <1>5

LEMMA GetPeerFlows ==
  ASSUME Inv1, NEW c \in Call, GetPeer(c)
  PROVE  Flows
<1>0. Hand(c) /\ c \in Call \cup End BY InHand
<1>1. /\ TaskFlow(c) /\ Alone(c) /\ task'[c].step \in Pooling /\ task'[c].conn = task[c].conn
      /\ task[c].step \in {"pooling", "establishing"}
  BY <1>0, GetPeerFlow
<1>2. task[c].step = "pooling" BY <1>0, <1>1 DEF Hand, Fits, CallSteps, Pooling, Sending
<1>3. DialEdge(c) BY <1>1, <1>2 DEF DialEdge, Dialing, Pooling
<1>4. situation' = situation /\ connection' = connection /\ SameKnown /\ PoolFlow
  BY SamePoolFlow DEF GetPeer, OnlyTask, SameKnown, Known, SamePool
<1> QED BY <1>1, <1>3, <1>4, CallFlows

LEMMA DialedFlows ==
  ASSUME Inv1, NEW c \in Call, Dial(c), connection[c] = "none"
  PROVE  Flows
<1>0. Hand(c) /\ c \in Task /\ task[c] \in Local /\ task \in [Task -> Local]
      /\ connection \in [Call -> {"none", "queued", "accepted", "broken"}]
      /\ c \notin End /\ \A e \in End : e \in Task /\ e # c
  BY InHand, TaskKinds DEF Hand, Inv1, TypeOK, Task
<1>a. \A b \in Call : b \in Task BY DEF Task
<1>1. /\ Alone(c) /\ task'[c].step = "pooling" /\ task[c].step = "dialing" /\ task'[c].conn = c
      /\ task'[c].state = task[c].state /\ task'[c].peer = task[c].peer
      /\ task'[c].via = task[c].via
  BY <1>0 DEF Dial, Dials, At, Local, Alone
<1>2. Dialed(c)
  <2>1. connection'[c] = "queued" BY <1>0 DEF Dial
  <2>2. \A e \in Ends(c) : e[1] \in {NodeOf(c), Peer(c)}
    BY ScriptType DEF Ends, Inv1, TypeOK
  <2> QED BY <1>1, <2>1, <2>2 DEF Dial, CanDial, Dialed
<1>3. \A t \in Task : TaskFlow(t)
  <2>1. TaskFlow(c) BY <1>0, <1>1 DEF TaskFlow, Reachable, HasHandle
  <2>2. \A t \in Task : t # c => Keeps(t) BY <1>1 DEF Alone, Keeps
  <2> QED BY <2>1, <2>2, KeepsFlow
<1>4. \A e \in End : EndEdge(e) BY <1>0, <1>1 DEF Alone, EndEdge
<1>5. \A b \in Call : DialEdge(b)
  <2>1. DialEdge(c) BY <1>1, <1>2 DEF DialEdge, Dialing, Pooling
  <2>2. \A b \in Call : b # c => DialEdge(b)
    BY <1>a, <1>1 DEF Alone, DialEdge, Dialing, Pooling
  <2> QED BY <2>1, <2>2
<1>6. \A k \in Call : ConnectionEdge(k) BY <1>0, <1>2 DEF Dial, ConnectionEdge
<1>7. PoolFlow BY SamePoolFlow DEF Dial, SamePool
<1>8. \A s \in End : SetFlow(s) BY DEF Dial, SetFlow, Known
<1> QED BY <1>3, <1>4, <1>5, <1>6, <1>7, <1>8 DEF Flows, Dial

LEMMA SetFlows ==
  ASSUME Inv1, NEW c \in Call, SetConnection(c)
  PROVE  Flows
<1>0. /\ Hand(c) /\ c \in Task /\ task[c] \in Local /\ task \in [Task -> Local]
      /\ c \notin End /\ Receiver(c) \in End /\ Receiver(c) \in Task /\ Receiver(c) # c
      /\ NodeOf(Receiver(c)) = NodeOf(c) /\ Receiver(c)[2] = c
      /\ peer_state \in [End -> PeerState]
  BY InHand, TaskKinds DEF Hand, Inv1, TypeOK, Task, Receiver, NodeOf
<1>k. (\A e \in End : e \in Task /\ e # c) /\ \A b \in Call : b \in Task /\ b # Receiver(c)
  BY TaskKinds, <1>0 DEF Task
<1> DEFINE s == task[c].state
           r == Receiver(c)
<1>1. task[c].step = "setting" /\ s \in End BY <1>0 DEF SetConnection, At, Hand, Fits, Pooling
<1>2. /\ peer_state'[s].connection = c
      /\ \A x \in End : x # s => peer_state'[x].connection = peer_state[x].connection
  <2>1. peer_state[s] \in PeerState BY <1>0, <1>1
  <2>2. \/ peer_state' = [peer_state EXCEPT ![s].connection = c, ![s].status = @ + 1]
        \/ peer_state' = [peer_state EXCEPT ![s].connection = c, ![s].holder = c]
    BY DEF SetConnection
  <2> HIDE DEF s
  <2> QED BY <1>0, <1>1, <2>1, <2>2 DEF PeerState
<1>3. /\ \A u \in Task : u # c /\ u # r => task'[u] = task[u]
      /\ Keeps(c)
      /\ \/ /\ task'[c].step = "pushing" /\ task'[r].step = "locking" /\ task'[r].state = s
            /\ task'[r].conn = None /\ task'[r].peer = None /\ task'[r].via = None
         \/ task'[c].step = "stuck" /\ task'[r] = task[r]
  <2>1. CASE peer_state[s].status < StatusLimit
    <3> DEFINE w == [Fresh("pushing") EXCEPT !.state = s]
               v == [Fresh("locking") EXCEPT !.state = s]
    <3>1. task' = [task EXCEPT ![c] = w, ![r] = v]
      BY <2>1 DEF SetConnection, Receiver
    <3>2. /\ w.step = "pushing" /\ w.state = s /\ w.conn = None /\ w.peer = None /\ w.via = None
          /\ v.step = "locking" /\ v.state = s /\ v.conn = None /\ v.peer = None /\ v.via = None
      <4> HIDE DEF s
      <4> QED BY DEF Fresh
    <3> HIDE DEF r, w, v
    <3>3. r \in Task /\ r # c BY <1>0 DEF r
    <3>4. task'[c] = w /\ task'[r] = v /\ \A u \in Task : u # c /\ u # r => task'[u] = task[u]
      BY <1>0, <3>1, <3>3
    <3>5. Keeps(c) BY <3>2, <3>4 DEF Keeps
    <3> QED BY <3>2, <3>4, <3>5
  <2>2. CASE ~(peer_state[s].status < StatusLimit)
    <3>1. Go(c, "stuck") BY <2>2 DEF SetConnection
    <3> QED BY <1>0, <3>1, GoKeeps DEF Alone
  <2> QED BY <2>1, <2>2
<1>4. \A t \in Task : TaskFlow(t)
  <2>1. \A t \in Task : t # r => Keeps(t) BY <1>3 DEF Keeps
  <2>2. TaskFlow(r)
    <3>1. Reachable(NodeOf(r), s) BY <1>0 DEF Reachable
    <3>2. CASE task'[r] = task[r]
      <4>1. Keeps(r) BY <3>2 DEF Keeps
      <4> QED BY <1>0, <4>1, KeepsFlow
    <3>3. CASE task'[r].state = s /\ task'[r].conn = None /\ task'[r].peer = None /\ task'[r].via = None
      BY <3>1, <3>3, TaskKinds DEF TaskFlow
    <3> QED BY <1>3, <3>2, <3>3
  <2> QED BY <2>1, <2>2, KeepsFlow
<1>5. \A e \in End : EndEdge(e)
  <2>1. \A e \in End : e # r => EndEdge(e) BY <1>k, <1>3 DEF EndEdge
  <2>2. EndEdge(r)
    <3>1. r[2] = c BY <1>0
    <3>2. CASE task'[r] = task[r] BY <3>2 DEF EndEdge
    <3>3. CASE task'[r].step = "locking" /\ task'[r].state = s
      BY <1>1, <3>1, <3>3 DEF EndEdge
    <3> QED BY <1>3, <3>2, <3>3
  <2> QED BY <2>1, <2>2
<1>6. \A b \in Call : DialEdge(b)
  <2>1. DialEdge(c) BY <1>1, <1>3 DEF DialEdge, Dialing, Pooling
  <2>2. \A b \in Call : b # c => DialEdge(b) BY <1>k, <1>3 DEF DialEdge, Dialing, Pooling
  <2> QED BY <2>1, <2>2
<1>7. \A x \in End : SetFlow(x)
  <2>1. \A x \in End : x # s => SetFlow(x) BY <1>2 DEF SetFlow, Known
  <2>2. SetFlow(s) BY <1>1, <1>2, <1>3 DEF SetFlow
  <2> QED BY <2>1, <2>2
<1>8. PoolFlow BY SamePoolFlow DEF SetConnection, OnlyPeerState, SamePool
<1> QED BY <1>4, <1>5, <1>6, <1>7, <1>8
    DEF Flows, ConnectionEdge, SetConnection, OnlyPeerState

\* send_message, by calls and by receivers.
LEMMA FailsKeeps ==
  ASSUME Inv1, NEW t \in Call \cup End, Fails(t)
  PROVE  Keeps(t) /\ (t \in End => task'[t].state = task[t].state)
<1>0. Hand(t) BY InHand
<1>1. CASE t \in Call BY <1>0, <1>1, ReturnKeeps DEF Hand, Fails
<1>2. CASE t \in End BY <1>0, <1>2, ReceivesKeeps DEF Hand, Fails
<1> QED BY <1>1, <1>2

LEMMA SendStepFlow ==
  ASSUME Inv1, RefInv, NEW t \in Call \cup End, SendStep(t)
  PROVE  /\ TaskFlow(t) /\ SameKnown /\ PoolFlow
         /\ t \in End => task'[t].state = task[t].state
<1>0. Hand(t) /\ t \in Task /\ task[t] \in Local /\ task \in [Task -> Local]
      /\ transport \in [Node -> Impl] /\ peer_state \in [End -> PeerState]
  BY InHand DEF Hand, Inv1, TypeOK
<1> DEFINE State == t \in End => task'[t].state = task[t].state
<1>1. ASSUME SendMessage(t) PROVE TaskFlow(t) /\ State
  <2> DEFINE s == transport[NodeOf(t)].peers[task[t].msg.to]
  <2>1. CASE transport[NodeOf(t)].running /\ s # None
    <3>1. task' = [task EXCEPT ![t].step = "streaming", ![t].peer = s]
      BY <1>1, <2>1 DEF SendMessage
    <3>2. task[t].msg.to \in Key
      BY <1>0, <1>1 DEF Hand, SendMessage, At, Fits, Sending, Message
    <3>3. Reachable(NodeOf(t), s) BY <1>0, <3>2, PoolReach DEF Hand
    <3>4. /\ task'[t].state = task[t].state /\ task'[t].peer = s
          /\ task'[t].conn = task[t].conn /\ task'[t].via = task[t].via
      <4> HIDE DEF s
      <4> QED BY <1>0, <3>1 DEF Local
    <3> HIDE DEF s
    <3> QED BY <1>0, <3>3, <3>4 DEF TaskFlow, Reachable, HasHandle
  <2>2. CASE ~(transport[NodeOf(t)].running /\ s # None)
    <3>1. Fails(t) BY <1>1, <2>2 DEF SendMessage
    <3> QED BY <1>0, <3>1, FailsKeeps, KeepsFlow
  <2> QED BY <2>1, <2>2
<1>2. ASSUME OpenStream(t) PROVE TaskFlow(t) /\ State
  <2> DEFINE s == task[t].peer
  <2>1. task' = [task EXCEPT ![t].step = "finishing", ![t].via = Through(t)]
    BY <1>2 DEF OpenStream
  <2>2. s \in End BY <1>0, <1>2 DEF Hand, OpenStream, MayOpen, At, Fits
  <2>3. Reachable(NodeOf(t), s) BY <1>0 DEF Reachable
  <2>4. s[1] = NodeOf(t) BY <1>0, <2>2, <2>3 DEF Hand, RefInv
  <2>5. HasHandle(NodeOf(t), Through(t)) BY <2>2, <2>3, <2>4 DEF HasHandle, Through
  <2>6. /\ task'[t].state = task[t].state /\ task'[t].peer = task[t].peer
        /\ task'[t].conn = task[t].conn /\ task'[t].via = Through(t)
    BY <1>0, <2>1 DEF Local
  <2>7. \A k \in Call : k = task[t].conn => HasHandle(NodeOf(t), k) BY <1>0 DEF HasHandle
  <2>8. \A x \in End : x \in {task[t].state, task[t].peer} => Reachable(NodeOf(t), x)
    BY <1>0 DEF Reachable
  <2> QED BY <2>5, <2>6, <2>7, <2>8 DEF TaskFlow
<1>3. ASSUME WaitForStream(t) PROVE TaskFlow(t) /\ State
  BY <1>0, <1>3, GoKeeps, KeepsFlow DEF WaitForStream
<1>4. ASSUME FailToOpen(t) \/ FailToFinish(t) \/ StopFinish(t) PROVE TaskFlow(t) /\ State
  BY <1>0, <1>4, FailsKeeps, KeepsFlow DEF FailToOpen, FailToFinish, StopFinish
<1>5. ASSUME FinishStream(t) PROVE TaskFlow(t) /\ State
  <2>1. t \in Call /\ t \notin End BY <1>0, <1>5 DEF Hand, FinishStream
  <2>2. CASE script[t].kind = "update"
    <3>1. task' = [task EXCEPT ![t] = [Fresh("updating") EXCEPT !.todo = task[t].todo]]
      BY <1>5, <2>2 DEF FinishStream
    <3>2. Keeps(t) BY <1>0, <2>1, <3>1 DEF Fresh, Keeps
    <3> QED BY <1>0, <2>1, <3>2, KeepsFlow
  <2>3. CASE script[t].kind # "update"
    BY <1>0, <1>5, <2>1, <2>3, ReturnKeeps, KeepsFlow DEF FinishStream
  <2> QED BY <2>2, <2>3
<1>6. ASSUME FinishResponse(t) PROVE TaskFlow(t) /\ State
  BY <1>0, <1>6, ReceivesKeeps, KeepsFlow DEF FinishResponse
<1>7. SameKnown
  <2>1. CASE peer_state' = peer_state BY <2>1 DEF SameKnown, Known
  <2>2. CASE OpenStream(t) \/ WaitForStream(t) \/ FailToOpen(t)
    <3>1. \E h : peer_state' = [peer_state EXCEPT ![task[t].peer].holder = h]
      BY <2>2 DEF OpenStream, WaitForStream, FailToOpen
    <3> QED BY <1>0, <3>1 DEF SameKnown, Known, PeerState
  <2> QED BY <2>1, <2>2 DEF SendStep, SendMessage, FinishStream, FinishResponse, FailToFinish,
                            StopFinish, OnlyTask, OnlyTransport
<1>8. SamePool
  <2>1. CASE transport' = transport BY <2>1 DEF SamePool
  <2>2. CASE FinishResponse(t) BY <1>0, <2>2 DEF Hand, FinishResponse, SamePool, Impl
  <2>3. CASE StopFinish(t) BY <1>0, <2>3 DEF Hand, StopFinish, SamePool, Impl
  <2> QED BY <2>1, <2>2, <2>3 DEF SendStep, SendMessage, OpenStream, WaitForStream, FailToOpen,
                            FinishStream, FailToFinish, OnlyTask, OnlyPeerState
<1> QED BY <1>1, <1>2, <1>3, <1>4, <1>5, <1>6, <1>7, <1>8, SamePoolFlow DEF SendStep

LEMMA SendFlows ==
  ASSUME Inv1, RefInv, NEW t \in Call \cup End, SendStep(t)
  PROVE  Flows
<1>1. Sends(t) BY SendStepEdge
<1>2. /\ TaskFlow(t) /\ SameKnown /\ PoolFlow
      /\ t \in End => task'[t].state = task[t].state
  BY SendStepFlow
<1>3. CASE t \in Call
  <2>1. DialEdge(t) BY <1>1, <1>3 DEF Sends, DialEdge, Dialing, Pooling, Sending
  <2> QED BY <1>1, <1>2, <1>3, <2>1, CallFlows DEF Sends
<1>4. CASE t \in End
  <2>1. EndEdge(t) BY <1>1, <1>2, <1>4 DEF Sends, EndEdge, Receiving, Sending
  <2> QED BY <1>1, <1>2, <1>4, <2>1, EndFlows DEF Sends, SameKnown, SetFlow
<1> QED BY <1>3, <1>4

LEMMA UpdateFlows ==
  ASSUME Inv1, NEW c \in Call,
         Collect(c) \/ UpdateNext(c) \/ AllUpdated(c) \/ ClearConnection(c)
  PROVE  Flows
<1>0. Hand(c) /\ c \in Task /\ task[c] \in Local /\ task \in [Task -> Local]
      /\ transport \in [Node -> Impl] /\ peer_state \in [End -> PeerState]
  BY InHand DEF Hand, Inv1, TypeOK
<1> DEFINE Result == Alone(c) /\ Keeps(c) /\ Plain(c)
<1>1. ASSUME Collect(c) PROVE Result /\ SamePool
  <2> DEFINE n == NodeOf(c)
             keys == IF Begins(c, "update") THEN {k \in Key : transport[n].peers[k] # None}
                     ELSE task[c].rest
             now == {k \in keys : Free(transport[n].peers[k])}
             more == {k \in now : Connected(transport[n].peers[k])}
             rest == keys \ now
             step == IF now = keys THEN "updating" ELSE "collecting"
  <2>1. step \in {"updating", "collecting"} OBVIOUS
  <2>2. task' = [task EXCEPT ![c].step = step, ![c].rest = rest, ![c].todo = @ \cup more]
    BY <1>1 DEF Collect
  <2>3. task[c].step \in {"idle", "collecting"} BY <1>1 DEF Collect, Begins, At
  <2>4. PICK it : transport' = [transport EXCEPT ![n].iterating = it] BY <1>1 DEF Collect
  <2> HIDE DEF step, rest, more
  <2>5. Alone(c) /\ Keeps(c) /\ task'[c].step = step BY <1>0, <2>2 DEF Local, Alone, Keeps
  <2>6. SamePool BY <1>0, <2>4 DEF Hand, SamePool, Impl
  <2> QED BY <2>1, <2>3, <2>5, <2>6 DEF Plain, Dialing, Pooling
<1>2. ASSUME UpdateNext(c) PROVE Result /\ SamePool
  <2>1. PICK k, m : task' = [task EXCEPT ![c].step = "sending", ![c].todo = @ \ {k},
                                         ![c].msg = m]
    BY <1>2 DEF UpdateNext
  <2>2. Alone(c) /\ Keeps(c) /\ task'[c].step = "sending"
    BY <1>0, <2>1 DEF Local, Alone, Keeps
  <2> QED BY <1>2, <2>2 DEF UpdateNext, At, Plain, Dialing, Pooling, OnlyTask, SamePool
<1>3. ASSUME AllUpdated(c) \/ ClearConnection(c) PROVE Result /\ SamePool
  <2>1. Alone(c) /\ Keeps(c) /\ task'[c].step = "ok"
    BY <1>3, ReturnKeeps DEF AllUpdated, ClearConnection
  <2> QED BY <1>3, <2>1 DEF AllUpdated, ClearConnection, At, Plain, Dialing, Pooling, OnlyTask,
                            OnlyPeerState, SamePool
<1>4. SameKnown
  <2>1. CASE peer_state' = peer_state BY <2>1 DEF SameKnown, Known
  <2>2. CASE ClearConnection(c)
    BY <1>0, <2>2 DEF ClearConnection, SameKnown, Known, PeerState
  <2> QED BY <2>1, <2>2 DEF Collect, UpdateNext, AllUpdated, OnlyTask, OnlyTransport
<1>5. situation' = situation /\ connection' = connection
  BY DEF Collect, UpdateNext, AllUpdated, ClearConnection, OnlyTask, OnlyTransport, OnlyPeerState
<1> QED BY <1>1, <1>2, <1>3, <1>4, <1>5, PlainFlows

LEMMA RemoveFlows ==
  ASSUME Inv1, NEW c \in Call, RemovePeer(c)
  PROVE  Flows
<1>0. Hand(c) /\ c \in Task /\ task[c] \in Local /\ task \in [Task -> Local]
      /\ transport \in [Node -> Impl]
  BY InHand DEF Hand, Inv1, TypeOK
<1> DEFINE s == transport[NodeOf(c)].peers[Id(Peer(c))]
<1>1. /\ TaskFlow(c) /\ Alone(c) /\ task'[c].step \in {"ok", "clearing"}
  <2>1. CASE s = None
    BY <1>0, <2>1, ReturnKeeps, KeepsFlow DEF RemovePeer
  <2>2. CASE s # None
    <3>1. task' = [task EXCEPT ![c].step = "clearing", ![c].state = s]
      BY <2>2 DEF RemovePeer
    <3>2. Reachable(NodeOf(c), s) BY <1>0, PoolReach DEF Hand
    <3>3. /\ Alone(c) /\ task'[c].step = "clearing" /\ task'[c].state = s
          /\ task'[c].peer = task[c].peer /\ task'[c].conn = task[c].conn
          /\ task'[c].via = task[c].via
      <4> HIDE DEF s
      <4> QED BY <1>0, <3>1 DEF Local, Alone
    <3> HIDE DEF s
    <3> QED BY <1>0, <3>2, <3>3 DEF TaskFlow, Reachable, HasHandle
  <2> QED BY <2>1, <2>2
<1>2. DialEdge(c) BY <1>1 DEF RemovePeer, At, DialEdge, Dialing, Pooling
<1>3. PoolFlow
  <2>1. \A n \in Node : transport'[n].endpoint = transport[n].endpoint
    BY <1>0 DEF Hand, RemovePeer, Impl
  <2>2. \A n \in Node, key \in Key : transport'[n].peers[key] \in {transport[n].peers[key], None}
    BY <1>0 DEF Hand, RemovePeer, Impl
  <2> QED BY <2>1, <2>2, PoolReach, TaskKinds DEF PoolFlow
<1> QED BY <1>1, <1>2, <1>3, CallFlows DEF RemovePeer, OnlyTransport, SameKnown, Known

LEMMA StoreFlows ==
  ASSUME Inv1, NEW c \in Call, StoreEndpoint(c)
  PROVE  Flows
<1>0. /\ Hand(c) /\ c \in Task /\ task \in [Task -> Local] /\ c \notin End
      /\ transport \in [Node -> Impl]
  BY InHand DEF Hand, Inv1, TypeOK
<1>a. \A t \in Task : task[t] \in Local BY <1>0
<1> DEFINE y == <<NodeOf(c), None>>
<1>1. y \in AcceptTask /\ y \in Task /\ y # c /\ y \notin Call /\ y \notin End
  BY <1>0, TaskKinds DEF Hand, AcceptTask, Task
<1>2. /\ \A u \in Task : u # c /\ u # y => task'[u] = task[u]
      /\ \A u \in Task : Keeps(u)
      /\ task'[c].step = "starting" /\ task[c].step = "storing"
  <2>1. task' = [task EXCEPT ![c].step = "starting", ![y].step = "born"]
    BY DEF StoreEndpoint
  <2>2. task[c].step = "storing" BY DEF StoreEndpoint, At
  <2> HIDE DEF y
  <2>3. \A u \in Task : task'[u] = IF u = y THEN [task[y] EXCEPT !.step = "born"]
                                   ELSE IF u = c THEN [task[c] EXCEPT !.step = "starting"]
                                   ELSE task[u]
    BY <1>0, <1>1, <2>1
  <2>4. \A u \in Task : Keeps(u) BY <1>0, <1>a, <1>1, <2>3 DEF Local, Keeps
  <2>5. task'[c].step = "starting" BY <1>0, <1>a, <1>1, <2>3 DEF Local
  <2> QED BY <2>2, <2>3, <2>4, <2>5
<1>3. \A t \in Task : TaskFlow(t) BY <1>2, KeepsFlow
<1>4. \A e \in End : EndEdge(e)
  <2>1. \A e \in End : e \in Task /\ e # c /\ e # y BY <1>0, <1>1 DEF Task
  <2> QED BY <1>2, <2>1 DEF EndEdge
<1>5. \A b \in Call : DialEdge(b)
  <2>1. \A b \in Call : b \in Task /\ b # y BY <1>1 DEF Task
  <2>2. \A b \in Call : b # c => DialEdge(b) BY <1>2, <2>1 DEF DialEdge, Dialing, Pooling
  <2>3. DialEdge(c) BY <1>2 DEF DialEdge, Dialing, Pooling
  <2> QED BY <2>2, <2>3
<1>6. SamePool BY <1>0 DEF Hand, StoreEndpoint, SamePool, Impl
<1> QED BY <1>3, <1>4, <1>5, <1>6, SamePoolFlow
    DEF Flows, StoreEndpoint, OnlyTransport, SetFlow, Known, ConnectionEdge

LEMMA StopFlows ==
  ASSUME Inv1, NEW c \in Call,
         Started(c) \/ Halt(c) \/ CloseEndpoint(c) \/ DrainTasks(c) \/ JoinTasks(c)
  PROVE  Flows
<1>0. Hand(c) /\ c \in Task /\ task[c] \in Local /\ task \in [Task -> Local]
      /\ transport \in [Node -> Impl] /\ transport[NodeOf(c)] \in Impl
  BY InHand DEF Hand, Inv1, TypeOK
<1> DEFINE Result == Alone(c) /\ Keeps(c) /\ Plain(c)
<1>1. ASSUME Started(c) \/ JoinTasks(c) PROVE Result
  BY <1>1, ReturnKeeps DEF Started, JoinTasks, At, Plain, Dialing, Pooling
<1>2. ASSUME Halt(c) \/ CloseEndpoint(c) PROVE Result
  BY <1>0, <1>2, GoKeeps DEF Halt, CloseEndpoint, At, Plain, Dialing, Pooling
<1>3. ASSUME DrainTasks(c) PROVE Result
  <2>1. PICK j : task' = [task EXCEPT ![c].step = "joining", ![c].joins = j]
    BY <1>3 DEF DrainTasks
  <2>2. Alone(c) /\ Keeps(c) /\ task'[c].step = "joining"
    BY <1>0, <2>1 DEF Local, Alone, Keeps
  <2> QED BY <1>3, <2>2 DEF DrainTasks, At, Plain, Dialing, Pooling
<1>4. SamePool
  <2>1. CASE Started(c)
    <3>1. PICK bg : transport' = [transport EXCEPT ![NodeOf(c)].background_tasks = bg,
                        ![NodeOf(c)].running = TRUE, ![NodeOf(c)].endpoint_lock = None]
      BY <1>0, <2>1 DEF Started, Hand
    <3> QED BY <1>0, <3>1 DEF Hand, SamePool, Impl
  <2>2. CASE Halt(c) BY <1>0, <2>2 DEF Hand, Halt, SamePool, Impl
  <2>3. CASE CloseEndpoint(c)
    <3> DEFINE i == [Close(transport[NodeOf(c)]) EXCEPT !.endpoint_lock = c]
    <3>1. transport' = [transport EXCEPT ![NodeOf(c)] = i] BY <2>3 DEF CloseEndpoint
    <3>2. i.peers = transport[NodeOf(c)].peers /\ i.endpoint = "closed"
      BY <1>0 DEF Close, Impl
    <3> HIDE DEF i
    <3> QED BY <1>0, <3>1, <3>2 DEF Hand, SamePool
  <2>4. CASE DrainTasks(c) BY <1>0, <2>4 DEF Hand, DrainTasks, SamePool, Impl
  <2>5. CASE JoinTasks(c) BY <1>0, <2>5 DEF Hand, JoinTasks, SamePool, Impl
  <2> QED BY <2>1, <2>2, <2>3, <2>4, <2>5
<1> QED BY <1>1, <1>2, <1>3, <1>4, PlainFlows
    DEF Started, Halt, CloseEndpoint, DrainTasks, JoinTasks, OnlyTransport, SameKnown, Known

LEMMA AcceptFlows ==
  ASSUME Inv1, NEW x \in AcceptTask, AcceptStep(x)
  PROVE  Flows
<1>0. /\ task \in [Task -> Local] /\ x \in Task /\ task[x] \in Local /\ x \notin Call /\ x \notin End
      /\ connection \in [Call -> {"none", "queued", "accepted", "broken"}]
      /\ \A t \in Call \cup End : t \in Task /\ t # x
  BY TaskKinds DEF Inv1, TypeOK, Task
<1>1. ASSUME CheckRunning(x) \/ EndAccept(x) PROVE Flows
  <2>1. Keeps(x) /\ Alone(x)
    BY <1>0, <1>1, GoKeeps DEF CheckRunning, EndAccept
  <2>2. \A t \in Task : TaskFlow(t)
    <3>1. \A t \in Task : t # x => Keeps(t) BY <2>1 DEF Alone, Keeps
    <3> QED BY <2>1, <3>1, KeepsFlow
  <2>3. \A e \in End : EndEdge(e) BY <1>0, <2>1 DEF Alone, EndEdge
  <2>4. \A b \in Call : DialEdge(b) BY <1>0, <2>1 DEF Alone, DialEdge, Dialing, Pooling
  <2>5. SamePool BY <1>1 DEF CheckRunning, EndAccept, OnlyTask, SamePool
  <2> QED BY <1>1, <2>2, <2>3, <2>4, <2>5, SamePoolFlow
      DEF CheckRunning, EndAccept, OnlyTask, Flows, SetFlow, Known, ConnectionEdge
<1>2. ASSUME NEW k \in Call, Accept(x, k) PROVE Flows
  <2> DEFINE f == <<x[1], k>>
             v == [Fresh("establishing") EXCEPT !.conn = k]
  <2>1. f \in End /\ f[1] = x[1] /\ f[2] = k /\ f \in Task /\ f # x /\ NodeOf(f) = x[1]
    BY <1>0, TaskKinds DEF AcceptTask, End, NodeOf, Task
  <2>2. v.step = "establishing" /\ v.conn = k /\ v.state = None /\ v.peer = None /\ v.via = None
    BY DEF Fresh
  <2>3. PICK step : task' = [task EXCEPT ![x].step = step, ![f] = v]
    BY <1>2 DEF Accept
  <2>4. /\ connection[k] = "queued" /\ Peer(k) = x[1]
        /\ connection' = [connection EXCEPT ![k] = "accepted"]
    BY <1>2 DEF Accept
  <2>5. /\ task'[f] = v /\ Keeps(x)
        /\ \A u \in Task : u # x /\ u # f => task'[u] = task[u]
    <3> HIDE DEF f, v
    <3> QED BY <1>0, <2>1, <2>3 DEF Local, Keeps
  <2>6. Accepted(f) BY <1>0, <2>1, <2>2, <2>4, <2>5 DEF Accepted
  <2>7. TaskFlow(f)
    <3>1. HasHandle(NodeOf(f), k) BY <2>1, <2>4 DEF HasHandle
    <3> HIDE DEF f, v
    <3> QED BY <2>2, <2>5, <3>1, TaskKinds DEF TaskFlow
  <2> HIDE DEF f, v
  <2>8. \A t \in Task : TaskFlow(t)
    <3>1. \A t \in Task : t # f => Keeps(t) BY <2>5 DEF Keeps
    <3> QED BY <2>7, <3>1, KeepsFlow
  <2>9. \A e \in End : EndEdge(e) BY <1>0, <2>5, <2>6 DEF EndEdge
  <2>10. \A b \in Call : DialEdge(b)
    <3>1. \A b \in Call : b \in Task /\ b # x /\ b # f BY <1>0, <2>1, TaskKinds
    <3> QED BY <2>5, <3>1 DEF DialEdge, Dialing, Pooling
  <2>11. \A b \in Call : ConnectionEdge(b)
    <3>1. ConnectionEdge(k)
      <4>1. f = <<Peer(k), k>> BY <2>4 DEF f
      <4> QED BY <1>0, <2>4, <2>6, <4>1 DEF ConnectionEdge
    <3>2. \A b \in Call : b # k => ConnectionEdge(b) BY <1>0, <2>4 DEF ConnectionEdge
    <3> QED BY <3>1, <3>2
  <2>12. SamePool BY <1>2 DEF Accept, SamePool
  <2> QED BY <1>2, <2>8, <2>9, <2>10, <2>11, <2>12, SamePoolFlow DEF Accept, Flows, SetFlow, Known
<1> QED BY <1>1, <1>2 DEF AcceptStep

LEMMA ReceiverFlows ==
  ASSUME Inv1, RefInv, NEW e \in End,
         \/ FailToEstablish(e) \/ GetPeer(e) \/ InsertPeer(e) \/ SetIncoming(e)
         \/ TakeConnection(e) \/ EndReceiver(e)
         \/ HandleMessage(e) \/ ReceiveInfo(e) \/ AnswerHandshake(e)
  PROVE  Flows
<1>0. Hand(e) /\ e \in Task /\ task[e] \in Local /\ task \in [Task -> Local]
      /\ transport \in [Node -> Impl] /\ peer_state \in [End -> PeerState] /\ e \in Call \cup End
  BY InHand DEF Hand, Inv1, TypeOK
<1> DEFINE Result == Alone(e) /\ TaskFlow(e) /\ EndEdge(e)
           Set == \A s \in End : SetFlow(s)
<1>1. ASSUME FailToEstablish(e) PROVE Result
  BY <1>0, <1>1, EndsKeeps, KeepsFlow DEF FailToEstablish, At, EndEdge
<1>2. ASSUME GetPeer(e) PROVE Result
  <2>1. /\ TaskFlow(e) /\ Alone(e) /\ task'[e].step \in Pooling /\ task'[e].conn = task[e].conn
        /\ task[e].step \in {"pooling", "establishing"}
    BY <1>0, <1>2, GetPeerFlow
  <2>2. task[e].step = "establishing"
    BY <1>0, <2>1 DEF Hand, Fits, EndSteps, Pooling, Receiving, Sending
  <2> QED BY <2>1, <2>2 DEF EndEdge, Early
<1>3. ASSUME InsertPeer(e) PROVE Result
  BY <1>0, <1>3, GoKeeps, KeepsFlow DEF InsertPeer, At, EndEdge, Early, Pooling
<1>4. ASSUME SetIncoming(e) PROVE Result
  BY <1>0, <1>4, ReceivesKeeps, KeepsFlow DEF SetIncoming, At, EndEdge
<1>5. ASSUME TakeConnection(e) PROVE Result
  <2> DEFINE s == task[e].state
  <2>0. task[e].step = "locking" /\ s \in End
    BY <1>0, <1>5 DEF TakeConnection, At, Hand, Fits
  <2>1. CASE Connected(s)
    <3>1. task' = [task EXCEPT ![e].step = "reading", ![e].conn = peer_state[s].connection]
      BY <1>5, <2>1 DEF TakeConnection
    <3>2. /\ Alone(e) /\ task'[e].step = "reading" /\ task'[e].conn = Known(s)
          /\ task'[e].state = task[e].state /\ task'[e].peer = task[e].peer
          /\ task'[e].via = task[e].via
      BY <1>0, <3>1 DEF Local, Alone, Known
    <3>3. Reachable(NodeOf(e), s) BY <1>0 DEF Reachable
    <3>4. s[1] = NodeOf(e) BY <1>0, <2>0, <3>3 DEF Hand, RefInv
    <3>5. HasHandle(NodeOf(e), Known(s)) BY <2>0, <3>3, <3>4 DEF HasHandle, Known
    <3>6. EndEdge(e) BY <2>0, <3>2 DEF EndEdge
    <3>7. \A k \in Call : k = task[e].via => HasHandle(NodeOf(e), k) BY <1>0 DEF HasHandle
    <3>8. \A x \in End : x \in {task[e].state, task[e].peer} => Reachable(NodeOf(e), x)
      BY <1>0 DEF Reachable
    <3>9. TaskFlow(e) BY <3>2, <3>5, <3>7, <3>8 DEF TaskFlow
    <3> QED BY <3>2, <3>6, <3>9
  <2>2. CASE ~Connected(s)
    <3>1. task' = [task EXCEPT ![e] = Fresh("ended")] BY <1>5, <2>2 DEF TakeConnection
    <3>2. EndEdge(e) BY <2>0, <2>2, <3>1, EndsKeeps DEF EndEdge, Connected, Known
    <3> QED BY <1>0, <3>1, <3>2, EndsKeeps, KeepsFlow
  <2> QED BY <2>1, <2>2
<1>6. ASSUME EndReceiver(e) PROVE Result
  BY <1>0, <1>6, EndsKeeps, KeepsFlow DEF EndReceiver, At, EndEdge
<1>7. ASSUME HandleMessage(e) \/ ReceiveInfo(e) PROVE Result
  <2>1. Receives(e) /\ task[e].step = "reading" BY <1>7 DEF HandleMessage, ReceiveInfo, Reads, At, Loop
  <2>2. EndEdge(e) BY <2>1, ReceivesKeeps DEF EndEdge, Receiving, Sending
  <2> QED BY <1>0, <2>1, <2>2, ReceivesKeeps, KeepsFlow
<1>8. ASSUME AnswerHandshake(e) PROVE Result
  <2>1. PICK m : task' = [task EXCEPT ![e].step = "sending", ![e].msg = m]
    BY <1>8 DEF AnswerHandshake
  <2>2. Alone(e) /\ Keeps(e) /\ task'[e].step = "sending" /\ task'[e].state = task[e].state
    BY <1>0, <2>1 DEF Local, Alone, Keeps
  <2>3. task[e].step = "reading" BY <1>8 DEF AnswerHandshake, Reads, At
  <2>4. EndEdge(e) BY <2>2, <2>3 DEF EndEdge, Receiving, Sending
  <2> QED BY <1>0, <2>2, <2>4, KeepsFlow
<1>9. PoolFlow
  <2>1. CASE transport' = transport BY <2>1, SamePoolFlow DEF SamePool
  <2>2. CASE InsertPeer(e)
    <3>1. \A n \in Node : transport'[n].endpoint = transport[n].endpoint
      BY <1>0, <2>2 DEF Hand, InsertPeer, Impl
    <3>2. ASSUME NEW n \in Node, NEW key \in Key, NEW s \in End, transport'[n].peers[key] = s
          PROVE  Reachable(n, s)
      <4>1. \/ transport'[n].peers[key] = transport[n].peers[key]
            \/ n = NodeOf(e) /\ transport'[n].peers[key] = task[e].state
        BY <1>0, <2>2 DEF Hand, InsertPeer, Impl
      <4> QED BY <1>0, <3>2, <4>1 DEF Reachable
    <3> QED BY <3>1, <3>2 DEF PoolFlow
  <2>3. CASE HandleMessage(e)
    <3>1. SamePool BY <1>0, <2>3 DEF Hand, HandleMessage, SamePool, Impl
    <3> QED BY <3>1, SamePoolFlow
  <2>4. CASE ReceiveInfo(e)
    <3>1. SamePool BY <1>0, <2>4 DEF Hand, ReceiveInfo, Announce, SamePool, Impl
    <3> QED BY <3>1, SamePoolFlow
  <2> QED BY <2>1, <2>2, <2>3, <2>4
      DEF FailToEstablish, GetPeer, SetIncoming, TakeConnection, EndReceiver, AnswerHandshake,
          OnlyTask, OnlyPeerState
<1>10. Set
  <2>1. CASE peer_state' = peer_state BY <2>1 DEF SetFlow, Known
  <2>2. CASE SetIncoming(e)
    <3>1. task[e].step = "setting" /\ task'[e].step = "locking" /\ task'[e].state = task[e].state
      BY <2>2, ReceivesKeeps DEF SetIncoming, At
    <3>2. \A s \in End : peer_state'[s].connection =
                           IF s = task[e].state THEN e[2] ELSE peer_state[s].connection
      BY <1>0, <2>2 DEF SetIncoming, PeerState
    <3> QED BY <3>1, <3>2 DEF SetFlow, Known
  <2>3. CASE SetNodeInfo(e)
    <3>1. CASE Entry(e) = None BY <2>1, <2>3, <3>1 DEF SetNodeInfo
    <3>2. CASE Entry(e) # None
      <4>1. PICK i : peer_state' = [peer_state EXCEPT ![Entry(e)].node_info = i]
        BY <2>3, <3>2 DEF SetNodeInfo
      <4>2. \A s \in End : peer_state'[s].connection = peer_state[s].connection
        BY <1>0, <4>1 DEF PeerState
      <4> QED BY <4>2 DEF SetFlow, Known
    <3> QED BY <3>1, <3>2
  <2> QED BY <2>1, <2>2, <2>3
      DEF FailToEstablish, GetPeer, InsertPeer, TakeConnection, EndReceiver, HandleMessage,
          ReceiveInfo, AnswerHandshake, OnlyTask, OnlyTransport
<1>11. situation' = situation /\ connection' = connection
  BY DEF FailToEstablish, GetPeer, InsertPeer, SetIncoming, TakeConnection, EndReceiver,
         HandleMessage, ReceiveInfo, AnswerHandshake, OnlyTask, OnlyTransport, OnlyPeerState
<1> QED BY <1>1, <1>2, <1>3, <1>4, <1>5, <1>6, <1>7, <1>8, <1>9, <1>10, <1>11, EndFlows

LEMMA StutterFlows ==
  ASSUME Inv1, UNCHANGED <<situation, transport, peer_state, task>>,
         connection' = connection \/ \E k \in Call : Break(k)
  PROVE  Flows
<1>1. \A t \in Task : TaskFlow(t)
  <2>1. \A t \in Task : Keeps(t) BY DEF Keeps
  <2> QED BY <2>1, KeepsFlow
<1>2. \A e \in End : EndEdge(e) BY DEF EndEdge
<1>3. \A c \in Call : DialEdge(c) BY DEF DialEdge, Dialing, Pooling
<1>4. \A k \in Call : ConnectionEdge(k) BY DEF Break, ConnectionEdge, Inv1, TypeOK
<1>5. \A s \in End : SetFlow(s) BY DEF SetFlow, Known
<1>6. SamePool BY DEF SamePool
<1> QED BY <1>1, <1>2, <1>3, <1>4, <1>5, <1>6, SamePoolFlow DEF Flows

\* What dialling leaves behind: a call has at most one connection, which its node
\* and the peer get to know in this order, when both have an endpoint.
Undialed == \A k \in Call : task[k].step \in Dialing => connection[k] = "none"

DialedInv ==
  \A k \in Call : task[k].step \in {"pooling"} \cup Pooling =>
    task[k].conn = k /\ connection[k] # "none"

Incoming(k) == <<Peer(k), k>>

IncomingInv ==
  \A k \in Call : script[k].kind = "connect" /\ connection[k] \in {"none", "queued"} =>
    task[Incoming(k)].step = "unborn"

OpenedInv ==
  \A k \in Call : connection[k] # "none" => \A e \in Ends(k) : transport[e[1]].endpoint # "none"

EarlyInv ==
  \A e \in End : task[e].step \in Early =>
    e = Incoming(e[2]) /\ task[e].conn = e[2] /\ connection[e[2]] # "none"

DialInv == Undialed /\ DialedInv /\ IncomingInv /\ OpenedInv /\ EarlyInv

LEMMA NextFlows == ASSUME Inv1, RefInv, DialInv, [Next]_vars PROVE Flows
<1>1. ASSUME NEW c \in Call, Begin(c) PROVE Flows
  BY <1>1, BeginFlows, ConnectPeerFlows, UpdateFlows DEF Begin
<1>2. ASSUME NEW c \in Call, CallStep(c) PROVE Flows
  <2>1. c \in Call \cup End OBVIOUS
  <2>2. ASSUME Dial(c) PROVE Flows
    <3>1. connection[c] = "none"
      BY <2>2 DEF Dial, Dials, At, DialInv, Undialed, Dialing
    <3> QED BY <2>2, <3>1, DialedFlows
  <2>3. ASSUME SendStep(c) PROVE Flows BY <2>1, <2>3, SendFlows
  <2> QED BY <1>2, <2>2, <2>3, DialFlows, GetPeerFlows, SetFlows, UpdateFlows, RemoveFlows,
             StoreFlows, StopFlows DEF CallStep
<1>3. ASSUME NEW k \in Call, Break(k) PROVE Flows
  BY <1>3, StutterFlows DEF Break
<1>4. ASSUME NEW x \in AcceptTask, AcceptStep(x) PROVE Flows BY <1>4, AcceptFlows
<1>5. ASSUME NEW e \in End, EndStep(e) PROVE Flows
  <2>1. e \in Call \cup End OBVIOUS
  <2> QED BY <1>5, <2>1, ReceiverFlows, SendFlows DEF EndStep
<1>6. CASE UNCHANGED vars BY <1>6, StutterFlows DEF vars
<1> QED BY <1>1, <1>2, <1>3, <1>4, <1>5, <1>6 DEF Next

\* What does not change, and what every step may be taken to know.
LEMMA Names ==
  ASSUME Inv1, Flows
  PROVE  /\ script' = script
         /\ \A c \in Call : /\ NodeOf(c)' = NodeOf(c) /\ Peer(c)' = Peer(c) /\ Ends(c)' = Ends(c)
                            /\ Receiver(c)' = Receiver(c) /\ Incoming(c)' = Incoming(c)
                            /\ Incoming(c) \in End /\ Incoming(c)[2] = c /\ c \in Task
                            /\ Incoming(c)[1] = Peer(c)
         /\ \A t \in Task : NodeOf(t)' = NodeOf(t)
         /\ \A e \in End : e \in Task /\ NodeOf(e) = e[1] /\ e[1] \in Node /\ e[2] \in Call
                           /\ e = <<e[1], e[2]>>
<1>1. script' = script BY DEF Flows, script
<1>2. ASSUME NEW c \in Call
      PROVE  /\ NodeOf(c)' = NodeOf(c) /\ Peer(c)' = Peer(c) /\ Ends(c)' = Ends(c)
             /\ Receiver(c)' = Receiver(c) /\ Incoming(c)' = Incoming(c)
             /\ Incoming(c) \in End /\ Incoming(c)[2] = c /\ c \in Task /\ Incoming(c)[1] = Peer(c)
  <2>1. NodeOf(c)' = NodeOf(c) BY <1>1 DEF NodeOf
  <2>2. Peer(c)' = Peer(c) /\ Peer(c) \in Node BY <1>1, ScriptType DEF Peer, Inv1, TypeOK
  <2>3. Ends(c)' = Ends(c) BY <1>1, <2>2 DEF Ends
  <2> QED BY <2>1, <2>2, <2>3 DEF Receiver, Incoming, End, Task
<1>3. \A t \in Task : NodeOf(t)' = NodeOf(t) BY <1>1 DEF NodeOf
<1>4. \A e \in End : e \in Task /\ NodeOf(e) = e[1] /\ e[1] \in Node /\ e[2] \in Call
                     /\ e = <<e[1], e[2]>>
  BY TaskKinds DEF End, NodeOf, Task
<1> QED BY <1>1, <1>2, <1>3, <1>4

\* A connection once dialled stays so, and is not dialled again.
LEMMA Remains ==
  ASSUME DialInv, Flows, NEW k \in Call, connection[k] # "none"
  PROVE  /\ connection'[k] # "none" /\ ~Dialed(k)
         /\ connection'[k] \in {"queued", "accepted"} => connection[k] \in {"queued", "accepted"}
         /\ connection'[k] = "queued" => connection[k] = "queued"
<1>1. ~Dialed(k) BY DEF Dialed, DialInv, Undialed, Dialing
<1>2. ConnectionEdge(k) BY DEF Flows
<1> QED BY <1>1, <1>2 DEF ConnectionEdge

LEMMA DialStep ==
  ASSUME Inv1, Kinds, DialInv, Flows
  PROVE  DialInv'
<1>1. Undialed'
  <2> SUFFICES ASSUME NEW k \in Call, task'[k].step \in Dialing PROVE connection'[k] = "none"
    BY DEF Undialed
  <2>1. DialEdge(k) /\ ConnectionEdge(k) BY DEF Flows
  <2>2. connection[k] = "none" BY <2>1 DEF DialEdge, DialInv, Undialed
  <2>3. ~Dialed(k) BY DEF Dialed, Dialing
  <2> QED BY <2>1, <2>2, <2>3 DEF ConnectionEdge
<1>2. DialedInv'
  <2> SUFFICES ASSUME NEW k \in Call, task'[k].step \in {"pooling"} \cup Pooling
               PROVE  task'[k].conn = k /\ connection'[k] # "none"
    BY DEF DialedInv
  <2>1. DialEdge(k) BY DEF Flows
  <2>2. CASE Dialed(k) BY <2>2 DEF Dialed
  <2>3. CASE ~Dialed(k)
    <3>1. task[k].step \in {"pooling"} \cup Pooling /\ task'[k].conn = task[k].conn
      BY <2>1, <2>3 DEF DialEdge
    <3>2. task[k].conn = k /\ connection[k] # "none" BY <3>1 DEF DialInv, DialedInv
    <3> QED BY <3>1, <3>2, Remains
  <2> QED BY <2>2, <2>3
<1>3. IncomingInv'
  <2> SUFFICES ASSUME NEW k \in Call, script[k].kind = "connect", connection'[k] \in {"none", "queued"}
               PROVE  task'[Incoming(k)].step = "unborn"
    BY Names DEF IncomingInv
  <2> DEFINE f == Incoming(k)
  <2>1. f \in End /\ f[2] = k /\ f[1] = Peer(k) BY Names
  <2>2. connection[k] \in {"none", "queued"} BY Remains
  <2>3. task[f].step = "unborn" BY <2>2 DEF DialInv, IncomingInv
  <2>4. f # Receiver(k)
    BY ScriptType DEF Inv1, TypeOK, Incoming, Receiver
  <2>5. ~Accepted(f) BY <2>1 DEF Accepted
  <2>6. EndEdge(f) BY <2>1 DEF Flows
  <2> HIDE DEF f
  <2>7. task'[f].step = "unborn"
    BY <2>1, <2>3, <2>4, <2>5, <2>6 DEF EndEdge, Early, Pooling, Receiving, Sending
  <2> QED BY <2>7 DEF f
<1>4. OpenedInv'
  <2> SUFFICES ASSUME NEW k \in Call, connection'[k] # "none", NEW e \in Ends(k)
               PROVE  transport'[e[1]].endpoint # "none"
    BY Names DEF OpenedInv
  <2>1. e[1] \in Node BY ScriptType DEF Ends, Inv1, TypeOK
  <2>2. transport[e[1]].endpoint # "none"
    <3>1. CASE connection[k] # "none" BY <3>1 DEF DialInv, OpenedInv
    <3>2. CASE connection[k] = "none"
      <4>1. ConnectionEdge(k) BY DEF Flows
      <4>2. Dialed(k) BY <3>2, <4>1 DEF ConnectionEdge
      <4> QED BY <4>2 DEF Dialed
    <3> QED BY <3>1, <3>2
  <2> QED BY <2>1, <2>2 DEF Flows, PoolFlow
<1>5. EarlyInv'
  <2> SUFFICES ASSUME NEW e \in End, task'[e].step \in Early
               PROVE  e = Incoming(e[2]) /\ task'[e].conn = e[2] /\ connection'[e[2]] # "none"
    BY Names DEF EarlyInv
  <2>1. e[2] \in Call /\ e = <<e[1], e[2]>> BY Names
  <2>2. EndEdge(e) BY DEF Flows
  <2>3. CASE Accepted(e) BY <2>1, <2>3 DEF Accepted, Incoming
  <2>4. CASE ~Accepted(e)
    <3>1. task[e].step \in Early /\ task'[e].conn = task[e].conn
      BY <2>2, <2>4 DEF EndEdge, Early, Pooling, Receiving, Sending
    <3>2. e = Incoming(e[2]) /\ task[e].conn = e[2] /\ connection[e[2]] # "none"
      BY <3>1 DEF DialInv, EarlyInv
    <3> QED BY <2>1, <3>1, <3>2, Remains
  <2> QED BY <2>3, <2>4
<1> QED BY <1>1, <1>2, <1>3, <1>4, <1>5 DEF DialInv

\* A PeerState in reach was so before, or is new.
LEMMA ReachStep ==
  ASSUME Inv1, Flows, NEW n \in Node, NEW s \in End, Reachable(n, s)', ~Reachable(n, s)
  PROVE  \E t \in Call \cup End : /\ s = NewState(t) /\ NodeOf(t) = n
                                  /\ task[t].step \in {"pooling", "establishing"}
                                  /\ task'[t].step \in Pooling
<1>1. \A key \in Key : transport'[n].peers[key] # s BY DEF Flows, PoolFlow
<1>2. PICK t \in Task : NodeOf(t) = n /\ s \in {task'[t].state, task'[t].peer}
  BY <1>1, Names DEF Reachable
<1>3. TaskFlow(t) BY DEF Flows
<1> QED BY <1>2, <1>3 DEF TaskFlow

LEMMA BornStays ==
  ASSUME Inv1, Kinds, DialInv, Flows, NEW s \in End, Born(s)
  PROVE  Born(s)'
<1> DEFINE c == s[2]
<1>1. c \in Call /\ s = <<s[1], c>> BY Names
<1>2. NodeOf(c)' = NodeOf(c) BY <1>1, Names
<1>3. CASE s[1] = NodeOf(c)
  <2>1. task[c].step \notin Dialing \cup {"pooling"} BY <1>3 DEF Born
  <2>2. DialEdge(c) BY <1>1 DEF Flows
  <2>3. task'[c].step \notin Dialing \cup {"pooling"} BY <2>1, <2>2 DEF DialEdge, Dialing
  <2> QED BY <1>2, <1>3, <2>3 DEF Born
<1>4. CASE s[1] # NodeOf(c)
  <2>1. task[s].step \notin {"unborn", "establishing"} BY <1>4 DEF Born
  <2>2. EndEdge(s) BY DEF Flows
  <2>3. ~Accepted(s)
    <3>1. SUFFICES ASSUME Accepted(s) PROVE FALSE OBVIOUS
    <3>2. connection[c] = "queued" /\ Peer(c) = s[1] BY <3>1 DEF Accepted
    <3>3. script[c].kind = "connect" BY <1>1, <3>2 DEF Kinds
    <3>4. s = Incoming(c) BY <1>1, <3>2 DEF Incoming
    <3>5. task[s].step = "unborn" BY <1>1, <3>2, <3>3, <3>4 DEF DialInv, IncomingInv
    <3> QED BY <2>1, <3>5
  <2>4. task'[s].step \notin {"unborn", "establishing"}
    BY <2>1, <2>2, <2>3 DEF EndEdge, Pooling, Receiving, Sending
  <2> QED BY <1>2, <1>4, <2>4 DEF Born
<1> QED BY <1>3, <1>4

LEMMA RefStep ==
  ASSUME Inv1, Kinds, DialInv, RefInv, Flows
  PROVE  RefInv'
<1>1. ASSUME NEW n \in Node, NEW s \in End, Reachable(n, s)' PROVE s[1] = n /\ Born(s)'
  <2>1. CASE Reachable(n, s) BY <2>1, BornStays DEF RefInv
  <2>2. CASE ~Reachable(n, s)
    <3>1. PICK t \in Call \cup End : /\ s = NewState(t) /\ NodeOf(t) = n
                                     /\ task[t].step \in {"pooling", "establishing"}
                                     /\ task'[t].step \in Pooling
      BY <1>1, <2>2, ReachStep
    <3>0. Hand(t) BY InHand
    <3>2. s[1] = n BY <3>0, <3>1, TaskType DEF Hand, Inv1, TypeOK
    <3>3. CASE t \in Call
      <4>1. s = <<NodeOf(t), t>> BY <3>1, <3>3 DEF NewState
      <4>2. NodeOf(t)' = NodeOf(t) BY <3>3, Names
      <4> QED BY <3>1, <3>2, <3>3, <4>1, <4>2 DEF Born, Dialing, Pooling
    <3>4. CASE t \in End
      <4>1. s = t BY <3>0, <3>1, <3>4 DEF Hand, NewState
      <4>2. task[t].step = "establishing"
        BY <3>0, <3>1, <3>4 DEF Hand, Fits, EndSteps, Pooling, Receiving, Sending
      <4>3. t = Incoming(t[2]) /\ connection[t[2]] # "none" /\ t[2] \in Call
        BY <3>4, <4>2, Names DEF DialInv, EarlyInv, Early
      <4>4. script[t[2]].kind = "connect" BY <4>3 DEF Kinds
      <4>5. t[1] # NodeOf(t[2]) /\ NodeOf(t[2])' = NodeOf(t[2])
        BY <4>3, <4>4, ScriptType, Names DEF Inv1, TypeOK
      <4> QED BY <3>1, <3>2, <4>1, <4>5 DEF Born, Pooling
    <3> QED BY <3>3, <3>4
  <2> QED BY <2>1, <2>2
<1>2. ASSUME NEW s \in End, Known(s)' # None PROVE Born(s)'
  <2>1. SetFlow(s) BY DEF Flows
  <2>2. Born(s)
    <3>1. CASE Known(s) # None BY <3>1 DEF RefInv
    <3>2. ASSUME NEW t \in Call \cup End, task[t].state = s PROVE Born(s)
      <4>1. Hand(t) BY InHand
      <4>2. Reachable(NodeOf(t), s) BY <3>2, <4>1 DEF Hand, Reachable
      <4> QED BY <4>1, <4>2 DEF Hand, RefInv
    <3> QED BY <1>2, <2>1, <3>1, <3>2 DEF SetFlow, Known
  <2> QED BY <2>2, BornStays
<1> QED BY <1>1, <1>2 DEF RefInv

\* A connection that is gone stays gone: nobody gets a handle of it who had none.
LEMMA HandleStays ==
  ASSUME Inv1, Kinds, DialInv, RefInv, Flows, NEW k \in Call, connection[k] # "none",
         NEW n \in Node, HasHandle(n, k)'
  PROVE  HasHandle(n, k)
<1>1. CASE connection'[k] = "queued" /\ n = Peer(k)'
  <2>1. connection[k] = "queued" /\ Peer(k)' = Peer(k) BY <1>1, Remains, Names
  <2> QED BY <1>1, <2>1 DEF HasHandle
<1>2. ASSUME NEW t \in Task, NodeOf(t)' = n, k \in {task'[t].conn, task'[t].via}
      PROVE  HasHandle(n, k)
  <2>1. TaskFlow(t) /\ NodeOf(t) = n BY <1>2, Names DEF Flows
  <2> QED BY <1>2, <2>1 DEF TaskFlow
<1>3. ASSUME NEW s \in End, Known(s)' = k, s[1] = n, Reachable(n, s)'
      PROVE  HasHandle(n, k)
  <2>1. CASE Known(s) = k
    <3>1. Known(s) # None BY <2>1, TaskKinds
    <3>2. Born(s) BY <3>1 DEF RefInv
    <3>3. Reachable(n, s)
      <4>1. SUFFICES ASSUME ~Reachable(n, s) PROVE FALSE OBVIOUS
      <4>2. PICK t \in Call \cup End : /\ s = NewState(t) /\ NodeOf(t) = n
                                       /\ task[t].step \in {"pooling", "establishing"}
                                       /\ task'[t].step \in Pooling
        BY <1>3, <4>1, ReachStep
      <4>0. Hand(t) BY InHand
      <4>3. CASE t \in Call
        <5>1. s = <<NodeOf(t), t>> BY <4>2, <4>3 DEF NewState
        <5>2. task[t].step = "pooling"
          BY <4>0, <4>2, <4>3 DEF Hand, Fits, CallSteps, Pooling, Sending
        <5> QED BY <3>2, <5>1, <5>2 DEF Born
      <4>4. CASE t \in End
        <5>1. s = t BY <4>0, <4>2, <4>4 DEF Hand, NewState
        <5>2. task[t].step = "establishing"
          BY <4>0, <4>2, <4>4 DEF Hand, Fits, EndSteps, Pooling, Receiving, Sending
        <5>3. t = Incoming(t[2]) /\ connection[t[2]] # "none" /\ t[2] \in Call
          BY <4>4, <5>2, Names DEF DialInv, EarlyInv, Early
        <5>4. script[t[2]].kind = "connect" BY <5>3 DEF Kinds
        <5>5. t[1] # NodeOf(t[2]) BY <5>3, <5>4, ScriptType DEF Inv1, TypeOK, Incoming
        <5> QED BY <3>2, <5>1, <5>2, <5>5 DEF Born
      <4> QED BY <4>3, <4>4
    <3> QED BY <1>3, <2>1, <3>3 DEF HasHandle, Known
  <2>2. ASSUME NEW t \in Call \cup End, task[t].step = "setting", task[t].state = s,
               task[t].conn = k
        PROVE  HasHandle(n, k)
    <3>1. Hand(t) BY InHand
    <3>2. Reachable(NodeOf(t), s) BY <2>2, <3>1 DEF Hand, Reachable
    <3>3. NodeOf(t) = n BY <1>3, <3>1, <3>2 DEF Hand, RefInv
    <3> QED BY <2>2, <3>1, <3>3 DEF Hand, HasHandle
  <2>3. ASSUME NEW c \in Call, task[c].step = "setting", task[c].state = s, c = k
        PROVE  HasHandle(n, k)
    <3>1. task[c].conn = k BY <2>3 DEF DialInv, DialedInv, Pooling
    <3> QED BY <2>2, <2>3, <3>1
  <2>4. ASSUME NEW e \in End, task[e].step = "setting", task[e].state = s, e[2] = k
        PROVE  HasHandle(n, k)
    <3>1. task[e].conn = k BY <2>4 DEF DialInv, EarlyInv, Early, Pooling
    <3> QED BY <2>2, <2>4, <3>1
  <2>5. SetFlow(s) BY DEF Flows
  <2>6. k # None BY TaskKinds
  <2> QED BY <1>3, <2>1, <2>3, <2>4, <2>5, <2>6 DEF SetFlow, Known
<1> QED BY <1>1, <1>2, <1>3 DEF HasHandle, Known

LEMMA DeadStays ==
  ASSUME Inv1, Kinds, DialInv, RefInv, Flows, NEW k \in Call, connection[k] # "none", Live(k)'
  PROVE  Live(k)
<1>1. connection'[k] \in {"queued", "accepted"} BY DEF Live
<1>2. connection[k] \in {"queued", "accepted"} BY <1>1, Remains
<1>3. ASSUME NEW e \in Ends(k) PROVE transport[e[1]].endpoint = "open" /\ HasHandle(e[1], k)
  <2>1. e[1] \in Node BY ScriptType DEF Ends, Inv1, TypeOK
  <2>2. e \in Ends(k)' BY Names
  <2>3. transport'[e[1]].endpoint = "open" /\ HasHandle(e[1], k)' BY <2>2 DEF Live
  <2>4. transport[e[1]].endpoint # "none" BY DEF DialInv, OpenedInv
  <2>5. transport'[e[1]].endpoint \in {transport[e[1]].endpoint, "closed"}
    BY <2>1, <2>4 DEF Flows, PoolFlow
  <2> QED BY <2>1, <2>3, <2>5, HandleStays
<1> QED BY <1>2, <1>3 DEF Live

\* What a PeerState has, the receiver that came with it reads through it; unless the
\* call is stuck that should have spawned it, or it has ended with the connection.
Sits(s, k) ==
  LET r == <<s[1], k>>
  IN  \/ task[k].step = "stuck" /\ s[1] = NodeOf(k)
      \/ task[r].step = "ended" /\ ~Live(k)
      \/ /\ task[r].step \in Receiving /\ task[r].state = s
         /\ task[r].step = "reading" => task[r].conn = k

StoredInv ==
  \A s \in End, k \in Call : Known(s) = k => connection[k] # "none" /\ Sits(s, k)

LEMMA StoredStep ==
  ASSUME Inv1, Kinds, SpawnInv, DialInv, RefInv, StoredInv, Flows
  PROVE  StoredInv'
<1> SUFFICES ASSUME NEW s \in End, NEW k \in Call, peer_state'[s].connection = k
             PROVE  connection'[k] # "none" /\ Sits(s, k)'
  BY DEF StoredInv, Known
<1> DEFINE r == <<s[1], k>>
<1>0. r \in End /\ r[1] = s[1] /\ r[2] = k /\ k # None /\ k \in Task /\ NodeOf(k)' = NodeOf(k)
      /\ s[1] \in Node
  BY Names, TaskKinds DEF End
<1>1. CASE Known(s) = k
  <2>1. connection[k] # "none" /\ Sits(s, k) BY <1>1 DEF StoredInv
  <2>2. connection'[k] # "none" BY <2>1, Remains
  <2>3. EndEdge(r) BY <1>0 DEF Flows
  <2>4. task[r].step # "unborn" => ~Accepted(r)
    <3>1. SUFFICES ASSUME Accepted(r) PROVE task[r].step = "unborn" OBVIOUS
    <3>2. connection[k] = "queued" /\ Peer(k) = s[1] BY <1>0, <3>1 DEF Accepted
    <3>3. script[k].kind = "connect" BY <2>1 DEF Kinds
    <3> QED BY <3>2, <3>3 DEF DialInv, IncomingInv, Incoming
  <2>5. task[r].step # "unborn" => ~(task[r[2]].step = "setting" /\ r = Receiver(r[2]))
    BY <1>0 DEF SpawnInv, Other, Sending
  <2>6. ~Live(k) => ~Live(k)' BY <2>1, DeadStays
  <2>7. CASE task[k].step = "stuck" /\ s[1] = NodeOf(k)
    <3>1. task'[k].step = "stuck" BY <2>7 DEF Flows, DialEdge
    <3> QED BY <1>0, <2>2, <2>7, <3>1 DEF Sits
  <2>8. CASE task[r].step = "ended" /\ ~Live(k)
    <3>1. task'[r].step = "ended"
      <4> HIDE DEF r
      <4> QED BY <2>3, <2>4, <2>5, <2>8 DEF EndEdge, Early, Pooling, Receiving, Sending
    <3> QED BY <2>2, <2>6, <2>8, <3>1 DEF Sits
  <2>9. CASE /\ task[r].step \in Receiving /\ task[r].state = s
             /\ task[r].step = "reading" => task[r].conn = k
    <3>1. task[r].step # "unborn" /\ task[r].step \notin Early \cup {"ended"}
      BY <2>9 DEF Receiving, Sending, Early, Pooling
    <3>2. \/ task'[r].step = "ended" /\ ~Live(k)
          \/ /\ task'[r].step \in Receiving /\ task'[r].state = s
             /\ task'[r].step = "reading" => task'[r].conn = k
      <4> HIDE DEF r
      <4> QED BY <1>0, <1>1, <2>3, <2>4, <2>5, <2>9, <3>1 DEF EndEdge, Early, Pooling, Receiving
    <3> QED BY <2>2, <2>6, <3>2 DEF Sits
  <2> QED BY <2>1, <2>7, <2>8, <2>9 DEF Sits
<1>2. ASSUME NEW t \in Call \cup End, task[t].state = s PROVE s[1] = NodeOf(t)
  <2>1. Hand(t) BY InHand
  <2>2. Reachable(NodeOf(t), s) BY <1>2, <2>1 DEF Hand, Reachable
  <2> QED BY <2>1, <2>2 DEF Hand, RefInv
<1>3. ASSUME task[k].step = "setting", task[k].state = s,
             \/ task'[k].step = "stuck"
             \/ task'[Receiver(k)].step = "locking" /\ task'[Receiver(k)].state = s
      PROVE  connection'[k] # "none" /\ Sits(s, k)'
  <2>1. s[1] = NodeOf(k) BY <1>2, <1>3
  <2>2. connection[k] # "none" BY <1>3 DEF DialInv, DialedInv, Pooling
  <2>3. connection'[k] # "none" BY <2>2, Remains
  <2>4. r = Receiver(k) BY <2>1 DEF Receiver
  <2> QED BY <1>0, <1>3, <2>1, <2>3, <2>4 DEF Sits, Receiving
<1>4. ASSUME NEW e \in End, task[e].step = "setting", task[e].state = s, e[2] = k,
             task'[e].step = "locking", task'[e].state = s
      PROVE  connection'[k] # "none" /\ Sits(s, k)'
  <2>1. s[1] = e[1] /\ e = <<e[1], e[2]>> BY <1>2, <1>4, Names
  <2>2. connection[k] # "none" BY <1>4 DEF DialInv, EarlyInv, Early, Pooling
  <2>3. connection'[k] # "none" BY <2>2, Remains
  <2>4. e = r BY <1>4, <2>1
  <2> QED BY <1>4, <2>3, <2>4 DEF Sits, Receiving
<1>5. SetFlow(s) BY DEF Flows
<1> QED BY <1>0, <1>1, <1>3, <1>4, <1>5 DEF SetFlow, Known

ReadInv == RefInv /\ DialInv /\ StoredInv

LEMMA ReadInit == Init => ReadInv
<1> SUFFICES ASSUME Init PROVE ReadInv OBVIOUS
<1>0. Inv1 BY InitType
<1>1. \A t \in Task : task[t].state = None /\ task[t].peer = None BY DEF Init, Fresh
<1>2. \A n \in Node, key \in Key : transport[n].peers[key] = None
  BY DEF Init, NewTransport
<1>3. \A s \in End : Known(s) = None BY DEF Init, NewPeerState, Known
<1>4. \A c \in Call : c \in Task /\ task[c].step = "idle" /\ connection[c] = "none"
  BY DEF Init, Fresh, Task
<1>5. \A e \in End : e \in Task /\ task[e].step = "unborn"
  BY TaskKinds DEF Init, Fresh, Task
<1>6. \A k \in Call : Incoming(k) \in End BY <1>0, ScriptType DEF Inv1, TypeOK, Incoming, End
<1>7. RefInv BY <1>1, <1>2, <1>3, TaskKinds DEF RefInv, Reachable
<1>8. DialInv
  BY <1>4, <1>5, <1>6
  DEF DialInv, Undialed, DialedInv, IncomingInv, OpenedInv, EarlyInv, Early, Pooling
<1>9. StoredInv BY <1>3, TaskKinds DEF StoredInv
<1> QED BY <1>7, <1>8, <1>9 DEF ReadInv

LEMMA ReadStep ==
  ASSUME Inv1, JoinInv, ReadInv, [Next]_vars
  PROVE  Inv1' /\ JoinInv' /\ ReadInv'
<1>1. Inv1' /\ JoinInv' BY JoinStep
<1>2. Flows BY NextFlows DEF ReadInv
<1>3. Kinds /\ SpawnInv BY DEF JoinInv
<1> QED BY <1>1, <1>2, <1>3, DialStep, RefStep, StoredStep DEF ReadInv

\* spawn_message_receiver and set_connection (quic_transport.rs, connection_pool.rs):
\* however dials, accepts and disconnects overwrite the entries of the pools and the
\* connections of the PeerStates, a connection that a node would send on is read at
\* its end as long as it lives, once its receiver is spawned.
THEOREM SomebodyReads == Spec => []StoredIsRead
<1>1. Inv1 /\ JoinInv /\ ReadInv => StoredIsRead
  <2> SUFFICES ASSUME Inv1, JoinInv, ReadInv, NEW n \in Node, NEW key \in Key,
                      transport[n].peers[key] # None,
                      peer_state[transport[n].peers[key]].connection # None,
                      Spawned(n, peer_state[transport[n].peers[key]].connection),
                      Live(peer_state[transport[n].peers[key]].connection)
               PROVE  \E e \in End :
                        /\ e[1] = n /\ task[e].state = transport[n].peers[key]
                        /\ \/ task[e].conn = peer_state[transport[n].peers[key]].connection
                           \/ task[e].step # "reading"
    BY DEF StoredIsRead
  <2> DEFINE s == transport[n].peers[key]
             k == peer_state[s].connection
             r == <<n, k>>
  <2>1. s \in End
    <3>1. transport[n] \in Impl BY DEF Inv1, TypeOK
    <3> QED BY <3>1 DEF Impl
  <2>2. k \in Call
    <3>1. peer_state[s] \in PeerState BY <2>1 DEF Inv1, TypeOK
    <3> QED BY <3>1 DEF PeerState
  <2>3. s[1] = n
    <3>1. Reachable(n, s) BY PoolReach
    <3> QED BY <2>1, <3>1 DEF ReadInv, RefInv
  <2>4. Sits(s, k) BY <2>1, <2>2 DEF ReadInv, StoredInv, Known
  <2>5. r \in End /\ r[1] = n BY <2>2 DEF End
  <2>6. ~(task[k].step = "stuck" /\ n = NodeOf(k))
    <3>1. SUFFICES ASSUME task[k].step = "stuck", n = NodeOf(k) PROVE FALSE OBVIOUS
    <3>2. r = Receiver(k) BY <3>1 DEF Receiver
    <3>3. task[r].step # "unborn" BY DEF Spawned
    <3> QED BY <2>2, <3>1, <3>2, <3>3 DEF JoinInv, SpawnInv, Other, Sending
  <2>7. task[r].state = s /\ (task[r].step = "reading" => task[r].conn = k)
    BY <2>3, <2>4, <2>6 DEF Sits
  <2> QED BY <2>5, <2>7
<1> QED BY <1>1, InitType, JoinInit, ReadInit, JoinStep, ReadStep, PTL DEF Spec

=============================================================================

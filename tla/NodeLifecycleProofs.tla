------------------------ MODULE NodeLifecycleProofs ------------------------
(***************************************************************************)
(* Theorems about NodeLifecycle, for every set of services, with or        *)
(* without networking, and over any sequence of calls and failures; and    *)
(* about Discovery, which a start with networking begins, for any nodes,   *)
(* whatever is lost, crashes or stops.                                     *)
(***************************************************************************)
EXTENDS NodeLifecycle, Discovery, TLAPS

-----------------------------------------------------------------------------
(***************************************************************************)
(* The inductive invariant behind StartsAndStopsOnce.                      *)
(***************************************************************************)

\* The phases of a call.
StartPhase == {"starting", "transport", "discovery", "started"}
StopPhase == {"stopping", "shutdown"}
AtRest == {"idle", "adding"}

\* running is set by the last step of start and cleared by the first of stop, and
\* the call last made is the one in progress.
RunningMeansStarted ==
  /\ op.pc \notin AtRest => ~running
  /\ op.pc \in StartPhase => lastCall = "start"
  /\ op.pc \in StopPhase => lastCall = "stop"
  /\ op.pc \in AtRest /\ lastCall = "stop" => ~running

\* A report is due only in the phases that visit services, and of one at a time.
OneDue ==
  /\ op.pc \notin {"adding", "starting", "stopping"} => NothingDue
  /\ op.pc = "adding" /\ op.todo = {} => ~NothingDue
  /\ \A s, t \in Service : due[s] = "none" \/ due[t] = "none" \/ s = t

\* What is said of a service, or is about to be, is true.
LastWordTrue ==
  \A s \in Service : IsTrue(s, IF due[s] = "none" THEN state[s] ELSE due[s])

\* Which services a call still has to visit, and what they were left in: nothing
\* runs that is not registered, start finds nothing running, and stop leaves
\* nothing running among those it has visited.
VisitedInOrder ==
  /\ op.pc = "adding" => op.todo \cap registered = {}
  /\ op.pc \in {"starting", "stopping"} => op.todo \subseteq registered
  /\ op.pc \notin {"adding", "starting", "stopping"} => op.todo = {}
  /\ \A s \in Service :
       /\ active[s] <= 1
       /\ s \notin registered => active[s] = 0
       /\ op.pc = "starting" /\ s \in op.todo => active[s] = 0
       /\ op.pc = "stopping" /\ s \notin op.todo => active[s] = 0
       /\ op.pc = "shutdown" => active[s] = 0
       /\ op.pc \in AtRest /\ ~running => active[s] = 0

\* Neither the network nor a service's stop fails.
NoHalfStart == failing \subseteq {"services"}

IInv ==
  /\ TypeOK
  /\ RunningMeansStarted
  /\ OneDue
  /\ LastWordTrue
  /\ NoHalfStart => VisitedInOrder

-----------------------------------------------------------------------------
LEMMA InitIInv == Init => IInv
<1> SUFFICES ASSUME Init PROVE IInv
  OBVIOUS
<1> USE DEF Init, Idle, States
<1>1. TypeOK
  <2>1. 0 \in 0..MaxStarts
    BY ConstantsAssumption
  <2>2. active \in [Service -> 0..MaxStarts]
    BY <2>1
  <2> QED BY <2>2 DEF TypeOK
<1>2. RunningMeansStarted /\ OneDue /\ LastWordTrue
  BY DEF RunningMeansStarted, OneDue, NothingDue, LastWordTrue, IsTrue, StartPhase, StopPhase, AtRest
<1>3. VisitedInOrder
  BY DEF VisitedInOrder, AtRest
<1> QED BY <1>1, <1>2, <1>3 DEF IInv

\* Each step of start, stop or add_service preserves the invariant.
LEMMA NextKeepsIInv == ASSUME IInv, Next PROVE IInv'
<1> USE ConstantsAssumption
        DEF IInv, TypeOK, network, services, Idle, StartPhase, StopPhase, AtRest, NoHalfStart
<1>1. ASSUME NEW s \in Service, AddService(s) PROVE IInv'
  <2>1. TypeOK'
    BY <1>1 DEF AddService, States
  <2>2. RunningMeansStarted'
    BY <1>1 DEF AddService, RunningMeansStarted
  <2>3. OneDue'
    BY <1>1 DEF AddService, OneDue, NothingDue
  <2>4. LastWordTrue'
    BY <1>1 DEF AddService, LastWordTrue, IsTrue, OneDue, NothingDue
  <2>5. (NoHalfStart => VisitedInOrder)'
    BY <1>1 DEF AddService, VisitedInOrder, RunningMeansStarted
  <2> QED BY <2>1, <2>2, <2>3, <2>4, <2>5
<1>2. ASSUME NEW s \in Service, FailToInit(s) PROVE IInv'
  <2>1. TypeOK'
    BY <1>2 DEF FailToInit, States
  <2>2. RunningMeansStarted'
    BY <1>2 DEF FailToInit, RunningMeansStarted
  <2>3. OneDue'
    BY <1>2 DEF FailToInit, OneDue, NothingDue
  <2>4. LastWordTrue'
    BY <1>2 DEF FailToInit, LastWordTrue, IsTrue, OneDue, NothingDue
  <2>5. (NoHalfStart => VisitedInOrder)'
    BY <1>2 DEF FailToInit, VisitedInOrder, RunningMeansStarted
  <2> QED BY <2>1, <2>2, <2>3, <2>4, <2>5
<1>3. ASSUME NEW s \in Service, RegisterService(s) PROVE IInv'
  <2>1. TypeOK'
    BY <1>3 DEF RegisterService, States
  <2>2. RunningMeansStarted'
    BY <1>3 DEF RegisterService, RunningMeansStarted
  <2>3. OneDue'
    BY <1>3 DEF RegisterService, OneDue, NothingDue
  <2>4. LastWordTrue'
    BY <1>3 DEF RegisterService, LastWordTrue, IsTrue, OneDue, NothingDue
  <2>5. (NoHalfStart => VisitedInOrder)'
    BY <1>3 DEF RegisterService, VisitedInOrder, RunningMeansStarted
  <2> QED BY <2>1, <2>2, <2>3, <2>4, <2>5
<1>4. ASSUME NEW s \in Service, ReportState(s) PROVE IInv'
  <2>1. TypeOK'
    BY <1>4 DEF ReportState, States
  <2>2. RunningMeansStarted'
    BY <1>4 DEF ReportState, RunningMeansStarted
  <2>3. OneDue'
    BY <1>4 DEF ReportState, OneDue, NothingDue
  <2>4. LastWordTrue'
    BY <1>4 DEF ReportState, LastWordTrue, IsTrue, OneDue, NothingDue
  <2>5. (NoHalfStart => VisitedInOrder)'
    BY <1>4 DEF ReportState, VisitedInOrder, RunningMeansStarted
  <2> QED BY <2>1, <2>2, <2>3, <2>4, <2>5
<1>5. ASSUME NEW s \in Service, StartService(s) PROVE IInv'
  <2>1. TypeOK'
    BY <1>5 DEF StartService, States
  <2>2. RunningMeansStarted'
    BY <1>5 DEF StartService, RunningMeansStarted
  <2>3. OneDue'
    BY <1>5 DEF StartService, OneDue, NothingDue
  <2>4. LastWordTrue'
    BY <1>5 DEF StartService, LastWordTrue, IsTrue, OneDue, NothingDue
  <2>5. (NoHalfStart => VisitedInOrder)'
    BY <1>5 DEF StartService, VisitedInOrder, RunningMeansStarted
  <2> QED BY <2>1, <2>2, <2>3, <2>4, <2>5
<1>6. ASSUME NEW s \in Service, FailToStart(s) PROVE IInv'
  <2>1. TypeOK'
    BY <1>6 DEF FailToStart, States
  <2>2. RunningMeansStarted'
    BY <1>6 DEF FailToStart, RunningMeansStarted
  <2>3. OneDue'
    BY <1>6 DEF FailToStart, OneDue, NothingDue
  <2>4. LastWordTrue'
    BY <1>6 DEF FailToStart, LastWordTrue, IsTrue, OneDue, NothingDue
  <2>5. (NoHalfStart => VisitedInOrder)'
    BY <1>6 DEF FailToStart, VisitedInOrder, RunningMeansStarted
  <2> QED BY <2>1, <2>2, <2>3, <2>4, <2>5
<1>7. ASSUME NEW s \in Service, StopService(s) PROVE IInv'
  <2>1. TypeOK'
    BY <1>7 DEF StopService, States
  <2>2. RunningMeansStarted'
    BY <1>7 DEF StopService, RunningMeansStarted
  <2>3. OneDue'
    BY <1>7 DEF StopService, OneDue, NothingDue
  <2>4. LastWordTrue'
    BY <1>7 DEF StopService, LastWordTrue, IsTrue, OneDue, NothingDue
  <2>5. (NoHalfStart => VisitedInOrder)'
    BY <1>7 DEF StopService, VisitedInOrder, RunningMeansStarted
  <2> QED BY <2>1, <2>2, <2>3, <2>4, <2>5
<1>8. ASSUME NEW s \in Service, FailToStop(s) PROVE IInv'
  <2>1. TypeOK'
    BY <1>8 DEF FailToStop, States
  <2>2. RunningMeansStarted'
    BY <1>8 DEF FailToStop, RunningMeansStarted
  <2>3. OneDue'
    BY <1>8 DEF FailToStop, OneDue, NothingDue
  <2>4. LastWordTrue'
    BY <1>8 DEF FailToStop, LastWordTrue, IsTrue, OneDue, NothingDue
  <2>5. (NoHalfStart => VisitedInOrder)'
    BY <1>8 DEF FailToStop, VisitedInOrder, RunningMeansStarted
  <2> QED BY <2>1, <2>2, <2>3, <2>4, <2>5
<1>9. CASE Start
  <2>1. TypeOK'
    BY <1>9 DEF Start, States
  <2>2. RunningMeansStarted'
    BY <1>9 DEF Start, RunningMeansStarted
  <2>3. OneDue'
    BY <1>9 DEF Start, OneDue, NothingDue
  <2>4. LastWordTrue'
    BY <1>9 DEF Start, LastWordTrue, IsTrue, OneDue, NothingDue
  <2>5. (NoHalfStart => VisitedInOrder)'
    BY <1>9 DEF Start, VisitedInOrder, RunningMeansStarted
  <2> QED BY <2>1, <2>2, <2>3, <2>4, <2>5
<1>10. CASE ServicesStarted
  <2>1. TypeOK'
    BY <1>10 DEF ServicesStarted, States
  <2>2. RunningMeansStarted'
    BY <1>10 DEF ServicesStarted, RunningMeansStarted
  <2>3. OneDue'
    BY <1>10 DEF ServicesStarted, OneDue, NothingDue
  <2>4. LastWordTrue'
    BY <1>10 DEF ServicesStarted, LastWordTrue, IsTrue, OneDue, NothingDue
  <2>5. (NoHalfStart => VisitedInOrder)'
    BY <1>10 DEF ServicesStarted, VisitedInOrder, RunningMeansStarted
  <2> QED BY <2>1, <2>2, <2>3, <2>4, <2>5
<1>11. CASE StartTransport
  <2>1. TypeOK'
    BY <1>11 DEF StartTransport, States
  <2>2. RunningMeansStarted'
    BY <1>11 DEF StartTransport, RunningMeansStarted
  <2>3. OneDue'
    BY <1>11 DEF StartTransport, OneDue, NothingDue
  <2>4. LastWordTrue'
    BY <1>11 DEF StartTransport, LastWordTrue, IsTrue, OneDue, NothingDue
  <2>5. (NoHalfStart => VisitedInOrder)'
    BY <1>11 DEF StartTransport, VisitedInOrder, RunningMeansStarted
  <2> QED BY <2>1, <2>2, <2>3, <2>4, <2>5
<1>12. CASE FailToStartTransport
  <2>1. TypeOK'
    BY <1>12 DEF FailToStartTransport, States
  <2>2. RunningMeansStarted'
    BY <1>12 DEF FailToStartTransport, RunningMeansStarted
  <2>3. OneDue'
    BY <1>12 DEF FailToStartTransport, OneDue, NothingDue
  <2>4. LastWordTrue'
    BY <1>12 DEF FailToStartTransport, LastWordTrue, IsTrue, OneDue, NothingDue
  <2>5. (NoHalfStart => VisitedInOrder)'
    BY <1>12 DEF FailToStartTransport, VisitedInOrder, RunningMeansStarted
  <2> QED BY <2>1, <2>2, <2>3, <2>4, <2>5
<1>13. CASE StartDiscovery
  <2>1. TypeOK'
    BY <1>13 DEF StartDiscovery, States
  <2>2. RunningMeansStarted'
    BY <1>13 DEF StartDiscovery, RunningMeansStarted
  <2>3. OneDue'
    BY <1>13 DEF StartDiscovery, OneDue, NothingDue
  <2>4. LastWordTrue'
    BY <1>13 DEF StartDiscovery, LastWordTrue, IsTrue, OneDue, NothingDue
  <2>5. (NoHalfStart => VisitedInOrder)'
    BY <1>13 DEF StartDiscovery, VisitedInOrder, RunningMeansStarted
  <2> QED BY <2>1, <2>2, <2>3, <2>4, <2>5
<1>14. CASE FailToStartDiscovery
  <2>1. TypeOK'
    BY <1>14 DEF FailToStartDiscovery, States
  <2>2. RunningMeansStarted'
    BY <1>14 DEF FailToStartDiscovery, RunningMeansStarted
  <2>3. OneDue'
    BY <1>14 DEF FailToStartDiscovery, OneDue, NothingDue
  <2>4. LastWordTrue'
    BY <1>14 DEF FailToStartDiscovery, LastWordTrue, IsTrue, OneDue, NothingDue
  <2>5. (NoHalfStart => VisitedInOrder)'
    BY <1>14 DEF FailToStartDiscovery, VisitedInOrder, RunningMeansStarted
  <2> QED BY <2>1, <2>2, <2>3, <2>4, <2>5
<1>15. CASE FinishStart
  <2>1. TypeOK'
    BY <1>15 DEF FinishStart, States
  <2>2. RunningMeansStarted'
    BY <1>15 DEF FinishStart, RunningMeansStarted
  <2>3. OneDue'
    BY <1>15 DEF FinishStart, OneDue, NothingDue
  <2>4. LastWordTrue'
    BY <1>15 DEF FinishStart, LastWordTrue, IsTrue, OneDue, NothingDue
  <2>5. (NoHalfStart => VisitedInOrder)'
    BY <1>15 DEF FinishStart, VisitedInOrder, RunningMeansStarted
  <2> QED BY <2>1, <2>2, <2>3, <2>4, <2>5
<1>16. CASE Stop
  <2>1. TypeOK'
    BY <1>16 DEF Stop, States
  <2>2. RunningMeansStarted'
    BY <1>16 DEF Stop, RunningMeansStarted
  <2>3. OneDue'
    BY <1>16 DEF Stop, OneDue, NothingDue
  <2>4. LastWordTrue'
    BY <1>16 DEF Stop, LastWordTrue, IsTrue, OneDue, NothingDue
  <2>5. (NoHalfStart => VisitedInOrder)'
    BY <1>16 DEF Stop, VisitedInOrder, RunningMeansStarted
  <2> QED BY <2>1, <2>2, <2>3, <2>4, <2>5
<1>17. CASE ServicesStopped
  <2>1. TypeOK'
    BY <1>17 DEF ServicesStopped, States
  <2>2. RunningMeansStarted'
    BY <1>17 DEF ServicesStopped, RunningMeansStarted
  <2>3. OneDue'
    BY <1>17 DEF ServicesStopped, OneDue, NothingDue
  <2>4. LastWordTrue'
    BY <1>17 DEF ServicesStopped, LastWordTrue, IsTrue, OneDue, NothingDue
  <2>5. (NoHalfStart => VisitedInOrder)'
    BY <1>17 DEF ServicesStopped, VisitedInOrder, RunningMeansStarted
  <2> QED BY <2>1, <2>2, <2>3, <2>4, <2>5
<1>18. CASE ShutdownNetwork
  <2>1. TypeOK'
    BY <1>18 DEF ShutdownNetwork, States
  <2>2. RunningMeansStarted'
    BY <1>18 DEF ShutdownNetwork, RunningMeansStarted
  <2>3. OneDue'
    BY <1>18 DEF ShutdownNetwork, OneDue, NothingDue
  <2>4. LastWordTrue'
    BY <1>18 DEF ShutdownNetwork, LastWordTrue, IsTrue, OneDue, NothingDue
  <2>5. (NoHalfStart => VisitedInOrder)'
    BY <1>18 DEF ShutdownNetwork, VisitedInOrder, RunningMeansStarted
  <2> QED BY <2>1, <2>2, <2>3, <2>4, <2>5
<1> QED
  BY <1>1, <1>2, <1>3, <1>4, <1>5, <1>6, <1>7, <1>8, <1>9,
     <1>10, <1>11, <1>12, <1>13, <1>14, <1>15, <1>16, <1>17, <1>18 DEF Next, OpStep

LEMMA StutterKeepsIInv == IInv /\ UNCHANGED vars => IInv'
BY DEF IInv, vars, network, services, TypeOK, RunningMeansStarted, OneDue, NothingDue,
   LastWordTrue, IsTrue, NoHalfStart, VisitedInOrder

\* The invariant holds throughout.
THEOREM Invariance == Spec => []IInv
<1>1. IInv /\ [Next]_vars => IInv'
  BY NextKeepsIInv, StutterKeepsIInv
<1> QED BY InitIInv, <1>1, PTL DEF Spec

\* Every variable keeps its type.
THEOREM TypeCorrect == Spec => []TypeOK
<1>1. IInv => TypeOK
  BY DEF IInv
<1> QED BY Invariance, <1>1, PTL

\* The state written last of a service is true, but for the one service whose own
\* start or stop has returned and whose state is about to be written; when no call
\* is in progress all are (node.rs 342-672), whichever steps have failed.
THEOREM ReportsTrue == Spec => []StateTruthful
<1>1. IInv => StateTruthful
  BY DEF IInv, StateTruthful, LastWordTrue, OneDue, NothingDue
<1> QED BY Invariance, <1>1, PTL

\* Over any sequence of add_service, start and stop in which neither the network
\* nor a service's stop fails, no service is started again while it runs, and a
\* stop that has returned left none running (node.rs 451-568, 573-672).
THEOREM StartsOnceStopsAll == Spec => []StartsAndStopsOnce
<1>1. IInv => StartsAndStopsOnce
  BY DEF IInv, StartsAndStopsOnce, NoHalfStart, NeverTwiceActive, NothingActive,
     VisitedInOrder, RunningMeansStarted, AtRest, TypeOK
<1> QED BY Invariance, <1>1, PTL

-----------------------------------------------------------------------------
(***************************************************************************)
(* Discovery, for any nodes: what a listener task has in hand, and what a  *)
(* connection leads to.                                                    *)
(***************************************************************************)

\* The listener task is in the middle of a message of a peer it has discovered.
InHand(n, p) == listener[n] \in {Handling(p, TRUE), Handling(p, FALSE), Answering(p)}

\* A connection leads to a process that was, or is, the peer's.
DiscoveryInv ==
  /\ DiscoveryTypeOK
  /\ \A n, p \in Node : InHand(n, p) => p \in discovered_nodes[n]
  /\ \A n, p \in Node : connection[n][p] <= process[p].life

\* The peer's process that the connection led to is gone, and it has another one.
Stale(n, p) == IsConnected(n, p) /\ connection[n][p] < process[p].life

\* The node has discovered the peer, and it owes it no answer any more.
AnswerDone(n, p) ==
  p \in discovered_nodes[n] /\ listener[n] \notin {Handling(p, TRUE), Answering(p)}

\* A node answers a peer at most once in the life of its process, ...
AnswersOnce ==
  [][\A n, p \in Node : AnswerDone(n, p) => AnswerDone(n, p)' \/ Is(n, {"down"})']_discoveryVars

\* ... and a connection to a process of a peer that is gone is never replaced.
StaleStays ==
  [][\A n, p \in Node : Stale(n, p) => Stale(n, p)' \/ Is(n, {"down"})']_discoveryVars

\* What a listener task may have in hand, told apart by its step.
LEMMA ListenerCases ==
  ASSUME NEW l \in Listener
  PROVE  /\ l.step = "handling" => /\ l.peer \in Node /\ l.is_new_peer \in BOOLEAN
                                   /\ l = Handling(l.peer, l.is_new_peer)
         /\ l.step = "answering" => l.peer \in Node /\ l = Answering(l.peer)
         /\ l \in {Waiting} \/ l.step \in {"handling", "answering"}
<1>1. CASE l = Waiting BY <1>1 DEF Waiting
<1>2. ASSUME NEW p \in Node, NEW new \in BOOLEAN, l = Handling(p, new)
      PROVE  /\ l.step = "handling" /\ l.peer = p /\ l.is_new_peer = new
  BY <1>2 DEF Handling
<1>3. ASSUME NEW p \in Node, l = Answering(p) PROVE l.step = "answering" /\ l.peer = p
  BY <1>3 DEF Answering
<1> QED BY <1>1, <1>2, <1>3 DEF Listener

LEMMA StepsApart ==
  /\ \A p, q \in Node : \A new \in BOOLEAN :
       /\ Handling(p, new) # Answering(q)
       /\ Handling(p, new) # Waiting /\ Answering(p) # Waiting
       /\ Answering(p) = Answering(q) => p = q
  /\ \A p, q \in Node : \A new, old \in BOOLEAN :
       Handling(p, new) = Handling(q, old) => p = q /\ new = old
<1>1. \A p \in Node, new \in BOOLEAN : /\ Handling(p, new).step = "handling"
                                       /\ Handling(p, new).peer = p
                                       /\ Handling(p, new).is_new_peer = new
  BY DEF Handling
<1>2. \A p \in Node : Answering(p).step = "answering" /\ Answering(p).peer = p BY DEF Answering
<1>3. Waiting.step = "receiving" BY DEF Waiting
<1>4. ASSUME NEW p \in Node, NEW q \in Node, NEW new \in BOOLEAN
      PROVE  /\ Handling(p, new) # Answering(q)
             /\ Handling(p, new) # Waiting /\ Answering(p) # Waiting
             /\ Answering(p) = Answering(q) => p = q
  <2>1. Handling(p, new).step # Answering(q).step BY <1>1, <1>2
  <2>2. Handling(p, new).step # Waiting.step /\ Answering(p).step # Waiting.step
    BY <1>1, <1>2, <1>3
  <2>3. Answering(p).peer = p /\ Answering(q).peer = q BY <1>2
  <2> QED BY <2>1, <2>2, <2>3
<1>5. ASSUME NEW p \in Node, NEW q \in Node, NEW new \in BOOLEAN, NEW old \in BOOLEAN,
             Handling(p, new) = Handling(q, old)
      PROVE  p = q /\ new = old
  <2>1. Handling(p, new).peer = p /\ Handling(q, old).peer = q BY <1>1
  <2>2. Handling(p, new).is_new_peer = new /\ Handling(q, old).is_new_peer = old BY <1>1
  <2> QED BY <1>5, <2>1, <2>2
<1> QED BY <1>4, <1>5

LEMMA DiscoveryInitInv == DiscoveryInit => DiscoveryInv
<1> SUFFICES ASSUME DiscoveryInit PROVE DiscoveryInv OBVIOUS
<1> USE DiscoveryAssumption DEF DiscoveryInit
<1>1. DiscoveryTypeOK BY DEF DiscoveryTypeOK, Listener, Phase, Datagram
<1>2. ASSUME NEW n \in Node, NEW p \in Node PROVE ~InHand(n, p) BY StepsApart DEF InHand
<1> QED BY <1>1, <1>2 DEF DiscoveryInv

\* The message of a peer the node has discovered is handled: the task answers, or waits.
LEMMA HandledBecomes ==
  ASSUME DiscoveryInv, NEW n \in Node, listener[n].step = "handling", Handled(n)
  PROVE  /\ listener[n].peer \in Node /\ listener[n].peer \in discovered_nodes[n]
         /\ listener[n].peer # n
         /\ listener' = [listener EXCEPT ![n] = IF listener[n].is_new_peer
                                                THEN Answering(listener[n].peer) ELSE Waiting]
         /\ listener[n] = Handling(listener[n].peer, listener[n].is_new_peer)
<1>1. listener[n] \in Listener BY DEF DiscoveryInv, DiscoveryTypeOK
<1>2. /\ listener[n].peer \in Node /\ listener[n].is_new_peer \in BOOLEAN
      /\ listener[n] = Handling(listener[n].peer, listener[n].is_new_peer)
  BY <1>1, ListenerCases
<1>3. InHand(n, listener[n].peer)
  <2>1. CASE listener[n].is_new_peer = TRUE BY <1>2, <2>1 DEF InHand
  <2>2. CASE listener[n].is_new_peer = FALSE BY <1>2, <2>2 DEF InHand
  <2> QED BY <1>2, <2>1, <2>2
<1>4. listener[n].peer \in discovered_nodes[n] /\ listener[n].peer # n
  BY <1>2, <1>3 DEF DiscoveryInv, DiscoveryTypeOK
<1> QED BY <1>2, <1>4 DEF Handled, Respond, Answers

\* What a listener task takes in hand is a message of a peer.
LEMMA ListenerTypes ==
  /\ Waiting \in Listener
  /\ \A p \in Node : Answering(p) \in Listener
  /\ \A p \in Node, new \in BOOLEAN : Handling(p, new) \in Listener
BY DEF Listener

LEMMA DiscoveryStepInv == DiscoveryInv /\ [DiscoveryNext]_discoveryVars => DiscoveryInv'
<1> SUFFICES ASSUME DiscoveryInv, [DiscoveryNext]_discoveryVars PROVE DiscoveryInv' OBVIOUS
<1> USE DiscoveryAssumption
<1>0. /\ situation \in FaultSet
      /\ process \in [Node -> [phase : Phase, life : 0..MaxLife]]
      /\ connection \in [Node -> [Node -> 0..MaxLife]]
      /\ discovered_nodes \in [Node -> SUBSET Node]
      /\ \A n \in Node : n \notin discovered_nodes[n] /\ connection[n][n] = 0
      /\ queue \in [Node -> 0..ChannelSize]
      /\ listener \in [Node -> Listener] /\ net \subseteq Datagram
      /\ \A n, p \in Node : InHand(n, p) => p \in discovered_nodes[n]
      /\ \A n, p \in Node : connection[n][p] <= process[p].life
  BY DEF DiscoveryInv, DiscoveryTypeOK
\* A start, a stop, or a tick: the life of a process does not go down.
<1>a. ASSUME UNCHANGED <<situation, connection, discovered_nodes, listener>>,
             process' \in [Node -> [phase : Phase, life : 0..MaxLife]],
             \A n \in Node : process'[n].life >= process[n].life,
             queue' \in [Node -> 0..ChannelSize], net' \subseteq Datagram
      PROVE  DiscoveryInv'
  <2>1. DiscoveryTypeOK' BY <1>0, <1>a DEF DiscoveryTypeOK
  <2>2. \A n, p \in Node : InHand(n, p)' => p \in discovered_nodes'[n]
    BY <1>0, <1>a DEF InHand
  <2>3. ASSUME NEW n \in Node, NEW p \in Node PROVE connection'[n][p] <= process'[p].life
    <3>1. connection[n][p] \in 0..MaxLife /\ process[p].life \in 0..MaxLife
          /\ process'[p].life \in 0..MaxLife
      BY <1>0, <1>a
    <3> QED BY <1>0, <1>a, <3>1
  <2> QED BY <2>1, <2>2, <2>3 DEF DiscoveryInv
<1>b. ASSUME NEW n \in Node, NEW phase \in Phase, GoTo(n, phase)
      PROVE  /\ process' \in [Node -> [phase : Phase, life : 0..MaxLife]]
             /\ \A m \in Node : process'[m].life = process[m].life
  BY <1>0, <1>b DEF GoTo
<1>c. ASSUME NEW n \in Node, NEW receivers \in SUBSET Node, Sent(n, receivers)
      PROVE  net' \subseteq Datagram
  BY <1>0, <1>c DEF Sent, Datagram
<1>g. \A m \in Node : process[m].life \in 0..MaxLife BY <1>0
\* A step of the listener task of one node.
<1>l. ASSUME NEW n \in Node, NEW task_is \in Listener, listener' = [listener EXCEPT ![n] = task_is],
             UNCHANGED <<situation, process, queue>>,
             connection' \in [Node -> [Node -> 0..MaxLife]],
             \A m, p \in Node : connection'[m][p] \in {connection[m][p], process[p].life},
             \A m \in Node : connection'[m][m] = 0,
             discovered_nodes' \in [Node -> SUBSET Node],
             \A m \in Node : m \notin discovered_nodes'[m]
                             /\ discovered_nodes[m] \subseteq discovered_nodes'[m],
             net' \subseteq Datagram,
             \A p \in Node : task_is \in {Handling(p, TRUE), Handling(p, FALSE), Answering(p)}
               => p \in discovered_nodes'[n]
      PROVE  DiscoveryInv'
  <2>1. listener' \in [Node -> Listener] BY <1>0, <1>l
  <2>2. DiscoveryTypeOK' BY <1>0, <1>l, <2>1 DEF DiscoveryTypeOK
  <2>3. ASSUME NEW m \in Node, NEW p \in Node, InHand(m, p)' PROVE p \in discovered_nodes'[m]
    <3>1. CASE m = n
      <4>1. listener'[n] = task_is BY <1>0, <1>l
      <4> QED BY <1>l, <2>3, <3>1, <4>1 DEF InHand
    <3>2. CASE m # n
      <4>1. listener'[m] = listener[m] BY <1>0, <1>l, <3>2
      <4>2. InHand(m, p) BY <2>3, <4>1 DEF InHand
      <4> QED BY <1>0, <1>l, <4>2
    <3> QED BY <3>1, <3>2
  <2>4. ASSUME NEW m \in Node, NEW p \in Node PROVE connection'[m][p] <= process'[p].life
    <3>1. connection[m][p] <= process[p].life /\ process[p].life \in 0..MaxLife BY <1>0
    <3>2. process' = process /\ connection'[m][p] \in {connection[m][p], process[p].life}
      BY <1>l
    <3> QED BY <3>1, <3>2
  <2> QED BY <2>2, <2>3, <2>4 DEF DiscoveryInv
<1>1. ASSUME NEW n \in Node, StartProcess(n) PROVE DiscoveryInv'
  <2> DEFINE new == [phase |-> "transport", life |-> process[n].life + 1]
  <2>1. /\ process' = [process EXCEPT ![n] = new] /\ process[n].life < MaxLife
        /\ UNCHANGED <<situation, connection, discovered_nodes, queue, listener, net>>
    BY <1>1 DEF StartProcess
  <2>2. new \in [phase : Phase, life : 0..MaxLife] /\ new.life >= process[n].life
    BY <1>g, <2>1 DEF Phase
  <2> HIDE DEF new
  <2>3. /\ process' \in [Node -> [phase : Phase, life : 0..MaxLife]]
        /\ \A m \in Node : process'[m].life >= process[m].life
    BY <1>0, <1>g, <2>1, <2>2
  <2> QED BY <1>0, <1>a, <2>1, <2>3
<1>2. ASSUME NEW n \in Node,
             CreateProvider(n) \/ SetDiscoveryListener(n) \/ StopTransport(n) \/ ShutdownDiscovery(n)
      PROVE  DiscoveryInv'
  <2>1. PICK phase \in Phase : GoTo(n, phase)
    BY <1>2 DEF CreateProvider, SetDiscoveryListener, StopTransport, ShutdownDiscovery, Phase
  <2>2. UNCHANGED <<situation, connection, discovered_nodes, queue, listener, net>>
    BY <1>2 DEF CreateProvider, SetDiscoveryListener, StopTransport, ShutdownDiscovery
  <2>3. /\ process' \in [Node -> [phase : Phase, life : 0..MaxLife]]
        /\ \A m \in Node : process'[m].life >= process[m].life
    BY <1>b, <1>g, <2>1
  <2> QED BY <1>0, <1>a, <2>2, <2>3
<1>3. ASSUME NEW n \in Node, StartAnnouncing(n) PROVE DiscoveryInv'
  <2>1. /\ GoTo(n, "running") /\ "running" \in Phase /\ queue[n] < ChannelSize
        /\ queue' = [queue EXCEPT ![n] = @ + 1]
        /\ UNCHANGED <<situation, connection, discovered_nodes, listener, net>>
    BY <1>3 DEF StartAnnouncing, HasRoom, Phase
  <2>2. /\ process' \in [Node -> [phase : Phase, life : 0..MaxLife]]
        /\ \A m \in Node : process'[m].life >= process[m].life
    BY <1>b, <1>g, <2>1
  <2>3. queue' \in [Node -> 0..ChannelSize] BY <1>0, <2>1
  <2> QED BY <1>0, <1>a, <2>1, <2>2, <2>3
<1>4. ASSUME NEW n \in Node, Crash(n) PROVE DiscoveryInv'
  <2>1. /\ GoTo(n, "down") /\ "down" \in Phase
        /\ connection' = [connection EXCEPT ![n] = [m \in Node |-> 0]]
        /\ discovered_nodes' = [discovered_nodes EXCEPT ![n] = {}]
        /\ queue' = [queue EXCEPT ![n] = 0]
        /\ listener' = [listener EXCEPT ![n] = Waiting]
        /\ net' = {d \in net : d.to # n} /\ UNCHANGED situation
    BY <1>4 DEF Crash, Phase
  <2>2. /\ process' \in [Node -> [phase : Phase, life : 0..MaxLife]]
        /\ \A m \in Node : process'[m].life = process[m].life
    BY <1>b, <2>1
  <2>3. /\ connection' \in [Node -> [Node -> 0..MaxLife]]
        /\ \A m, p \in Node : connection'[m][p] \in {connection[m][p], 0}
    BY <1>0, <2>1
  <2>4. /\ discovered_nodes' \in [Node -> SUBSET Node]
        /\ \A m \in Node : m \notin discovered_nodes'[m]
        /\ \A m \in Node : m # n => discovered_nodes'[m] = discovered_nodes[m]
    BY <1>0, <2>1
  <2>5. queue' \in [Node -> 0..ChannelSize] BY <1>0, <2>1
  <2>6. /\ listener' \in [Node -> Listener]
        /\ listener'[n] = Waiting /\ \A m \in Node : m # n => listener'[m] = listener[m]
    BY <1>0, <2>1, ListenerTypes
  <2>7. \A m \in Node : connection'[m][m] = 0 BY <1>0, <2>3
  <2>8. DiscoveryTypeOK'
    BY <1>0, <2>1, <2>2, <2>3, <2>4, <2>5, <2>6, <2>7 DEF DiscoveryTypeOK
  <2>9. ASSUME NEW m \in Node, NEW p \in Node, InHand(m, p)' PROVE p \in discovered_nodes'[m]
    <3>1. m # n BY <2>6, <2>9, StepsApart DEF InHand
    <3>2. InHand(m, p) BY <2>6, <2>9, <3>1 DEF InHand
    <3> QED BY <1>0, <2>4, <3>1, <3>2
  <2>10. ASSUME NEW m \in Node, NEW p \in Node PROVE connection'[m][p] <= process'[p].life
    BY <1>0, <1>g, <2>2, <2>3
  <2> QED BY <2>8, <2>9, <2>10 DEF DiscoveryInv
<1>5. ASSUME NEW n \in Node, Tick(n) PROVE DiscoveryInv'
  <2>1. /\ queue[n] < ChannelSize /\ queue' = [queue EXCEPT ![n] = @ + 1]
        /\ UNCHANGED <<situation, process, connection, discovered_nodes, listener, net>>
    BY <1>5 DEF Tick, HasRoom
  <2>2. queue' \in [Node -> 0..ChannelSize] BY <1>0, <2>1
  <2> QED BY <1>0, <1>a, <1>g, <2>1, <2>2
<1>6. ASSUME NEW n \in Node, Multicast(n) PROVE DiscoveryInv'
  <2>1. /\ queue[n] > 0 /\ queue' = [queue EXCEPT ![n] = @ - 1] /\ Sent(n, Node)
        /\ UNCHANGED <<situation, process, connection, discovered_nodes, listener>>
    BY <1>6 DEF Multicast
  <2>2. queue' \in [Node -> 0..ChannelSize] BY <1>0, <2>1
  <2>3. net' \subseteq Datagram BY <1>c, <2>1
  <2> QED BY <1>0, <1>a, <1>g, <2>1, <2>2, <2>3
<1>7. ASSUME NEW d \in net, Lose(d) PROVE DiscoveryInv'
  BY <1>0, <1>7, <1>a, <1>g DEF Lose
<1>8. ASSUME NEW n \in Node, NEW p \in Node, Receive(n, p) PROVE DiscoveryInv'
  <2>1. /\ UNCHANGED <<situation, process, connection, queue>> /\ net' \subseteq Datagram
    BY <1>0, <1>8 DEF Receive
  <2>2. CASE p = n
    <3>1. UNCHANGED <<discovered_nodes, listener>> BY <1>8, <2>2 DEF Receive
    <3> QED BY <1>0, <1>a, <1>g, <2>1, <3>1
  <2>3. CASE p # n
    <3> DEFINE new == p \notin discovered_nodes[n]
               task_is == IF Notifies(n, new) THEN Handling(p, new)
                          ELSE IF new THEN Answering(p) ELSE Waiting
    <3>1. /\ discovered_nodes' = [discovered_nodes EXCEPT ![n] = @ \cup {p}]
          /\ listener' = [listener EXCEPT ![n] = task_is]
      BY <1>8, <2>3 DEF Receive, Respond, Answers
    <3>2. new \in BOOLEAN OBVIOUS
    <3> HIDE DEF new
    <3>3. task_is \in {Handling(p, new), Answering(p), Waiting} OBVIOUS
    <3>4. task_is \in Listener BY <3>2, <3>3, ListenerTypes
    <3> HIDE DEF task_is
    <3>5. /\ discovered_nodes' \in [Node -> SUBSET Node]
          /\ \A m \in Node : m \notin discovered_nodes'[m]
                             /\ discovered_nodes[m] \subseteq discovered_nodes'[m]
          /\ p \in discovered_nodes'[n]
      BY <1>0, <2>3, <3>1
    <3>6. \A q \in Node : task_is \in {Handling(q, TRUE), Handling(q, FALSE), Answering(q)}
            => q \in discovered_nodes'[n]
      BY <3>2, <3>3, <3>5, StepsApart
    <3>7. /\ connection' \in [Node -> [Node -> 0..MaxLife]]
          /\ \A m, q \in Node : connection'[m][q] \in {connection[m][q], process[q].life}
          /\ \A m \in Node : connection'[m][m] = 0
      BY <1>0, <2>1
    <3> QED BY <1>l, <2>1, <3>1, <3>4, <3>5, <3>6, <3>7
  <2> QED BY <2>2, <2>3
<1>9. ASSUME NEW n \in Node, Answer(n) PROVE DiscoveryInv'
  <2>1. /\ listener[n].step = "answering" /\ Sent(n, {listener[n].peer})
        /\ listener' = [listener EXCEPT ![n] = Waiting]
        /\ UNCHANGED <<situation, process, connection, discovered_nodes, queue>>
    BY <1>9 DEF Answer
  <2>2. listener[n] \in Listener BY <1>0
  <2>3. listener[n].peer \in Node BY <2>1, <2>2, ListenerCases
  <2>4. net' \subseteq Datagram BY <1>c, <2>1, <2>3
  <2>5. Waiting \in Listener BY ListenerTypes
  <2>6. \A q \in Node : Waiting \notin {Handling(q, TRUE), Handling(q, FALSE), Answering(q)}
    BY StepsApart
  <2> QED BY <1>0, <1>l, <2>1, <2>4, <2>5, <2>6
<1>10. ASSUME NEW n \in Node, IgnoreDiscovery(n) \/ ConnectPeer(n) \/ FailToConnect(n)
       PROVE  DiscoveryInv'
  <2> DEFINE p == listener[n].peer
             task_is == IF listener[n].is_new_peer THEN Answering(p) ELSE Waiting
  <2>1. listener[n].step = "handling" /\ Handled(n)
    BY <1>10 DEF IgnoreDiscovery, ConnectPeer, FailToConnect
  <2>2. /\ p \in Node /\ p \in discovered_nodes[n] /\ p # n
        /\ listener' = [listener EXCEPT ![n] = task_is]
    BY <2>1, HandledBecomes
  <2>3. /\ UNCHANGED <<situation, process, discovered_nodes, queue, net>>
        /\ \/ connection' = connection
           \/ connection' = [connection EXCEPT ![n][p] = process[p].life]
    BY <1>10 DEF IgnoreDiscovery, ConnectPeer, FailToConnect
  <2>4. task_is \in Listener BY <2>2, ListenerTypes
  <2>5. \A q \in Node : task_is \in {Handling(q, TRUE), Handling(q, FALSE), Answering(q)}
          => q \in discovered_nodes[n]
    BY <2>2, StepsApart
  <2> HIDE DEF p, task_is
  <2>6. /\ connection' \in [Node -> [Node -> 0..MaxLife]]
        /\ \A m, q \in Node : connection'[m][q] \in {connection[m][q], process[q].life}
        /\ \A m \in Node : connection'[m][m] = 0
    <3>1. CASE connection' = connection BY <1>0, <3>1
    <3>2. CASE connection' = [connection EXCEPT ![n][p] = process[p].life]
      <4>1. process[p].life \in 0..MaxLife BY <1>g, <2>2
      <4>2. connection' \in [Node -> [Node -> 0..MaxLife]] BY <1>0, <2>2, <3>2, <4>1
      <4>3. \A m, q \in Node : connection'[m][q] = IF m = n /\ q = p THEN process[p].life
                                                                   ELSE connection[m][q]
        BY <1>0, <2>2, <3>2
      <4> QED BY <1>0, <2>2, <4>2, <4>3
    <3> QED BY <2>3, <3>1, <3>2
  <2>7. /\ discovered_nodes' \in [Node -> SUBSET Node] /\ net' \subseteq Datagram
        /\ \A m \in Node : m \notin discovered_nodes'[m]
                           /\ discovered_nodes[m] \subseteq discovered_nodes'[m]
        /\ \A q \in Node : task_is \in {Handling(q, TRUE), Handling(q, FALSE), Answering(q)}
             => q \in discovered_nodes'[n]
    BY <1>0, <2>3, <2>5
  <2> QED BY <1>l, <2>2, <2>3, <2>4, <2>6, <2>7
<1>11. CASE UNCHANGED discoveryVars BY <1>0, <1>11, <1>a, <1>g DEF discoveryVars
<1> QED BY <1>1, <1>2, <1>3, <1>4, <1>5, <1>6, <1>7, <1>8, <1>9, <1>10, <1>11
        DEF DiscoveryNext, StartStep, ListenerStep

\* Every variable of Discovery keeps its type: the channel to the sender task keeps its
\* size, and no node discovers itself or connects to itself, though it hears its own
\* announcements.
THEOREM DiscoveryTypeCorrect == DiscoverySpec => []DiscoveryTypeOK
<1>1. DiscoveryInv => DiscoveryTypeOK BY DEF DiscoveryInv
<1> QED BY <1>1, DiscoveryInitInv, DiscoveryStepInv, PTL DEF DiscoverySpec

\* A step may crash a node, and every other step leaves what a node has discovered, and
\* each connection it has.
LEMMA KeptUnlessCrashed ==
  ASSUME DiscoveryInv, DiscoveryNext, NEW n \in Node, NEW p \in Node
  PROVE  /\ process'[p].life >= process[p].life
         /\ \/ Is(n, {"down"})'
            \/ /\ p \in discovered_nodes[n] => p \in discovered_nodes'[n]
               /\ IsConnected(n, p) => connection'[n][p] = connection[n][p]
<1>0. /\ process \in [Node -> [phase : Phase, life : 0..MaxLife]]
      /\ connection \in [Node -> [Node -> 0..MaxLife]]
      /\ discovered_nodes \in [Node -> SUBSET Node] /\ MaxLife \in Nat
  BY DiscoveryAssumption DEF DiscoveryInv, DiscoveryTypeOK
<1>g. process[p].life \in Nat /\ process[p] \in [phase : Phase, life : 0..MaxLife] BY <1>0
<1>p. ASSUME NEW m \in Node, NEW phase, GoTo(m, phase)
      PROVE  process'[p].life = process[p].life /\ (m = n => process'[n].phase = phase)
  <2> DEFINE new == [process[m] EXCEPT !.phase = phase]
  <2>1. process' = [process EXCEPT ![m] = new] BY <1>p DEF GoTo
  <2>2. process[m] \in [phase : Phase, life : 0..MaxLife] BY <1>0
  <2>3. new.phase = phase /\ new.life = process[m].life BY <2>2
  <2> HIDE DEF new
  <2> QED BY <1>0, <2>1, <2>3
<1> DEFINE Goal == /\ process'[p].life >= process[p].life
                   /\ \/ Is(n, {"down"})'
                      \/ /\ p \in discovered_nodes[n] => p \in discovered_nodes'[n]
                         /\ IsConnected(n, p) => connection'[n][p] = connection[n][p]
<1>1. ASSUME NEW m \in Node, StartProcess(m) PROVE Goal
  <2>1. /\ process' = [process EXCEPT ![m] = [phase |-> "transport", life |-> process[m].life + 1]]
        /\ UNCHANGED <<connection, discovered_nodes>>
    BY <1>1 DEF StartProcess
  <2>2. process'[p].life >= process[p].life BY <1>0, <1>g, <2>1
  <2> QED BY <2>1, <2>2
<1>2. ASSUME NEW m \in Node, StartStep(m) \/ StopTransport(m) \/ ShutdownDiscovery(m) PROVE Goal
  <2>1. /\ \E phase \in Phase : GoTo(m, phase)
        /\ UNCHANGED <<connection, discovered_nodes>>
    BY <1>2 DEF StartStep, CreateProvider, SetDiscoveryListener, StartAnnouncing, StopTransport,
                ShutdownDiscovery, Phase
  <2>2. process'[p].life = process[p].life BY <1>p, <2>1
  <2> QED BY <1>g, <2>1, <2>2
<1>3. ASSUME NEW m \in Node, Crash(m) PROVE Goal
  <2>1. /\ GoTo(m, "down")
        /\ connection' = [connection EXCEPT ![m] = [q \in Node |-> 0]]
        /\ discovered_nodes' = [discovered_nodes EXCEPT ![m] = {}]
    BY <1>3 DEF Crash
  <2>2. process'[p].life = process[p].life /\ (m = n => process'[n].phase = "down") BY <1>p, <2>1
  <2>3. m # n => connection'[n] = connection[n] /\ discovered_nodes'[n] = discovered_nodes[n]
    BY <1>0, <2>1
  <2> QED BY <1>g, <2>2, <2>3 DEF Is
<1>4. ASSUME NEW m \in Node, Tick(m) \/ Multicast(m) \/ Answer(m) \/ IgnoreDiscovery(m)
                             \/ FailToConnect(m)
      PROVE  Goal
  BY <1>g, <1>4 DEF Tick, Multicast, Answer, IgnoreDiscovery, FailToConnect
<1>5. ASSUME NEW m \in Node, ConnectPeer(m) PROVE Goal
  <2> DEFINE q == listener[m].peer
  <2>1. /\ UNCHANGED <<process, discovered_nodes>> /\ ~IsConnected(m, q)
        /\ connection' = [connection EXCEPT ![m][q] = process[q].life]
    BY <1>5 DEF ConnectPeer
  <2> HIDE DEF q
  <2>2. ~(m = n /\ q = p) => connection'[n][p] = connection[n][p] BY <1>0, <2>1
  <2> QED BY <1>g, <2>1, <2>2
<1>6. ASSUME NEW m \in Node, NEW q \in Node, Receive(m, q) PROVE Goal
  <2>1. UNCHANGED <<process, connection>> BY <1>6 DEF Receive
  <2>2. \/ discovered_nodes' = discovered_nodes
        \/ discovered_nodes' = [discovered_nodes EXCEPT ![m] = @ \cup {q}]
    BY <1>6 DEF Receive
  <2>3. p \in discovered_nodes[n] => p \in discovered_nodes'[n] BY <1>0, <2>2
  <2> QED BY <1>g, <2>1, <2>3
<1>7. ASSUME NEW d \in net, Lose(d) PROVE Goal BY <1>g, <1>7 DEF Lose
<1> HIDE DEF Goal
<1>8. Goal BY <1>1, <1>2, <1>3, <1>4, <1>5, <1>6, <1>7 DEF DiscoveryNext, ListenerStep
<1> QED BY <1>8 DEF Goal

LEMMA AnswerStaysDone ==
  ASSUME DiscoveryInv, DiscoveryNext, NEW n \in Node, NEW p \in Node, AnswerDone(n, p)
  PROVE  AnswerDone(n, p)' \/ Is(n, {"down"})'
<1>0. listener \in [Node -> Listener] BY DEF DiscoveryInv, DiscoveryTypeOK
<1> DEFINE Done(task_is) == task_is \notin {Handling(p, TRUE), Answering(p)}
<1>1. p \in discovered_nodes[n] /\ Done(listener[n]) BY DEF AnswerDone
<1>2. Done(Waiting) BY StepsApart
<1>3. ASSUME NEW m \in Node, NEW q \in Node, Receive(m, q) PROVE Done(listener'[n])
  <2>1. CASE m # n \/ m = q
    <3>1. listener'[n] = listener[n] BY <1>0, <1>3, <2>1 DEF Receive, Respond
    <3> QED BY <1>1, <3>1
  <2>2. CASE m = n /\ m # q
    <3> DEFINE new == q \notin discovered_nodes[n]
               task_is == IF Notifies(n, new) THEN Handling(q, new)
                          ELSE IF new THEN Answering(q) ELSE Waiting
    <3>1. listener' = [listener EXCEPT ![n] = task_is]
      BY <1>3, <2>2 DEF Receive, Respond, Answers
    <3>2. new \in BOOLEAN /\ (q = p => new = FALSE) BY <1>1
    <3> HIDE DEF new
    <3>3. Done(Handling(q, new)) /\ (new => Done(Answering(q))) BY <3>2, StepsApart
    <3>4. Done(task_is) BY <1>2, <3>3
    <3> HIDE DEF task_is, Done
    <3>5. listener'[n] = task_is BY <1>0, <3>1
    <3> QED BY <3>4, <3>5
  <2> QED BY <2>1, <2>2
<1>4. ASSUME NEW m \in Node, Answer(m) PROVE Done(listener'[n])
  <2>1. listener' = [listener EXCEPT ![m] = Waiting] BY <1>4 DEF Answer
  <2>2. listener'[n] \in {listener[n], Waiting} BY <1>0, <2>1
  <2> QED BY <1>1, <1>2, <2>2
<1>5. ASSUME NEW m \in Node, IgnoreDiscovery(m) \/ ConnectPeer(m) \/ FailToConnect(m)
      PROVE  Done(listener'[n])
  <2> DEFINE q == listener[m].peer
             new == listener[m].is_new_peer
             task_is == IF new THEN Answering(q) ELSE Waiting
  <2>1. listener[m].step = "handling" /\ Handled(m)
    BY <1>5 DEF IgnoreDiscovery, ConnectPeer, FailToConnect
  <2>2. /\ q \in Node /\ listener[m] = Handling(q, new)
        /\ listener' = [listener EXCEPT ![m] = task_is]
    BY <2>1, HandledBecomes
  <2>3. listener[m] \in Listener BY <1>0
  <2>4. new \in BOOLEAN BY <2>1, <2>3, ListenerCases
  <2> HIDE DEF q, new
  <2>5. CASE m # n
    <3>1. listener'[n] = listener[n] BY <1>0, <2>2, <2>5
    <3> QED BY <1>1, <3>1
  <2>6. CASE m = n
    <3>1. listener'[n] = task_is BY <1>0, <2>2, <2>6
    <3>2. new = TRUE => q # p BY <1>1, <2>2, <2>6
    <3>3. new = TRUE => Done(Answering(q)) BY <2>2, <3>2, StepsApart
    <3> QED BY <1>2, <2>4, <3>1, <3>3
  <2> QED BY <2>5, <2>6
<1>6. ASSUME NEW m \in Node, Crash(m) PROVE Done(listener'[n])
  <2>1. listener' = [listener EXCEPT ![m] = Waiting] BY <1>6 DEF Crash
  <2>2. listener'[n] \in {listener[n], Waiting} BY <1>0, <2>1
  <2> QED BY <1>1, <1>2, <2>2
<1>7. ASSUME UNCHANGED listener PROVE Done(listener'[n]) BY <1>1, <1>7
<1> HIDE DEF Done
<1>8. ASSUME NEW m \in Node, StartProcess(m) \/ StartStep(m) \/ StopTransport(m)
                             \/ ShutdownDiscovery(m) \/ Tick(m) \/ Multicast(m)
      PROVE  UNCHANGED listener
  BY <1>8 DEF StartProcess, StartStep, CreateProvider, SetDiscoveryListener, StartAnnouncing,
              StopTransport, ShutdownDiscovery, Tick, Multicast
<1>9. ASSUME NEW d \in net, Lose(d) PROVE UNCHANGED listener BY <1>9 DEF Lose
<1>10. Done(listener'[n])
  BY <1>3, <1>4, <1>5, <1>6, <1>7, <1>8, <1>9 DEF DiscoveryNext, ListenerStep
<1>11. p \in discovered_nodes'[n] \/ Is(n, {"down"})' BY <1>1, KeptUnlessCrashed
<1> QED BY <1>10, <1>11 DEF Done, AnswerDone

\* "Only respond if this is a new peer we haven't seen before": in the life of its process
\* a node answers each peer at most once, however often the peer announces itself and
\* whatever crashes and comes back meanwhile.  What SilenceFalls rests on.
THEOREM AnswersEachOnce == DiscoverySpec => AnswersOnce
<1>1. DiscoveryInv /\ [DiscoveryNext]_discoveryVars =>
        [\A n, p \in Node : AnswerDone(n, p) => AnswerDone(n, p)' \/ Is(n, {"down"})']_discoveryVars
  BY AnswerStaysDone
<1> QED BY <1>1, DiscoveryInitInv, DiscoveryStepInv, PTL DEF DiscoverySpec, AnswersOnce

\* A connection to a process of a peer that has ended is never replaced by one to the
\* peer's next process, however often that is discovered: only a restart of the node
\* itself ends it.  For any number of nodes what the counterexample to ConnectionLives
\* shows for two.
THEOREM StaleForGood == DiscoverySpec => StaleStays
<1>1. ASSUME DiscoveryInv, DiscoveryNext, NEW n \in Node, NEW p \in Node, Stale(n, p)
      PROVE  Stale(n, p)' \/ Is(n, {"down"})'
  <2>1. /\ process \in [Node -> [phase : Phase, life : 0..MaxLife]]
        /\ connection \in [Node -> [Node -> 0..MaxLife]] /\ MaxLife \in Nat
    BY <1>1, DiscoveryAssumption DEF DiscoveryInv, DiscoveryTypeOK
  <2>2. connection[n][p] \in Nat /\ process[p].life \in Nat /\ process'[p].life \in 0..MaxLife
    <3>1. DiscoveryInv' BY <1>1, DiscoveryStepInv
    <3> QED BY <2>1, <3>1 DEF DiscoveryInv, DiscoveryTypeOK
  <2>3. /\ process'[p].life >= process[p].life
        /\ \/ Is(n, {"down"})'
           \/ IsConnected(n, p) => connection'[n][p] = connection[n][p]
    BY <1>1, KeptUnlessCrashed
  <2> QED BY <1>1, <2>1, <2>2, <2>3 DEF Stale, IsConnected
<1>2. DiscoveryInv /\ [DiscoveryNext]_discoveryVars =>
        [\A n, p \in Node : Stale(n, p) => Stale(n, p)' \/ Is(n, {"down"})']_discoveryVars
  BY <1>1
<1> QED BY <1>2, DiscoveryInitInv, DiscoveryStepInv, PTL DEF DiscoverySpec, StaleStays

=============================================================================

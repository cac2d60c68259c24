--------------------------- MODULE NodeLifecycle ---------------------------
(***************************************************************************)
(* add_service, start and stop of one Node value, with the life of its     *)
(* services and of its transport and discovery providers, and what is left *)
(* when one of the many steps of start or stop fails.                      *)
(*                                                                         *)
(* The three take &mut self, so one of them runs at a time; their steps    *)
(* are apart because everything else (requests, the registry service) sees *)
(* the state between them.  In particular a service's own init, start or   *)
(* stop is awaited first and the state that reports it is written by a     *)
(* later step, under the registry's lock.                                  *)
(***************************************************************************)
EXTENDS Naturals

CONSTANTS
  Service,
  Networking,      \* supports_networking, with a discovery provider configured
  Situation,       \* the situations an instance looks at, see Situations
  MaxStarts        \* where the count of active starts stops counting

\* What may fail in a behaviour:
Situations == {
  "services",   \* init and start of a service
  "stops",      \* stop of a service
  "network" }   \* the start of the transport or of the discovery

ASSUME ConstantsAssumption ==
  /\ Networking \in BOOLEAN
  /\ Situation \subseteq SUBSET Situations
  /\ MaxStarts \in Nat \ {0}

VARIABLES
  running,     \* Node.running
  registered,  \* local_services_list
  state,       \* service_states_by_service_path ("none": no entry)
  due,         \* what the call in progress is about to report of a service
  transport,   \* network_transport and whether it runs
  discovery,   \* the newest discovery providers
  op,          \* the call in progress: its step, and the services to visit
  active,      \* history: starts of each service that no stop has ended
  lastCall,    \* history: which of start and stop was called last
  failing      \* which of the Situations this behaviour is in

vars == <<running, registered, state, due, transport, discovery, op, active, lastCall,
          failing>>

network == <<transport, discovery>>
services == <<registered, state, due, active>>

States == {"none", "Initialized", "Running", "Stopped", "Error"}

TypeOK ==
  /\ running \in BOOLEAN
  /\ registered \subseteq Service
  /\ state \in [Service -> States]
  /\ due \in [Service -> States]
  /\ transport \in {"none", "created", "running", "stopped"}
  /\ discovery \in {"none", "announcing", "shutdown"}
  /\ op \in [pc : {"idle", "adding", "starting", "transport", "discovery", "started",
                   "stopping", "shutdown"},
             todo : SUBSET Service]
  /\ active \in [Service -> 0..MaxStarts]
  /\ lastCall \in {"none", "start", "stop"}
  /\ failing \in Situation

Idle == [pc |-> "idle", todo |-> {}]

Init ==
  /\ running = FALSE
  /\ registered = {}
  /\ state = [s \in Service |-> "none"]
  /\ due = [s \in Service |-> "none"]
  /\ transport = "none"
  /\ discovery = "none"
  /\ op = Idle
  /\ active = [s \in Service |-> 0]
  /\ lastCall = "none"
  /\ failing \in Situation

-----------------------------------------------------------------------------
NothingDue == \A s \in Service : due[s] = "none"

AddService_Created(s) ==
  /\ op.pc = "idle"
  /\ s \notin registered
  /\ due' = [due EXCEPT ![s] = "Created"]
  /\ op' = [pc |-> "adding", todo |-> {s}]
  /\ UNCHANGED <<failing, running, registered, state, network, active, lastCall>>

\* add_service has awaited the service's init, whether the node runs or not; it
\* does not start it.
AddService(s) ==
  /\ op.pc = "idle"
  /\ s \notin registered
  /\ due' = [due EXCEPT ![s] = "Initialized"]
  /\ op' = [pc |-> "adding", todo |-> {s}]
  /\ UNCHANGED <<failing, running, registered, state, network, active, lastCall>>

\* The service will not be registered.
FailToInit(s) ==
  /\ "services" \in failing
  /\ op.pc = "idle"
  /\ s \notin registered
  /\ due' = [due EXCEPT ![s] = "Error"]
  /\ op' = [pc |-> "adding", todo |-> {}]
  /\ UNCHANGED <<failing, running, registered, state, network, active, lastCall>>

\* register_local_service, when the state has been reported (it repeats that).
RegisterService(s) ==
  /\ op.pc = "adding"
  /\ s \in op.todo
  /\ NothingDue
  /\ registered' = registered \cup {s}
  /\ op' = Idle
  /\ UNCHANGED <<failing, running, state, due, network, active, lastCall>>

\* update_service_state; an add_service whose init failed returns after it.
ReportState(s) ==
  /\ due[s] # "none"
  /\ state' = [state EXCEPT ![s] = due[s]]
  /\ due' = [due EXCEPT ![s] = "none"]
  /\ op' = IF op.pc = "adding" /\ op.todo = {} THEN Idle ELSE op
  /\ UNCHANGED <<failing, running, registered, network, active, lastCall>>

-----------------------------------------------------------------------------
\* start

Start_Unchecked ==
  /\ op.pc = "idle"
  /\ lastCall' = "start"
  /\ op' = [pc |-> "starting", todo |-> registered]
  /\ UNCHANGED <<failing, running, services, network>>

Start ==
  /\ op.pc = "idle"
  /\ lastCall' = "start"
  /\ op' = IF running THEN op ELSE [pc |-> "starting", todo |-> registered]
  /\ UNCHANGED <<failing, running, services, network>>

\* A service that is running already is started once more.
StartService(s) ==
  /\ op.pc = "starting"
  /\ s \in op.todo
  /\ NothingDue
  /\ op' = [op EXCEPT !.todo = @ \ {s}]
  /\ due' = [due EXCEPT ![s] = "Running"]
  /\ active' = [active EXCEPT ![s] = IF @ < MaxStarts THEN @ + 1 ELSE @]
  /\ UNCHANGED <<failing, running, registered, state, network, lastCall>>

FailToStart_Running(s) ==
  /\ "services" \in failing
  /\ op.pc = "starting"
  /\ s \in op.todo
  /\ NothingDue
  /\ op' = [op EXCEPT !.todo = @ \ {s}]
  /\ due' = [due EXCEPT ![s] = "Running"]
  /\ UNCHANGED <<failing, running, registered, state, active, network, lastCall>>

\* Its state will say so, and start goes on with the next service.
FailToStart(s) ==
  /\ "services" \in failing
  /\ op.pc = "starting"
  /\ s \in op.todo
  /\ NothingDue
  /\ op' = [op EXCEPT !.todo = @ \ {s}]
  /\ due' = [due EXCEPT ![s] = "Error"]
  /\ UNCHANGED <<failing, running, registered, state, active, network, lastCall>>

ServicesStarted ==
  /\ op.pc = "starting"
  /\ op.todo = {}
  /\ NothingDue
  /\ op' = [op EXCEPT !.pc = IF Networking THEN "transport" ELSE "started"]
  /\ UNCHANGED <<failing, running, services, network, lastCall>>

\* A transport is made and started only if there is none.
StartTransport ==
  /\ op.pc = "transport"
  /\ transport' = IF transport = "none" THEN "running" ELSE transport
  /\ op' = [op EXCEPT !.pc = "discovery"]
  /\ UNCHANGED <<failing, running, services, discovery, lastCall>>

\* create_transport fails, or transport.start() does when the transport has
\* already been stored.  Either ends start, with the services running.
FailToStartTransport ==
  /\ "network" \in failing
  /\ op.pc = "transport"
  /\ transport = "none"
  /\ transport' \in {"none", "created"}
  /\ op' = Idle
  /\ UNCHANGED <<failing, running, services, discovery, lastCall>>

StartDiscovery ==
  /\ op.pc = "discovery"
  /\ discovery' = "announcing"
  /\ op' = [op EXCEPT !.pc = "started"]
  /\ UNCHANGED <<failing, running, services, transport, lastCall>>

FailToStartDiscovery ==
  /\ "network" \in failing
  /\ op.pc = "discovery"
  /\ op' = Idle
  /\ UNCHANGED <<failing, running, services, network, lastCall>>

FinishStart ==
  /\ op.pc = "started"
  /\ running' = TRUE
  /\ op' = Idle
  /\ UNCHANGED <<failing, services, network, lastCall>>

-----------------------------------------------------------------------------
\* stop

Stop ==
  /\ op.pc = "idle"
  /\ lastCall' = "stop"
  /\ running' = FALSE
  /\ op' = IF running THEN [pc |-> "stopping", todo |-> registered] ELSE op
  /\ UNCHANGED <<failing, services, network>>

\* In the order of a HashMap, whether the service was started or not.
StopService(s) ==
  /\ op.pc = "stopping"
  /\ s \in op.todo
  /\ NothingDue
  /\ op' = [op EXCEPT !.todo = @ \ {s}]
  /\ due' = [due EXCEPT ![s] = "Stopped"]
  /\ active' = [active EXCEPT ![s] = 0]
  /\ UNCHANGED <<failing, running, registered, state, network, lastCall>>

\* Its state is left as it was.
FailToStop(s) ==
  /\ "stops" \in failing
  /\ op.pc = "stopping"
  /\ s \in op.todo
  /\ NothingDue
  /\ op' = [op EXCEPT !.todo = @ \ {s}]
  /\ UNCHANGED <<failing, running, services, network, lastCall>>

ServicesStopped_Early ==
  /\ op.pc = "stopping"
  /\ op' = [op EXCEPT !.pc = IF Networking THEN "shutdown" ELSE "idle"]
  /\ UNCHANGED <<failing, running, services, network, lastCall>>

ServicesStopped ==
  /\ op.pc = "stopping"
  /\ op.todo = {}
  /\ NothingDue
  /\ op' = [op EXCEPT !.pc = IF Networking THEN "shutdown" ELSE "idle"]
  /\ UNCHANGED <<failing, running, services, network, lastCall>>

\* transport.stop() does nothing to a transport that does not run.
ShutdownNetwork ==
  /\ op.pc = "shutdown"
  /\ transport' = IF transport = "running" THEN "stopped" ELSE transport
  /\ discovery' = IF discovery = "announcing" THEN "shutdown" ELSE discovery
  /\ op' = Idle
  /\ UNCHANGED <<failing, running, services, lastCall>>

-----------------------------------------------------------------------------
OpStep ==
  \/ \E s \in Service : RegisterService(s) \/ ReportState(s)
                        \/ StartService(s) \/ FailToStart(s)
                        \/ StopService(s) \/ FailToStop(s)
  \/ ServicesStarted \/ StartTransport \/ FailToStartTransport
  \/ StartDiscovery \/ FailToStartDiscovery \/ FinishStart
  \/ ServicesStopped \/ ShutdownNetwork

Next ==
  \/ \E s \in Service : AddService(s) \/ FailToInit(s)
  \/ Start \/ Stop
  \/ OpStep

Spec == Init /\ [][Next]_vars

-----------------------------------------------------------------------------
(***************************************************************************)
(* Properties.                                                             *)
(***************************************************************************)

\* What a report says of a service is so: Running only after a start that no stop
\* has ended, Stopped only if nothing was left going.
IsTrue(s, report) ==
  /\ report = "Running" => active[s] > 0
  /\ report = "Stopped" => active[s] = 0

\* What the registry says of a service is true, but for one gap: from the return of
\* a service's own start or stop until the call that awaited it has written the
\* state (a stopped service reads Running, a restarted one Stopped).  No more than
\* one service is in the gap at a time, the state about to be written is true, and
\* when no call is in progress every state is, whatever steps have failed.
StateTruthful ==
  /\ \A s \in Service : IsTrue(s, IF due[s] = "none" THEN state[s] ELSE due[s])
  /\ \A s, t \in Service : IsTrue(s, state[s]) \/ IsTrue(t, state[t]) \/ s = t
  /\ op.pc = "idle" => \A s \in Service : IsTrue(s, state[s])

\* ... without the gap: false of this code, in the middle of a stop.
StateAlwaysTruthful == \A s \in Service : IsTrue(s, state[s])

\* "Stop the Node and all registered services": when stop has returned, no
\* service runs.  False of this code after a start that failed half way.
NothingActive ==
  lastCall = "stop" /\ op.pc = "idle" => \A s \in Service : active[s] = 0

NeverTwiceActive == \A s \in Service : active[s] <= 1

\* "Checks if the Node is already started to ensure idempotency": over any
\* sequence of calls no service is started again while it is running, and a stop
\* that has returned leaves none running, unless its own stop failed or start
\* did half way.
StartsAndStopsOnce == failing \subseteq {"services"} => NeverTwiceActive /\ NothingActive

\* "Start networking if enabled": a node that runs has a transport that does.
NetworkRuns == running /\ Networking => transport = "running"

=============================================================================

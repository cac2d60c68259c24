--------------------------- MODULE SerializerLock ---------------------------
(***************************************************************************)
(* The tasks of one node around Node.serializer, an RwLock that tokio      *)
(* grants in the order of the requests: a reader waits behind a writer     *)
(* that waits.  Unlike the other locks this one is held across long waits: *)
(* a caller holds it until its answer comes, and the task of an incoming   *)
(* request while the action handler runs, taking it once more to send an   *)
(* error reply or to call a remote action in turn.                         *)
(***************************************************************************)
EXTENDS Naturals, Sequences, FiniteSets

CONSTANTS
  Caller,   \* requests this node makes of others, each at most once
  Server,   \* incoming requests
  Writer,   \* registrations of a type: Node.serializer.write()
  Situation \* the situations an instance looks at, see Situations

\* What may happen in a behaviour:
Situations == {
  "nesting",   \* handlers fail or call remote actions
  "writing" }  \* types are registered while requests are under way

ASSUME SituationAssumption == Situation \subseteq SUBSET Situations

\* The tasks: one that calls and one that handles its response, and so on.
Task == ({"call", "answer"} \X Caller) \cup ({"serve"} \X Server)
          \cup ({"write"} \X Writer)

VARIABLES
  pc,       \* where each task stands
  queue,    \* the tasks waiting for the lock, in order
  guards,   \* how many guards each task holds
  situation \* which of the Situations this behaviour is in

vars == <<pc, queue, guards, situation>>

TypeOK ==
  /\ pc \in [Task -> {"idle", "locking", "working", "relocking", "nested", "done"}]
  /\ queue \in Seq(Task)
  /\ guards \in [Task -> 0..2]
  /\ situation \in Situation

Init ==
  /\ pc = [t \in Task |-> "idle"]
  /\ queue = <<>>
  /\ guards = [t \in Task |-> 0]
  /\ situation \in Situation

-----------------------------------------------------------------------------
\* tokio::sync::RwLock.

ModeOf_Exclusive(t) == IF t[1] \in {"serve", "write"} THEN "write" ELSE "read"

ModeOf(t) == IF t[1] = "write" THEN "write" ELSE "read"

MayHold(t) ==
  \A u \in Task : guards[u] > 0 => ModeOf(t) = "read" /\ ModeOf(u) = "read"

Lock(t, next) ==
  /\ queue' = Append(queue, t)
  /\ pc' = [pc EXCEPT ![t] = next]
  /\ UNCHANGED <<guards, situation>>

\* The first in the queue gets the lock, nobody overtakes it.
Grant ==
  /\ queue # <<>>
  /\ LET t == Head(queue)
     IN  /\ MayHold(t)
         /\ guards' = [guards EXCEPT ![t] = @ + 1]
         /\ pc' = [pc EXCEPT ![t] = IF @ = "locking" THEN "working" ELSE "nested"]
  /\ queue' = Tail(queue)
  /\ UNCHANGED situation

\* The guards go out of scope when the task returns.
Finish(t) ==
  /\ pc' = [pc EXCEPT ![t] = "done"]
  /\ guards' = [guards EXCEPT ![t] = 0]
  /\ UNCHANGED <<queue, situation>>

-----------------------------------------------------------------------------
\* Any task may begin; the response of a call comes while the call waits, or
\* after it has given up.
Begin(t) ==
  /\ pc[t] = "idle"
  /\ t[1] = "write" => "writing" \in situation
  /\ t[1] = "answer" => pc[<<"call", t[2]>>] \in {"working", "done"}
  /\ Lock(t, "locking")

\* create_action_handler: serialize, send, and wait with the guard held until the
\* task of the response has used the sender ...
ReceiveAnswer(c) ==
  /\ pc[<<"call", c>>] = "working"
  /\ pc[<<"answer", c>>] = "done"
  /\ Finish(<<"call", c>>)

\* ... or request_timeout_ms have passed.
TimeOut(c) ==
  /\ pc[<<"call", c>>] = "working"
  /\ pc[<<"answer", c>>] # "done"
  /\ Finish(<<"call", c>>)

\* handle_network_response.
Answer(c) ==
  /\ pc[<<"answer", c>>] = "working"
  /\ Finish(<<"answer", c>>)

Nest_Again(s) ==
  /\ "nesting" \in situation
  /\ pc[<<"serve", s>>] \in {"working", "nested"}
  /\ Lock(<<"serve", s>>, "relocking")

\* The handler has failed, and the error reply takes the lock again; or it calls a
\* remote action, whose create_action_handler does.
Nest(s) ==
  /\ "nesting" \in situation
  /\ pc[<<"serve", s>>] = "working"
  /\ Lock(<<"serve", s>>, "relocking")

Reply(s) ==
  /\ pc[<<"serve", s>>] \in {"working", "nested"}
  /\ Finish(<<"serve", s>>)

Register(w) ==
  /\ pc[<<"write", w>>] = "working"
  /\ Finish(<<"write", w>>)

CallStep(c) == ReceiveAnswer(c) \/ TimeOut(c)

Next ==
  \/ Grant
  \/ \E t \in Task : Begin(t)
  \/ \E c \in Caller : CallStep(c) \/ Answer(c)
  \/ \E s \in Server : Nest(s) \/ Reply(s)
  \/ \E w \in Writer : Register(w)

\* Tasks that can run are scheduled, timers fire, and action handlers return.
Spec ==
  /\ Init /\ [][Next]_vars
  /\ WF_vars(Grant)
  /\ \A c \in Caller : WF_vars(CallStep(c)) /\ WF_vars(Answer(c))
  /\ \A s \in Server : WF_vars(Reply(s))
  /\ \A w \in Writer : WF_vars(Register(w))

-----------------------------------------------------------------------------
(***************************************************************************)
(* Properties.                                                             *)
(***************************************************************************)

\* Whoever asks for the serializer gets it and is done in the end: no reply is
\* withheld for ever, and no registration.  (Not so where handlers nest the lock
\* while a type is registered.)
TasksEnd == \A t \in Task : pc[t] = "locking" ~> pc[t] = "done"

\* "Wait for the response with a timeout": while the caller waits, nothing that
\* its response has to wait for waits for the caller.
NoWaitCycle ==
  \A c \in Caller : pc[<<"call", c>>] = "working" =>
    \A i, j \in DOMAIN queue :
      i <= j /\ queue[j] = <<"answer", c>> => ModeOf(queue[i]) = "read"

=============================================================================

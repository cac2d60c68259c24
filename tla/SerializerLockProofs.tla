------------------------ MODULE SerializerLockProofs ------------------------
(***************************************************************************)
(* Theorems about SerializerLock, for any number of callers, incoming      *)
(* requests and registrations.                                             *)
(***************************************************************************)
EXTENDS SerializerLock, SequenceTheorems, TLAPS

\* A task waits in the queue, once, just when it has asked for the lock.
QueueInv ==
  /\ \A i \in DOMAIN queue : pc[queue[i]] \in {"locking", "relocking"}
  /\ \A i, j \in DOMAIN queue : queue[i] = queue[j] => i = j
  /\ \A t \in Task : pc[t] \in {"locking", "relocking"} => \E i \in DOMAIN queue : queue[i] = t

\* How many guards a task holds is said by where it stands.
GuardsInv ==
  \A t \in Task :
    /\ pc[t] \in {"idle", "locking", "done"} => guards[t] = 0
    /\ pc[t] \in {"working", "relocking"} => guards[t] = 1
    /\ pc[t] = "nested" => guards[t] = 2

\* Only the tasks of incoming requests take the lock twice.
NestInv ==
  \A t \in Task : pc[t] \in {"relocking", "nested"} => t[1] = "serve" /\ "nesting" \in situation

WriteInv == \A t \in Task : t[1] = "write" /\ pc[t] # "idle" => "writing" \in situation

\* Who holds a guard for writing is alone.
WriterAlone ==
  \A t, u \in Task : guards[t] > 0 /\ guards[u] > 0 /\ t # u =>
    ModeOf(t) = "read" /\ ModeOf(u) = "read"

IInv ==
  /\ TypeOK
  /\ QueueInv
  /\ GuardsInv
  /\ NestInv
  /\ WriteInv
  /\ WriterAlone

LEMMA InitIInv == Init => IInv
BY SituationAssumption
   DEF Init, IInv, TypeOK, QueueInv, GuardsInv, NestInv, WriteInv, WriterAlone

\* A task that asks for the lock goes to the end of the queue.
LEMMA LockStep ==
  ASSUME IInv, NEW t \in Task, NEW next \in {"locking", "relocking"},
         next = "locking" => pc[t] = "idle" /\ (t[1] = "write" => "writing" \in situation),
         next = "relocking" => pc[t] = "working" /\ t[1] = "serve" /\ "nesting" \in situation,
         Lock(t, next)
  PROVE  IInv'
<1> USE DEF IInv, TypeOK, Lock
<1>1. /\ queue' = Append(queue, t) /\ queue' \in Seq(Task)
      /\ DOMAIN queue' = DOMAIN queue \cup {Len(queue) + 1}
      /\ queue'[Len(queue) + 1] = t
      /\ \A i \in DOMAIN queue : queue'[i] = queue[i] /\ queue[i] \in Task
      /\ Len(queue) + 1 \notin DOMAIN queue
  BY AppendProperties
<1>2. \A i \in DOMAIN queue : queue[i] # t
  BY DEF QueueInv
<1>3. TypeOK'
  BY <1>1
<1>4. QueueInv'
  BY <1>1, <1>2 DEF QueueInv
<1>5. GuardsInv' /\ NestInv' /\ WriteInv' /\ WriterAlone'
  BY DEF GuardsInv, NestInv, WriteInv, WriterAlone
<1> QED BY <1>3, <1>4, <1>5

\* The head of the queue gets it if nobody's guard is in the way.
LEMMA GrantStep == IInv /\ Grant => IInv'
<1> SUFFICES ASSUME IInv, Grant PROVE IInv'
  OBVIOUS
<1> USE DEF IInv, TypeOK
<1> DEFINE t == Head(queue)
<1>1. /\ queue # <<>> /\ t \in Task /\ t = queue[1] /\ 1 \in DOMAIN queue
      /\ queue' = Tail(queue) /\ queue' \in Seq(Task)
      /\ DOMAIN queue' = 1..(Len(queue) - 1) /\ DOMAIN queue = 1..Len(queue)
      /\ Len(queue) \in Nat /\ Len(queue) > 0
      /\ \A i \in 1..(Len(queue) - 1) : queue'[i] = queue[i + 1]
  BY HeadTailProperties DEF Grant
<1>2. pc[t] \in {"locking", "relocking"}
  BY <1>1 DEF QueueInv
<1>3. /\ MayHold(t) /\ guards' = [guards EXCEPT ![t] = @ + 1] /\ UNCHANGED situation
      /\ pc' = [pc EXCEPT ![t] = IF @ = "locking" THEN "working" ELSE "nested"]
  BY DEF Grant
<1>4. /\ pc[t] = "locking" => guards[t] = 0 /\ guards'[t] = 1 /\ pc'[t] = "working"
      /\ pc[t] = "relocking" => guards[t] = 1 /\ guards'[t] = 2 /\ pc'[t] = "nested"
      /\ \A u \in Task : u # t => guards'[u] = guards[u] /\ pc'[u] = pc[u]
  BY <1>1, <1>3 DEF GuardsInv
<1>5. TypeOK'
  BY <1>1, <1>2, <1>3, <1>4
<1>6. \A i \in DOMAIN queue' : i + 1 \in DOMAIN queue /\ i + 1 # 1 /\ queue'[i] = queue[i + 1]
        /\ queue[i + 1] \in Task
  BY <1>1
<1>7. \A i \in DOMAIN queue' : queue'[i] # t
  BY <1>1, <1>6 DEF QueueInv
<1>8. QueueInv'
  <2>1. \A i \in DOMAIN queue' : pc'[queue'[i]] \in {"locking", "relocking"}
    BY <1>4, <1>6, <1>7 DEF QueueInv
  <2>2. \A i, j \in DOMAIN queue' : queue'[i] = queue'[j] => i = j
    <3> SUFFICES ASSUME NEW i \in DOMAIN queue', NEW j \in DOMAIN queue', queue'[i] = queue'[j]
                 PROVE  i = j
      OBVIOUS
    <3>1. i + 1 = j + 1
      BY <1>6 DEF QueueInv
    <3> QED BY <1>1, <3>1
  <2>3. ASSUME NEW u \in Task, pc'[u] \in {"locking", "relocking"}
        PROVE  \E i \in DOMAIN queue' : queue'[i] = u
    <3>1. u # t
      BY <1>2, <1>4, <2>3
    <3>2. PICK i \in DOMAIN queue : queue[i] = u
      BY <1>4, <2>3, <3>1 DEF QueueInv
    <3>3. i \in 2..Len(queue)
      BY <1>1, <3>1, <3>2
    <3>4. i - 1 \in DOMAIN queue' /\ queue'[i - 1] = u
      BY <1>1, <3>2, <3>3
    <3> QED BY <3>4
  <2> QED BY <2>1, <2>2, <2>3 DEF QueueInv
<1>9. GuardsInv'
  BY <1>2, <1>4 DEF GuardsInv
<1>10. NestInv' /\ WriteInv'
  BY <1>2, <1>3, <1>4 DEF NestInv, WriteInv
<1>11. WriterAlone'
  BY <1>3, <1>4 DEF WriterAlone, MayHold
<1> QED BY <1>5, <1>8, <1>9, <1>10, <1>11

\* A task that returns was not waiting.
LEMMA FinishStep ==
  ASSUME IInv, NEW t \in Task, pc[t] \in {"working", "nested"}, Finish(t)
  PROVE  IInv'
<1> USE DEF IInv, TypeOK, Finish
<1>1. \A i \in DOMAIN queue : queue[i] # t /\ queue[i] \in Task
  BY DEF QueueInv
<1>2. QueueInv'
  BY <1>1 DEF QueueInv
<1>3. GuardsInv' /\ NestInv' /\ WriteInv' /\ WriterAlone'
  BY DEF GuardsInv, NestInv, WriteInv, WriterAlone
<1> QED BY <1>2, <1>3

LEMMA IInvStep == IInv /\ [Next]_vars => IInv'
<1> SUFFICES ASSUME IInv, [Next]_vars PROVE IInv'
  OBVIOUS
<1> USE DEF Task
<1>1. CASE Grant
  BY <1>1, GrantStep
<1>2. ASSUME NEW t \in Task, Begin(t)
      PROVE  IInv'
  BY <1>2, LockStep DEF Begin
<1>3. ASSUME NEW c \in Caller, CallStep(c) \/ Answer(c)
      PROVE  IInv'
  BY <1>3, FinishStep DEF CallStep, ReceiveAnswer, TimeOut, Answer
<1>4. ASSUME NEW s \in Server, Nest(s)
      PROVE  IInv'
  BY <1>4, LockStep DEF Nest
<1>5. ASSUME NEW s \in Server, Reply(s)
      PROVE  IInv'
  BY <1>5, FinishStep DEF Reply
<1>6. ASSUME NEW w \in Writer, Register(w)
      PROVE  IInv'
  BY <1>6, FinishStep DEF Register
<1>7. CASE UNCHANGED vars
  BY <1>7 DEF vars, IInv, TypeOK, QueueInv, GuardsInv, NestInv, WriteInv, WriterAlone, Task
<1> QED BY <1>1, <1>2, <1>3, <1>4, <1>5, <1>6, <1>7 DEF Next

LEMMA IInvHolds == Spec => []IInv
BY InitIInv, IInvStep, PTL DEF Spec

-----------------------------------------------------------------------------
\* The queue, the guards and where the tasks stand keep their types; no task ever
\* holds more than two guards of Node.serializer.
THEOREM TypeCorrect == Spec => []TypeOK
<1>1. IInv => TypeOK
  BY DEF IInv
<1> QED BY <1>1, IInvHolds, PTL

\* tokio's RwLock as the code uses it: whoever registers a type holds the
\* serializer alone.
THEOREM RegistrationAlone == Spec => []WriterAlone
<1>1. IInv => WriterAlone
  BY DEF IInv
<1> QED BY <1>1, IInvHolds, PTL

\* The head of the queue waits for nobody but tasks that end by themselves.
HeadMovesOn ==
  queue # <<>> /\ ~MayHold(Head(queue)) =>
    \E u \in Task : guards[u] > 0 /\ pc[u] \in {"working", "nested"}

\* Deadlock over Node.serializer takes both of what a situation allows: where
\* handlers do not nest the lock, or no type is registered meanwhile, somebody in
\* the lock can always leave it.
THEOREM NoStall ==
  ASSUME \A s \in Situation : {"nesting", "writing"} \subseteq s => FALSE
  PROVE  Spec => []HeadMovesOn
<1>1. IInv => HeadMovesOn
  <2> SUFFICES ASSUME IInv, queue # <<>>, ~MayHold(Head(queue))
               PROVE  \E u \in Task : guards[u] > 0 /\ pc[u] \in {"working", "nested"}
    BY DEF HeadMovesOn
  <2> DEFINE t == Head(queue)
  <2>1. t \in Task /\ pc[t] # "idle"
    BY HeadTailProperties DEF IInv, TypeOK, QueueInv
  <2>2. PICK u \in Task : guards[u] > 0 /\ ~(ModeOf(t) = "read" /\ ModeOf(u) = "read")
    BY DEF MayHold
  <2>3. pc[u] \in {"working", "relocking", "nested"}
    BY <2>2 DEF IInv, TypeOK, GuardsInv
  <2>4. ASSUME pc[u] = "relocking"
        PROVE  FALSE
    <3>1. "nesting" \in situation
      BY <2>4 DEF IInv, NestInv
    <3>2. "writing" \notin situation
      BY <3>1 DEF IInv, TypeOK
    <3>3. t[1] # "write" /\ u[1] # "write"
      BY <2>1, <2>4, <3>2 DEF IInv, WriteInv
    <3> QED BY <2>2, <3>3 DEF ModeOf
  <2> QED BY <2>2, <2>3, <2>4
<1> QED BY <1>1, IInvHolds, PTL

=============================================================================

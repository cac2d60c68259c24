------------------------------- MODULE PubSub -------------------------------
(***************************************************************************)
(* What publish and subscribe promise: a publication calls every           *)
(* subscription that covers its topic and is in force at that moment,      *)
(* each exactly once, and no other.                                        *)
(***************************************************************************)
EXTENDS Naturals

CONSTANTS
  Id,            \* subscriptions, each made at most once
  Publisher,     \* publications, each made once
  Pattern, Topic,
  Covers(_, _)   \* Covers(p, t): topic t falls under pattern p

VARIABLES
  live,     \* the pattern of each subscription that is in force
  due,      \* the callbacks each publication has still to call
  calls     \* how often each callback was called

vars == <<live, due, calls>>

Init ==
  /\ live = {}
  /\ due = [u \in Publisher |-> {}]
  /\ calls = [i \in Id |-> 0]

Subscribe(i, p) ==
  /\ \A s \in live : s[1] # i
  /\ live' = live \cup {<<i, p>>}
  /\ UNCHANGED <<due, calls>>

Unsubscribe(i) ==
  /\ live' = {s \in live : s[1] # i}
  /\ UNCHANGED <<due, calls>>

Publish(u, t) ==
  /\ due[u] = {}
  /\ due' = [due EXCEPT ![u] = {s[1] : s \in {r \in live : Covers(r[2], t)}}]
  /\ UNCHANGED <<live, calls>>

\* A subscription that has been cancelled since is still called.
Deliver(u, i) ==
  /\ i \in due[u]
  /\ due' = [due EXCEPT ![u] = @ \ {i}]
  /\ calls' = [calls EXCEPT ![i] = @ + 1]
  /\ UNCHANGED live

Next ==
  \/ \E i \in Id, p \in Pattern : Subscribe(i, p)
  \/ \E i \in Id : Unsubscribe(i)
  \/ \E u \in Publisher, t \in Topic : Publish(u, t)
  \/ \E u \in Publisher, i \in Id : Deliver(u, i)

Spec == Init /\ [][Next]_vars

=============================================================================

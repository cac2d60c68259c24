-------------------------------- MODULE Rpc --------------------------------
(***************************************************************************)
(* What a request to a remote action promises its caller, seen from        *)
(* outside: one outcome, at some time; success only with the result of the *)
(* caller's own request; and an action executed at most once, whether or   *)
(* not the caller learns of it.                                            *)
(***************************************************************************)
CONSTANT Request

VARIABLES
  status,   \* what the caller sees of each request
  effect    \* what the action handler did for each request

vars == <<status, effect>>

TypeOK ==
  /\ status \in [Request -> {"unasked", "open", "answered", "failed"}]
  /\ effect \in [Request -> {"none", "success", "failure"}]

Init ==
  /\ status = [r \in Request |-> "unasked"]
  /\ effect = [r \in Request |-> "none"]

Ask(r) ==
  /\ status[r] = "unasked"
  /\ status' = [status EXCEPT ![r] = "open"]
  /\ UNCHANGED effect

\* The caller may have given up by then.
Execute(r, result) ==
  /\ status[r] # "unasked"
  /\ effect[r] = "none"
  /\ effect' = [effect EXCEPT ![r] = result]
  /\ UNCHANGED status

Succeed(r) ==
  /\ status[r] = "open"
  /\ effect[r] = "success"
  /\ status' = [status EXCEPT ![r] = "answered"]
  /\ UNCHANGED effect

\* A failure says nothing about the effect: a message may have been lost, or
\* an answer may have come too late.
Fail(r) ==
  /\ status[r] = "open"
  /\ status' = [status EXCEPT ![r] = "failed"]
  /\ UNCHANGED effect

Next ==
  \E r \in Request :
    \/ Ask(r) \/ Succeed(r) \/ Fail(r)
    \/ \E result \in {"success", "failure"} : Execute(r, result)

SafeSpec == Init /\ [][Next]_vars

Spec == SafeSpec /\ \A r \in Request : WF_vars(Succeed(r) \/ Fail(r))

=============================================================================

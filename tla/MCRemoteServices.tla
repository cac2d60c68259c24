-------------------------- MODULE MCRemoteServices --------------------------
(***************************************************************************)
(* Instances of RemoteServices for TLC.  Each cfg picks one offer table.   *)
(***************************************************************************)
EXTENDS TLC, RemoteServices

CONSTANTS p1, p2, p3,        \* peers
          math, users, logs, \* services
          tMath, tUsers, tLogs, tTitle,  \* topics
          add, show, byId    \* actions; byId stands for "{id}"

MCPeer == {p1, p2, p3}
MCTwoPeers == {p1, p2}
MCService == {math, users, logs}
MCTopic == {tMath, tUsers, tLogs, tTitle}
MCAction == {add, show, byId}

MCPath == math :> tMath @@ users :> tUsers @@ logs :> tLogs

MCActions == math :> {add} @@ users :> {show, byId} @@ logs :> {}

\* Two peers offer math, and one of them logs; users is undisputed.
MCOffered == math :> {p1, p2} @@ users :> {p3} @@ logs :> {p2}

\* The same without a third peer.
MCOfferedTwo == math :> {p1, p2} @@ users :> {p1} @@ logs :> {p2}

\* Every service is offered by one peer only.
MCOfferedExclusive == math :> {p1} @@ users :> {p1} @@ logs :> {p2}

\* The name of logs makes no topic.
MCNameInvalid == math :> tMath @@ users :> tUsers @@ logs :> NoTopic

\* The name of math makes another topic than its path.
MCNameTitled == math :> tTitle @@ users :> tUsers @@ logs :> tLogs

=============================================================================

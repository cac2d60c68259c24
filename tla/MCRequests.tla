----------------------------- MODULE MCRequests -----------------------------
(***************************************************************************)
(* Instances of Requests.                                                  *)
(***************************************************************************)
EXTENDS Requests, TLC

CONSTANTS svc, far, a, b, x, y,
          exact, named, deep, renamed, whole, mixed,  \* local handlers
          other, farA, farX, farB, farAll,            \* remote handlers
          q1, q2, q3

MCLiteral == {svc, far, a, b}
MCParam == {x, y}
MCLocal == {exact, named, deep, renamed, whole, mixed}
MCRemote == {other, farA, farX, farB, farAll}
MCRequest == {q1, q2, q3}
MCSymmetry == Permutations({q1, q2})

MCServiceOf ==
  [h \in MCLocal \cup MCRemote |-> IF h \in MCLocal \cup {other} THEN svc ELSE far]

MCActionName ==
  [h \in MCLocal \cup MCRemote |->
     CASE h \in {exact, other, farA} -> <<a>>
       [] h \in {named, farX} -> <<x>>
       [] h = renamed -> <<y>>
       [] h = deep -> <<y, Empty, b>>
       [] h = whole -> <<Multi>>
       [] h = farAll -> <<Star>>
       [] h = mixed -> <<x, Star>>
       [] h = farB -> <<b>>]

MCOrders == {<<svc, far, a, b>>, <<b, a, far, svc>>}

\* Local handlers come and a remote one of the same topic comes and goes.
MCRoutes ==
  [registers |-> {exact, named, deep, renamed, other}, removes |-> TRUE, counted |-> {0},
   requests |-> {q1, q2},
   texts |-> {<<svc, a>>, <<svc, Empty, b>>, <<a>>, <<svc, a, b>>, <<Multi, a>>}]

MCRemotes ==
  [registers |-> {farA, farX}, removes |-> TRUE, counted |-> {0}, requests |-> {q1, q2},
   texts |-> {<<far, a>>, <<far, b>>}]

MCBalance ==
  [registers |-> {farA, farX}, removes |-> FALSE, counted |-> 0..3, requests |-> MCRequest,
   texts |-> {<<far, a>>}]

MCSituations == {MCRoutes, MCRemotes, MCBalance}

\* For counterexamples.
MCWild ==
  {[registers |-> {exact, whole, deep, mixed}, removes |-> FALSE, counted |-> {0}, requests |-> {q1},
    texts |-> {<<svc, a>>, <<svc, a, b>>}]}

MCRemoteWild ==
  {[registers |-> {farA, farAll}, removes |-> FALSE, counted |-> {0}, requests |-> {q1},
    texts |-> {<<far, b>>}]}

MCTopics ==
  {[registers |-> {farA, farB, farX}, removes |-> FALSE, counted |-> {0}, requests |-> MCRequest,
    texts |-> {<<far, a>>, <<far, b>>}]}

=============================================================================

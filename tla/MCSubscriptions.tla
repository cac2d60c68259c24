-------------------------- MODULE MCSubscriptions --------------------------
(***************************************************************************)
(* Instances of Subscriptions: one service with two events, and the sets   *)
(* of patterns subscribed to.                                              *)
(***************************************************************************)
EXTENDS TLC, Subscriptions

CONSTANTS svc, a, b,   \* literals
          id,          \* the segment {id}
          i1, i2, i3, u1,
          x1, x2

MCLiteral == {svc, a, b}
MCParam == {id}
MCId == {i1, i2, i3}
MCTwoIds == {i1, i2}
MCAttempt == {x1, x2}
MCOneAttempt == {x1}
MCPublisher == {u1}

MCPattern == {<<svc, a>>, <<svc, b>>, <<svc, Star>>, <<svc, Multi>>, <<svc, id>>,
              <<svc, Star, b>>, <<svc, a, Multi>>}
MCTopic == {<<svc, a>>, <<svc, b>>, <<svc, a, b>>}
MCOrders == {<<svc, a, b>>, <<svc, b, a>>}

MCSituations == {{<<svc, a>>, <<svc, b>>}, {<<svc, Star>>}, {<<svc, Multi>>, <<svc, id>>},
                 {<<svc, Star, b>>, <<svc, a, Multi>>}}
MCOverlap == {{<<svc, Multi>>, <<svc, a>>}}

\* Three subscriptions where no pattern has a Multi, two elsewhere.
MCBound ==
  \/ \A p \in patterns : p[Len(p)] # Multi
  \/ Cardinality({i \in Id : sub[i].pc # "none"}) <= 2

\* Subscriptions are interchangeable, and so are calls of unsubscribe.
MCSymmetry == Permutations(MCId) \cup Permutations(MCAttempt)

=============================================================================

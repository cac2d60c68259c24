---------------------------- MODULE MCDiscovery ----------------------------
(***************************************************************************)
(* Instances of Discovery.                                                 *)
(***************************************************************************)
EXTENDS Discovery

CONSTANTS n1, n2

MCTwoNodes == {n1, n2}

MCSituations == {{"loses", "crashes"}, {"stops"}}
MCFaults == {{"crashes"}, {"stops"}}

=============================================================================

-------------------------- MODULE MCNodeLifecycle --------------------------
(***************************************************************************)
(* NodeLifecycle with two services, so that one can be stopped, failed or  *)
(* added while the other one runs.                                         *)
(***************************************************************************)
EXTENDS NodeLifecycle

CONSTANTS s1, s2

MCService == {s1, s2}

MCSituations == {{"services"}, {"services", "stops", "network"}}
MCFaults == {{"network"}, {}}

=============================================================================

------------------------- MODULE MCRequestResponse -------------------------
(***************************************************************************)
(* RequestResponse with two requests, enough for one to be confused with   *)
(* another or to be hurt by the clean-up of another.                       *)
(***************************************************************************)
EXTENDS RequestResponse

CONSTANTS r1, r2

MCRequest == {r1, r2}

=============================================================================

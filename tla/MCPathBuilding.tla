---------------------------- MODULE MCPathBuilding -------------------------
(***************************************************************************)
(* Instances of PathBuilding.                                              *)
(***************************************************************************)
EXTENDS PathBuilding

CONSTANTS a, b, x, y

MCLiteral == {a, b}
MCParam == {x, y}

MCStrings(length) == UNION {[1..n -> Segment] : n \in 0..length}

\* With slashes where they do no harm.
MCText == MCStrings(3) \cup {<<Empty, a>>, <<a, Empty, b>>, <<a, Empty, Multi>>}

MCValue == {<<a>>, <<Star>>, <<a, b>>}

=============================================================================

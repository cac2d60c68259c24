-------------------------- MODULE MCSerializerLock --------------------------
(***************************************************************************)
(* Instances of SerializerLock: calls, requests and one registration.      *)
(***************************************************************************)
EXTENDS SerializerLock

CONSTANTS c1, c2, s1, s2, w1

MCCaller == {c1, c2}
MCNoCaller == {}
MCServer == {s1, s2}
MCWriter == {w1}

MCApart == {{"nesting"}, {"writing"}}
MCWriting == {{"writing"}}
MCTogether == {{"nesting", "writing"}}

=============================================================================

------------------------- MODULE MCSensorEnrollment -------------------------
(* Instance of SensorEnrollment for TLC: two nodes configured with the same   *)
(* sensor id, and a third one with an id of its own.                          *)
EXTENDS SensorEnrollment, TLC

CONSTANTS n1, n2, n3, frontgate, garage

Twins == (n1 :> frontgate) @@ (n2 :> frontgate) @@ (n3 :> garage)

\* Bound: a node changes its key while the third one has not been heard of.
RekeyedAlone == rekeys = 0 \/ (rows[garage] = NoRow /\ enrolls[n3] = [s \in Slots |-> IdleEnroll])

\* No property tells two keys apart, or the two nodes that share an id.
Symmetry == Permutations(Keys) \cup Permutations({n1, n2})
=============================================================================

--------------------------- MODULE MCProvisioning ---------------------------
(* Two lights, of three elements and of two; two attempts in all. *)
EXTENDS Provisioning

CONSTANTS a, b

Two == {a, b}
Spans == [l \in {a, b} |-> IF l = a THEN 3 ELSE 2]
=============================================================================

--------------------------- MODULE MCNodeRegistry ---------------------------
(* An entry's first light of two elements, and two more, of three and of one. *)
EXTENDS NodeRegistry

CONSTANTS p, a, b

Two == {a, b}
Narrow == [l \in {p, a, b} |-> CASE l = p -> 2 [] l = a -> 3 [] OTHER -> 1]
=============================================================================

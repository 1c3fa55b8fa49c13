------------------------- MODULE MCGatewaySelection -------------------------
(* Two nodes of one mesh: a, the configured one and the stronger, is known   *)
(* by its address; b only by its Network ID adverts.                          *)
EXTENDS GatewaySelection

CONSTANTS a, b

Pair == {a, b}
JustA == {a}
PairSignal == [n \in Pair |-> IF n = a THEN 2 ELSE 1]
=============================================================================

--------------------------- MODULE MCProxySession ---------------------------
(* Two connects and two requests, one number more than the counter has left. *)
EXTENDS ProxySession

Edge == SeqLimit - 5
=============================================================================

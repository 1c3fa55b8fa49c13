--------------------------- MODULE MCCommandLine ---------------------------
(* Processes are interchangeable, and so are networks. *)
EXTENDS CommandLine, TLC

Swaps == Permutations(Processes) \cup Permutations(Nets)
=============================================================================

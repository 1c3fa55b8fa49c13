-------------------------- MODULE ReplayProtection --------------------------
(***************************************************************************)
(* What the nodes of a mesh require of the one source that commands them.  *)
(* A node drops every PDU whose sequence number is not above the last one  *)
(* it recorded, so the numbers the source puts on air must grow strictly.  *)
(* trusted stands for "nothing has gone wrong that the source could not    *)
(* account for"; while it holds the source never repeats itself.           *)
(***************************************************************************)
EXTENDS Naturals

VARIABLES
  rpl,        \* the lowest sequence number the nodes still accept
  replayed,   \* a number below rpl went on air
  trusted

vars == <<rpl, replayed, trusted>>

Init == rpl = 0 /\ replayed = FALSE /\ trusted = TRUE

\* A fresh number goes on air; numbers may be skipped.
Accept == /\ rpl' \in Nat
          /\ rpl' > rpl
          /\ UNCHANGED <<replayed, trusted>>

\* Only a source that lost track of its counter puts an old number on air.
Replay == /\ ~trusted
          /\ replayed' = TRUE
          /\ UNCHANGED <<rpl, trusted>>

LoseTrack == /\ trusted' = FALSE
             /\ UNCHANGED <<rpl, replayed>>

Next == Accept \/ Replay \/ LoseTrack

Spec == Init /\ [][Next]_vars
=============================================================================

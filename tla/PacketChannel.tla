--------------------------- MODULE PacketChannel ---------------------------
(***************************************************************************)
(* What segmentation promises its users: packets arrive whole, at most     *)
(* once and in the order in which they were written.  A packet that does   *)
(* not fit may be lost, and once the channel has faltered any may be.      *)
(***************************************************************************)
EXTENDS Sequences

CONSTANTS
  Packets,
  Fitting    \* those of them the receiver has room for

VARIABLES
  channel,    \* packets written and not yet delivered, the oldest first
  delivered,
  reliable

vars == <<channel, delivered, reliable>>

Init == channel = <<>> /\ delivered = <<>> /\ reliable = TRUE

Enter == \E p \in Packets : /\ channel' = Append(channel, p)
                            /\ UNCHANGED <<delivered, reliable>>

Deliver == /\ channel # <<>>
           /\ channel' = Tail(channel)
           /\ delivered' = Append(delivered, Head(channel))
           /\ UNCHANGED reliable

\* The oldest packet never comes.
Lose == /\ channel # <<>> /\ channel' = Tail(channel)
        /\ reliable' \in {reliable, FALSE}
        /\ reliable' => Head(channel) \notin Fitting
        /\ UNCHANGED delivered

\* The channel breaks, with all that is in it, or one packet has been late.
Falter == /\ reliable' = FALSE
          /\ channel' \in {channel, <<>>}
          /\ UNCHANGED delivered

Next == Enter \/ Deliver \/ Lose \/ Falter

Spec == Init /\ [][Next]_vars
=============================================================================

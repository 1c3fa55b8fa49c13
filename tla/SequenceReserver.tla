-------------------------- MODULE SequenceReserver --------------------------
(***************************************************************************)
(* The library's SequenceReserver used as its docstrings ask: persist      *)
(* records the mark durably before it returns, and a later process resumes *)
(* from the recorded mark.  A process may die between any two calls; what  *)
(* it had in memory is gone and the next one starts from durable.  Numbers *)
(* have no bound: MeshSequenceProofs, which has this module in scope as    *)
(* well as MeshSequence, proves what it promises, and no run checks it.    *)
(***************************************************************************)
EXTENDS SequenceBlocks

VARIABLES
  live,       \* the live SequenceReserver
  durable,    \* the last mark persist recorded
  spent       \* every number taken or observed, by this process or a dead one

ReserverVars == <<live, durable, spent>>

ReserverTypeOK == live \in Reserver /\ durable \in Nat /\ spent \subseteq Nat

ReserverInit == \E start \in Nat :
                  live = NewReserver(start) /\ durable = start /\ spent = {}

\* Adopt the reserver r; a mark that moved has been through persist.
Update(r) == /\ live' = r
             /\ durable' = IF r.mark = live.mark THEN durable ELSE r.mark

Take == /\ Update(Taken(live))
        /\ spent' = spent \cup {live.next}

Observe(used) == /\ Update(Observed(live, used))
                 /\ spent' = spent \cup {used}

\* A new process over the same storage.
Restart == /\ live' = NewReserver(durable)
           /\ UNCHANGED <<durable, spent>>

ReserverNext == \/ Take
                \/ \E used \in Nat : Observe(used)
                \/ Restart

ReserverSpec == ReserverInit /\ [][ReserverNext]_ReserverVars

-----------------------------------------------------------------------------
\* take() promises "a sequence number that no previous process can have used":
\* what it would hand out next lies above every number spent so far, whichever
\* process spent it and whether it was taken or observed.
NextUnspent == \A n \in spent : n < live.next

\* test_sequence.py, "the observed counter is always covered by the persisted
\* mark": a process that dies now leaves a mark above everything spent.
SpentIsCovered == \A n \in spent : n < durable
=============================================================================

---------------------------- MODULE MeshSequence ----------------------------
(***************************************************************************)
(* The life of the one sequence counter of a mesh network: the controller  *)
(* that stamps PDUs with it, the reserver that decides when a mark must be *)
(* stored, the GodoxSequenceStore with Home Assistant's delayed write, the *)
(* disk, and the nodes' replay protection list.                            *)
(*                                                                         *)
(* The link's lock admits one operation at a time (MeshLink models it), so *)
(* op is the progress of the only writer.  A write is not atomic: the      *)
(* bytes may be on air while write_proxy has not returned, and the counter *)
(* moves only after it returns.                                            *)
(***************************************************************************)
EXTENDS SequenceBlocks

CONSTANTS
  SeqLimit,   \* numbers below it fit the PDU's 24-bit field
  Fallback    \* sequence number recorded in the config entry

ASSUME SequenceAssumption == SeqLimit \in Nat /\ Fallback \in Nat

NoWrite == -1   \* no delayed save is pending

VARIABLES
  phase,      \* "stopped", "up", or "closing" (shut down, not yet flushed)
  op,         \* "idle", "writing", "transmitted" (bytes out, write not returned), "binding"
  counter,    \* controller.state.sequence_number
  reserver,   \* the link's SequenceReserver
  session,    \* a ConfigSession's own counter and how many PDUs it packed
  cached,     \* store._sequence_number
  pending,    \* the mark the delayed save will write, or NoWrite
  disk,       \* the stored mark, 0 when there is none
  rpl,        \* lowest number the nodes still accept
  replayed,   \* a number below rpl went on air
  faults      \* what has happened that could make the source lose count

memory == <<counter, reserver, session, cached>>
air    == <<rpl, replayed>>
vars   == <<phase, op, memory, pending, disk, air, faults>>

Fault == {"write", "bind", "lostsave", "inflight", "remove"}

TypeOK == /\ phase \in {"stopped", "up", "closing"}
          /\ op \in {"idle", "writing", "transmitted", "binding"}
          /\ counter \in Nat
          /\ reserver \in Reserver
          /\ session \in [seq : Nat, sent : 0 .. 2]
          /\ cached \in Nat
          /\ pending \in Nat \cup {NoWrite}
          /\ disk \in Nat
          /\ rpl \in Nat
          /\ replayed \in BOOLEAN
          /\ faults \subseteq Fault

\* Where a process started now would resume: max(stored or 0, fallback).
RestartPoint == Larger(disk, Fallback)

\* The first number that the operation in progress has not packed.
Frontier == CASE op = "transmitted" -> counter + 1
              [] op = "binding"     -> session.seq
              [] OTHER              -> counter

\* What the death of the process leaves unaccounted for: a mark that was still
\* waiting to be saved, or a number in flight at or above the reserved mark.
LostByCrash == {f \in {"lostsave"} : pending # NoWrite}
                 \cup {f \in {"inflight"} : Frontier > reserver.mark}

-----------------------------------------------------------------------------
\* The PDU stamped n goes on air.
Hear(n) == /\ rpl' = Larger(rpl, n + 1)
           /\ replayed' = IF n < rpl THEN TRUE ELSE replayed

\* Mutant: the persist callback stores the mark being left behind.
ObserveUseStale(used) ==
  LET r == Observed(reserver, used) IN
  /\ reserver' = r
  /\ IF r.mark # reserver.mark
     THEN cached' = reserver.mark /\ pending' = reserver.mark
     ELSE UNCHANGED <<cached, pending>>

\* reserver.observe(used), with its persist callback async_set_sequence_number.
ObserveUse(used) ==
  LET r == Observed(reserver, used) IN
  /\ reserver' = r
  /\ IF r.mark # reserver.mark
     THEN cached' = r.mark /\ pending' = r.mark
     ELSE UNCHANGED <<cached, pending>>

Init == /\ phase = "stopped" /\ op = "idle"
        /\ counter = 0 /\ reserver = NewReserver(0)
        /\ session = [seq |-> 0, sent |-> 0]
        /\ cached = 0 /\ pending = NoWrite /\ disk = 0
        /\ rpl = 0 /\ replayed = FALSE
        /\ faults = {}

\* async_setup_entry: load the mark, build the link around it.
Start == /\ phase = "stopped"
         /\ phase' = "up"
         /\ counter' = RestartPoint
         /\ reserver' = NewReserver(RestartPoint)
         /\ cached' = RestartPoint
         /\ UNCHANGED <<op, session, pending, disk, air, faults>>

-----------------------------------------------------------------------------
\* A command or a proxy configuration PDU, stamped with the counter.  A number
\* that does not fit makes pack_proxy_network_pdu raise before anything moves.
BeginWrite == /\ phase = "up" /\ op = "idle"
              /\ counter < SeqLimit
              /\ op' = "writing"
              /\ UNCHANGED <<phase, memory, pending, disk, air, faults>>

Transmit == /\ op = "writing"
            /\ Hear(counter)
            /\ op' = "transmitted"
            /\ UNCHANGED <<phase, memory, pending, disk, faults>>

\* write_proxy returned: _advance_state moves the counter and tells the
\* reserver about it.  The write has no GATT response, so it also returns when
\* the bytes never made it onto the air.
WriteReturns == /\ op \in {"writing", "transmitted"}
                /\ counter' = counter + 1
                /\ ObserveUse(counter + 1)
                /\ op' = "idle"
                /\ UNCHANGED <<phase, session, disk, air, faults>>

\* write_proxy raised or was cancelled: the counter stays where it was.
WriteRaises == /\ op \in {"writing", "transmitted"}
               /\ faults' = IF op = "transmitted" THEN faults \cup {"write"} ELSE faults
               /\ op' = "idle"
               /\ UNCHANGED <<phase, memory, pending, disk, air>>

-----------------------------------------------------------------------------
\* async_provision_node's ConfigSession runs on a copy of the state.
BeginBind == /\ phase = "up" /\ op = "idle"
             /\ session' = [seq |-> counter, sent |-> 0]
             /\ op' = "binding"
             /\ UNCHANGED <<phase, counter, reserver, cached, pending, disk, air, faults>>

\* AppKeyAdd, then ModelAppBind: the session's counter moves before the write.
BindSend == /\ op = "binding" /\ session.sent < 2
            /\ session.seq < SeqLimit
            /\ session' = [seq |-> session.seq + 1, sent |-> session.sent + 1]
            /\ Hear(session.seq) \/ UNCHANGED air
            /\ UNCHANGED <<phase, op, counter, reserver, cached, pending, disk, faults>>

\* Mutants: the final state is dropped; it is adopted without the reserver.
BindDoneForgets == /\ op = "binding" /\ session.sent = 2
                   /\ op' = "idle"
                   /\ UNCHANGED <<phase, memory, pending, disk, air, faults>>

\* _adopt_sequence(final.sequence_number)
BindDone == /\ op = "binding" /\ session.sent = 2
            /\ IF session.seq <= counter
               THEN UNCHANGED <<counter, reserver, cached, pending>>
               ELSE counter' = session.seq /\ ObserveUse(session.seq - 1)
            /\ op' = "idle"
            /\ UNCHANGED <<phase, session, disk, air, faults>>

\* Any await of the session may raise; the numbers it used are not adopted.
BindRaises == /\ op = "binding"
              /\ faults' = IF session.sent > 0 THEN faults \cup {"bind"} ELSE faults
              /\ op' = "idle"
              /\ UNCHANGED <<phase, memory, pending, disk, air>>

-----------------------------------------------------------------------------
\* Home Assistant's Store performs the coalesced write.
DelayedSave == /\ pending # NoWrite
               /\ disk' = pending
               /\ pending' = NoWrite
               /\ UNCHANGED <<phase, op, memory, air, faults>>

\* async_shutdown takes the lock, so no operation is in progress, and no later
\* one gets past the shutdown check; the flush follows outside the lock.
Shutdown == /\ phase = "up" /\ op = "idle"
            /\ phase' = "closing"
            /\ UNCHANGED <<op, memory, pending, disk, air, faults>>

\* Mutant: the running counter is flushed instead of the reserved mark.
FlushCounter == /\ phase = "closing"
                /\ disk' = counter
                /\ pending' = NoWrite
                /\ phase' = "stopped"
                /\ UNCHANGED <<op, memory, air, faults>>

Flush == /\ phase = "closing"
         /\ disk' = cached
         /\ pending' = NoWrite
         /\ phase' = "stopped"
         /\ UNCHANGED <<op, memory, air, faults>>

\* The process dies: memory and any pending save are gone.
Crash == /\ phase # "stopped"
         /\ faults' = faults \cup LostByCrash
         /\ phase' = "stopped" /\ op' = "idle"
         /\ pending' = NoWrite
         /\ UNCHANGED <<memory, disk, air>>

\* async_remove_entry deletes the stored mark; the same mesh may be added again.
Remove == /\ phase = "stopped"
          /\ disk' = 0
          /\ faults' = faults \cup {"remove"}
          /\ UNCHANGED <<phase, op, memory, pending, air>>

Next == \/ Start
        \/ BeginWrite \/ Transmit \/ WriteReturns \/ WriteRaises
        \/ BeginBind \/ BindSend \/ BindDone \/ BindRaises
        \/ DelayedSave \/ Shutdown \/ Flush
        \/ Crash \/ Remove

Spec == Init /\ [][Next]_vars

-----------------------------------------------------------------------------
\* mesh.py, "Sequence numbers never repeat", with the exact price: a number
\* that the nodes have seen goes on air again only after a write or a bind
\* session that raised with its bytes already out, a death that lost a pending
\* save or a number in flight beyond the mark, or a removal of the entry.
ReplayNeedsFault == replayed => faults # {}

\* The stored mark trails the reserved one only while a save is pending, and
\* that save is for the reserved mark: a coalesced or a flushed write never
\* stores anything older.
StoreTracksMark ==
  phase # "stopped" =>
    /\ cached = reserver.mark
    /\ IF pending = NoWrite THEN RestartPoint = reserver.mark
                            ELSE pending = reserver.mark /\ pending > RestartPoint

\* Between operations the counter never runs past the reserved mark, however
\* the numbers were used up: by commands, by lost writes or by bind sessions.
CounterWithinBlock == phase # "stopped" => counter <= reserver.mark

\* Storage only moves forward, whatever the order of saves, flushes, deaths
\* and restarts; only removing the entry forgets it.
DiskNeverRegresses == [][disk' >= disk \/ Remove]_disk

\* The counter's owner is, as long as nothing in faults has happened, a source
\* the nodes never have to protect themselves from.
Mesh == INSTANCE ReplayProtection WITH trusted <- (faults = {})
NodesAcceptEverything == Mesh!Spec

=============================================================================

------------------------- MODULE MeshSequenceProofs -------------------------
(***************************************************************************)
(* The arithmetic of reserved blocks, the promises of a SequenceReserver   *)
(* used by itself, and type correctness and the accounting of the mesh's   *)
(* sequence counter, for every block size, number width and starting       *)
(* point.                                                                  *)
(***************************************************************************)
EXTENDS MeshSequence, SequenceReserver, TLAPS

-----------------------------------------------------------------------------
(* What a SequenceReserver guarantees after one call. *)

\* _reserve always claims past the number that triggered it.
LEMMA BlockEndAbove ==
  ASSUME NEW floor \in Nat
  PROVE  BlockEnd(floor) \in Nat /\ BlockEnd(floor) > floor
<1>1. BlockSize \in Nat /\ BlockSize > 0
  BY BlockSizeAssumption
<1>2. /\ floor \div BlockSize \in Int
      /\ floor % BlockSize \in 0 .. BlockSize - 1
      /\ floor = BlockSize * (floor \div BlockSize) + (floor % BlockSize)
  BY <1>1
<1>3. BlockEnd(floor) = BlockSize * (floor \div BlockSize) + BlockSize
  BY <1>1, <1>2 DEF BlockEnd
<1>. QED
  BY <1>1, <1>2, <1>3

\* After observe(used) the mark and the next number lie above used, and neither
\* has moved back.
LEMMA ObservedAhead ==
  ASSUME NEW r \in Reserver, NEW used \in Nat
  PROVE  /\ Observed(r, used) \in Reserver
         /\ Observed(r, used).mark > used
         /\ Observed(r, used).mark >= r.mark
         /\ Observed(r, used).next > used
         /\ Observed(r, used).next >= r.next
  BY BlockEndAbove DEF Observed, Reserver, Larger

\* After take() the mark covers the number handed out.
LEMMA TakenAhead ==
  ASSUME NEW r \in Reserver
  PROVE  /\ Taken(r) \in Reserver
         /\ Taken(r).mark > r.next
         /\ Taken(r).mark >= r.mark
         /\ Taken(r).next = r.next + 1
  BY BlockEndAbove DEF Taken, Reserver

-----------------------------------------------------------------------------
(* SequenceReserver. *)

\* The mark in memory is the mark on disk, so what the properties say of one
\* survives the loss of the other.
LiveInv == /\ ReserverTypeOK
           /\ durable = live.mark
           /\ NextUnspent
           /\ SpentIsCovered

LEMMA ReserverStarts == ReserverInit => LiveInv
  BY DEF ReserverInit, LiveInv, ReserverTypeOK, Reserver, NewReserver, NextUnspent, SpentIsCovered

LEMMA TakeKeepsLiveInv ==
  ASSUME LiveInv, Take
  PROVE  LiveInv'
<1>. USE DEF LiveInv, ReserverTypeOK
<1>. DEFINE r == Taken(live)
<1>1. /\ r \in Reserver
      /\ r.mark > live.next
      /\ r.mark >= live.mark
      /\ r.next = live.next + 1
  BY TakenAhead
<1>2. live' = r /\ durable' = r.mark /\ spent' = spent \cup {live.next}
  BY DEF Take, Update
<1>3. live.next \in Nat /\ live.mark \in Nat /\ r.mark \in Nat
  BY <1>1 DEF Reserver
<1>4. NextUnspent' /\ SpentIsCovered'
  BY <1>1, <1>2, <1>3 DEF NextUnspent, SpentIsCovered
<1>. QED
  BY <1>1, <1>2, <1>3, <1>4

LEMMA ObserveKeepsLiveInv ==
  ASSUME LiveInv, NEW used \in Nat, Observe(used)
  PROVE  LiveInv'
<1>. USE DEF LiveInv, ReserverTypeOK
<1>. DEFINE r == Observed(live, used)
<1>0. used \in Nat
  OBVIOUS
<1>1. /\ r \in Reserver
      /\ r.mark > used
      /\ r.mark >= live.mark
      /\ r.next > used
      /\ r.next >= live.next
  BY <1>0, ObservedAhead
<1>2. live' = r /\ durable' = r.mark /\ spent' = spent \cup {used}
  BY DEF Observe, Update
<1>3. /\ live.next \in Nat /\ live.mark \in Nat
      /\ r.mark \in Nat /\ r.next \in Nat
  BY <1>1 DEF Reserver
<1>4. NextUnspent' /\ SpentIsCovered'
  BY <1>0, <1>1, <1>2, <1>3 DEF NextUnspent, SpentIsCovered
<1>. QED
  BY <1>0, <1>1, <1>2, <1>3, <1>4

LEMMA RestartKeepsLiveInv ==
  ASSUME LiveInv, Restart
  PROVE  LiveInv'
  BY DEF LiveInv, ReserverTypeOK, Restart, NewReserver, Reserver, NextUnspent, SpentIsCovered

\* sequence.py, for every block size: what take() hands out has not been spent
\* by any process, and a restart resumes above everything spent.
THEOREM ReserverNeverReissues == ReserverSpec => [](NextUnspent /\ SpentIsCovered)
<1>1. LiveInv /\ [ReserverNext]_ReserverVars => LiveInv'
  <2>. SUFFICES ASSUME LiveInv, [ReserverNext]_ReserverVars PROVE LiveInv'
    OBVIOUS
  <2>1. CASE Take
    BY <2>1, TakeKeepsLiveInv
  <2>2. ASSUME NEW used \in Nat, Observe(used) PROVE LiveInv'
    BY <2>2, ObserveKeepsLiveInv
  <2>3. CASE Restart
    BY <2>3, RestartKeepsLiveInv
  <2>4. CASE UNCHANGED ReserverVars
    BY <2>4 DEF ReserverVars, LiveInv, ReserverTypeOK, NextUnspent, SpentIsCovered
  <2>. QED
    BY <2>1, <2>2, <2>3, <2>4 DEF ReserverNext
<1>2. LiveInv => NextUnspent /\ SpentIsCovered
  BY DEF LiveInv
<1>. QED
  BY ReserverStarts, <1>1, <1>2, PTL DEF ReserverSpec

\* Whatever was handed out before a death lies below the stored mark, which is
\* where the next process starts, for every block size.
THEOREM SpentStaysBelowTheMark == ReserverSpec => []SpentIsCovered
  BY ReserverNeverReissues, PTL

-----------------------------------------------------------------------------
(* MeshSequence. *)

\* The writer only works while the link is up, and a bind session's counter is
\* as far ahead of the controller's as it has packed PDUs.
Discipline == /\ op # "idle" => phase = "up"
              /\ phase = "stopped" => pending = NoWrite
              /\ op = "binding" => session.seq = counter + session.sent

\* As long as nothing was lost track of, the nodes' lists lie at or below the
\* next number this process will use, or the number the next one resumes from.
Accounted == faults = {} =>
               /\ ~replayed
               /\ rpl <= IF phase = "stopped" THEN RestartPoint ELSE Frontier

IInv == /\ TypeOK
        /\ Discipline
        /\ StoreTracksMark
        /\ CounterWithinBlock
        /\ Accounted

LEMMA RestartPointNat == TypeOK => /\ RestartPoint \in Nat
                                   /\ RestartPoint >= disk
                                   /\ RestartPoint >= Fallback
  BY SequenceAssumption DEF TypeOK, RestartPoint, Larger

LEMMA InitIInv == Init => IInv
<1>. SUFFICES ASSUME Init PROVE IInv
  OBVIOUS
<1>1. TypeOK
  <2>1. session \in [seq : Nat, sent : 0 .. 2] /\ reserver \in Reserver
    BY DEF Init, Reserver, NewReserver
  <2>2. replayed \in BOOLEAN
    BY DEF Init
  <2>. QED
    BY <2>1, <2>2 DEF Init, TypeOK
<1>2. Discipline /\ StoreTracksMark /\ CounterWithinBlock
  BY DEF Init, Discipline, StoreTracksMark, CounterWithinBlock
<1>3. rpl <= RestartPoint
  BY <1>1, RestartPointNat DEF Init
<1>4. Accounted
  BY <1>3 DEF Init, Accounted
<1>. QED
  BY <1>1, <1>2, <1>4 DEF IInv

\* observe, seen from the link: the mark ends above the number, a mark that
\* moved is cached and waits to be saved.
LEMMA ObserveUseAhead ==
  ASSUME TypeOK, NEW used \in Nat, ObserveUse(used)
  PROVE  /\ reserver' \in Reserver
         /\ reserver'.mark > used
         /\ reserver'.mark >= reserver.mark
         /\ \/ reserver'.mark = reserver.mark /\ UNCHANGED <<cached, pending>>
            \/ /\ reserver'.mark > reserver.mark
               /\ cached' = reserver'.mark
               /\ pending' = reserver'.mark
<1>1. reserver \in Reserver
  BY DEF TypeOK
<1>2. /\ Observed(reserver, used) \in Reserver
      /\ Observed(reserver, used).mark > used
      /\ Observed(reserver, used).mark >= reserver.mark
  BY <1>1, ObservedAhead
<1>3. reserver' = Observed(reserver, used)
  BY DEF ObserveUse
<1>. QED
  BY <1>1, <1>2, <1>3 DEF ObserveUse, Reserver

\* A number at or above every list goes on air without a replay.
LEMMA HearFresh ==
  ASSUME TypeOK, NEW n \in Nat, Hear(n)
  PROVE  /\ rpl' \in Nat
         /\ replayed' \in BOOLEAN
         /\ n >= rpl => rpl' = n + 1 /\ replayed' = replayed
<1>1. rpl' \in Nat /\ (n >= rpl => rpl' = n + 1)
  BY DEF TypeOK, Hear, Larger
<1>2. replayed' \in BOOLEAN
  <2>1. CASE n < rpl
    BY <2>1 DEF Hear
  <2>2. CASE ~(n < rpl)
    BY <2>2 DEF TypeOK, Hear
  <2>. QED
    BY <2>1, <2>2
<1>3. ASSUME n >= rpl PROVE replayed' = replayed
  <2>1. ~(n < rpl)
    BY <1>3 DEF TypeOK
  <2>. QED
    BY <2>1 DEF Hear
<1>. QED
  BY <1>1, <1>2, <1>3

LEMMA StartKeepsIInv ==
  ASSUME IInv, Start
  PROVE  IInv'
  BY RestartPointNat, SequenceAssumption
  DEF Start, air, IInv, TypeOK, Discipline, StoreTracksMark, CounterWithinBlock,
      Accounted, RestartPoint, Frontier, Reserver, NewReserver, NoWrite

LEMMA BeginWriteKeepsIInv ==
  ASSUME IInv, BeginWrite
  PROVE  IInv'
  BY DEF BeginWrite, memory, air, IInv, TypeOK, Discipline, StoreTracksMark,
         CounterWithinBlock, Accounted, RestartPoint, Frontier

LEMMA TransmitKeepsIInv ==
  ASSUME IInv, Transmit
  PROVE  IInv'
<1>1. /\ rpl' \in Nat /\ replayed' \in BOOLEAN
      /\ counter >= rpl => rpl' = counter + 1 /\ replayed' = replayed
  BY HearFresh DEF Transmit, IInv, TypeOK
<1>2. TypeOK'
  BY <1>1 DEF Transmit, memory, IInv, TypeOK
<1>3. Discipline' /\ StoreTracksMark' /\ CounterWithinBlock'
  BY DEF Transmit, memory, IInv, Discipline, StoreTracksMark,
         CounterWithinBlock, RestartPoint
<1>4. Accounted'
  <2>. SUFFICES ASSUME faults' = {}
                PROVE  ~replayed' /\ rpl' <= counter' + 1
    BY DEF Transmit, memory, IInv, Discipline, Accounted, Frontier
  <2>1. ~replayed /\ rpl <= counter
    BY DEF Transmit, IInv, Discipline, Accounted, Frontier
  <2>. QED
    BY <1>1, <2>1 DEF Transmit, memory, IInv, TypeOK
<1>. QED
  BY <1>2, <1>3, <1>4 DEF IInv

LEMMA WriteReturnsKeepsIInv ==
  ASSUME IInv, WriteReturns
  PROVE  IInv'
<1>1. counter + 1 \in Nat /\ reserver.mark \in Nat
  BY DEF IInv, TypeOK, Reserver
<1>2. ObserveUse(counter + 1)
  BY DEF WriteReturns
<1>3. /\ reserver' \in Reserver
      /\ reserver'.mark > counter + 1
      /\ reserver'.mark >= reserver.mark
      /\ \/ reserver'.mark = reserver.mark /\ UNCHANGED <<cached, pending>>
         \/ /\ reserver'.mark > reserver.mark
            /\ cached' = reserver'.mark
            /\ pending' = reserver'.mark
  BY <1>1, <1>2, ObserveUseAhead DEF IInv
<1>4. reserver'.mark \in Nat
  BY <1>3 DEF Reserver
<1>5. phase = "up" /\ counter' = counter + 1 /\ op' = "idle" /\ op \in {"writing", "transmitted"}
      /\ UNCHANGED <<phase, session, disk, rpl, replayed, faults>>
  BY DEF WriteReturns, air, IInv, Discipline
<1>6. TypeOK' /\ Discipline' /\ CounterWithinBlock'
  BY <1>1, <1>3, <1>4, <1>5 DEF IInv, TypeOK, Discipline, CounterWithinBlock
<1>7. StoreTracksMark'
  BY <1>1, <1>3, <1>4, <1>5, RestartPointNat
  DEF IInv, StoreTracksMark, RestartPoint, NoWrite
<1>8. Accounted'
  BY <1>1, <1>5 DEF IInv, TypeOK, Accounted, Frontier
<1>. QED
  BY <1>6, <1>7, <1>8 DEF IInv

LEMMA WriteRaisesKeepsIInv ==
  ASSUME IInv, WriteRaises
  PROVE  IInv'
  BY DEF WriteRaises, memory, air, IInv, TypeOK, Discipline, StoreTracksMark,
         CounterWithinBlock, Accounted, RestartPoint, Frontier, Fault

LEMMA BeginBindKeepsIInv ==
  ASSUME IInv, BeginBind
  PROVE  IInv'
  BY DEF BeginBind, air, IInv, TypeOK, Discipline, StoreTracksMark,
         CounterWithinBlock, Accounted, RestartPoint, Frontier

LEMMA BindSendKeepsIInv ==
  ASSUME IInv, BindSend
  PROVE  IInv'
<1>1. TypeOK'
  <2>1. session' \in [seq : Nat, sent : 0 .. 2]
    BY DEF BindSend, IInv, TypeOK
  <2>2. rpl' \in Nat /\ replayed' \in BOOLEAN
    <3>1. CASE Hear(session.seq)
      BY <3>1, HearFresh DEF IInv, TypeOK
    <3>2. CASE UNCHANGED air
      BY <3>2 DEF air, IInv, TypeOK
    <3>. QED
      BY <3>1, <3>2 DEF BindSend
  <2>. QED
    BY <2>1, <2>2 DEF BindSend, IInv, TypeOK
<1>2. Discipline' /\ StoreTracksMark' /\ CounterWithinBlock'
  BY DEF BindSend, IInv, TypeOK, Discipline, StoreTracksMark,
         CounterWithinBlock, RestartPoint
<1>3. Accounted'
  <2>. SUFFICES ASSUME faults' = {}
                PROVE  ~replayed' /\ rpl' <= session'.seq
    BY DEF BindSend, IInv, Discipline, Accounted, Frontier
  <2>1. ~replayed /\ rpl <= session.seq
    BY DEF BindSend, IInv, Discipline, Accounted, Frontier
  <2>2. session'.seq = session.seq + 1 /\ session.seq \in Nat /\ rpl \in Nat
    BY DEF BindSend, IInv, TypeOK
  <2>3. CASE Hear(session.seq)
    BY <2>1, <2>2, <2>3, HearFresh DEF IInv
  <2>4. CASE UNCHANGED air
    BY <2>1, <2>2, <2>4 DEF air
  <2>. QED
    BY <2>3, <2>4 DEF BindSend
<1>. QED
  BY <1>1, <1>2, <1>3 DEF IInv

LEMMA BindDoneKeepsIInv ==
  ASSUME IInv, BindDone
  PROVE  IInv'
<1>1. /\ counter \in Nat /\ reserver.mark \in Nat
      /\ session.seq \in Nat /\ session.seq = counter + 2
  BY DEF BindDone, IInv, TypeOK, Reserver, Discipline
<1>2. /\ ObserveUse(session.seq - 1)
      /\ counter' = session.seq
      /\ op = "binding" /\ op' = "idle" /\ phase = "up"
      /\ UNCHANGED <<phase, session, disk, rpl, replayed, faults>>
  BY <1>1 DEF BindDone, air, IInv, Discipline
<1>3. /\ reserver' \in Reserver
      /\ reserver'.mark > session.seq - 1
      /\ reserver'.mark >= reserver.mark
      /\ \/ reserver'.mark = reserver.mark /\ UNCHANGED <<cached, pending>>
         \/ /\ reserver'.mark > reserver.mark
            /\ cached' = reserver'.mark
            /\ pending' = reserver'.mark
  <2>1. session.seq - 1 \in Nat
    BY <1>1
  <2>. QED
    BY <1>2, <2>1, ObserveUseAhead DEF IInv
<1>4. reserver'.mark \in Nat
  BY <1>3 DEF Reserver
<1>5. TypeOK' /\ Discipline' /\ CounterWithinBlock'
  BY <1>1, <1>2, <1>3, <1>4 DEF IInv, TypeOK, Discipline, CounterWithinBlock
<1>6. StoreTracksMark'
  BY <1>1, <1>2, <1>3, <1>4, RestartPointNat
  DEF IInv, StoreTracksMark, RestartPoint, NoWrite
<1>7. Accounted'
  BY <1>1, <1>2 DEF IInv, TypeOK, Accounted, Frontier
<1>. QED
  BY <1>5, <1>6, <1>7 DEF IInv

LEMMA BindRaisesKeepsIInv ==
  ASSUME IInv, BindRaises
  PROVE  IInv'
  BY DEF BindRaises, memory, air, IInv, TypeOK, Discipline, StoreTracksMark,
         CounterWithinBlock, Accounted, RestartPoint, Frontier, Fault

LEMMA DelayedSaveKeepsIInv ==
  ASSUME IInv, DelayedSave
  PROVE  IInv'
  BY SequenceAssumption
  DEF DelayedSave, memory, air, IInv, TypeOK, Discipline, StoreTracksMark, Reserver,
      CounterWithinBlock, Accounted, RestartPoint, Frontier, Larger, NoWrite

LEMMA ShutdownKeepsIInv ==
  ASSUME IInv, Shutdown
  PROVE  IInv'
  BY DEF Shutdown, memory, air, IInv, TypeOK, Discipline, StoreTracksMark,
         CounterWithinBlock, Accounted, RestartPoint, Frontier

\* The flush runs with nothing in flight, so the cached mark is at or above
\* every number the nodes have seen.
LEMMA FlushKeepsIInv ==
  ASSUME IInv, Flush
  PROVE  IInv'
  BY SequenceAssumption
  DEF Flush, memory, air, IInv, TypeOK, Discipline, StoreTracksMark, Reserver,
      CounterWithinBlock, Accounted, RestartPoint, Frontier, Larger, NoWrite

LEMMA CrashKeepsIInv ==
  ASSUME IInv, Crash
  PROVE  IInv'
<1>1. TypeOK' /\ Discipline' /\ StoreTracksMark' /\ CounterWithinBlock'
  BY DEF Crash, LostByCrash, memory, air, IInv, TypeOK, Discipline,
         StoreTracksMark, CounterWithinBlock, RestartPoint, Fault, NoWrite
<1>2. Accounted'
  <2>. SUFFICES ASSUME faults' = {}
                PROVE  ~replayed' /\ rpl' <= RestartPoint'
    BY DEF Crash, Accounted
  <2>1. /\ faults = {} /\ pending = NoWrite /\ ~(Frontier > reserver.mark)
        /\ phase # "stopped"
        /\ UNCHANGED <<rpl, replayed, disk>>
    BY DEF Crash, LostByCrash, air
  <2>2. rpl <= Frontier /\ ~replayed /\ RestartPoint = reserver.mark
    BY <2>1 DEF IInv, Accounted, StoreTracksMark
  <2>3. Frontier \in Int /\ reserver.mark \in Int /\ rpl \in Int
    BY DEF IInv, TypeOK, Reserver, Frontier
  <2>4. rpl <= RestartPoint
    BY <2>1, <2>2, <2>3
  <2>. QED
    BY <2>1, <2>2, <2>4 DEF RestartPoint
<1>. QED
  BY <1>1, <1>2 DEF IInv

LEMMA RemoveKeepsIInv ==
  ASSUME IInv, Remove
  PROVE  IInv'
  BY DEF Remove, memory, air, IInv, TypeOK, Discipline, StoreTracksMark,
         CounterWithinBlock, Accounted, Fault

LEMMA NextKeepsIInv == IInv /\ [Next]_vars => IInv'
<1>. SUFFICES ASSUME IInv, [Next]_vars PROVE IInv'
  OBVIOUS
<1>1. CASE Start
  BY <1>1, StartKeepsIInv
<1>2. CASE BeginWrite
  BY <1>2, BeginWriteKeepsIInv
<1>3. CASE Transmit
  BY <1>3, TransmitKeepsIInv
<1>4. CASE WriteReturns
  BY <1>4, WriteReturnsKeepsIInv
<1>5. CASE WriteRaises
  BY <1>5, WriteRaisesKeepsIInv
<1>6. CASE BeginBind
  BY <1>6, BeginBindKeepsIInv
<1>7. CASE BindSend
  BY <1>7, BindSendKeepsIInv
<1>8. CASE BindDone
  BY <1>8, BindDoneKeepsIInv
<1>9. CASE BindRaises
  BY <1>9, BindRaisesKeepsIInv
<1>10. CASE DelayedSave
  BY <1>10, DelayedSaveKeepsIInv
<1>11. CASE Shutdown
  BY <1>11, ShutdownKeepsIInv
<1>12. CASE Flush
  BY <1>12, FlushKeepsIInv
<1>13. CASE Crash
  BY <1>13, CrashKeepsIInv
<1>14. CASE Remove
  BY <1>14, RemoveKeepsIInv
<1>15. CASE UNCHANGED vars
  BY <1>15 DEF vars, memory, air, IInv, TypeOK, Discipline, StoreTracksMark,
               CounterWithinBlock, Accounted, RestartPoint, Frontier
<1>. QED
  BY <1>1, <1>2, <1>3, <1>4, <1>5, <1>6, <1>7, <1>8, <1>9, <1>10, <1>11,
     <1>12, <1>13, <1>14, <1>15 DEF Next

LEMMA InvariantIInv == Spec => []IInv
  BY InitIInv, NextKeepsIInv, PTL DEF Spec

-----------------------------------------------------------------------------
\* Every variable of the link, the store and the nodes keeps its type.
THEOREM TypeCorrect == Spec => []TypeOK
<1>1. IInv => TypeOK
  BY DEF IInv
<1>. QED
  BY InvariantIInv, <1>1, PTL

\* No number the nodes have seen goes on air again unless one of the named
\* faults has happened, for every block size and every starting number.
THEOREM ReplayNeedsAFault == Spec => []ReplayNeedsFault
<1>1. IInv => ReplayNeedsFault
  BY DEF IInv, Accounted, ReplayNeedsFault
<1>. QED
  BY InvariantIInv, <1>1, PTL

\* The disk, the pending save and the reserved mark agree in every order of
\* saves, flushes, deaths and restarts, and the counter stays within its block.
THEOREM MarksAgree == Spec => [](StoreTracksMark /\ CounterWithinBlock)
<1>1. IInv => StoreTracksMark /\ CounterWithinBlock
  BY DEF IInv
<1>. QED
  BY InvariantIInv, <1>1, PTL
-----------------------------------------------------------------------------
\* A step that puts nothing on air can at most lose the nodes' trust.
LEMMA SilentStep ==
  ASSUME UNCHANGED air, faults \subseteq faults'
  PROVE  [Mesh!Next]_(Mesh!vars)
<1>1. rpl' = rpl /\ replayed' = replayed
  BY DEF air
<1>2. CASE faults' = {}
  <2>1. faults = {}
    BY <1>2
  <2>. QED
    BY <1>1, <1>2, <2>1 DEF Mesh!vars
<1>3. CASE faults' # {}
  BY <1>1, <1>3 DEF Mesh!Next, Mesh!LoseTrack
<1>. QED
  BY <1>2, <1>3

\* A PDU is accepted by every node, unless trust was lost before.
LEMMA AirStep ==
  ASSUME TypeOK, NEW n \in Nat, Hear(n), UNCHANGED faults,
         faults = {} => n >= rpl
  PROVE  [Mesh!Next]_(Mesh!vars)
<1>1. rpl \in Nat
  BY DEF TypeOK
<1>2. CASE n >= rpl
  <2>1. rpl' = n + 1 /\ replayed' = replayed
    BY <1>2, HearFresh
  <2>2. rpl' \in Nat /\ rpl' > rpl
    BY <1>1, <1>2, <2>1
  <2>. QED
    BY <2>1, <2>2 DEF Mesh!Next, Mesh!Accept
<1>3. CASE ~(n >= rpl)
  <2>1. n < rpl /\ faults # {}
    BY <1>1, <1>3
  <2>2. rpl' = rpl
    BY <1>1, <2>1 DEF Hear, Larger
  <2>3. replayed' = TRUE
    BY <2>1 DEF Hear
  <2>. QED
    BY <2>1, <2>2, <2>3 DEF Mesh!Next, Mesh!Replay
<1>. QED
  BY <1>2, <1>3

LEMMA StepSimulation == IInv /\ [Next]_vars => [Mesh!Next]_(Mesh!vars)
<1>. SUFFICES ASSUME IInv, [Next]_vars PROVE [Mesh!Next]_(Mesh!vars)
  OBVIOUS
<1>1. CASE Transmit
  <2>1. counter \in Nat /\ (faults = {} => counter >= rpl)
    BY <1>1 DEF Transmit, IInv, TypeOK, Discipline, Accounted, Frontier
  <2>. QED
    BY <1>1, <2>1, AirStep DEF Transmit, IInv
<1>2. CASE BindSend
  <2>1. session.seq \in Nat /\ (faults = {} => session.seq >= rpl)
    BY <1>2 DEF BindSend, IInv, TypeOK, Discipline, Accounted, Frontier
  <2>2. CASE Hear(session.seq)
    BY <1>2, <2>1, <2>2, AirStep DEF BindSend, IInv
  <2>3. CASE UNCHANGED air
    BY <1>2, <2>3, SilentStep DEF BindSend
  <2>. QED
    BY <1>2, <2>2, <2>3 DEF BindSend
<1>3. ASSUME \/ Start \/ BeginWrite \/ WriteReturns \/ WriteRaises
             \/ BeginBind \/ BindDone \/ BindRaises
             \/ DelayedSave \/ Shutdown \/ Flush \/ Crash \/ Remove
             \/ UNCHANGED vars
      PROVE  [Mesh!Next]_(Mesh!vars)
  <2>1. UNCHANGED air /\ faults \subseteq faults'
    BY <1>3 DEF Start, BeginWrite, WriteReturns, WriteRaises, BeginBind, BindDone,
                BindRaises, DelayedSave, Shutdown, Flush, Crash, Remove, vars
  <2>. QED
    BY <2>1, SilentStep
<1>. QED
  BY <1>1, <1>2, <1>3 DEF Next

\* The link, the store and the disk together implement a source whose numbers
\* only grow on air for as long as it has not lost track of them.
THEOREM RefinesReplayProtection == Spec => NodesAcceptEverything
<1>1. Init => Mesh!Init
  BY DEF Init, Mesh!Init
<1>. QED
  BY InvariantIInv, <1>1, StepSimulation, PTL DEF Spec, Mesh!Spec, NodesAcceptEverything

\* The stored mark never moves back, except when the entry is removed.
THEOREM DiskIsMonotone == Spec => DiskNeverRegresses
<1>1. IInv /\ [Next]_vars => [disk' >= disk \/ Remove]_disk
  <2>. SUFFICES ASSUME IInv, [Next]_vars, ~Remove, disk' # disk
                PROVE  disk' >= disk
    OBVIOUS
  <2>1. /\ RestartPoint \in Nat /\ RestartPoint >= disk
        /\ disk \in Nat /\ cached \in Nat
    BY RestartPointNat DEF IInv, TypeOK
  <2>2. CASE DelayedSave
    BY <2>1, <2>2 DEF DelayedSave, IInv, TypeOK, Discipline, StoreTracksMark, NoWrite
  <2>3. CASE Flush
    BY <2>1, <2>3 DEF Flush, IInv, TypeOK, Discipline, StoreTracksMark, NoWrite
  <2>. QED
    BY <2>2, <2>3 DEF Next, Start, BeginWrite, Transmit, WriteReturns, WriteRaises,
       BeginBind, BindSend, BindDone, BindRaises, Shutdown, Crash, vars
<1>. QED
  BY InvariantIInv, <1>1, PTL DEF Spec, DiskNeverRegresses
=============================================================================

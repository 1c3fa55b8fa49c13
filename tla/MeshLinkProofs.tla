--------------------------- MODULE MeshLinkProofs ---------------------------
(***************************************************************************)
(* The link's safety for every number of calls and every failure limit:    *)
(* who may close a connection, who may use one, and who will.  And behind  *)
(* "connecting", what GatewaySelection's run checks of each pick, for      *)
(* every set of nodes and every signal strength.                           *)
(***************************************************************************)
EXTENDS MeshLink, GatewaySelection, SequenceTheorems, TLAPS

Closer == {"idle", "release", "shutdown"}

\* Where the holder is suspended says what kind of caller it is.
StageFits == /\ stage # "waiting" => queue # <<>>
             /\ stage \in {"connecting", "operating"} => Holds("command")
             /\ stage = "provisioning" => Holds("provision")
             /\ stage = "closing" => ~Holds("provision")
             /\ stage = "connecting" => ~connected

\* After the shutdown only the closers get past their first step.
Down == /\ ShutDownStaysDown
        /\ shutdown /\ stage = "closing" => ~Holds("command")

\* A timer, armed or fired, knows no activity later than the present one, and a
\* fired one that knows the present one has seen an idle period.
IdleKnown == /\ timer <= activity
             /\ \A i \in 1 .. Len(queue) :
                  queue[i].kind = "idle" => /\ queue[i].at <= activity
                                            /\ queue[i].at = activity => quiet

\* The counter the code keeps is never behind the failures of the connection.
StrikesCounted == strikes <= failures

\* A connection last used with success has its timer, is in somebody's hands,
\* or has someone in the queue who will close it or arm the timer.
Attended ==
  connected /\ last = "success" =>
    \/ timer = activity
    \/ stage \in {"operating", "closing"}
    \/ \E i \in 1 .. Len(queue) : queue[i].kind \in Closer

IInv == /\ TypeOK /\ StageFits
        /\ Down
        /\ IdleKnown /\ IdleCloseIsIdle
        /\ StrikesCounted /\ WedgeIsCut
        /\ Attended

-----------------------------------------------------------------------------
\* What the changes of the queue keep.

\* A caller who joins changes nothing for those before, unless there are none.
LEMMA AppendKeeps ==
  ASSUME NEW q \in Seq(Caller), NEW c \in Caller
  PROVE  /\ Append(q, c) \in Seq(Caller) /\ Append(q, c) # <<>>
         /\ Len(q) \in Nat /\ Len(Append(q, c)) = Len(q) + 1
         /\ \A i \in 1 .. Len(q) : Append(q, c)[i] = q[i]
         /\ Append(q, c)[Len(q) + 1] = c
         /\ q # <<>> => Head(Append(q, c)) = Head(q)
         /\ q = <<>> => Head(Append(q, c)) = c
<1>1. /\ Append(q, c) \in Seq(Caller) /\ Append(q, c) # <<>>
      /\ Len(Append(q, c)) = Len(q) + 1
      /\ \A i \in 1 .. Len(q) : Append(q, c)[i] = q[i]
      /\ Append(q, c)[Len(q) + 1] = c
  BY AppendProperties
<1>2. Len(q) \in Nat /\ (q # <<>> => Len(q) # 0)
  BY LenProperties, EmptySeq
<1>3. Head(Append(q, c)) = Append(q, c)[1]
  BY <1>1
<1>4. q # <<>> => Head(q) = q[1]
  OBVIOUS
<1>5. q # <<>> => Head(Append(q, c)) = Head(q)
  BY <1>1, <1>2, <1>3, <1>4
<1>6. q = <<>> => Head(Append(q, c)) = c
  <2> SUFFICES ASSUME q = <<>> PROVE Head(Append(q, c)) = c
    OBVIOUS
  <2>1. Len(q) = 0
    BY EmptySeq
  <2> QED BY <2>1, <1>1, <1>3
<1> QED BY <1>1, <1>2, <1>5, <1>6

\* The holder leaves: the others move up.
LEMMA TailKeeps ==
  ASSUME NEW q \in Seq(Caller), q # <<>>
  PROVE  /\ Tail(q) \in Seq(Caller)
         /\ Len(q) \in Nat \ {0} /\ Len(Tail(q)) = Len(q) - 1
         /\ \A i \in 1 .. Len(Tail(q)) : i + 1 \in 1 .. Len(q) /\ Tail(q)[i] = q[i + 1]
         /\ Head(q) \in Caller /\ Head(q) = q[1]
         /\ \A i \in 1 .. Len(q) : i # 1 => i - 1 \in 1 .. Len(Tail(q))
                                            /\ Tail(q)[i - 1] = q[i]
  BY LenProperties, EmptySeq, HeadTailProperties

\* A waiter leaves: those behind it move up, and the holder stays.
LEMMA RemoveKeeps ==
  ASSUME NEW q \in Seq(Caller), NEW k \in 1 .. Len(q)
  PROVE  /\ RemoveAt(q, k) \in Seq(Caller)
         /\ Len(q) \in Nat /\ Len(RemoveAt(q, k)) = Len(q) - 1
         /\ \A i \in 1 .. Len(q) - 1 :
              RemoveAt(q, k)[i] = IF i < k THEN q[i] ELSE q[i + 1]
         /\ k # 1 => RemoveAt(q, k) # <<>> /\ Head(RemoveAt(q, k)) = Head(q)
<1> DEFINE front == SubSeq(q, 1, k - 1)
           back  == SubSeq(q, k + 1, Len(q))
<1>1. Len(q) \in Nat /\ k \in Nat \ {0} /\ k <= Len(q)
  BY LenProperties
<1>2. \A i \in 1 .. Len(q) : q[i] \in Caller
  BY ElementOfSeq
<1>3. /\ front \in Seq(Caller) /\ Len(front) = k - 1
      /\ \A i \in 1 .. k - 1 : front[i] = q[i]
  <2>1. \A i \in 1 .. k - 1 : q[i] \in Caller
    BY <1>1, <1>2
  <2>2. 1 \in Int /\ k - 1 \in Int
    BY <1>1
  <2>3. /\ front \in Seq(Caller) /\ Len(front) = IF 1 <= k - 1 THEN k - 1 - 1 + 1 ELSE 0
        /\ \A i \in 1 .. k - 1 - 1 + 1 : front[i] = q[1 + i - 1]
    BY <2>1, <2>2, SubSeqProperties
  <2> QED BY <1>1, <2>3
<1>4. /\ back \in Seq(Caller) /\ Len(back) = Len(q) - k
      /\ \A i \in 1 .. Len(q) - k : back[i] = q[k + i]
  <2>1. \A i \in k + 1 .. Len(q) : q[i] \in Caller
    BY <1>1, <1>2
  <2>2. k + 1 \in Int /\ Len(q) \in Int
    BY <1>1
  <2>3. /\ back \in Seq(Caller)
        /\ Len(back) = IF k + 1 <= Len(q) THEN Len(q) - (k + 1) + 1 ELSE 0
        /\ \A i \in 1 .. Len(q) - (k + 1) + 1 : back[i] = q[k + 1 + i - 1]
    BY <2>1, <2>2, SubSeqProperties
  <2> QED BY <1>1, <2>3
<1>5. RemoveAt(q, k) = front \o back
  BY DEF RemoveAt
<1> HIDE DEF front, back
<1>6. /\ RemoveAt(q, k) \in Seq(Caller)
      /\ Len(RemoveAt(q, k)) = Len(front) + Len(back)
      /\ \A i \in 1 .. Len(front) + Len(back) : RemoveAt(q, k)[i] =
           IF i <= Len(front) THEN front[i] ELSE back[i - Len(front)]
  <2>1. front \in Seq(Caller) /\ back \in Seq(Caller)
    BY <1>3, <1>4
  <2>2. /\ front \o back \in Seq(Caller)
        /\ Len(front \o back) = Len(front) + Len(back)
        /\ \A i \in 1 .. Len(front) + Len(back) : (front \o back)[i] =
             IF i <= Len(front) THEN front[i] ELSE back[i - Len(front)]
    BY ONLY <2>1, ConcatProperties
  <2> QED BY <2>2, <1>5, Zenon
<1>7. Len(RemoveAt(q, k)) = Len(q) - 1
  BY <1>1, <1>3, <1>4, <1>6
<1>8. ASSUME NEW i \in 1 .. Len(q) - 1
      PROVE  RemoveAt(q, k)[i] = IF i < k THEN q[i] ELSE q[i + 1]
  <2>1. Len(front) + Len(back) = Len(q) - 1
    BY <1>1, <1>3, <1>4
  <2>2. RemoveAt(q, k)[i] = IF i <= k - 1 THEN front[i] ELSE back[i - (k - 1)]
    BY <2>1, <1>3, <1>6
  <2>3. CASE i < k
    <3>1. i \in 1 .. k - 1
      BY <2>3, <1>1
    <3>2. i <= k - 1
      BY <3>1, <1>1
    <3>3. RemoveAt(q, k)[i] = front[i] /\ front[i] = q[i]
      BY <3>1, <3>2, <2>2, <1>3
    <3> QED BY <3>3, <2>3
  <2>4. CASE ~(i < k)
    <3>1. ~(i <= k - 1) /\ i - (k - 1) \in 1 .. Len(q) - k /\ k + (i - (k - 1)) = i + 1
      BY <2>4, <1>1
    <3>2. back[i - (k - 1)] = q[k + (i - (k - 1))]
      BY <3>1, <1>4
    <3> QED BY <3>1, <3>2, <2>2, <2>4
  <2> QED BY <2>3, <2>4
<1>9. k # 1 => RemoveAt(q, k) # <<>> /\ Head(RemoveAt(q, k)) = Head(q)
  <2> SUFFICES ASSUME k # 1 PROVE RemoveAt(q, k) # <<>> /\ Head(RemoveAt(q, k)) = Head(q)
    OBVIOUS
  <2>1. Len(RemoveAt(q, k)) # 0 /\ 1 \in 1 .. Len(q) - 1
    BY <1>1, <1>7
  <2>2. RemoveAt(q, k) # <<>>
    BY <2>1, EmptySeq
  <2>3. RemoveAt(q, k)[1] = q[1]
    BY <2>1, <1>1, <1>8
  <2>4. q # <<>>
    BY <1>1, EmptySeq
  <2> QED BY <2>2, <2>3, <2>4, <1>6
<1> QED BY <1>1, <1>6, <1>7, <1>8, <1>9

-----------------------------------------------------------------------------
\* The invariant holds before any call ...
LEMMA InitIInv == Init => IInv
<1> SUFFICES ASSUME Init PROVE IInv
  OBVIOUS
<1> USE LinkAssumption DEF Init
<1>1. queue = <<>> /\ queue \in Seq(Caller) /\ Len(queue) = 0
  BY EmptySeq
<1>2. TypeOK
  <2>1. stage \in Stage /\ 0 \in 0 .. MaxCalls
    BY DEF Stage
  <2>2. timer \in Nat \cup {NoTimer} /\ activity \in Nat /\ failures \in Nat /\ strikes \in Nat
    OBVIOUS
  <2>3. /\ connected \in BOOLEAN /\ shutdown \in BOOLEAN /\ quiet \in BOOLEAN
        /\ last \in {"success", "failed", "cancelled"}
    OBVIOUS
  <2> QED BY <1>1, <2>1, <2>2, <2>3 DEF TypeOK
<1>3. StageFits /\ Down
  BY DEF StageFits, Down, ShutDownStaysDown
<1>4. IdleKnown /\ IdleCloseIsIdle
  BY <1>1 DEF IdleKnown, IdleCloseIsIdle, NoTimer
<1>5. StrikesCounted /\ WedgeIsCut /\ Attended
  BY DEF StrikesCounted, WedgeIsCut, Attended
<1> QED BY <1>2, <1>3, <1>4, <1>5 DEF IInv

\* ... and every step of a caller, the timer, the radio or a cancellation keeps it.
LEMMA StepIInv == IInv /\ [Next]_vars => IInv'
<1> SUFFICES ASSUME IInv, [Next]_vars PROVE IInv'
  OBVIOUS
<1> USE LinkAssumption
<1> USE DEF IInv, session, Leave, Holds, Stage
<1>0. TypeOK
  OBVIOUS
<1>1. ASSUME NEW kind \in Kind \ {"idle"}, Call(kind)
      PROVE  IInv'
  <2> DEFINE caller == [kind |-> kind, at |-> 0]
  <2>1. caller \in Caller
    BY <1>1 DEF Call, TypeOK, Caller, Kind, NoTimer
  <2>2. /\ queue' = Append(queue, caller) /\ queue' \in Seq(Caller) /\ queue' # <<>>
        /\ Len(queue) \in Nat /\ Len(queue') = Len(queue) + 1
        /\ \A i \in 1 .. Len(queue) : queue'[i] = queue[i]
        /\ queue'[Len(queue) + 1] = caller
        /\ queue # <<>> => Head(queue') = Head(queue)
    BY <1>1, <2>1, AppendKeeps DEF Call, TypeOK
  <2>3. TypeOK'
    BY <1>1, <2>2 DEF Call, TypeOK
  <2>4. StageFits' /\ Down' /\ IdleCloseIsIdle'
    BY <1>1, <2>2 DEF Call, TypeOK, StageFits, Down, ShutDownStaysDown, IdleCloseIsIdle
  <2>5. IdleKnown'
    BY <1>1, <2>2 DEF Call, TypeOK, IdleKnown, NoTimer
  <2>6. StrikesCounted' /\ WedgeIsCut'
    BY <1>1 DEF Call, StrikesCounted, WedgeIsCut
  <2>7. Attended'
    BY <1>1, <2>2 DEF Call, TypeOK, Attended, Closer, Kind
  <2> QED BY <2>3, <2>4, <2>5, <2>6, <2>7
<1>2. CASE TimerFires
  <2> DEFINE caller == [kind |-> "idle", at |-> timer]
  <2>1. caller \in Caller
    BY <1>2 DEF TimerFires, TypeOK, Caller, Kind, NoTimer
  <2>2. /\ queue' = Append(queue, caller) /\ queue' \in Seq(Caller) /\ queue' # <<>>
        /\ Len(queue) \in Nat /\ Len(queue') = Len(queue) + 1
        /\ \A i \in 1 .. Len(queue) : queue'[i] = queue[i]
        /\ queue'[Len(queue) + 1] = caller
        /\ queue # <<>> => Head(queue') = Head(queue)
    BY <1>2, <2>1, AppendKeeps DEF TimerFires, TypeOK
  <2>3. TypeOK'
    BY <1>2, <2>2 DEF TimerFires, TypeOK
  <2>4. StageFits' /\ Down' /\ IdleCloseIsIdle'
    BY <1>2, <2>2 DEF TimerFires, TypeOK, StageFits, Down, ShutDownStaysDown, IdleCloseIsIdle
  <2>5. IdleKnown'
    BY <1>2, <2>2 DEF TimerFires, TypeOK, IdleKnown, NoTimer
  <2>6. StrikesCounted' /\ WedgeIsCut'
    BY <1>2 DEF TimerFires, StrikesCounted, WedgeIsCut
  <2>7. Attended'
    BY <1>2, <2>2 DEF TimerFires, TypeOK, Attended, Closer, Kind
  <2> QED BY <2>3, <2>4, <2>5, <2>6, <2>7
<1>3. CASE Refuse
  <2>1. TypeOK'
     BY <1>3, TailKeeps DEF Refuse, TypeOK
  <2>2. StageFits'
     BY <1>3, TailKeeps DEF Refuse, TypeOK, StageFits
  <2>3. (Down)' /\ IdleCloseIsIdle'
     BY <1>3, TailKeeps DEF Refuse, TypeOK, Down, ShutDownStaysDown, IdleCloseIsIdle
  <2>4. IdleKnown'
     BY <1>3, TailKeeps DEF Refuse, TypeOK, IdleKnown
  <2>5. StrikesCounted' /\ WedgeIsCut'
     BY <1>3 DEF Refuse, TypeOK, StrikesCounted, WedgeIsCut
  <2>6. Attended'
     BY <1>3, TailKeeps DEF Refuse, TypeOK, Attended, Closer, Down, ShutDownStaysDown
  <2> QED BY <2>1, <2>2, <2>3, <2>4, <2>5, <2>6
<1>4. CASE StartCommand
  BY <1>4 DEF StartCommand, TypeOK, StageFits, Down, ShutDownStaysDown, IdleKnown,
     IdleCloseIsIdle, StrikesCounted, WedgeIsCut, Attended, NoTimer
<1>5. CASE StartProvision
  BY <1>5 DEF StartProvision, TypeOK, StageFits, Down, ShutDownStaysDown, IdleKnown,
     IdleCloseIsIdle, StrikesCounted, WedgeIsCut, Attended, NoTimer
<1>6. CASE StartIdle
  <2>1. TypeOK'
    BY <1>6, TailKeeps DEF StartIdle, TypeOK, StageFits
  <2>2. StageFits' /\ Down' /\ IdleCloseIsIdle'
    <3>1. Head(queue) = queue[1] /\ 1 \in 1 .. Len(queue)
      BY <1>6, TailKeeps DEF StartIdle, TypeOK
    <3>2. Head(queue).at = activity => quiet
      BY <1>6, <3>1 DEF StartIdle, IdleKnown
    <3>3. IdleCloseIsIdle'
      BY <1>6, <3>2 DEF StartIdle, IdleCloseIsIdle
    <3>4. StageFits' /\ Down'
      BY <1>6 DEF StartIdle, StageFits, Down, ShutDownStaysDown
    <3> QED BY <3>3, <3>4
  <2>3. IdleKnown'
    <3>1. UNCHANGED <<activity, quiet>> /\ queue \in Seq(Caller) /\ queue # <<>>
      BY <1>6 DEF StartIdle, Holds, TypeOK, session
    <3>2. CASE Leave /\ timer' = activity
      <4>1. \A i \in 1 .. Len(queue') : queue'[i] = queue[i + 1] /\ i + 1 \in 1 .. Len(queue)
        BY <3>1, <3>2, TailKeeps DEF Leave
      <4>2. timer' <= activity'
        BY <3>1, <3>2 DEF TypeOK
      <4>. QED  BY <3>1, <4>1, <4>2 DEF IdleKnown
    <3>3. CASE UNCHANGED <<queue, timer>>
      BY <3>1, <3>3 DEF IdleKnown
    <3>. QED  BY <1>6, <3>2, <3>3 DEF StartIdle
  <2>4. StrikesCounted' /\ WedgeIsCut'
    BY <1>6 DEF StartIdle, TypeOK, StrikesCounted, WedgeIsCut
  <2>5. Attended'
    BY <1>6, TailKeeps DEF StartIdle, TypeOK, StageFits, Attended, Closer, Down, ShutDownStaysDown
  <2> QED BY <2>1, <2>2, <2>3, <2>4, <2>5
<1>7. CASE StartRelease
  BY <1>7 DEF StartRelease, TypeOK, StageFits, Down, ShutDownStaysDown, IdleKnown,
     IdleCloseIsIdle, StrikesCounted, WedgeIsCut, Attended, NoTimer
<1>8. CASE StartShutdown
  BY <1>8 DEF StartShutdown, TypeOK, StageFits, Down, ShutDownStaysDown, IdleKnown,
     IdleCloseIsIdle, StrikesCounted, WedgeIsCut, Attended, NoTimer
<1>9. CASE Connects
  BY <1>9 DEF Connects, TypeOK, StageFits, Down, ShutDownStaysDown, IdleKnown,
     IdleCloseIsIdle, StrikesCounted, WedgeIsCut, Attended, NoTimer
<1>10. CASE ConnectFails
  BY <1>10 DEF ConnectFails, TypeOK, StageFits, Down, ShutDownStaysDown, IdleKnown,
     IdleCloseIsIdle, StrikesCounted, WedgeIsCut, Attended, NoTimer
<1>11. CASE Succeeds
  <2>1. TypeOK'
    <3>1. queue # <<>> /\ queue' \in Seq(Caller)
      BY <1>11, TailKeeps DEF Succeeds, TypeOK, StageFits
    <3>2. activity' \in Nat /\ timer' \in Nat \cup {NoTimer}
      BY <1>11 DEF Succeeds, TypeOK
    <3> QED BY <1>11, <3>1, <3>2 DEF Succeeds, TypeOK
  <2>2. StageFits' /\ Down' /\ IdleCloseIsIdle'
    BY <1>11 DEF Succeeds, StageFits, Down, ShutDownStaysDown, IdleCloseIsIdle
  <2>3. IdleKnown'
    <3>1. timer' = activity' /\ activity' = activity + 1 /\ activity \in Nat
      BY <1>11 DEF Succeeds, TypeOK
    <3>2. ASSUME NEW i \in 1 .. Len(queue'), queue'[i].kind = "idle"
          PROVE  queue'[i].at <= activity
      BY <1>11, <3>2, TailKeeps DEF Succeeds, TypeOK, StageFits, IdleKnown
    <3>3. ASSUME NEW i \in 1 .. Len(queue')
          PROVE  queue'[i].at \in Nat
      <4>1. queue' \in Seq(Caller)
        BY <2>1 DEF TypeOK
      <4>2. queue'[i] \in Caller
        BY <4>1, ElementOfSeq
      <4> QED BY <4>2 DEF Caller
    <3> QED BY <3>1, <3>2, <3>3 DEF IdleKnown
  <2>4. StrikesCounted' /\ WedgeIsCut'
    BY <1>11 DEF Succeeds, TypeOK, StrikesCounted, WedgeIsCut
  <2>5. Attended'
    BY <1>11, TailKeeps DEF Succeeds, TypeOK, StageFits, Attended, Closer, Down, ShutDownStaysDown
  <2> QED BY <2>1, <2>2, <2>3, <2>4, <2>5
<1>12. CASE Fails
  <2>1. TypeOK'
    BY <1>12, TailKeeps DEF Fails, TypeOK, StageFits
  <2>2. StageFits' /\ Down' /\ IdleCloseIsIdle'
    BY <1>12 DEF Fails, StageFits, Down, ShutDownStaysDown, IdleCloseIsIdle
  <2>3. IdleKnown'
    <3>1. UNCHANGED <<timer, activity, quiet>>
      BY <1>12 DEF Fails
    <3>2. CASE Leave
      BY <1>12, <3>1, <3>2, TailKeeps DEF Fails, TypeOK, StageFits, IdleKnown
    <3>3. CASE UNCHANGED queue
      BY <3>1, <3>3 DEF IdleKnown
    <3> QED BY <1>12, <3>2, <3>3 DEF Fails
  <2>4. StrikesCounted' /\ WedgeIsCut'
    BY <1>12 DEF Fails, TypeOK, StrikesCounted, WedgeIsCut
  <2>5. Attended'
    BY <1>12, TailKeeps DEF Fails, TypeOK, StageFits, Attended, Closer, Down, ShutDownStaysDown
  <2> QED BY <2>1, <2>2, <2>3, <2>4, <2>5
<1>13. CASE ProvisionEnds
  <2>1. TypeOK'
    BY <1>13, TailKeeps DEF ProvisionEnds, TypeOK, StageFits
  <2>2. StageFits' /\ Down' /\ IdleCloseIsIdle'
    BY <1>13 DEF ProvisionEnds, StageFits, Down, ShutDownStaysDown, IdleCloseIsIdle
  <2>3. IdleKnown'
    BY <1>13, TailKeeps DEF ProvisionEnds, TypeOK, StageFits, IdleKnown, NoTimer
  <2>4. StrikesCounted' /\ WedgeIsCut'
    BY <1>13 DEF ProvisionEnds, TypeOK, StrikesCounted, WedgeIsCut
  <2>5. Attended'
    BY <1>13, TailKeeps DEF ProvisionEnds, TypeOK, StageFits, Attended, Closer, Down, ShutDownStaysDown
  <2> QED BY <2>1, <2>2, <2>3, <2>4, <2>5
<1>14. CASE Closed
  <2>1. TypeOK'
    BY <1>14, TailKeeps DEF Closed, TypeOK, StageFits
  <2>2. StageFits' /\ Down' /\ IdleCloseIsIdle'
    BY <1>14 DEF Closed, StageFits, Down, ShutDownStaysDown, IdleCloseIsIdle
  <2>3. IdleKnown'
    BY <1>14, TailKeeps DEF Closed, TypeOK, StageFits, IdleKnown, NoTimer
  <2>4. StrikesCounted' /\ WedgeIsCut'
    BY <1>14 DEF Closed, TypeOK, StrikesCounted, WedgeIsCut
  <2>5. Attended'
    BY <1>14, TailKeeps DEF Closed, TypeOK, StageFits, Attended, Closer, Down, ShutDownStaysDown
  <2> QED BY <2>1, <2>2, <2>3, <2>4, <2>5
<1>15. CASE CancelHolder
  <2>1. TypeOK'
    BY <1>15, TailKeeps DEF CancelHolder, TypeOK, StageFits
  <2>2. StageFits' /\ Down' /\ IdleCloseIsIdle'
    BY <1>15 DEF CancelHolder, StageFits, Down, ShutDownStaysDown, IdleCloseIsIdle
  <2>3. IdleKnown'
    BY <1>15, TailKeeps DEF CancelHolder, TypeOK, StageFits, IdleKnown, NoTimer
  <2>4. StrikesCounted' /\ WedgeIsCut'
    BY <1>15 DEF CancelHolder, TypeOK, StrikesCounted, WedgeIsCut
  <2>5. Attended'
    BY <1>15, TailKeeps DEF CancelHolder, TypeOK, StageFits, Attended, Closer, Down, ShutDownStaysDown
  <2> QED BY <2>1, <2>2, <2>3, <2>4, <2>5
<1>16. CASE CancelWaiter
  <2>1. PICK k \in 1 .. Len(queue) :
          /\ queue[k].kind \in {"command", "provision"}
          /\ k = 1 => stage = "waiting"
          /\ queue' = RemoveAt(queue, k)
    BY <1>16 DEF CancelWaiter
  <2>2. UNCHANGED <<stage, connected, timer, shutdown, calls, session>>
    BY <1>16 DEF CancelWaiter
  <2>3. /\ queue' \in Seq(Caller) /\ Len(queue) \in Nat /\ Len(queue') = Len(queue) - 1
        /\ \A i \in 1 .. Len(queue) - 1 : queue'[i] = IF i < k THEN queue[i] ELSE queue[i + 1]
        /\ k # 1 => queue' # <<>> /\ Head(queue') = Head(queue)
    BY <2>1, RemoveKeeps DEF TypeOK
  <2>4. TypeOK'
    BY <2>1, <2>2, <2>3 DEF TypeOK
  <2>5. StageFits' /\ Down' /\ IdleCloseIsIdle'
    BY <2>1, <2>2, <2>3 DEF StageFits, Down, ShutDownStaysDown, IdleCloseIsIdle
  <2>6. IdleKnown'
    <3>1. ASSUME NEW i \in 1 .. Len(queue')
          PROVE  \E j \in 1 .. Len(queue) : queue'[i] = queue[j]
      <4>1. i \in 1 .. Len(queue) /\ i + 1 \in 1 .. Len(queue) /\ i \in 1 .. Len(queue) - 1
        BY <2>3
      <4>. QED  BY <2>3, <4>1
    <3>. QED  BY <2>2, <3>1 DEF IdleKnown
  <2>7. StrikesCounted' /\ WedgeIsCut'
    BY <2>2 DEF StrikesCounted, WedgeIsCut
  <2>8. Attended'
    <3> SUFFICES ASSUME NEW i \in 1 .. Len(queue), queue[i].kind \in Closer
                 PROVE  \E j \in 1 .. Len(queue') : queue'[j].kind \in Closer
      BY <2>2 DEF Attended
    <3>1. i # k
      BY <2>1 DEF Closer
    <3>2. CASE i < k
      BY <2>3, <3>2
    <3>3. CASE i > k
      <4>1. i - 1 \in 1 .. Len(queue') /\ queue'[i - 1] = queue[i]
        BY <2>3, <3>3
      <4> QED BY <4>1
    <3> QED BY <2>3, <3>1, <3>2, <3>3
  <2> QED BY <2>4, <2>5, <2>6, <2>7, <2>8
<1>17. CASE Drop
  BY <1>17 DEF Drop, TypeOK, StageFits, Down, ShutDownStaysDown, IdleKnown,
     IdleCloseIsIdle, StrikesCounted, WedgeIsCut, Attended
<1>18. CASE UNCHANGED vars
  BY <1>18 DEF vars, TypeOK, StageFits, Down, ShutDownStaysDown, IdleKnown,
     IdleCloseIsIdle, StrikesCounted, WedgeIsCut, Attended
<1> QED
  BY <1>1, <1>2, <1>3, <1>4, <1>5, <1>6, <1>7, <1>8, <1>9, <1>10, <1>11, <1>12, <1>13, <1>14,
     <1>15, <1>16, <1>17, <1>18 DEF Next, Holder

-----------------------------------------------------------------------------
\* So it always holds.
LEMMA AlwaysIInv == Spec => []IInv
  BY InitIInv, StepIInv, PTL DEF Spec

\* The variables keep their types for every failure limit and number of calls.
THEOREM LinkTypeCorrect == Spec => []TypeOK
<1>1. IInv => TypeOK
  BY DEF IInv
<1> QED BY <1>1, AlwaysIInv, PTL

\* mesh.py:577: the idle timer never closes a connection that was used after it was
\* armed, however many callers it waited behind.
THEOREM IdleClosesOnlyTheIdle == Spec => []IdleCloseIsIdle
<1>1. IInv => IdleCloseIsIdle
  BY DEF IInv
<1> QED BY <1>1, AlwaysIInv, PTL

\* mesh.py:607: after the shutdown nobody opens or uses a connection, whoever was
\* waiting for the lock.
THEOREM DownForGood == Spec => []ShutDownStaysDown
<1>1. IInv => ShutDownStaysDown
  BY DEF IInv, Down
<1> QED BY <1>1, AlwaysIInv, PTL

\* mesh.py:514: no MaxFailures commands in a row fail on one connection that the
\* next command is then offered.
THEOREM WedgesAreCut == Spec => []WedgeIsCut
<1>1. IInv => WedgeIsCut
  BY DEF IInv
<1> QED BY <1>1, AlwaysIInv, PTL

\* mesh.py:525: a connection nobody is using and last used with success has its idle
\* timer, armed for its latest use.
THEOREM IdleTimerIsArmed == Spec => []SomeoneWillClose
<1>1. IInv => SomeoneWillClose
  <2> SUFFICES ASSUME IInv, queue = <<>>, connected, last = "success"
               PROVE  timer = activity
    BY DEF SomeoneWillClose
  <2>1. stage = "waiting"
    BY DEF IInv, TypeOK
  <2>2. 1 .. Len(queue) = {}
    BY EmptySeq
  <2> QED BY <2>1, <2>2 DEF IInv, Attended
<1> QED BY <1>1, AlwaysIInv, PTL

-----------------------------------------------------------------------------
\* The gateway behind "connecting".

\* An advert the manager holds was heard already.  Without it a node that fails now
\* could be back on the list at once.
HeardBefore == /\ now \in Nat
               /\ heard \in [Nodes -> Int]
               /\ failTime \in [Nodes -> Int]
               /\ droppedAt \in [Nodes -> Int]
               /\ connectedAt \in Int
               /\ \A n \in Nodes : heard[n] <= now
               /\ gateway \in Nodes \cup {None}
               /\ link = "attempting" => gateway \in Nodes

LEMMA SelectionsAreNodes ==
  ASSUME NEW fails, NEW drops, NEW g \in Selections(fails, drops)
  PROVE  g \in Nodes
  BY GatewayAssumption DEF Selections, Heads, Candidates

LEMMA DropNotedTyped ==
  ASSUME HeardBefore
  PROVE  DropNoted \in [Nodes -> Int]
<1>1. [droppedAt EXCEPT ![gateway] = now] \in [Nodes -> Int]
  BY now \in Int, droppedAt \in [Nodes -> Int] DEF HeardBefore
<1>. QED
  BY <1>1 DEF DropNoted, HeardBefore

LEMMA HeardBeforeHolds == GatewaySpec => []HeardBefore
<1>1. GatewayInit => HeardBefore
  BY GatewayAssumption DEF GatewayInit, HeardBefore, Never
<1>2. HeardBefore /\ [GatewayNext]_gatewayVars => HeardBefore'
  <2>. SUFFICES ASSUME HeardBefore, [GatewayNext]_gatewayVars PROVE HeardBefore'
    OBVIOUS
  <2>. USE DEF HeardBefore
  <2>1. CASE Tick
    BY <2>1 DEF Tick
  <2>2. ASSUME NEW n \in Nodes, Advertise(n) PROVE HeardBefore'
    BY <2>2 DEF Advertise
  <2>3. ASSUME NEW n \in Nodes, Vanish(n) PROVE HeardBefore'
    BY <2>3 DEF Vanish, Never
  <2>4. CASE Begin
    BY <2>4, SelectionsAreNodes DEF Begin, Attempt, radio
  <2>5. CASE AttemptConnects
    BY <2>5 DEF AttemptConnects, radio
  <2>6. CASE Cancelled
    BY <2>6 DEF Cancelled, radio
  <2>7. ASSUME NEW dropped \in BOOLEAN, AttemptFails(dropped) PROVE HeardBefore'
    <3>1. droppedAt' \in [Nodes -> Int] /\ UNCHANGED <<now, heard, connectedAt>>
      BY <2>7, DropNotedTyped DEF AttemptFails, radio
    <3>2. CASE gateway \in tried
      BY <2>7, <3>1, <3>2 DEF AttemptFails
    <3>3. CASE gateway \notin tried
      BY <2>7, <3>1, <3>3, SelectionsAreNodes DEF AttemptFails, Attempt
    <3>. QED
      BY <3>2, <3>3
  <2>8. CASE Drops
    BY <2>8, DropNotedTyped DEF Drops, radio
  <2>9. CASE Closes
    BY <2>9 DEF Closes, radio
  <2>10. CASE UNCHANGED gatewayVars
    BY <2>10 DEF gatewayVars, radio
  <2>. QED
    BY <2>1, <2>2, <2>3, <2>4, <2>5, <2>6, <2>7, <2>8, <2>9, <2>10 DEF GatewayNext
<1>. QED
  BY <1>1, <1>2, PTL DEF GatewaySpec

-----------------------------------------------------------------------------
\* Only two steps pick a gateway: the start of a round and a failure within it.
LEMMA WhoPicks ==
  ASSUME [GatewayNext]_gatewayVars, gatewayVars' # gatewayVars, Picks
  PROVE  Begin \/ \E dropped \in BOOLEAN : AttemptFails(dropped) /\ gateway \notin tried
<1>1. CASE Tick
  BY <1>1 DEF Tick, Picks, radio, gatewayVars
<1>2. ASSUME NEW n \in Nodes, Advertise(n) \/ Vanish(n) PROVE FALSE
  BY <1>2 DEF Advertise, Vanish, Picks, radio, gatewayVars
<1>3. ASSUME AttemptConnects \/ Cancelled \/ Drops \/ Closes PROVE FALSE
  BY <1>3 DEF AttemptConnects, Cancelled, Drops, Closes, Picks
<1>4. ASSUME NEW dropped \in BOOLEAN, AttemptFails(dropped), gateway \in tried PROVE FALSE
  BY <1>4 DEF AttemptFails, Picks
<1>. QED
  BY <1>1, <1>2, <1>3, <1>4 DEF GatewayNext

LEMMA RepicksAreFailures ==
  ASSUME [GatewayNext]_gatewayVars, gatewayVars' # gatewayVars, Repicks
  PROVE  \E dropped \in BOOLEAN : AttemptFails(dropped) /\ gateway \notin tried
  BY WhoPicks DEF Repicks, Begin

\* mesh.py:533, for any number of nodes: a light that will not connect is not
\* attempted again next while any node is on the list.
THEOREM FailuresMoveOn == GatewaySpec => FailureMovesOn
<1>1. HeardBefore /\ [GatewayNext]_gatewayVars => [Repicks => gateway' # gateway \/ offered' = {}]_gatewayVars
  <2>. SUFFICES ASSUME HeardBefore, [GatewayNext]_gatewayVars, gatewayVars' # gatewayVars, Repicks
                PROVE  gateway' # gateway \/ offered' = {}
    OBVIOUS
  <2>1. PICK dropped \in BOOLEAN : AttemptFails(dropped) /\ gateway \notin tried
    BY RepicksAreFailures
  <2>2. /\ failTime' = [failTime EXCEPT ![gateway] = now]
        /\ gateway' \in Selections(failTime', droppedAt')
        /\ offered' = Candidates(failTime')
    BY <2>1 DEF AttemptFails, Attempt
  <2>3. gateway \in Nodes /\ failTime'[gateway] = now
    BY <2>2 DEF HeardBefore, Repicks
  <2>4. gateway \notin Candidates(failTime')
    BY <2>3 DEF Candidates, HeardBefore
  <2>. QED
    BY <2>2, <2>4 DEF Selections, Heads
<1>. QED
  BY <1>1, HeardBeforeHolds, PTL DEF GatewaySpec, FailureMovesOn

\* A round has at most one attempt more than there are nodes: every failure that is
\* followed by another attempt adds a node to those tried.
THEOREM FailuresCount == GatewaySpec => EveryFailureCounts
<1>1. [GatewayNext]_gatewayVars => [Repicks => tried \subseteq tried' /\ tried # tried']_gatewayVars
  <2>. SUFFICES ASSUME [GatewayNext]_gatewayVars, gatewayVars' # gatewayVars, Repicks
                PROVE  tried \subseteq tried' /\ tried # tried'
    OBVIOUS
  <2>. QED
    BY RepicksAreFailures DEF AttemptFails
<1>. QED
  BY <1>1, PTL DEF GatewaySpec, EveryFailureCounts

\* A node that will not hold a connection never comes before a steadier one.
LEMMA SelectionIsSteady ==
  ASSUME NEW fails, NEW drops, NEW g \in Selections(fails, drops),
         g \in Candidates(fails), Unstable(g, drops), NEW n \in Candidates(fails)
  PROVE  Unstable(n, drops)
<1>1. g \in Heads(Candidates(fails), drops)
  BY DEF Selections
<1>2. ~Before(n, g, drops)
  BY <1>1 DEF Heads
<1>3. Burden(g, drops) \in {2, 3}
  BY DEF Burden
<1>. QED
  BY <1>2, <1>3 DEF Before, Burden

\* The sort puts the unstable last, for any number of nodes, adverts and drops; the
\* current gateway has no other privilege.
THEOREM TheSteadyComeFirst == GatewaySpec => SteadyFirst
<1>1. [GatewayNext]_gatewayVars =>
        [Picks /\ gateway' \in offered' /\ Unstable(gateway', droppedAt')
           => \A n \in offered' : Unstable(n, droppedAt')]_gatewayVars
  <2>. SUFFICES ASSUME [GatewayNext]_gatewayVars, gatewayVars' # gatewayVars, Picks, gateway' \in offered',
                       Unstable(gateway', droppedAt'), NEW n \in offered'
                PROVE  Unstable(n, droppedAt')
    OBVIOUS
  <2>1. Attempt(failTime', droppedAt')
    <3>1. CASE Begin
      BY <3>1 DEF Begin
    <3>2. ASSUME NEW dropped \in BOOLEAN, AttemptFails(dropped), gateway \notin tried
          PROVE  Attempt(failTime', droppedAt')
      BY <3>2 DEF AttemptFails
    <3>. QED
      BY <3>1, <3>2, WhoPicks
  <2>. QED
    BY <2>1, SelectionIsSteady DEF Attempt
<1>. QED
  BY <1>1, PTL DEF GatewaySpec, SteadyFirst

\* Every variable has its type, and a connection has a node.
THEOREM GatewayTypesHold == GatewaySpec => []GatewayTypeOK
<1> USE GatewayAssumption DEF GatewayTypeOK, Time, Stamps, Never
<1>1. GatewayInit => GatewayTypeOK
  BY DEF GatewayInit
<1>2. GatewayTypeOK /\ [GatewayNext]_gatewayVars => GatewayTypeOK'
  <2>. SUFFICES ASSUME GatewayTypeOK, [GatewayNext]_gatewayVars PROVE GatewayTypeOK'
    OBVIOUS
  <2>1. DropNoted \in Stamps
    <3>1. [droppedAt EXCEPT ![gateway] = now] \in Stamps
      OBVIOUS
    <3>. QED
      BY <3>1 DEF DropNoted
  <2>2. ASSUME NEW fails, NEW drops, Attempt(fails, drops)
        PROVE  gateway' \in Nodes /\ offered' \subseteq Nodes /\ link' = "attempting"
    BY <2>2, SelectionsAreNodes DEF Attempt, Candidates
  <2>3. CASE Tick
    BY <2>3 DEF Tick
  <2>4. ASSUME NEW n \in Nodes, Advertise(n) \/ Vanish(n) PROVE GatewayTypeOK'
    BY <2>4 DEF Advertise, Vanish
  <2>5. CASE Begin
    BY <2>2, <2>5 DEF Begin, radio
  <2>6. CASE AttemptConnects \/ Cancelled
    BY <2>6 DEF AttemptConnects, Cancelled, radio
  <2>7. ASSUME NEW dropped \in BOOLEAN, AttemptFails(dropped) PROVE GatewayTypeOK'
    <3>1. droppedAt' \in Stamps /\ UNCHANGED <<now, heard, named, connectedAt>>
      BY <2>1, <2>7 DEF AttemptFails, radio
    <3>2. CASE gateway \in tried
      BY <2>7, <3>1, <3>2 DEF AttemptFails
    <3>3. CASE gateway \notin tried
      <4>1. gateway \in Nodes
        BY <2>7 DEF AttemptFails
      <4>2. tried' \subseteq Nodes /\ failTime' \in Stamps
        BY <2>7, <3>3, <4>1 DEF AttemptFails
      <4>. QED
        BY <2>2, <2>7, <3>1, <3>3, <4>2 DEF AttemptFails
    <3>. QED
      BY <3>2, <3>3
  <2>8. CASE Drops \/ Closes
    BY <2>1, <2>8 DEF Drops, Closes, radio
  <2>9. CASE UNCHANGED gatewayVars
    BY <2>9 DEF gatewayVars, radio
  <2>. QED
    BY <2>3, <2>4, <2>5, <2>6, <2>7, <2>8, <2>9 DEF GatewayNext
<1>. QED
  BY <1>1, <1>2, PTL DEF GatewaySpec
=============================================================================

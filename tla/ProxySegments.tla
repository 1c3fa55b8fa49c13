---------------------------- MODULE ProxySegments ----------------------------
(***************************************************************************)
(* Proxy PDUs cut into GATT-sized segments and put together again:         *)
(* ProxyClient.write_proxy and ProxyClient._reassemble (client.py).  Tasks *)
(* write through one lock; a write can raise or be cancelled between two   *)
(* segments, and a connection can end with half a message on the way.  The *)
(* two halves are checked against each other: what one writes, the other   *)
(* reads, as the light's proxy does with the same segment format.          *)
(*                                                                         *)
(* A PDU is its number, its message type and the length of its body; a     *)
(* body is the sequence of its bytes' positions.                           *)
(***************************************************************************)
EXTENDS Naturals, Sequences, FiniteSets

CONSTANTS
  Writers,       \* tasks that write
  NoOne,
  Types,         \* message types
  Lengths,       \* body lengths
  Sizes,         \* _max_write_size: GATT write limits a connection may have
  MaxMessage,    \* _MAX_PROXY_MESSAGE_BYTES
  Timeout,       \* _SAR_TIMEOUT_SECONDS, in ticks
  MaxPDUs,       \* bound on the PDUs written
  MaxTicks       \* bound on the clock

ASSUME SegmentAssumption ==
  /\ NoOne \notin Writers
  /\ Lengths \subseteq Nat \ {0} /\ Sizes \subseteq Nat \ {0, 1}
  /\ {MaxMessage, Timeout, MaxPDUs, MaxTicks} \subseteq Nat

VARIABLES
  job,        \* per writer: the PDU it writes and how much of it is written
  lock,       \* _write_lock
  air,        \* segments on their way
  rx,         \* _rx_type, _rx_body and _rx_started_at
  now,
  begun,       \* PDUs begun
  written,    \* history: PDUs whose last segment has left, in that order
  delivered,  \* PDUs handed to the callbacks
  calm        \* history: no connection ended, no message was late

segmentVars == <<job, lock, air, rx, now, begun, written, delivered, calm>>

PDU == [id : 1 .. MaxPDUs, type : Types, length : Lengths, size : Sizes]
Body(p) == [i \in 1 .. p.length |-> [of |-> p.id, at |-> i]]
NoJob == [busy |-> FALSE]
NoRx  == [open |-> FALSE]

\* A complete message as the callbacks see it.
Message(type, body) == [type |-> type, body |-> body]

Bytes == [of : 1 .. MaxPDUs, at : Nat]

SegmentsTypeOK ==
  /\ job \in [Writers -> {NoJob} \cup [busy : {TRUE}, pdu : PDU, done : Nat]]
  /\ \A w \in Writers : job[w].busy => job[w].done < job[w].pdu.length
  /\ lock \in Writers \cup {NoOne}
  /\ lock # NoOne => job[lock].busy
  /\ \A i \in 1 .. Len(air) : air[i].sar \in {"complete", "first", "more", "last"}
  /\ rx \in {NoRx} \cup [open : {TRUE}, type : Types, body : Seq(Bytes), at : 0 .. now]
  /\ rx.open => Len(rx.body) \in 1 .. MaxMessage
  /\ now \in 0 .. MaxTicks /\ begun \in 0 .. MaxPDUs /\ calm \in BOOLEAN

SegmentsInit ==
  /\ job = [w \in Writers |-> NoJob] /\ lock = NoOne
  /\ air = <<>> /\ rx = NoRx /\ now = 0 /\ begun = 0
  /\ written = <<>> /\ delivered = <<>> /\ calm = TRUE

-----------------------------------------------------------------------------
\* write_proxy is called.
Begin(w, type, length, size) ==
  /\ ~job[w].busy /\ begun < MaxPDUs
  /\ begun' = begun + 1
  /\ job' = [job EXCEPT ![w] = [busy |-> TRUE, done |-> 0,
               pdu |-> [id |-> begun + 1, type |-> type, length |-> length, size |-> size]]]
  /\ UNCHANGED <<lock, air, rx, now, written, delivered, calm>>

\* Mutant: writes are not serialised.
TakeLockFree(w) == /\ job[w].busy
                   /\ lock' = w
                   /\ UNCHANGED <<job, air, rx, now, begun, written, delivered, calm>>

TakeLock(w) == /\ lock = NoOne /\ job[w].busy
               /\ lock' = w
               /\ UNCHANGED <<job, air, rx, now, begun, written, delivered, calm>>

\* Mutant: a segment that fills the write exactly is not taken for the last.
NextSegmentShort(j) ==
  LET end == j.done + j.pdu.size - 1
      whole == j.pdu.length < j.pdu.size
  IN  [sar  |-> IF whole THEN "complete" ELSE IF j.done = 0 THEN "first"
                ELSE IF end > j.pdu.length THEN "last" ELSE "more",
       type |-> j.pdu.type,
       body |-> SubSeq(Body(j.pdu), j.done + 1, IF end < j.pdu.length THEN end ELSE j.pdu.length)]

\* A PDU that fits, header and all, goes out whole; otherwise each segment
\* carries a header of its own and size - 1 bytes of the body.
NextSegment(j) ==
  LET end == j.done + j.pdu.size - 1
      whole == j.pdu.length < j.pdu.size
  IN  [sar  |-> IF whole THEN "complete" ELSE IF j.done = 0 THEN "first"
                ELSE IF end >= j.pdu.length THEN "last" ELSE "more",
       type |-> j.pdu.type,
       body |-> SubSeq(Body(j.pdu), j.done + 1, IF end < j.pdu.length THEN end ELSE j.pdu.length)]

Done(j) == j.done + Len(NextSegment(j).body)
AtEnd(j) == Done(j) = j.pdu.length

\* One write_gatt_char; after the last the lock is released.
Write(w) == /\ lock = w /\ job[w].busy
            /\ air' = Append(air, NextSegment(job[w]))
            /\ IF AtEnd(job[w])
               THEN /\ job' = [job EXCEPT ![w] = NoJob] /\ lock' = NoOne
                    /\ written' = Append(written, job[w].pdu)
               ELSE /\ job' = [job EXCEPT ![w].done = Done(job[w])]
                    /\ UNCHANGED <<lock, written>>
            /\ UNCHANGED <<rx, now, begun, delivered, calm>>

\* A write raises or is cancelled, with or without its segment on the way: the
\* rest of the message is never sent.
GivesUp(w) ==
  /\ job[w].busy
  /\ job' = [job EXCEPT ![w] = NoJob]
  /\ lock' = IF lock = w THEN NoOne ELSE lock
  /\ \/ UNCHANGED <<air, written>>
     \/ /\ lock = w
        /\ air' = Append(air, NextSegment(job[w]))
        /\ written' = IF AtEnd(job[w]) THEN Append(written, job[w].pdu) ELSE written
  /\ UNCHANGED <<rx, now, begun, delivered, calm>>

-----------------------------------------------------------------------------
\* _reassemble: the message a segment completes (if any) and the new state.
Opened(s) == IF s.body = <<>> \/ Len(s.body) > MaxMessage THEN NoRx
             ELSE [open |-> TRUE, type |-> s.type, body |-> s.body, at |-> now]

Fits(s) == /\ rx.open /\ rx.type = s.type
           /\ now - rx.at <= Timeout
           /\ Len(rx.body) + Len(s.body) <= MaxMessage

Receive ==
  /\ air # <<>> /\ air' = Tail(air)
  /\ LET s == Head(air) IN
     CASE s.sar = "complete" -> /\ rx' = NoRx
                                /\ delivered' = Append(delivered, Message(s.type, s.body))
       [] s.sar = "first"    -> rx' = Opened(s) /\ UNCHANGED delivered
       [] s.sar = "more"     -> /\ rx' = IF Fits(s) THEN [rx EXCEPT !.body = @ \o s.body] ELSE NoRx
                                /\ UNCHANGED delivered
       [] s.sar = "last"     -> /\ rx' = NoRx
                                /\ delivered' = IF Fits(s)
                                     THEN Append(delivered, Message(s.type, rx.body \o s.body))
                                     ELSE delivered
  /\ calm' = (calm /\ ~(Head(air).sar \in {"more", "last"} /\ rx.open /\ now - rx.at > Timeout))
  /\ UNCHANGED <<job, lock, now, begun, written>>

\* The connection ends and a new one is opened; writes in progress raise.
Reconnect == /\ air # <<>> \/ rx # NoRx
             /\ air' = <<>> /\ rx' = NoRx /\ calm' = FALSE
             /\ job' = [w \in Writers |-> NoJob] /\ lock' = NoOne
             /\ UNCHANGED <<now, begun, written, delivered>>

Tick == /\ now < MaxTicks /\ now' = now + 1
        /\ UNCHANGED <<job, lock, air, rx, begun, written, delivered, calm>>

SegmentsNext ==
  \/ \E w \in Writers, type \in Types, length \in Lengths, size \in Sizes :
       Begin(w, type, length, size)
  \/ \E w \in Writers : TakeLock(w) \/ Write(w) \/ GivesUp(w)
  \/ Receive \/ Reconnect \/ Tick

SegmentsSpec == SegmentsInit /\ [][SegmentsNext]_segmentVars

-----------------------------------------------------------------------------
Packet(p) == Message(p.type, Body(p))
Closing == {"complete", "last"}

\* The packets on their way: those of which the closing segment has yet to arrive.
Coming == LET n == Cardinality({i \in 1 .. Len(air) : air[i].sar \in Closing}) IN
          [i \in 1 .. n |-> Packet(written[Len(written) - n + i])]

Channel == INSTANCE PacketChannel WITH
  Packets  <- {Packet(p) : p \in PDU},
  Fitting  <- {Packet(p) : p \in {q \in PDU : \/ q.length <= MaxMessage
                                              \/ \A size \in Sizes : q.length < size}},
  channel  <- Coming,
  reliable <- calm

\* client.py:72: with writes that interleave and are given up half way, messages late
\* or too long and connections that end, the two halves make a channel: a packet comes
\* out whole, never mixed with another nor in part, once, and in the order of the writes.
PacketsComeInOrder == Channel!Spec

\* Only a message over the cap, a connection that ended or a message that took too
\* long is lost; writes given up half way cost no other message.
NothingElseIsLost ==
  air = <<>> /\ calm
    => Len(delivered) = Cardinality({i \in 1 .. Len(written) :
                           \/ written[i].length < written[i].size
                           \/ written[i].length <= MaxMessage})
=============================================================================

---------------------------- MODULE ProxySession ----------------------------
(***************************************************************************)
(* GodoxController over ProxyClient: a connection is made, subscribed to,  *)
(* set up as a mesh proxy (beacon, filter type, whitelist), used for the   *)
(* requests of StatusRequest, and closed; it drops at any time, and is     *)
(* then made again without having been closed.  The link's lock admits one *)
(* of connect, request and disconnect at a time (MeshLink).                *)
(*                                                                         *)
(* The proxy sends a beacon to who subscribes, acknowledges the filter     *)
(* PDUs it hears, and forwards replies once the whitelist has our address. *)
(***************************************************************************)
EXTENDS StatusRequest, MeshPackets

CONSTANTS
  FirstSeq,     \* the sequence number a run starts from
  MaxConnects   \* bound on the connects a run makes

ASSUME SessionAssumption == {FirstSeq, MaxConnects} \subseteq Nat

VARIABLES
  phase,     \* where connect or disconnect is suspended, "off" or "ready"
  client,    \* ProxyClient: its connection's number (0: none), started, callbacks
  connects,  \* connects so far; each has a callback and events of its own
  proxy,     \* the other end: connected, subscribed to, whitelist received
  coming,    \* notifications on their way: "beacon", or which filter PDU is acknowledged
  beacon,    \* beacon_event
  acks,      \* proxy_ack_event is set by these acknowledgements; unset if none
  acked,     \* history: the acknowledgements that ended the last wait for one
  seq,       \* state.sequence_number
  wire,      \* the last encrypted PDU and what it stands for (a set of at most one)
  pending,   \* _control_write_pending
  luck       \* history: "late" an acknowledgement was waited for in vain on this
             \* connection, "lost" a filter PDU was not heard, "leak" a disconnect raised

session == <<client, connects, proxy, coming, beacon, acks, acked, seq, wire, pending, luck>>
everything == <<vars, phase, session>>

Filters == {"type", "white"}
Setup == {"subscribing", "beacon", "echo", "type", "typeack", "white", "whiteack"}
Off == [up |-> FALSE, subscribed |-> FALSE, listed |-> FALSE]
NoClient == [number |-> 0, started |-> FALSE, callbacks |-> {}]

SessionTypeOK ==
  /\ TypeOK
  /\ phase \in Setup \cup {"off", "connecting", "ready", "settling", "stopping", "closing"}
  /\ client \in [number : 0 .. MaxConnects, started : BOOLEAN, callbacks : SUBSET (1 .. MaxConnects)]
  /\ connects \in 0 .. MaxConnects
  /\ proxy \in [up : BOOLEAN, subscribed : BOOLEAN, listed : BOOLEAN]
  /\ coming \subseteq Filters \cup {"beacon"}
  /\ beacon \in BOOLEAN /\ acks \subseteq Filters
  /\ acked \subseteq Filters
  /\ seq \in Nat /\ Cardinality(wire) <= 1 /\ pending \in BOOLEAN
  /\ luck \subseteq {"late", "lost", "leak"}

SessionInit == /\ Init
               /\ phase = "off" /\ client = NoClient /\ connects = 0 /\ proxy = Off
               /\ coming = {} /\ beacon = FALSE /\ acks = {} /\ acked = {}
               /\ seq = FirstSeq /\ wire = {} /\ pending = FALSE /\ luck = {}

-----------------------------------------------------------------------------
\* Net, App and Src stand for the keys and the address of the network.
Net == "net"
App == "app"
Src == "provisioner"
IvIndex == 0
REQUEST_OPCODE == "request"

\* Nothing is left of the last request but its slot and event.
Rest == /\ ~Busy
        /\ stage' = "idle" /\ asked' = {} /\ answer' = {} /\ fresh' = {}
        /\ UNCHANGED <<made, replies, recorded, event>>

\* Mutant: what the previous connection was told is believed of the next one.
ConnectCarrying ==
  /\ phase = "off" \/ (phase = "ready" /\ ~proxy.up)
  /\ connects < MaxConnects
  /\ connects' = connects + 1
  /\ client' = [client EXCEPT !.number = connects + 1]
  /\ phase' = "connecting"
  /\ Rest
  /\ UNCHANGED <<proxy, coming, beacon, acks, acked, seq, wire, pending, luck>>

\* ProxyClient.connect: a new client, whose bookkeeping starts over.  A connection
\* that dropped was never closed.
Connect == /\ phase = "off" \/ (phase = "ready" /\ ~proxy.up)
           /\ connects < MaxConnects
           /\ connects' = connects + 1
           /\ client' = [NoClient EXCEPT !.number = connects + 1]
           /\ phase' = "connecting"
           /\ Rest
           /\ UNCHANGED <<proxy, coming, beacon, acks, acked, seq, wire, pending, luck>>

\* The events of connect are new.
Connected == /\ phase = "connecting"
             /\ phase' = "subscribing"
             /\ proxy' = [Off EXCEPT !.up = TRUE]
             /\ coming' = {} /\ beacon' = FALSE /\ acks' = {}
             /\ acked' = {}
             /\ luck' = luck \cap {"leak"}
             /\ UNCHANGED <<vars, client, connects, seq, wire, pending>>

\* Before the try of GodoxController.connect: nothing is closed.
ConnectRaises == /\ phase = "connecting"
                 /\ phase' = "off"
                 /\ UNCHANGED <<vars, session>>

\* start_notify: the callback is known before the proxy is told, and the proxy is not
\* told again by a client that has told it.
Subscribe == /\ phase = "subscribing" /\ proxy.up
             /\ client' = [client EXCEPT !.started = TRUE, !.callbacks = @ \cup {client.number}]
             /\ IF client.started THEN UNCHANGED <<proxy, coming>>
                ELSE /\ proxy' = [proxy EXCEPT !.subscribed = TRUE]
                     /\ coming' \in {coming, coming \cup {"beacon"}}
             /\ phase' = "beacon"
             /\ UNCHANGED <<vars, connects, beacon, acks, acked, seq, wire, pending, luck>>

\* The event is not looked at again.
BeaconComes == /\ phase = "beacon" /\ beacon
               /\ phase' = "echo" /\ beacon' = FALSE
               /\ UNCHANGED <<vars, client, connects, proxy, coming, acks, acked, seq, wire, pending, luck>>
BeaconTimesOut == /\ phase = "beacon"
                  /\ phase' = "type" /\ beacon' = FALSE
                  /\ UNCHANGED <<vars, client, connects, proxy, coming, acks, acked, seq, wire, pending,
                                 luck>>
Echo == /\ phase = "echo" /\ proxy.up
        /\ phase' = "type"
        /\ UNCHANGED <<vars, session>>

-----------------------------------------------------------------------------
\* Who follows a filter PDU, and where its acknowledgement is waited for.
Waits == [type |-> "typeack", white |-> "whiteack"]
After == [type |-> "white", white |-> "ready"]

FilterPdu(f) ==
  pack_proxy_config_pdu(IF f = "type" THEN 0 ELSE 1,
                        IF f = "type" THEN "whitelist" ELSE {Src, "all nodes"},
                        Net, IvIndex, seq, Src)
FilterMeans(f) == [opcode |-> IF f = "type" THEN 0 ELSE 1,
                   parameters |-> IF f = "type" THEN "whitelist" ELSE {Src, "all nodes"}]

\* _advance_state, after the write.
Advance == seq' = seq + 1

\* The first half of _send_proxy_config.
SendFilter(f) == /\ phase = f /\ proxy.up /\ FitsSequence(seq)
                 /\ wire' = {[pdu |-> FilterPdu(f), means |-> FilterMeans(f)]}
                 /\ Advance
                 /\ phase' = Waits[f]
                 /\ \/ /\ coming' \in {coming, coming \cup {f}}
                       /\ proxy' = [proxy EXCEPT !.listed = @ \/ f = "white"]
                       /\ UNCHANGED luck
                    \/ /\ luck' = luck \cup {"lost"}
                       /\ UNCHANGED <<coming, proxy>>
                 /\ UNCHANGED <<vars, client, connects, beacon, acks, acked, pending>>

\* Mutant: the event stays set.
AckComesUncleared(f) == /\ phase = Waits[f] /\ acks # {}
                        /\ acked' = acks
                        /\ phase' = After[f]
                        /\ UNCHANGED <<vars, client, connects, proxy, coming, beacon, acks, seq,
                                       wire, pending, luck>>

\* The second half: the event is cleared, whichever acknowledgement set it.
AckComes(f) == /\ phase = Waits[f] /\ acks # {}
               /\ acked' = acks /\ acks' = {}
               /\ phase' = After[f]
               /\ UNCHANGED <<vars, client, connects, proxy, coming, beacon, seq, wire, pending, luck>>

\* Mutant: an acknowledgement is waited for as long as the connection lasts.
AckNeverTimesOut(f) == /\ phase = Waits[f] /\ ~proxy.up
                       /\ phase' = After[f]
                       /\ luck' = luck \cup {"late"} /\ acked' = {}
                       /\ UNCHANGED <<vars, client, connects, proxy, coming, beacon, acks, seq, wire,
                                      pending>>

\* No acknowledgement in time: connect goes on without.  After the whitelist the
\* event is not looked at again.
AckTimesOut(f) == /\ phase = Waits[f]
                  /\ phase' = After[f]
                  /\ luck' = luck \cup {"late"} /\ acked' = {}
                  /\ acks' = IF f = "white" THEN {} ELSE acks
                  /\ UNCHANGED <<vars, client, connects, proxy, coming, beacon, seq, wire, pending>>

Writing == {"subscribing", "echo", "type", "white"}

\* Mutant: a setup that fails is left as it is.
SetupAbandoned == /\ phase \in Writing
                  /\ phase' = "off"
                  /\ UNCHANGED <<vars, session>>

\* A write raises, or the next number does not fit.
SetupRaises == /\ phase \in Writing
               /\ phase' = "closing"
               /\ UNCHANGED <<vars, session>>
SetupCancelled == /\ phase \in Setup
                  /\ phase' = "closing"
                  /\ UNCHANGED <<vars, session>>

-----------------------------------------------------------------------------
\* Requests, as in StatusRequest.
RequestPdu(r) ==
  pack_proxy_network_pdu(build_vendor_access_payload(REQUEST_OPCODE, r.kind),
                         Net, App, IvIndex, seq, Src, r.node, 10)
RequestMeans(r) == [src |-> Src, dst |-> r.node, seq |-> seq,
                    access_payload |-> build_vendor_access_payload(REQUEST_OPCODE, r.kind)]

\* The first half of a request; send_payload is the second.
Request_(n, k) == /\ phase = "ready" /\ Ask(n, k)
                  /\ UNCHANGED <<phase, session>>
SendPayload == /\ phase = "ready" /\ proxy.up /\ FitsSequence(seq) /\ Sent
               /\ wire' = {[pdu |-> RequestPdu(r), means |-> RequestMeans(r)] : r \in asked}
               /\ Advance /\ pending' = TRUE
               /\ UNCHANGED <<phase, client, connects, proxy, coming, beacon, acks, acked, luck>>
SendPayloadRaises == /\ SendRaises
                     /\ UNCHANGED <<phase, session>>
RequestEnds == /\ Answered \/ TimesOut
               /\ UNCHANGED <<phase, session>>

Arrives(r) == /\ proxy.up /\ proxy.subscribed /\ proxy.listed /\ client.callbacks # {}
              /\ HandleResponse(r)
              /\ UNCHANGED <<phase, session>>

-----------------------------------------------------------------------------
\* disconnect: it lets a control write settle, stops the notifications and closes.
Disconnect == /\ phase = "ready" /\ Rest
              /\ phase' = IF pending THEN "settling" ELSE "stopping"
              /\ UNCHANGED session
Settled == /\ phase = "settling"
           /\ phase' = "stopping" /\ pending' = FALSE
           /\ UNCHANGED <<vars, client, connects, proxy, coming, beacon, acks, acked, seq, wire, luck>>
\* Cancelled in its sleep: nothing has been closed.
SettleCancelled == /\ phase = "settling"
                   /\ phase' = "ready"
                   /\ UNCHANGED <<vars, session>>

\* stop_notify on a connection that has dropped raises, which is only logged.
Stopped == /\ phase = "stopping"
           /\ phase' = "closing"
           /\ client' = IF proxy.up THEN [client EXCEPT !.started = FALSE, !.callbacks = {}] ELSE client
           /\ proxy' \in {proxy, [proxy EXCEPT !.subscribed = FALSE]}
           /\ UNCHANGED <<vars, connects, coming, beacon, acks, acked, seq, wire, pending, luck>>

\* ProxyClient.disconnect forgets the client, closed or not; the events go with the
\* callback that sets them.
Closed == /\ phase = "closing"
          /\ phase' = "off" /\ client' = NoClient
          /\ beacon' = FALSE /\ acks' = {} /\ acked' = {} /\ wire' = {}
          /\ coming' = {}
          /\ \/ proxy' = Off /\ UNCHANGED luck
             \/ luck' = luck \cup {"leak"} /\ UNCHANGED proxy
          /\ UNCHANGED <<vars, connects, seq, pending>>

-----------------------------------------------------------------------------
\* on_proxy_notify, for each callback that is registered; only the one of this
\* connect has its events waited for, and only during setup.
Awaited == phase \in Setup /\ client.number \in client.callbacks
Heard(x) == /\ x \in coming /\ proxy.up /\ proxy.subscribed
            /\ coming' = coming \ {x}
            /\ beacon' = (beacon \/ (x = "beacon" /\ phase = "beacon" /\ Awaited))
            /\ acks' = IF x \in Filters /\ Awaited THEN acks \cup {x} ELSE acks
            /\ UNCHANGED <<vars, phase, client, connects, proxy, acked, seq, wire, pending, luck>>

Drop == /\ proxy.up
        /\ proxy' = Off /\ coming' = {}
        /\ UNCHANGED <<vars, phase, client, connects, beacon, acks, acked, seq, wire, pending, luck>>

-----------------------------------------------------------------------------
\* What connect and disconnect do by themselves once they are called.
Progress == \/ Connected \/ ConnectRaises \/ Subscribe \/ BeaconComes \/ BeaconTimesOut \/ Echo
            \/ \E f \in Filters : SendFilter(f) \/ AckComes(f) \/ AckTimesOut(f)
            \/ SetupRaises \/ Settled \/ Stopped \/ Closed

SessionNext == \/ Connect \/ Disconnect \/ Progress \/ SetupCancelled \/ SettleCancelled
               \/ \E n \in Nodes, k \in Kinds : Request_(n, k)
               \/ SendPayload \/ SendPayloadRaises \/ RequestEnds
               \/ \E r \in replies : Arrives(r)
               \/ \E x \in coming : Heard(x)
               \/ Drop

\* Every await of connect and disconnect returns, raises or times out.
SessionSpec == SessionInit /\ [][SessionNext]_everything /\ WF_everything(Progress)

-----------------------------------------------------------------------------
\* A connection that is offered to commands can bring their replies: the proxy was
\* told to notify this client, exactly one callback is there to hear it, and the
\* whitelist arrived unless it was lost on the way (connect does not insist).
ReadyIsHeard ==
  phase = "ready" /\ proxy.up =>
    /\ proxy.subscribed /\ client.started /\ client.callbacks = {client.number}
    /\ proxy.listed \/ "lost" \in luck

\* The two filter PDUs wait on one event.  The whitelist is taken to be acknowledged
\* by the acknowledgement of the filter type only if that one was late.
AckIsItsOwn == phase = "ready" => acked \subseteq {"white"} \/ "late" \in luck

\* A setup that fails, and every disconnect, leaves no connection open, unless
\* closing it raised; and no callback or bookkeeping of it is left.
OffIsClosed == phase = "off" => /\ proxy.up => "leak" \in luck
                                /\ client.callbacks = {} /\ ~client.started

\* What is written can be read by who has the keys of the network, and by nobody who
\* has not: the nonces that the two ends build for themselves are the same.
ReadWith(pdu, net, app) == IF pdu.type = "network"
                           THEN decrypt_proxy_network_pdu(pdu, net, app, IvIndex)
                           ELSE ReadProxyConfig(pdu, net, IvIndex)
PeerReads == \A w \in wire : /\ ReadWith(w.pdu, Net, App) = w.means
                             /\ ReadWith(w.pdu, "other net", App) = Unreadable
                             /\ w.pdu.type = "network" =>
                                  ReadWith(w.pdu, Net, "other app") = Unreadable

\* connect and disconnect end, whatever the proxy leaves unanswered.
SetupEnds == (phase \notin {"off", "ready"}) ~> (phase \in {"off", "ready"})
=============================================================================

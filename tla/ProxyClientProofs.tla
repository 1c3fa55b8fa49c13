------------------------- MODULE ProxyClientProofs -------------------------
(***************************************************************************)
(* Proofs about ProxyClient (client.py).  First what ProxySession's run    *)
(* checks of a connection's setup and of requests, for any number of       *)
(* lights, of connects and of requests; then that the segments it writes   *)
(* and reads make a channel, for any lengths and GATT limits.              *)
(***************************************************************************)
EXTENDS ProxySession, ProxySegments, SequenceTheorems, FunctionTheorems, FiniteSetTheorems,
        TLAPS


ClientType == [number : Nat, started : BOOLEAN, callbacks : SUBSET Nat]
ProxyType  == [up : BOOLEAN, subscribed : BOOLEAN, listed : BOOLEAN]

Typed == /\ client \in ClientType /\ proxy \in ProxyType
         /\ connects \in Nat
         /\ coming \subseteq {"beacon", "type", "white"} /\ acks \subseteq {"type", "white"}

\* Before start_notify the client is as new; until then, and when it is off, an open
\* connection is one that could not be closed.
Fresh == /\ phase \in {"off", "connecting", "subscribing"} =>
              client.callbacks = {} /\ ~client.started
         /\ phase \in {"off", "connecting"} /\ proxy.up => "leak" \in luck

\* From start_notify on, as long as the connection is up.
Listening == phase \in {"beacon", "echo", "type", "typeack", "white", "whiteack",
                        "ready", "settling"} =>
                /\ client.started /\ client.callbacks = {client.number}
                /\ proxy.up => proxy.subscribed
Whitelisted == phase \in {"whiteack", "ready", "settling"} /\ proxy.up =>
                 proxy.listed \/ "lost" \in luck

\* Where the acknowledgement of the filter type is: on its way or in the event, never
\* both, and gone once it has ended its own wait.
AckOnce ==
  /\ phase \in {"subscribing", "beacon", "echo", "type"} => acks = {} /\ coming \subseteq {"beacon"}
  /\ phase = "typeack" => /\ acks \subseteq {"type"} /\ coming \subseteq {"beacon", "type"}
                          /\ "type" \in acks => "type" \notin coming
  /\ phase \in {"white", "whiteack"} => "late" \in luck \/ "type" \notin acks \cup coming
  /\ phase \in {"ready", "settling"} => acked \subseteq {"white"} \/ "late" \in luck

\* The event of the kind that was asked for was cleared with the request, so it is set
\* only by what was recorded since.
EventIsFresh == \A r \in asked : r.kind \in event => r.kind \in fresh

IInv == Typed /\ Fresh /\ Listening /\ Whitelisted /\ AckOnce /\ EventIsFresh /\ AnswerArrivedSince

-----------------------------------------------------------------------------
LEMMA InitIInv == SessionInit => IInv
  BY SessionAssumption
  DEF SessionInit, Init, IInv, Typed, ClientType, ProxyType, Fresh, Listening, Whitelisted,
      AckOnce, EventIsFresh, AnswerArrivedSince, NoClient, Off

\* Steps that leave requests alone keep what is said of them, and the other way round.
LEMMA RequestsAlone ==
  ASSUME IInv, UNCHANGED vars
  PROVE  EventIsFresh' /\ AnswerArrivedSince'
  BY DEF IInv, vars, EventIsFresh, AnswerArrivedSince

LEMMA SessionAlone ==
  ASSUME IInv, UNCHANGED <<phase, session>>
  PROVE  (Typed /\ Fresh /\ Listening /\ Whitelisted /\ AckOnce)'
  BY DEF IInv, session, Typed, Fresh, Listening, Whitelisted, AckOnce

LEMMA AtRest ==
  ASSUME Rest
  PROVE  EventIsFresh' /\ AnswerArrivedSince'
  BY DEF Rest, EventIsFresh, AnswerArrivedSince

LEMMA Requesting ==
  ASSUME IInv,
         \/ \E n \in Nodes, k \in Kinds : Ask(n, k)
         \/ Sent \/ SendRaises \/ Answered \/ TimesOut
         \/ \E r \in replies : HandleResponse(r)
  PROVE  EventIsFresh' /\ AnswerArrivedSince'
<1>1. ASSUME NEW n \in Nodes, NEW k \in Kinds, Ask(n, k) PROVE EventIsFresh' /\ AnswerArrivedSince'
  BY <1>1 DEF Ask, EventIsFresh, AnswerArrivedSince
<1>2. CASE Sent \/ SendRaises \/ TimesOut
  BY <1>2 DEF IInv, Sent, SendRaises, TimesOut, EventIsFresh, AnswerArrivedSince
<1>3. CASE Answered
  BY <1>3 DEF IInv, Answered, EventIsFresh, AnswerArrivedSince
<1>4. ASSUME NEW r \in replies, HandleResponse(r) PROVE EventIsFresh' /\ AnswerArrivedSince'
  BY <1>4 DEF IInv, HandleResponse, EventIsFresh, AnswerArrivedSince
<1>. QED
  BY <1>1, <1>2, <1>3, <1>4

-----------------------------------------------------------------------------
LEMMA StepKeepsIInv ==
  ASSUME IInv, [SessionNext]_everything
  PROVE  IInv'
<1>. USE DEF IInv, Typed, ClientType, ProxyType, Fresh, Listening, Whitelisted, AckOnce
<1>1. CASE Connect
  <2>1. client' = [number |-> connects + 1, started |-> FALSE, callbacks |-> {}]
    BY <1>1 DEF Connect, NoClient
  <2>2. phase' = "connecting" /\ connects' = connects + 1 /\ UNCHANGED <<proxy, coming, acks, luck>>
    BY <1>1 DEF Connect
  <2>3. proxy.up => "leak" \in luck
    BY <1>1 DEF Connect
  <2>4. Typed'
    BY <2>1, <2>2
  <2>5. (Fresh /\ Listening /\ Whitelisted /\ AckOnce)'
    BY <2>1, <2>2, <2>3
  <2>. QED
    BY <1>1, <2>4, <2>5, AtRest DEF Connect
<1>2. CASE Disconnect
  BY <1>2, AtRest DEF Disconnect, session, NoClient
<1>3. CASE Connected
  BY <1>3, RequestsAlone DEF Connected, Off, session
<1>4. CASE ConnectRaises
  BY <1>4, RequestsAlone DEF ConnectRaises, session
<1>5. CASE Subscribe
  BY <1>5, RequestsAlone DEF Subscribe, session
<1>6. CASE BeaconComes
  BY <1>6, RequestsAlone DEF BeaconComes, session
<1>7. CASE BeaconTimesOut
  BY <1>7, RequestsAlone DEF BeaconTimesOut, session
<1>8. CASE Echo
  BY <1>8, RequestsAlone DEF Echo, session
<1>9. CASE SetupRaises
  BY <1>9, RequestsAlone DEF SetupRaises, Writing, session
<1>10. CASE SetupCancelled
  BY <1>10, RequestsAlone DEF SetupCancelled, Setup, session
<1>11. CASE Settled
  BY <1>11, RequestsAlone DEF Settled, session
<1>12. CASE SettleCancelled
  BY <1>12, RequestsAlone DEF SettleCancelled, session
<1>13. CASE Stopped
  BY <1>13, RequestsAlone DEF Stopped, session
<1>14. CASE Closed
  <2>1. client' = [number |-> 0, started |-> FALSE, callbacks |-> {}]
    BY <1>14 DEF Closed, NoClient
  <2>2. phase' = "off" /\ acks' = {} /\ coming' = {} /\ connects' = connects
    BY <1>14 DEF Closed
  <2>3. proxy' \in ProxyType /\ (proxy'.up => "leak" \in luck')
    <3>1. proxy' = Off \/ (proxy' = proxy /\ "leak" \in luck')
      BY <1>14 DEF Closed
    <3>2. Off \in ProxyType /\ ~Off.up
      BY DEF Off
    <3>. QED
      BY <3>1, <3>2
  <2>4. Typed'
    BY <2>1, <2>2, <2>3
  <2>5. (Fresh /\ Listening /\ Whitelisted /\ AckOnce)'
    BY <2>1, <2>2, <2>3
  <2>. QED
    BY <1>14, <2>4, <2>5, RequestsAlone DEF Closed
<1>15. CASE Drop
  BY <1>15, RequestsAlone DEF Drop, Off, session
<1>16. ASSUME NEW f \in Filters, AckComes(f) PROVE IInv'
  <2>1. CASE f = "type"
    <3>1. phase = "typeack" /\ phase' = "white"
      BY <1>16, <2>1 DEF AckComes, Waits, After
    <3>. QED
      BY <1>16, <2>1, <3>1, RequestsAlone DEF AckComes, session
  <2>2. CASE f = "white"
    <3>1. phase = "whiteack" /\ phase' = "ready"
      BY <1>16, <2>2 DEF AckComes, Waits, After
    <3>. QED
      BY <1>16, <2>2, <3>1, RequestsAlone DEF AckComes, session
  <2>. QED
    BY <1>16, <2>1, <2>2 DEF Filters
<1>17. ASSUME NEW f \in Filters, AckTimesOut(f) PROVE IInv'
  <2>1. CASE f = "type"
    <3>1. phase = "typeack" /\ phase' = "white"
      BY <1>17, <2>1 DEF AckTimesOut, Waits, After
    <3>. QED
      BY <1>17, <2>1, <3>1, RequestsAlone DEF AckTimesOut, session
  <2>2. CASE f = "white"
    <3>1. phase = "whiteack" /\ phase' = "ready"
      BY <1>17, <2>2 DEF AckTimesOut, Waits, After
    <3>. QED
      BY <1>17, <2>2, <3>1, RequestsAlone DEF AckTimesOut, session
  <2>. QED
    BY <1>17, <2>1, <2>2 DEF Filters
<1>18. ASSUME NEW f \in Filters, SendFilter(f) PROVE IInv'
  BY <1>18, RequestsAlone DEF SendFilter, Filters, Waits, After, session
<1>19. ASSUME NEW x \in coming, Heard(x) PROVE IInv'
  BY <1>19, RequestsAlone DEF Heard, Filters, Awaited, Setup, session
<1>20. ASSUME NEW n \in Nodes, NEW k \in Kinds, Request_(n, k) PROVE IInv'
  BY <1>20, SessionAlone, Requesting DEF Request_
<1>21. CASE SendPayloadRaises \/ RequestEnds
  BY <1>21, SessionAlone, Requesting DEF SendPayloadRaises, RequestEnds
<1>22. ASSUME NEW r \in replies, Arrives(r) PROVE IInv'
  BY <1>22, SessionAlone, Requesting DEF Arrives
<1>23. CASE SendPayload
  BY <1>23, Requesting DEF SendPayload, session
<1>24. CASE UNCHANGED everything
  BY <1>24, SessionAlone, RequestsAlone DEF everything
<1>. QED
  BY <1>1, <1>2, <1>3, <1>4, <1>5, <1>6, <1>7, <1>8, <1>9, <1>10, <1>11,
     <1>12, <1>13, <1>14, <1>15, <1>16, <1>17, <1>18, <1>19, <1>20, <1>21, <1>22, <1>23, <1>24
  DEF SessionNext, Progress

LEMMA Inductive == SessionSpec => []IInv
<1>1. IInv /\ [SessionNext]_everything => IInv'
  BY StepKeepsIInv
<1>. QED
  BY InitIInv, <1>1, PTL DEF SessionSpec

-----------------------------------------------------------------------------
\* controller.py:726, for any number of lights and requests: a reply that arrived
\* before the request does not answer it.
THEOREM AnswersAreNew == SessionSpec => []AnswerArrivedSince
<1>1. IInv => AnswerArrivedSince
  BY DEF IInv
<1>. QED
  BY Inductive, <1>1, PTL

\* However often connections drop, fail to be set up or are cancelled, one that is
\* offered to commands can bring their replies.
THEOREM TheReadyAreHeard == SessionSpec => []ReadyIsHeard
<1>1. IInv => ReadyIsHeard
  BY DEF IInv, Listening, Whitelisted, ReadyIsHeard
<1>. QED
  BY Inductive, <1>1, PTL

\* The one event of both filter PDUs confuses them only after a late acknowledgement.
THEOREM AcksAreTheirOwn == SessionSpec => []AckIsItsOwn
<1>1. IInv => AckIsItsOwn
  BY DEF IInv, AckOnce, AckIsItsOwn
<1>. QED
  BY Inductive, <1>1, PTL

\* Whatever ended it, a connection that is off is closed, unless closing it raised.
THEOREM TheOffAreClosed == SessionSpec => []OffIsClosed
<1>1. IInv => OffIsClosed
  BY DEF IInv, Fresh, OffIsClosed
<1>. QED
  BY Inductive, <1>1, PTL

------------------------------------------------------------------------------
\* Only the network's own privacy key takes the mask off, and nothing else is changed.
LEMMA OnlyItsNetUnmasks ==
  ASSUME NEW type, NEW net, NEW iv, NEW pdu, NEW other
  PROVE  LET o == Obfuscated(type, k2(net), iv, pdu)
             d == deobfuscate(o.pdu, k2(other).privacy, iv)
         IN  /\ o.type = type
             /\ d.pads = {} <=> other = net
             /\ d.ttl = pdu.ttl /\ d.seq = pdu.seq /\ d.src = pdu.src /\ d.cipher = pdu.cipher
<1>. DEFINE o == Obfuscated(type, k2(net), iv, pdu)
            pad == <<k2(net).privacy, iv, pdu.cipher>>
            d == deobfuscate(o.pdu, k2(other).privacy, iv)
<1>1. o = [type |-> type,
           pdu |-> [ivi |-> iv % 2, nid |-> k2(net).nid, pads |-> {pad}, ttl |-> pdu.ttl,
                    seq |-> pdu.seq, src |-> pdu.src, cipher |-> pdu.cipher]]
  BY DEF Obfuscated, obfuscate, Pad
<1>. HIDE DEF o, pad
<1>2. /\ d.pads = {} <=> pad = <<k2(other).privacy, iv, pdu.cipher>>
      /\ d.ttl = pdu.ttl /\ d.seq = pdu.seq /\ d.src = pdu.src /\ d.cipher = pdu.cipher
  <2>1. o.pdu = [ivi |-> iv % 2, nid |-> k2(net).nid, pads |-> {pad}, ttl |-> pdu.ttl,
                 seq |-> pdu.seq, src |-> pdu.src, cipher |-> pdu.cipher]
    BY <1>1
  <2>. QED
    BY ONLY <2>1 DEF deobfuscate, obfuscate, Pad
<1>3. k2(other).privacy = k2(net).privacy <=> other = net
  BY DEF k2, aes_cmac
<1>4. o.type = type
  BY <1>1
<1>. QED
  BY <1>2, <1>3, <1>4 DEF o, pad

LEMMA RecordsAreReadable ==
  ASSUME NEW a, NEW b
  PROVE  /\ [dst |-> a, access |-> b] # Unreadable
         /\ [opcode |-> a, payload |-> b] # Unreadable
<1>1. "unreadable" \in DOMAIN Unreadable
  BY DEF Unreadable
<1>2. /\ "unreadable" \notin DOMAIN [dst |-> a, access |-> b]
      /\ "unreadable" \notin DOMAIN [opcode |-> a, payload |-> b]
  OBVIOUS
<1>. QED
  BY <1>1, <1>2

\* A configuration PDU is read with the network's key and with no other.
LEMMA ConfigIsRead ==
  ASSUME NEW opcode, NEW parameters, NEW net, NEW iv, NEW seqn, NEW src,
         NEW other, other # net
  PROVE  LET pdu == pack_proxy_config_pdu(opcode, parameters, net, iv, seqn, src) IN
         /\ pdu.type = "configuration"
         /\ ReadProxyConfig(pdu, net, iv) = [opcode |-> opcode, parameters |-> parameters]
         /\ ReadProxyConfig(pdu, other, iv) = Unreadable
<1>. DEFINE plain == [dst |-> 0, access |-> [opcode |-> opcode, parameters |-> parameters]]
            cipher == aes_ccm_encrypt(k2(net).encryption, ProxyNonce(seqn, src, iv), plain)
            inner == [ttl |-> 128, seq |-> seqn, src |-> src, cipher |-> cipher]
            pdu == Obfuscated("configuration", k2(net), iv, inner)
            open(key) == deobfuscate(pdu.pdu, k2(key).privacy, iv)
<1>. HIDE DEF cipher
<1>1. inner.seq = seqn /\ inner.src = src /\ inner.cipher = cipher
  OBVIOUS
<1>. HIDE DEF inner
<1>2. /\ pdu.type = "configuration"
      /\ open(net).pads = {} /\ open(net).seq = seqn /\ open(net).src = src
      /\ open(net).cipher = cipher
      /\ open(other).pads # {}
  <2>1. pdu.type = "configuration" /\ open(other).pads # {}
    BY OnlyItsNetUnmasks
  <2>2. /\ open(net).pads = {} /\ open(net).seq = seqn /\ open(net).src = src
        /\ open(net).cipher = cipher
    BY <1>1, OnlyItsNetUnmasks
  <2>. QED
    BY <2>1, <2>2
<1>. HIDE DEF pdu
<1>3. aes_ccm_decrypt(k2(net).encryption, ProxyNonce(seqn, src, iv), cipher) = plain
  BY DEF cipher, aes_ccm_decrypt, aes_ccm_encrypt
<1>4. ReadProxyConfig(pdu, net, iv) = plain.access
  BY <1>2, <1>3, RecordsAreReadable DEF ReadProxyConfig
<1>5. ReadProxyConfig(pdu, other, iv) = Unreadable
  BY <1>2 DEF ReadProxyConfig
<1>. QED
  BY <1>2, <1>4, <1>5 DEF pdu, inner, cipher, pack_proxy_config_pdu

\* A network PDU is opened with the network's key and with no other.
LEMMA NetworkIsOpened ==
  ASSUME NEW payload, NEW net, NEW app, NEW iv, NEW seqn, NEW src, NEW dst, NEW ttl, NEW key
  PROVE  LET pdu == pack_proxy_network_pdu(payload, net, app, iv, seqn, src, dst, ttl)
             open == deobfuscate(pdu.pdu, k2(key).privacy, iv)
         IN  /\ pdu.type = "network" /\ open.seq = seqn /\ open.src = src
             /\ decrypt_network_pdu(open, k2(key).encryption, iv)
                  = IF key = net
                    THEN [dst |-> dst, access |-> encrypt_access_pdu(payload, app, iv, seqn, src, dst)]
                    ELSE Unreadable
<1>. DEFINE plain == [dst |-> dst, access |-> encrypt_access_pdu(payload, app, iv, seqn, src, dst)]
            cipher == aes_ccm_encrypt(k2(net).encryption, NetworkNonce(ttl, seqn, src, iv), plain)
            inner == [ttl |-> ttl, seq |-> seqn, src |-> src, cipher |-> cipher]
            pdu == Obfuscated("network", k2(net), iv, inner)
            open == deobfuscate(pdu.pdu, k2(key).privacy, iv)
<1>1. pdu = pack_proxy_network_pdu(payload, net, app, iv, seqn, src, dst, ttl)
  BY DEF pack_proxy_network_pdu, encrypt_network_pdu
<1>. HIDE DEF plain, cipher
<1>2. inner.ttl = ttl /\ inner.seq = seqn /\ inner.src = src /\ inner.cipher = cipher
  OBVIOUS
<1>. HIDE DEF inner
<1>3. /\ pdu.type = "network"
      /\ (open.pads = {}) <=> (key = net)
      /\ open.seq = seqn /\ open.src = src /\ open.ttl = ttl /\ open.cipher = cipher
  BY <1>2, OnlyItsNetUnmasks
<1>. HIDE DEF pdu, open
<1>4. aes_ccm_decrypt(k2(net).encryption, NetworkNonce(ttl, seqn, src, iv), cipher) = plain
  BY DEF cipher, aes_ccm_decrypt, aes_ccm_encrypt
<1>5. decrypt_network_pdu(open, k2(key).encryption, iv) = IF key = net THEN plain ELSE Unreadable
  <2>1. CASE key = net
    BY <2>1, <1>3, <1>4 DEF decrypt_network_pdu
  <2>2. CASE key # net
    BY <2>2, <1>3 DEF decrypt_network_pdu
  <2>. QED
    BY <2>1, <2>2
<1>. QED
  BY <1>1, <1>3, <1>5 DEF plain, open

\* What it carries is read with both keys, and by nobody who lacks one.
LEMMA NetworkIsRead ==
  ASSUME NEW payload, payload # Unreadable, NEW net, NEW app, NEW iv, NEW seqn, NEW src, NEW dst,
         NEW ttl, NEW key, NEW akey
  PROVE  decrypt_proxy_network_pdu(
           pack_proxy_network_pdu(payload, net, app, iv, seqn, src, dst, ttl), key, akey, iv)
         = IF key = net /\ akey = app
           THEN [src |-> src, dst |-> dst, seq |-> seqn, access_payload |-> payload]
           ELSE Unreadable
<1>. DEFINE access == encrypt_access_pdu(payload, app, iv, seqn, src, dst)
            plain == [dst |-> dst, access |-> access]
            pdu == pack_proxy_network_pdu(payload, net, app, iv, seqn, src, dst, ttl)
            open == deobfuscate(pdu.pdu, k2(key).privacy, iv)
<1>1. /\ pdu.type = "network" /\ open.seq = seqn /\ open.src = src
      /\ decrypt_network_pdu(open, k2(key).encryption, iv) = IF key = net THEN plain ELSE Unreadable
  BY ONLY NetworkIsOpened
<1>2. decrypt_access_pdu(access, akey, iv, seqn, src, dst)
        = IF akey = app THEN payload ELSE Unreadable
  BY DEF encrypt_access_pdu, decrypt_access_pdu, aes_ccm_decrypt, aes_ccm_encrypt
<1>. HIDE DEF access, pdu
<1>3. plain # Unreadable /\ plain.dst = dst /\ plain.access = access
  BY RecordsAreReadable
<1>. HIDE DEF plain
<1>4. decrypt_proxy_network_pdu(pdu, key, akey, iv)
      = IF key = net /\ akey = app
        THEN [src |-> src, dst |-> dst, seq |-> seqn, access_payload |-> payload]
        ELSE Unreadable
  BY <1>1, <1>2, <1>3 DEF decrypt_proxy_network_pdu
<1>. QED
  BY <1>4 DEF pdu

\* What each end writes and reads is built from the same fields: the light opens every
\* PDU of a session, whatever the counter, the light and the kind of request, and who
\* lacks one of the keys opens none.
THEOREM ThePeerReads == SessionSpec => []PeerReads
<1>. USE DEF PeerReads, Net, App, Src
<1>1. SessionInit => PeerReads
  BY DEF SessionInit
<1>2. ASSUME NEW f \in Filters, SendFilter(f) PROVE PeerReads'
  <2>. DEFINE opcode == IF f = "type" THEN 0 ELSE 1
              parameters == IF f = "type" THEN "whitelist" ELSE {Src, "all nodes"}
  <2>1. wire' = {[pdu |-> FilterPdu(f), means |-> FilterMeans(f)]}
    BY <1>2 DEF SendFilter
  <2>2. /\ FilterPdu(f) = pack_proxy_config_pdu(opcode, parameters, "net", IvIndex, seq, Src)
        /\ FilterMeans(f) = [opcode |-> opcode, parameters |-> parameters]
    BY DEF FilterPdu, FilterMeans
  <2>. HIDE DEF opcode, parameters
  <2>3. /\ FilterPdu(f).type = "configuration"
        /\ ReadProxyConfig(FilterPdu(f), "net", IvIndex) = FilterMeans(f)
        /\ ReadProxyConfig(FilterPdu(f), "other net", IvIndex) = Unreadable
    <3>1. "other net" # "net"
      OBVIOUS
    <3>2. LET pdu == pack_proxy_config_pdu(opcode, parameters, "net", IvIndex, seq, Src) IN
          /\ pdu.type = "configuration"
          /\ ReadProxyConfig(pdu, "net", IvIndex) = [opcode |-> opcode, parameters |-> parameters]
          /\ ReadProxyConfig(pdu, "other net", IvIndex) = Unreadable
      <4>1. ASSUME NEW net, NEW other, other # net
            PROVE  LET pdu == pack_proxy_config_pdu(opcode, parameters, net, IvIndex, seq, Src) IN
                   /\ pdu.type = "configuration"
                   /\ ReadProxyConfig(pdu, net, IvIndex)
                        = [opcode |-> opcode, parameters |-> parameters]
                   /\ ReadProxyConfig(pdu, other, IvIndex) = Unreadable
        BY ONLY <4>1, ConfigIsRead
      <4>. QED
        BY ONLY <3>1, <4>1
    <3>. QED
      BY <2>2, <3>2, Zenon
  <2>4. ASSUME NEW w \in wire' PROVE w.pdu = FilterPdu(f) /\ w.means = FilterMeans(f)
    BY <2>1
  <2>. QED
    BY <2>3, <2>4 DEF ReadWith
<1>3. ASSUME SendPayload PROVE PeerReads'
  <2>1. wire' = {[pdu |-> RequestPdu(r), means |-> RequestMeans(r)] : r \in asked}
    BY <1>3 DEF SendPayload
  <2>2. ASSUME NEW w \in wire'
        PROVE  /\ w.pdu.type = "network"
               /\ decrypt_proxy_network_pdu(w.pdu, "net", "app", IvIndex) = w.means
               /\ decrypt_proxy_network_pdu(w.pdu, "other net", "app", IvIndex) = Unreadable
               /\ decrypt_proxy_network_pdu(w.pdu, "net", "other app", IvIndex) = Unreadable
    <3>1. PICK r \in asked : w = [pdu |-> RequestPdu(r), means |-> RequestMeans(r)]
      BY <2>1
    <3>. DEFINE payload == build_vendor_access_payload(REQUEST_OPCODE, r.kind)
    <3>2. payload # Unreadable
      BY RecordsAreReadable DEF build_vendor_access_payload
    <3>. HIDE DEF payload
    <3>3. /\ w.pdu = pack_proxy_network_pdu(payload, "net", "app", IvIndex, seq, Src, r.node, 10)
          /\ w.means = [src |-> Src, dst |-> r.node, seq |-> seq, access_payload |-> payload]
      BY <3>1 DEF RequestPdu, RequestMeans, payload
    <3>4. "other net" # "net" /\ "other app" # "app"
      OBVIOUS
    <3>5. w.pdu.type = "network"
      BY <3>3 DEF pack_proxy_network_pdu, Obfuscated
    <3>6. ASSUME NEW key, NEW akey
          PROVE  decrypt_proxy_network_pdu(w.pdu, key, akey, IvIndex)
                 = IF key = "net" /\ akey = "app" THEN w.means ELSE Unreadable
      BY <3>2, <3>3, NetworkIsRead
    <3>. QED
      BY <3>4, <3>5, <3>6
  <2>. QED
    BY <2>2 DEF ReadWith
<1>4. ASSUME Closed PROVE PeerReads'
  BY <1>4 DEF Closed
<1>5. ASSUME [SessionNext]_everything, UNCHANGED wire, PeerReads PROVE PeerReads'
  BY <1>5
<1>6. PeerReads /\ [SessionNext]_everything => PeerReads'
  <2>1. [SessionNext]_everything =>
          \/ \E f \in Filters : SendFilter(f)
          \/ SendPayload \/ Closed \/ UNCHANGED wire
    BY DEF SessionNext, Progress, everything, session, Connect, Disconnect, Connected, ConnectRaises,
           Subscribe, BeaconComes, BeaconTimesOut, Echo, AckComes, AckTimesOut, SetupRaises, Settled,
           Stopped, SetupCancelled, SettleCancelled, Request_, SendPayloadRaises, RequestEnds,
           Arrives, Heard, Drop
  <2>. QED
    BY <1>2, <1>3, <1>4, <1>5, <2>1
<1>. QED
  BY <1>1, <1>6, PTL DEF SessionSpec

-----------------------------------------------------------------------------
(* Where a segment comes from. *)

\* A piece: the PDU and how much of it was written before.  A PDU that is cut does
\* not fit one write.
Piece(j) == /\ j.pdu \in PDU
            /\ j.done \in Nat /\ j.done < j.pdu.length
            /\ j.done > 0 => j.pdu.length >= j.pdu.size

\* Where the piece ends.
Stop(j) == IF j.done + j.pdu.size - 1 < j.pdu.length
           THEN j.done + j.pdu.size - 1 ELSE j.pdu.length

LEMMA PDUsAreNumbered ==
  ASSUME NEW p \in PDU
  PROVE  /\ p.length \in Nat /\ p.length > 0
         /\ p.size \in Nat /\ p.size > 1
         /\ p.type \in Types /\ p.id \in 1 .. MaxPDUs
<1>1. p.length \in Lengths /\ p.size \in Sizes /\ p.type \in Types /\ p.id \in 1 .. MaxPDUs
  BY DEF PDU
<1>2. p.length \in Nat \ {0} /\ p.size \in Nat \ {0, 1}
  BY <1>1, SegmentAssumption
<1>. QED
  BY <1>1, <1>2

LEMMA BodiesAreSequences ==
  ASSUME NEW p \in PDU
  PROVE  Body(p) \in Seq(Bytes) /\ Len(Body(p)) = p.length
<1>. p.length \in Nat /\ p.id \in 1 .. MaxPDUs
  BY PDUsAreNumbered
<1>1. \A i \in 1 .. p.length : [of |-> p.id, at |-> i] \in Bytes
  BY DEF Bytes
<1>. QED
  BY <1>1 DEF Body

\* What NextSegment cuts: the bytes from where the piece starts to where it ends,
\* and never none.
LEMMA SegmentsAreParts ==
  ASSUME NEW j, Piece(j)
  PROVE  /\ Stop(j) \in j.done + 1 .. j.pdu.length
         /\ NextSegment(j).type = j.pdu.type
         /\ NextSegment(j).body = SubSeq(Body(j.pdu), j.done + 1, Stop(j))
         /\ NextSegment(j).body \in Seq(Bytes)
         /\ Len(NextSegment(j).body) = Stop(j) - j.done
         /\ Done(j) = Stop(j)
<1>1. j.pdu.length \in Nat /\ j.pdu.size \in Nat /\ j.pdu.size > 1
  BY PDUsAreNumbered DEF Piece
<1>2. Stop(j) \in j.done + 1 .. j.pdu.length
  BY <1>1 DEF Stop, Piece
<1>3. /\ NextSegment(j).type = j.pdu.type
      /\ NextSegment(j).body = SubSeq(Body(j.pdu), j.done + 1, Stop(j))
  BY DEF NextSegment, Stop
<1>4. \A i \in j.done + 1 .. Stop(j) : Body(j.pdu)[i] \in Bytes
  BY <1>1, <1>2, BodiesAreSequences, ElementOfSeq DEF Piece
<1>5. /\ SubSeq(Body(j.pdu), j.done + 1, Stop(j)) \in Seq(Bytes)
      /\ Len(SubSeq(Body(j.pdu), j.done + 1, Stop(j))) = Stop(j) - j.done
  <2>1. j.done + 1 \in Int /\ Stop(j) \in Int
    BY <1>1, <1>2 DEF Piece
  <2>. QED
    BY <1>1, <1>2, <1>4, <2>1, SubSeqProperties DEF Piece
<1>6. Done(j) = Stop(j)
  BY <1>1, <1>2, <1>3, <1>5 DEF Done, Piece
<1>. QED
  BY <1>2, <1>3, <1>5, <1>6

\* The header says which part it is.
LEMMA SegmentsAreMarked ==
  ASSUME NEW j, Piece(j)
  PROVE  /\ NextSegment(j).sar = "complete" <=> j.done = 0 /\ j.pdu.length < j.pdu.size
         /\ NextSegment(j).sar = "first" <=> j.done = 0 /\ j.pdu.length >= j.pdu.size
         /\ NextSegment(j).sar = "more" <=> j.done > 0 /\ Stop(j) < j.pdu.length
         /\ NextSegment(j).sar = "last" <=> j.done > 0 /\ Stop(j) = j.pdu.length
         /\ NextSegment(j).sar \in {"complete", "first", "more", "last"}
         /\ NextSegment(j).sar \in Closing <=> Stop(j) = j.pdu.length
         /\ AtEnd(j) <=> Stop(j) = j.pdu.length
<1>1. j.pdu.length \in Nat /\ j.pdu.size \in Nat /\ j.pdu.size > 1 /\ j.done \in Nat
  BY PDUsAreNumbered DEF Piece
<1>2. AtEnd(j) <=> Stop(j) = j.pdu.length
  BY SegmentsAreParts DEF AtEnd
<1>3. NextSegment(j).sar = IF j.pdu.length < j.pdu.size THEN "complete"
                           ELSE IF j.done = 0 THEN "first"
                           ELSE IF Stop(j) = j.pdu.length THEN "last" ELSE "more"
  BY <1>1 DEF NextSegment, Stop
<1>4. j.pdu.length < j.pdu.size => j.done = 0 /\ Stop(j) = j.pdu.length
  BY <1>1 DEF Piece, Stop
<1>5. j.done = 0 /\ j.pdu.length >= j.pdu.size => Stop(j) < j.pdu.length
  BY <1>1 DEF Stop
<1>6. Stop(j) <= j.pdu.length /\ Stop(j) \in Nat
  BY <1>1, SegmentsAreParts
<1>. QED
  BY <1>1, <1>2, <1>3, <1>4, <1>5, <1>6 DEF Closing

\* Two pieces of a PDU that meet make a longer one.
LEMMA PartsMeet ==
  ASSUME NEW j, Piece(j)
  PROVE  /\ SubSeq(Body(j.pdu), 1, j.done) \o NextSegment(j).body = SubSeq(Body(j.pdu), 1, Stop(j))
         /\ SubSeq(Body(j.pdu), 1, j.done) \in Seq(Bytes)
         /\ Len(SubSeq(Body(j.pdu), 1, j.done)) = j.done
         /\ SubSeq(Body(j.pdu), 1, j.pdu.length) = Body(j.pdu)
<1>1. /\ j.pdu.length \in Nat /\ j.pdu.length > 0 /\ j.done \in Nat /\ j.done < j.pdu.length
      /\ Body(j.pdu) \in Seq(Bytes) /\ Len(Body(j.pdu)) = j.pdu.length
  BY PDUsAreNumbered, BodiesAreSequences DEF Piece
<1>2. Stop(j) \in j.done .. j.pdu.length
  BY <1>1, SegmentsAreParts
<1>3. SubSeq(Body(j.pdu), 1, j.done) \o SubSeq(Body(j.pdu), j.done + 1, Stop(j))
        = SubSeq(Body(j.pdu), 1, Stop(j))
  <2>1. 1 \in 1 .. Len(Body(j.pdu)) + 1 /\ j.done \in 1 - 1 .. Len(Body(j.pdu))
        /\ Stop(j) \in j.done .. Len(Body(j.pdu))
    BY <1>1, <1>2
  <2>. QED
    BY <1>1, <2>1, ConcatAdjacentSubSeq
<1>4. \A i \in 1 .. j.done : Body(j.pdu)[i] \in Bytes
  BY <1>1, ElementOfSeq
<1>5. /\ SubSeq(Body(j.pdu), 1, j.done) \in Seq(Bytes)
      /\ Len(SubSeq(Body(j.pdu), 1, j.done)) = j.done
  BY <1>1, <1>4, SubSeqProperties
<1>. QED
  BY <1>1, <1>3, <1>5, SegmentsAreParts, SubSeqFull

-----------------------------------------------------------------------------
(* The closing segments on their way. *)

\* Those after place i.
Closings(s, i) == Cardinality({k \in i + 1 .. Len(s) : s[k].sar \in Closing})

LEMMA ClosingsAreFinite ==
  ASSUME NEW s, NEW i \in Nat, Len(s) \in Nat
  PROVE  /\ IsFiniteSet({k \in i + 1 .. Len(s) : s[k].sar \in Closing})
         /\ Closings(s, i) \in Nat
<1>1. IsFiniteSet(i + 1 .. Len(s))
  BY FS_Interval
<1>2. {k \in i + 1 .. Len(s) : s[k].sar \in Closing} \subseteq i + 1 .. Len(s)
  OBVIOUS
<1>. QED
  BY <1>1, <1>2, FS_Subset, FS_CardinalityType DEF Closings

\* The next place is one of them or not.
LEMMA ClosingsStep ==
  ASSUME NEW s, Len(s) \in Nat, NEW i \in 0 .. Len(s) - 1
  PROVE  Closings(s, i) = Closings(s, i + 1) + (IF s[i + 1].sar \in Closing THEN 1 ELSE 0)
<1>. DEFINE C(n) == {k \in n + 1 .. Len(s) : s[k].sar \in Closing}
<1>1. C(i) = IF s[i + 1].sar \in Closing THEN C(i + 1) \cup {i + 1} ELSE C(i + 1)
  OBVIOUS
<1>2. i + 1 \notin C(i + 1)
  OBVIOUS
<1>3. IsFiniteSet(C(i + 1)) /\ Cardinality(C(i + 1)) \in Nat
  BY i + 1 \in Nat, ClosingsAreFinite DEF Closings
<1>4. Cardinality(C(i + 1) \cup {i + 1}) = Cardinality(C(i + 1)) + 1
  BY <1>2, <1>3, FS_AddElement
<1>5. Closings(s, i) = Cardinality(C(i)) /\ Closings(s, i + 1) = Cardinality(C(i + 1))
  BY DEF Closings
<1>. HIDE DEF C
<1>. QED
  BY <1>1, <1>3, <1>4, <1>5

LEMMA ClosingsNone ==
  ASSUME NEW s, Len(s) \in Nat
  PROVE  Closings(s, Len(s)) = 0
<1>1. {k \in Len(s) + 1 .. Len(s) : s[k].sar \in Closing} = {}
  OBVIOUS
<1>. QED
  BY <1>1, FS_EmptySet DEF Closings

LEMMA ClosingsAppended ==
  ASSUME NEW S, NEW s \in Seq(S), NEW e \in S, NEW i \in 0 .. Len(s)
  PROVE  Closings(Append(s, e), i) = Closings(s, i) + (IF e.sar \in Closing THEN 1 ELSE 0)
<1>. DEFINE C == {k \in i + 1 .. Len(s) : s[k].sar \in Closing}
            D == {k \in i + 1 .. Len(Append(s, e)) : Append(s, e)[k].sar \in Closing}
<1>1. /\ Len(s) \in Nat /\ Len(Append(s, e)) = Len(s) + 1
      /\ \A k \in 1 .. Len(s) : Append(s, e)[k] = s[k]
      /\ Append(s, e)[Len(s) + 1] = e
  BY LenProperties, AppendProperties
<1>2. D = IF e.sar \in Closing THEN C \cup {Len(s) + 1} ELSE C
  BY <1>1
<1>3. IsFiniteSet(C) /\ Cardinality(C) \in Nat
  BY <1>1, ClosingsAreFinite DEF Closings
<1>4. Len(s) + 1 \notin C
  BY <1>1
<1>5. Cardinality(C \cup {Len(s) + 1}) = Cardinality(C) + 1
  BY <1>3, <1>4, FS_AddElement
<1>6. Closings(s, i) = Cardinality(C) /\ Closings(Append(s, e), i) = Cardinality(D)
  BY DEF Closings
<1>. HIDE DEF C, D
<1>. QED
  BY <1>2, <1>3, <1>5, <1>6

LEMMA ClosingsTail ==
  ASSUME NEW S, NEW s \in Seq(S), s # <<>>, NEW i \in 0 .. Len(s) - 1
  PROVE  Closings(Tail(s), i) = Closings(s, i + 1)
<1>. DEFINE C == {k \in i + 2 .. Len(s) : s[k].sar \in Closing}
            D == {k \in i + 1 .. Len(Tail(s)) : Tail(s)[k].sar \in Closing}
            f == [k \in C |-> k - 1]
<1>1. /\ Len(s) \in Nat \ {0} /\ Len(Tail(s)) = Len(s) - 1
      /\ \A k \in 1 .. Len(s) - 1 : Tail(s)[k] = s[k + 1]
  BY EmptySeq, HeadTailProperties
<1>2. IsFiniteSet(C)
  BY <1>1, i + 1 \in Nat, (i + 1) + 1 = i + 2, ClosingsAreFinite
<1>3. f \in [C -> D]
  <2>1. ASSUME NEW k \in C PROVE k - 1 \in D
    BY <1>1, <2>1
  <2>. QED
    BY <2>1
<1>4. f \in Bijection(C, D)
  <2>1. \A a, b \in C : f[a] = f[b] => a = b
    OBVIOUS
  <2>2. \A d \in D : \E c \in C : f[c] = d
    <3>1. TAKE d \in D
    <3>2. d + 1 \in C /\ f[d + 1] = d
      BY <1>1
    <3>. QED
      BY <3>2
  <2>. QED
    BY <1>3, <2>1, <2>2, Fun_IsBij
<1>5. ExistsBijection(C, D)
  BY <1>4 DEF ExistsBijection
<1>6. Closings(s, i + 1) = Cardinality(C) /\ Closings(Tail(s), i) = Cardinality(D)
  BY (i + 1) + 1 = i + 2 DEF Closings
<1>. HIDE DEF C, D
<1>. QED
  BY <1>2, <1>5, <1>6, FS_Bijection

\* There are no more of them after a later place.
LEMMA ClosingsFall ==
  ASSUME NEW s, Len(s) \in Nat, NEW i \in 0 .. Len(s)
  PROVE  Closings(s, i) <= Closings(s, 0)
<1>. DEFINE C(n) == {k \in n + 1 .. Len(s) : s[k].sar \in Closing}
<1>1. IsFiniteSet(C(0))
  BY 0 \in Nat, ClosingsAreFinite
<1>3. C(i) \in SUBSET C(0)
  OBVIOUS
<1>2. Closings(s, 0) = Cardinality(C(0)) /\ Closings(s, i) = Cardinality(C(i))
  BY DEF Closings
<1>. HIDE DEF C
<1>. QED
  BY <1>1, <1>2, <1>3, FS_Subset

-----------------------------------------------------------------------------
(* The messages the receiver has room for. *)

Kept(p) == p.length < p.size \/ p.length <= MaxMessage

\* Those among the first m of s.
Kepts(s, m) == Cardinality({i \in 1 .. m : Kept(s[i])})

LEMMA KeptsStep ==
  ASSUME NEW s, NEW m \in Nat
  PROVE  /\ Kepts(s, m) \in Nat
         /\ Kepts(s, m + 1) = Kepts(s, m) + (IF Kept(s[m + 1]) THEN 1 ELSE 0)
<1>. DEFINE C(n) == {i \in 1 .. n : Kept(s[i])}
<1>1. C(m + 1) = IF Kept(s[m + 1]) THEN C(m) \cup {m + 1} ELSE C(m)
  OBVIOUS
<1>2. m + 1 \notin C(m)
  OBVIOUS
<1>3. IsFiniteSet(C(m)) /\ Cardinality(C(m)) \in Nat
  <2>1. IsFiniteSet(1 .. m) /\ C(m) \in SUBSET (1 .. m)
    BY FS_Interval
  <2>. QED
    BY <2>1, FS_Subset, FS_CardinalityType
<1>4. Cardinality(C(m) \cup {m + 1}) = Cardinality(C(m)) + 1
  BY <1>2, <1>3, FS_AddElement
<1>5. Kepts(s, m) = Cardinality(C(m)) /\ Kepts(s, m + 1) = Cardinality(C(m + 1))
  BY DEF Kepts
<1>. HIDE DEF C
<1>. QED
  BY <1>1, <1>3, <1>4, <1>5

LEMMA KeptsAppended ==
  ASSUME NEW S, NEW s \in Seq(S), NEW e \in S, NEW m \in 0 .. Len(s)
  PROVE  Kepts(Append(s, e), m) = Kepts(s, m)
<1>1. \A i \in 1 .. m : Append(s, e)[i] = s[i]
  BY LenProperties, AppendProperties
<1>2. {i \in 1 .. m : Kept(Append(s, e)[i])} = {i \in 1 .. m : Kept(s[i])}
  BY <1>1
<1>. QED
  BY <1>2 DEF Kepts

-----------------------------------------------------------------------------
(* What holds at every step. *)

Pieces   == {j \in [pdu : PDU, done : Nat] : Piece(j)}
Segments == {NextSegment(j) : j \in Pieces}
Packets  == {Packet(p) : p \in PDU}

\* Piece j comes right after piece k, unless it is the first of its PDU.
Continues(j, k) == j.done > 0 => k.pdu = j.pdu /\ Stop(k) = j.done

\* Piece j comes right after what the receiver holds.  It holds nothing when it
\* had no room, or a message came too late.
AtRx(j) == j.done > 0 =>
  \/ rx.open /\ rx.type = j.pdu.type /\ rx.body = SubSeq(Body(j.pdu), 1, j.done)
  \/ ~rx.open /\ (calm => j.pdu.length > MaxMessage)

\* Which pieces the segments on their way are: each that is not the first of its PDU
\* follows its predecessor at once, since the lock is not released between them and
\* a message given up leaves the next one to begin afresh; and the closing ones are
\* those of the PDUs written last.
Line(src) ==
  /\ Len(src) = Len(air)
  /\ \A i \in 1 .. Len(air) : air[i] = NextSegment(src[i])
  /\ \A i \in 2 .. Len(air) : Continues(src[i], src[i - 1])
  /\ Len(air) > 0 => AtRx(src[1])
  /\ \A i \in 1 .. Len(air) :
       air[i].sar \in Closing => written[Len(written) - Closings(air, i)] = src[i].pdu
  /\ \A w \in Writers : lock = w /\ job[w].busy =>
       IF Len(air) = 0 THEN AtRx(job[w]) ELSE Continues(job[w], src[Len(air)])

\* With the lock alone a message is begun.
Serialised ==
  \A w \in Writers : job[w].busy => Piece(job[w]) /\ (lock # w => job[w].done = 0)

LineTyped == /\ air \in Seq(Segments)
         /\ written \in Seq(PDU)
         /\ delivered \in Seq(Packets)
         /\ Closings(air, 0) <= Len(written)

\* Of the messages that have arrived, those with room were delivered.
Accounted == calm => Len(delivered) = Kepts(written, Len(written) - Closings(air, 0))

SegmentsInv == /\ SegmentsTypeOK /\ LineTyped /\ Serialised /\ Accounted
       /\ \E src \in Seq(Pieces) : Line(src)

-----------------------------------------------------------------------------
(* One step at a time. *)

LEMMA PiecesCut ==
  ASSUME NEW j \in Pieces
  PROVE  Piece(j) /\ NextSegment(j) \in Segments
  BY DEF Pieces, Segments

\* The piece a writer is at.
At(w) == [pdu |-> job[w].pdu, done |-> job[w].done]

LEMMA WritersCut ==
  ASSUME NEW w \in Writers, Serialised, job[w].busy
  PROVE  /\ At(w) \in Pieces /\ Piece(At(w)) /\ Piece(job[w])
         /\ NextSegment(At(w)) = NextSegment(job[w])
         /\ Stop(At(w)) = Stop(job[w])
         /\ At(w).pdu = job[w].pdu /\ At(w).done = job[w].done
         /\ Done(job[w]) = Stop(job[w])
         /\ AtEnd(job[w]) <=> NextSegment(job[w]).sar \in Closing
         /\ AtEnd(job[w]) <=> Stop(job[w]) = job[w].pdu.length
         /\ NextSegment(job[w]) \in Segments
<1>1. Piece(job[w])
  BY DEF Serialised
<1>2. At(w).pdu = job[w].pdu /\ At(w).done = job[w].done
  BY DEF At
<1>3. Piece(At(w)) /\ At(w) \in Pieces
  BY <1>1, <1>2 DEF Piece, Pieces, At
<1>4. NextSegment(At(w)) = NextSegment(job[w]) /\ Stop(At(w)) = Stop(job[w])
  BY <1>2 DEF NextSegment, Stop
<1>. QED
  BY <1>1, <1>2, <1>3, <1>4, SegmentsAreParts, SegmentsAreMarked DEF Segments

\* A segment leaves.
Sends(w) ==
  /\ lock = w /\ job[w].busy
  /\ air' = Append(air, NextSegment(job[w]))
  /\ written' = IF AtEnd(job[w]) THEN Append(written, job[w].pdu) ELSE written
  /\ UNCHANGED <<rx, delivered, calm>>

\* Both counts of a PDU move together.
LEMMA SentAccounted ==
  ASSUME SegmentsInv, NEW w \in Writers, Sends(w)
  PROVE  /\ LineTyped' /\ Accounted'
         /\ Len(written') - Closings(air', 0) = Len(written) - Closings(air, 0)
         /\ \A i \in 0 .. Len(air) :
              Len(written') - Closings(air', i) = Len(written) - Closings(air, i)
<1>. DEFINE s == NextSegment(job[w])
<1>1. /\ air \in Seq(Segments) /\ s \in Segments /\ written \in Seq(PDU) /\ job[w].pdu \in PDU
      /\ AtEnd(job[w]) <=> s.sar \in Closing
  BY WritersCut DEF SegmentsInv, LineTyped, Sends, Piece
<1>2. /\ Len(air) \in Nat /\ Len(written) \in Nat
      /\ air' \in Seq(Segments) /\ written' \in Seq(PDU)
      /\ Len(written') = Len(written) + (IF AtEnd(job[w]) THEN 1 ELSE 0)
  BY <1>1, LenProperties, AppendProperties DEF Sends
<1>3. ASSUME NEW i \in 0 .. Len(air)
      PROVE  /\ Closings(air, i) \in Nat
             /\ Closings(air', i) = Closings(air, i) + (IF AtEnd(job[w]) THEN 1 ELSE 0)
  <2>1. Closings(air, i) \in Nat
    BY <1>2, i \in Nat, ClosingsAreFinite
  <2>2. Closings(Append(air, s), i) = Closings(air, i) + (IF s.sar \in Closing THEN 1 ELSE 0)
    BY <1>1, ClosingsAppended
  <2>. QED
    BY <1>1, <2>1, <2>2 DEF Sends
<1>4. \A i \in 0 .. Len(air) : Len(written') - Closings(air', i) = Len(written) - Closings(air, i)
  BY <1>2, <1>3
<1>5. 0 \in 0 .. Len(air)
  BY <1>2
<1>6. Closings(air', 0) <= Len(written')
  BY <1>2, <1>3, <1>5 DEF SegmentsInv, LineTyped
<1>7. Accounted'
  <2>1. Len(written) - Closings(air, 0) \in 0 .. Len(written)
    BY <1>2, <1>3, <1>5 DEF SegmentsInv, LineTyped
  <2>2. Kepts(written', Len(written) - Closings(air, 0)) = Kepts(written, Len(written) - Closings(air, 0))
    BY <1>1, <2>1, KeptsAppended DEF Sends
  <2>. QED
    BY <1>4, <1>5, <2>2 DEF SegmentsInv, Accounted, Sends
<1>. QED
  BY <1>2, <1>4, <1>5, <1>6, <1>7 DEF LineTyped, SegmentsInv, Sends

\* The piece joins the line; the writer goes on where it ends, or has let the lock go.
LEMMA LineGrows ==
  ASSUME SegmentsInv, NEW w \in Writers, Sends(w),
         \/ lock' = NoOne
         \/ /\ lock' = w /\ job'[w].done = Stop(job[w]) /\ job'[w].pdu = job[w].pdu
  PROVE  \E src \in Seq(Pieces) : Line(src)'
<1>1. PICK src \in Seq(Pieces) : Line(src)
  BY DEF SegmentsInv
<1>. PICK q : q = Append(src, At(w))
  OBVIOUS
<1>. DEFINE s == NextSegment(job[w])
            n == Len(air)
<1>2. /\ Serialised /\ job[w].busy
      /\ At(w) \in Pieces /\ s = NextSegment(At(w)) /\ s \in Segments
      /\ Stop(At(w)) = Stop(job[w])
      /\ At(w).pdu = job[w].pdu /\ At(w).done = job[w].done
      /\ AtEnd(job[w]) <=> s.sar \in Closing
      /\ job[w].pdu \in PDU
  BY WritersCut DEF SegmentsInv, Sends, Piece
<1>3. air \in Seq(Segments) /\ air' = Append(air, s) /\ written \in Seq(PDU) /\ Len(src) = n
  BY <1>1 DEF SegmentsInv, LineTyped, Sends, Line
<1>4. /\ n \in Nat /\ Len(air') = n + 1 /\ Len(q) = n + 1 /\ q \in Seq(Pieces)
      /\ \A i \in 1 .. n : air'[i] = air[i] /\ q[i] = src[i]
      /\ air'[n + 1] = s /\ q[n + 1] = At(w)
  BY <1>1, <1>2, <1>3, LenProperties, AppendProperties
<1>. HIDE DEF s
<1>5. \A i \in 1 .. Len(air') : air'[i] = NextSegment(q[i])
  BY <1>1, <1>2, <1>4 DEF Line
<1>6. \A i \in 2 .. Len(air') : Continues(q[i], q[i - 1])
  <2>1. SUFFICES ASSUME NEW i \in 2 .. n + 1 PROVE Continues(q[i], q[i - 1])
    BY <1>4
  <2>2. CASE i \in 2 .. n
    BY <1>1, <1>4, <2>2 DEF Line
  <2>3. CASE i = n + 1
    <3>1. n > 0 /\ i - 1 = n /\ n \in 1 .. n
      BY <1>4, <2>3
    <3>2. Continues(job[w], src[n])
      BY <1>1, <1>2, <3>1 DEF Line, Sends
    <3>3. q[i] = At(w) /\ q[i - 1] = src[n]
      BY <1>4, <2>3, <3>1
    <3>. QED
      BY <1>2, <3>2, <3>3 DEF Continues
  <2>. QED
    BY <1>4, <2>2, <2>3
<1>7. AtRx(q[1])'
  <2>1. AtRx(q[1])
    <3>1. CASE n > 0
      BY <1>1, <1>4, <3>1 DEF Line
    <3>2. CASE n = 0
      <4>1. AtRx(job[w]) /\ q[1] = At(w)
        BY <1>1, <1>2, <1>4, <3>2 DEF Line, Sends
      <4>. QED
        BY <1>2, <4>1 DEF AtRx
    <3>. QED
      BY <1>4, <3>1, <3>2
  <2>2. rx' = rx /\ calm' = calm
    BY DEF Sends
  <2>. QED
    BY <2>1, <2>2 DEF AtRx
<1>8. \A i \in 1 .. Len(air') :
        air'[i].sar \in Closing => written'[Len(written') - Closings(air', i)] = q[i].pdu
  <2>1. SUFFICES ASSUME NEW i \in 1 .. n + 1, air'[i].sar \in Closing
                 PROVE  written'[Len(written') - Closings(air', i)] = q[i].pdu
    BY <1>4
  <2>2. Len(written) \in Nat /\ \A k \in 0 .. n : Closings(air, k) \in Nat
    <3>1. Len(written) \in Nat
      BY <1>3, LenProperties
    <3>2. ASSUME NEW k \in 0 .. n PROVE Closings(air, k) \in Nat
      BY <1>4, k \in Nat, ClosingsAreFinite
    <3>. QED
      BY <3>1, <3>2
  <2>3. CASE i \in 1 .. n
    <3>1. written[Len(written) - Closings(air, i)] = src[i].pdu
      BY <1>1, <1>4, <2>1, <2>3 DEF Line
    <3>2. Len(written') - Closings(air', i) = Len(written) - Closings(air, i)
      BY <1>4, <2>3, SentAccounted
    <3>3. Len(written) - Closings(air, i) \in 1 .. Len(written)
      <4>1. Closings(air, i - 1) = Closings(air, i) + 1
        BY <1>3, <1>4, <2>1, <2>3, i - 1 \in 0 .. Len(air) - 1, (i - 1) + 1 = i, ClosingsStep
      <4>2. Closings(air, i - 1) <= Closings(air, 0)
        BY <1>3, <1>4, <2>3, ClosingsFall
      <4>3. Closings(air, i) \in Nat /\ Closings(air, i - 1) \in Nat /\ Closings(air, 0) \in Nat
        <5>1. i \in 0 .. n /\ i - 1 \in 0 .. n /\ 0 \in 0 .. n
          BY <1>4, <2>3
        <5>. QED
          BY <2>2, <5>1
      <4>. QED
        BY <2>2, <4>1, <4>2, <4>3 DEF SegmentsInv, LineTyped
    <3>4. written'[Len(written) - Closings(air, i)] = written[Len(written) - Closings(air, i)]
      BY <1>2, <1>3, <3>3, AppendProperties DEF Sends
    <3>. QED
      BY <1>4, <2>3, <3>1, <3>2, <3>4
  <2>4. CASE i = n + 1
    <3>1. AtEnd(job[w])
      BY <1>2, <1>4, <2>1, <2>4
    <3>2. Closings(air', i) = 0
      BY <1>4, <2>4, ClosingsNone
    <3>3. written' = Append(written, job[w].pdu) /\ Len(written') = Len(written) + 1
          /\ written'[Len(written) + 1] = job[w].pdu
      BY <1>2, <1>3, <3>1, LenProperties, AppendProperties DEF Sends
    <3>. QED
      BY <1>2, <1>4, <2>2, <2>4, <3>2, <3>3
  <2>. QED
    BY <1>4, <2>3, <2>4
<1>9. \A u \in Writers : lock' = u /\ job'[u].busy => Continues(job'[u], q[Len(air')])
  <2>1. SUFFICES ASSUME NEW u \in Writers, lock' = u PROVE Continues(job'[u], q[Len(air')])
    OBVIOUS
  <2>2. u = w /\ job'[w].done = Stop(job[w]) /\ job'[w].pdu = job[w].pdu
    BY <2>1, SegmentAssumption
  <2>. QED
    BY <1>2, <1>4, <2>2 DEF Continues
<1>10. Line(q)'
  BY <1>4, <1>5, <1>6, <1>7, <1>8, <1>9 DEF Line
<1>. QED
  BY <1>4, <1>10

-----------------------------------------------------------------------------
(* A segment arrives. *)

LEMMA LimitsAreNumbers == MaxMessage \in Nat /\ Timeout \in Nat
<1>1. {MaxMessage, Timeout, MaxPDUs, MaxTicks} \subseteq Nat
  BY SegmentAssumption
<1>. QED
  BY <1>1

\* What the receiver holds while it waits for the rest of a message.
LEMMA OpenRx ==
  ASSUME SegmentsTypeOK, rx.open
  PROVE  /\ rx \in [open : {TRUE}, type : Types, body : Seq(Bytes), at : 0 .. now]
         /\ rx.at \in Nat /\ now \in Nat /\ rx.body \in Seq(Bytes) /\ Len(rx.body) \in Nat
<1>1. rx \in {NoRx} \cup [open : {TRUE}, type : Types, body : Seq(Bytes), at : 0 .. now]
  BY DEF SegmentsTypeOK
<1>2. now \in Nat
  BY DEF SegmentsTypeOK
<1>3. rx # NoRx
  BY DEF NoRx
<1>4. rx \in [open : {TRUE}, type : Types, body : Seq(Bytes), at : 0 .. now]
  BY <1>1, <1>3
<1>5. rx.at \in 0 .. now /\ rx.body \in Seq(Bytes)
  BY <1>4
<1>6. rx.at \in Nat
  BY <1>2, <1>5
<1>7. Len(rx.body) \in Nat
  BY <1>5, LenProperties
<1>. QED
  BY <1>2, <1>4, <1>5, <1>6, <1>7

LEMMA LateOrLong ==
  ASSUME NEW a \in Int, NEW b \in Int, NEW c \in Int, NEW m \in Int,
         ~(a <= c /\ b <= m), ~(a > c)
  PROVE  b > m
  OBVIOUS

LEMMA WhatFits ==
  ASSUME rx.open, NEW s, s.type = rx.type
  PROVE  Fits(s) <=> now - rx.at <= Timeout /\ Len(rx.body) + Len(s.body) <= MaxMessage
  BY DEF Fits

\* What the receiver makes of the segment of piece k is what the next piece needs.
LEMMA RxFollows ==
  ASSUME SegmentsTypeOK, Receive, NEW k, Piece(k), Head(air) = NextSegment(k), AtRx(k),
         NEW j, Piece(j), Continues(j, k)
  PROVE  AtRx(j)'
<1>. SUFFICES ASSUME j.done > 0 PROVE AtRx(j)'
  BY DEF AtRx
<1>. PICK s : s = NextSegment(k)
  OBVIOUS
<1>1. k.pdu = j.pdu /\ Stop(k) = j.done /\ j.done < j.pdu.length
  BY DEF Continues, Piece
<1>2. /\ s.type = j.pdu.type /\ s.body = SubSeq(Body(k.pdu), k.done + 1, Stop(k))
      /\ Len(s.body) = Stop(k) - k.done /\ Stop(k) \in k.done + 1 .. k.pdu.length
      /\ s.body \in Seq(Bytes) /\ k.done \in Nat /\ k.pdu.length \in Nat
  BY <1>1, SegmentsAreParts, PDUsAreNumbered DEF Piece
<1>3. s.sar \in {"first", "more"} /\ (s.sar = "first" => k.done = 0)
      /\ (s.sar = "more" => k.done > 0) /\ s = Head(air)
  <2>1. k.pdu.length \in Nat /\ Stop(k) # k.pdu.length
    BY <1>1, <1>2
  <2>2. s.sar \notin Closing /\ s.sar \in {"complete", "first", "more", "last"}
    BY <2>1, SegmentsAreMarked
  <2>3. s.sar = "first" => k.done = 0
    BY SegmentsAreMarked
  <2>4. s.sar = "more" => k.done > 0
    BY SegmentsAreMarked
  <2>5. s = Head(air)
    OBVIOUS
  <2>. QED
    BY <2>2, <2>3, <2>4, <2>5 DEF Closing
<1>4. CASE s.sar = "first"
  <2>1. k.done = 0 /\ s.body = SubSeq(Body(j.pdu), 1, j.done)
    BY <1>1, <1>2, <1>3, <1>4
  <2>2. rx' = Opened(s)
    BY <1>3, <1>4 DEF Receive
  <2>3. Len(s.body) = j.done
    BY <1>1, <1>2, <2>1
  <2>4. s.body # <<>>
    BY <2>3, EmptySeq
  <2>5. CASE Len(s.body) > MaxMessage
    <3>1. rx' = NoRx
      BY <2>2, <2>5 DEF Opened
    <3>2. j.pdu.length > MaxMessage
      BY <1>1, <1>2, <2>3, <2>5, LimitsAreNumbers
    <3>. QED
      BY <3>1, <3>2 DEF AtRx, NoRx
  <2>6. CASE ~(Len(s.body) > MaxMessage)
    <3>1. rx' = [open |-> TRUE, type |-> s.type, body |-> s.body, at |-> now]
      BY <2>2, <2>4, <2>6 DEF Opened
    <3>. QED
      BY <1>2, <2>1, <3>1 DEF AtRx
  <2>. QED
    BY <2>5, <2>6
<1>5. CASE s.sar = "more"
  <2>1. k.done > 0
    BY <1>3, <1>5
  <2>2. /\ rx' = IF Fits(s) THEN [rx EXCEPT !.body = @ \o s.body] ELSE NoRx
        /\ calm' = (calm /\ ~(rx.open /\ now - rx.at > Timeout))
    BY <1>3, <1>5 DEF Receive
  <2>3. CASE rx.open
    <3>1. rx.type = j.pdu.type /\ rx.body = SubSeq(Body(j.pdu), 1, k.done)
      BY <1>1, <2>1, <2>3 DEF AtRx
    <3>2. rx \in [open : {TRUE}, type : Types, body : Seq(Bytes), at : 0 .. now]
      BY <2>3, OpenRx
    <3>3. CASE Fits(s)
      <4>1. rx'.open /\ rx'.type = j.pdu.type /\ rx'.body = rx.body \o s.body
        BY <2>2, <2>3, <3>1, <3>2, <3>3
      <4>2. rx.body \o s.body = SubSeq(Body(j.pdu), 1, j.done)
        <5>1. s.body = NextSegment(k).body
          OBVIOUS
        <5>. QED
          BY <1>1, <3>1, <5>1, PartsMeet
      <4>. QED
        BY <4>1, <4>2 DEF AtRx
    <3>4. CASE ~Fits(s)
      <4>1. rx' = NoRx
        BY <2>2, <3>4
      <4>2. calm' => Len(rx.body) + Len(s.body) > MaxMessage
        <5>1. rx.at \in Int /\ now \in Int /\ Timeout \in Int /\ MaxMessage \in Int
              /\ Len(rx.body) \in Int /\ Len(s.body) \in Int
          BY <1>2, <2>3, OpenRx, LimitsAreNumbers, LenProperties
        <5>2. s.type = rx.type
          BY <1>2, <3>1
        <5>3. ~(now - rx.at <= Timeout /\ Len(rx.body) + Len(s.body) <= MaxMessage)
          BY <2>3, <3>4, <5>2, WhatFits
        <5>4. calm' => ~(now - rx.at > Timeout)
          BY <2>2, <2>3, Zenon
        <5>5. now - rx.at \in Int /\ Len(rx.body) + Len(s.body) \in Int
          BY <5>1
        <5>6. ~(now - rx.at > Timeout) => Len(rx.body) + Len(s.body) > MaxMessage
          BY <5>1, <5>3, <5>5, LateOrLong, Zenon
        <5>. QED
          BY <5>4, <5>6
      <4>3. Len(rx.body) + Len(s.body) = j.done
        BY <1>1, <1>2, <3>1, PartsMeet
      <4>4. calm' => j.pdu.length > MaxMessage
        <5>1. j.done \in Nat /\ j.pdu.length \in Nat /\ j.done < j.pdu.length
          BY <1>1, <1>2
        <5>2. j.done > MaxMessage => j.pdu.length > MaxMessage
          BY <5>1, LimitsAreNumbers
        <5>. QED
          BY <4>2, <4>3, <5>2, Zenon
      <4>. QED
        BY <4>1, <4>4 DEF AtRx, NoRx
    <3>. QED
      BY <3>3, <3>4
  <2>4. CASE ~rx.open
    <3>1. calm => j.pdu.length > MaxMessage
      BY <1>1, <2>1, <2>4 DEF AtRx
    <3>2. rx' = NoRx
      BY <2>2, <2>4 DEF Fits
    <3>. QED
      <4>1. ~rx'.open
        BY <3>2 DEF NoRx
      <4>2. calm' => j.pdu.length > MaxMessage
        BY <2>2, <3>1
      <4>. QED
        BY <4>1, <4>2 DEF AtRx
  <2>. QED
    BY <2>3, <2>4
<1>. QED
  BY <1>3, <1>4, <1>5

\* The closing segment of a PDU hands it over whole, or it had no room, or the
\* channel has faltered.
LEMMA ClosingDelivers ==
  ASSUME SegmentsTypeOK, Receive, NEW k, Piece(k), Head(air) = NextSegment(k), AtRx(k),
         Head(air).sar \in Closing
  PROVE  \/ delivered' = Append(delivered, Packet(k.pdu)) /\ calm' = calm
            /\ (calm => Kept(k.pdu))
         \/ delivered' = delivered /\ (calm' => calm /\ ~Kept(k.pdu))
<1>. DEFINE s == NextSegment(k)
<1>1. /\ s.type = k.pdu.type /\ s.body = SubSeq(Body(k.pdu), k.done + 1, k.pdu.length)
      /\ Len(s.body) = k.pdu.length - k.done
      /\ Stop(k) = k.pdu.length /\ k.done \in Nat /\ k.pdu.length \in Nat
      /\ k.pdu \in PDU /\ s.body \in Seq(Bytes) /\ k.pdu.size \in Nat
      /\ s = Head(air) /\ calm \in BOOLEAN
  BY SegmentsAreParts, SegmentsAreMarked, PDUsAreNumbered DEF Piece, SegmentsTypeOK
<1>2. CASE s.sar = "complete"
  <2>1. k.done = 0 /\ k.pdu.length < k.pdu.size
    BY <1>2, SegmentsAreMarked
  <2>2. s.body = Body(k.pdu)
    BY <1>1, <2>1, PartsMeet
  <2>. HIDE DEF s
  <2>3. delivered' = Append(delivered, Message(s.type, s.body))
    BY <1>1, <1>2 DEF Receive
  <2>4. calm' = calm
    BY <1>1, <1>2 DEF Receive
  <2>. QED
    BY <1>1, <2>1, <2>2, <2>3, <2>4 DEF Packet, Kept
<1>3. CASE s.sar = "last"
  <2>1. k.done > 0 /\ ~(k.pdu.length < k.pdu.size)
    BY <1>1, <1>3, SegmentsAreMarked DEF Piece
  <2>2. /\ delivered' = IF Fits(s) THEN Append(delivered, Message(s.type, rx.body \o s.body))
                                   ELSE delivered
        /\ calm' = (calm /\ ~(rx.open /\ now - rx.at > Timeout))
    BY <1>1, <1>3 DEF Receive
  <2>. HIDE DEF s
  <2>3. CASE rx.open
    <3>1. /\ rx.type = k.pdu.type /\ rx.body = SubSeq(Body(k.pdu), 1, k.done)
          /\ rx.body \o s.body = Body(k.pdu) /\ Len(rx.body) = k.done
      BY <1>1, <2>1, <2>3, PartsMeet DEF AtRx
    <3>2. rx \in [open : {TRUE}, type : Types, body : Seq(Bytes), at : 0 .. now]
      BY <2>3, OpenRx
    <3>3. rx.at \in Int /\ now \in Int /\ Timeout \in Int /\ MaxMessage \in Int
      BY <2>3, OpenRx, LimitsAreNumbers
    <3>4. Fits(s) <=> ~(now - rx.at > Timeout) /\ k.pdu.length <= MaxMessage
      <4>1. Len(rx.body) + Len(s.body) = k.pdu.length /\ s.type = rx.type
        BY <1>1, <3>1
      <4>2. Fits(s) <=> now - rx.at <= Timeout /\ k.pdu.length <= MaxMessage
        BY <2>3, <4>1, WhatFits
      <4>. QED
        BY <3>3, <4>2
    <3>5. CASE Fits(s)
      BY <1>1, <2>1, <2>2, <3>1, <3>3, <3>4, <3>5 DEF Packet, Kept, SegmentsTypeOK
    <3>6. CASE ~Fits(s)
      BY <2>1, <2>2, <2>3, <3>4, <3>6 DEF Kept
    <3>. QED
      BY <3>5, <3>6
  <2>4. CASE ~rx.open
    <3>1. ~Fits(s) /\ (calm => k.pdu.length > MaxMessage)
      BY <2>1, <2>4 DEF Fits, AtRx
    <3>. QED
      BY <1>1, <2>1, <2>2, <2>4, <3>1, LimitsAreNumbers DEF Kept
  <2>. QED
    BY <2>3, <2>4
<1>. QED
  BY <1>2, <1>3 DEF Closing

\* Any other delivers nothing.
LEMMA OthersDeliverNothing ==
  ASSUME SegmentsTypeOK, Receive, NEW k, Piece(k), Head(air) = NextSegment(k),
         Head(air).sar \notin Closing
  PROVE  delivered' = delivered /\ (calm' => calm) /\ calm' \in BOOLEAN
<1>1. Head(air).sar \in {"first", "more"}
  BY SegmentsAreMarked DEF Closing
<1>. QED
  BY <1>1 DEF Receive, SegmentsTypeOK

\* The first of the line is the segment that arrives.
LEMMA HeadOfLine ==
  ASSUME SegmentsInv, Receive, NEW src \in Seq(Pieces), Line(src)
  PROVE  /\ Len(air) \in Nat \ {0} /\ Len(air') = Len(air) - 1 /\ air' = Tail(air)
         /\ Len(src) = Len(air) /\ src # <<>> /\ air' \in Seq(Segments)
         /\ Tail(src) \in Seq(Pieces) /\ Len(Tail(src)) = Len(air) - 1
         /\ src[1] \in Pieces /\ Piece(src[1]) /\ Head(air) = air[1]
         /\ Head(air) = NextSegment(src[1]) /\ AtRx(src[1])
         /\ \A i \in 1 .. Len(air) - 1 : air'[i] = air[i + 1] /\ Tail(src)[i] = src[i + 1]
<1>1. air \in Seq(Segments) /\ air # <<>> /\ air' = Tail(air)
  BY DEF SegmentsInv, LineTyped, Receive
<1>2. /\ Len(air) \in Nat \ {0} /\ Len(air') = Len(air) - 1 /\ air' \in Seq(Segments)
      /\ \A i \in 1 .. Len(air) - 1 : air'[i] = air[i + 1]
      /\ Head(air) = air[1]
  BY <1>1, EmptySeq, HeadTailProperties
<1>3. Len(src) = Len(air) /\ src # <<>>
  <2>1. Len(src) = Len(air)
    BY DEF Line
  <2>. QED
    BY <1>2, <2>1, EmptySeq
<1>4. /\ Tail(src) \in Seq(Pieces) /\ Len(Tail(src)) = Len(air) - 1
      /\ \A i \in 1 .. Len(air) - 1 : Tail(src)[i] = src[i + 1]
  BY <1>3, HeadTailProperties
<1>5. src[1] \in Pieces
  BY <1>2, <1>3, ElementOfSeq
<1>6. air[1] = NextSegment(src[1]) /\ AtRx(src[1])
  BY <1>2 DEF Line
<1>. QED
  BY <1>1, <1>2, <1>3, <1>4, <1>5, <1>6, PiecesCut

LEMMA LineMoves ==
  ASSUME SegmentsInv, Receive
  PROVE  \E src \in Seq(Pieces) : Line(src)'
<1>1. PICK src \in Seq(Pieces) : Line(src)
  BY DEF SegmentsInv
<1>. PICK q : q = Tail(src)
  OBVIOUS
<1>. DEFINE n == Len(air)
<1>2. /\ n \in Nat \ {0} /\ Len(air') = n - 1 /\ air' = Tail(air)
      /\ Len(src) = n /\ src # <<>>
      /\ q \in Seq(Pieces) /\ Len(q) = n - 1
      /\ src[1] \in Pieces /\ Piece(src[1])
      /\ Head(air) = NextSegment(src[1]) /\ AtRx(src[1])
      /\ \A i \in 1 .. n - 1 : air'[i] = air[i + 1] /\ q[i] = src[i + 1]
  BY <1>1, HeadOfLine
<1>3. UNCHANGED <<job, lock, written>>
  BY DEF Receive
<1>4. \A i \in 1 .. Len(air') : air'[i] = NextSegment(q[i])
  <2>1. SUFFICES ASSUME NEW i \in 1 .. n - 1 PROVE air'[i] = NextSegment(q[i])
    BY <1>2
  <2>2. i + 1 \in 1 .. n
    BY <1>2
  <2>. QED
    BY <1>1, <1>2, <2>2 DEF Line
<1>5. \A i \in 2 .. Len(air') : Continues(q[i], q[i - 1])
  <2>1. SUFFICES ASSUME NEW i \in 2 .. n - 1 PROVE Continues(q[i], q[i - 1])
    BY <1>2
  <2>2. i + 1 \in 2 .. n /\ (i + 1) - 1 = i /\ i - 1 \in 1 .. n - 1 /\ (i - 1) + 1 = i
        /\ i \in 1 .. n - 1
    BY <1>2
  <2>3. Continues(src[i + 1], src[i])
    BY <1>1, <2>2 DEF Line
  <2>. QED
    BY <1>2, <2>2, <2>3
<1>6. \A j : Piece(j) /\ Continues(j, src[1]) => AtRx(j)'
  BY <1>2, RxFollows DEF SegmentsInv
<1>7. Len(air') > 0 => AtRx(q[1])'
  <2>1. SUFFICES ASSUME n > 1 PROVE AtRx(q[1])'
    BY <1>2
  <2>2. 1 \in 1 .. n - 1 /\ 2 \in 2 .. n /\ 2 \in 1 .. n /\ 1 + 1 = 2 /\ 2 - 1 = 1
    BY <1>2, <2>1
  <2>3. q[1] = src[2]
    BY <1>2, <2>2
  <2>4. Continues(src[2], src[1])
    BY <1>1, <2>2 DEF Line
  <2>5. Piece(src[2])
    BY <1>2, <2>2, ElementOfSeq, PiecesCut
  <2>. QED
    BY <1>6, <2>3, <2>4, <2>5
<1>8. \A i \in 1 .. Len(air') :
        air'[i].sar \in Closing => written'[Len(written') - Closings(air', i)] = q[i].pdu
  <2>1. SUFFICES ASSUME NEW i \in 1 .. n - 1, air'[i].sar \in Closing
                 PROVE  written[Len(written) - Closings(air', i)] = q[i].pdu
    BY <1>2, <1>3
  <2>2. i + 1 \in 1 .. n /\ i \in 0 .. n - 1
    BY <1>2
  <2>3. Closings(air', i) = Closings(air, i + 1)
    <3>1. air \in Seq(Segments) /\ air # <<>>
      BY DEF SegmentsInv, LineTyped, Receive
    <3>. QED
      BY <1>2, <2>2, <3>1, ClosingsTail
  <2>4. written[Len(written) - Closings(air, i + 1)] = src[i + 1].pdu
    BY <1>1, <1>2, <2>1, <2>2 DEF Line
  <2>. QED
    BY <1>2, <2>3, <2>4
<1>9. ASSUME NEW w \in Writers, lock' = w, job'[w].busy
      PROVE  IF Len(air') = 0 THEN AtRx(job[w])' ELSE Continues(job'[w], q[Len(air')])
  <2>1. lock = w /\ job[w].busy /\ job'[w] = job[w]
    BY <1>3, <1>9
  <2>2. Continues(job[w], src[n])
    BY <1>1, <1>2, <2>1 DEF Line
  <2>3. CASE n = 1
    <3>1. PICK j : j = job[w]
      OBVIOUS
    <3>2. Piece(j) /\ Continues(j, src[1])
      BY <2>1, <2>2, <2>3, <3>1 DEF SegmentsInv, Serialised
    <3>3. AtRx(j)' /\ j = job'[w]
      BY <1>6, <2>1, <3>1, <3>2
    <3>. QED
      BY <1>2, <2>3, <3>3 DEF AtRx
  <2>4. CASE n > 1
    <3>1. n - 1 \in 1 .. n - 1 /\ (n - 1) + 1 = n /\ Len(air') # 0
      BY <1>2, <2>4
    <3>2. q[Len(air')] = src[n]
      BY <1>2, <3>1
    <3>. QED
      BY <2>1, <2>2, <3>1, <3>2
  <2>. QED
    BY <1>2, <2>3, <2>4
<1>10. Line(q)'
  BY <1>2, <1>4, <1>5, <1>7, <1>8, <1>9 DEF Line
<1>. QED
  BY <1>2, <1>10

\* What the arrival of a segment does to the two counts.
LEMMA ReceivedCounts ==
  ASSUME SegmentsInv, Receive
  PROVE  /\ Head(air).sar \notin Closing =>
              Closings(air', 0) = Closings(air, 0) /\ delivered' = delivered /\ (calm' => calm)
         /\ Head(air).sar \in Closing =>
              LET m == Len(written) - Closings(air, 0) IN
              /\ Closings(air', 0) = Closings(air, 0) - 1
              /\ m \in 0 .. Len(written) - 1
              /\ written[m + 1] \in PDU
              /\ \/ delivered' = Append(delivered, Packet(written[m + 1])) /\ calm' = calm
                    /\ (calm => Kept(written[m + 1]))
                 \/ delivered' = delivered /\ (calm' => calm /\ ~Kept(written[m + 1]))
<1>1. PICK src \in Seq(Pieces) : Line(src)
  BY DEF SegmentsInv
<1>. PICK k : k = src[1]
  OBVIOUS
<1>2. /\ Len(air) \in Nat \ {0} /\ air' = Tail(air)
      /\ k \in Pieces /\ Piece(k) /\ Head(air) = air[1]
      /\ Head(air) = NextSegment(k) /\ AtRx(k)
  BY <1>1, HeadOfLine
<1>3. air \in Seq(Segments) /\ air # <<>> /\ written \in Seq(PDU)
      /\ Closings(air, 0) <= Len(written) /\ SegmentsTypeOK
  BY DEF SegmentsInv, LineTyped, Receive
<1>4. /\ Closings(air, 0) \in Nat /\ Closings(air, 1) \in Nat /\ Len(written) \in Nat
      /\ Closings(air', 0) = Closings(air, 1)
      /\ Closings(air, 0) = Closings(air, 1) + (IF Head(air).sar \in Closing THEN 1 ELSE 0)
  <2>1. Len(air) \in Nat /\ 0 \in 0 .. Len(air) - 1 /\ 0 + 1 = 1
    BY <1>2
  <2>2. Closings(air, 0) \in Nat /\ Closings(air, 1) \in Nat
    BY <2>1, 0 \in Nat, 1 \in Nat, ClosingsAreFinite
  <2>3. Closings(air, 0) = Closings(air, 1) + (IF air[1].sar \in Closing THEN 1 ELSE 0)
    BY <2>1, ClosingsStep
  <2>4. Closings(Tail(air), 0) = Closings(air, 1)
    BY <1>3, <2>1, ClosingsTail
  <2>. QED
    BY <1>2, <1>3, <2>2, <2>3, <2>4, LenProperties
<1>5. CASE Head(air).sar \notin Closing
  BY <1>2, <1>3, <1>4, <1>5, OthersDeliverNothing
<1>6. CASE Head(air).sar \in Closing
  <2>. PICK m : m = Len(written) - Closings(air, 0)
    OBVIOUS
  <2>1. m \in 0 .. Len(written) - 1 /\ m + 1 = Len(written) - Closings(air, 1)
        /\ Closings(air', 0) = Closings(air, 0) - 1
    <3>1. Closings(air, 0) = Closings(air, 1) + 1
      BY <1>4, <1>6
    <3>2. Closings(air', 0) = Closings(air, 0) - 1
      BY <1>4, <3>1
    <3>3. m + 1 = Len(written) - Closings(air, 1)
      BY <1>4, <3>1
    <3>4. m \in 0 .. Len(written) - 1
      BY <1>3, <1>4, <3>1
    <3>. QED
      BY <3>2, <3>3, <3>4
  <2>2. written[m + 1] = k.pdu
    <3>1. 1 \in 1 .. Len(air)
      BY <1>2
    <3>. QED
      BY <1>1, <1>2, <1>6, <2>1, <3>1 DEF Line
  <2>3. k.pdu \in PDU
    BY <1>2 DEF Piece
  <2>4. \/ delivered' = Append(delivered, Packet(k.pdu)) /\ calm' = calm
           /\ (calm => Kept(k.pdu))
        \/ delivered' = delivered /\ (calm' => calm /\ ~Kept(k.pdu))
    BY <1>2, <1>3, <1>6, ClosingDelivers
  <2>. QED
    BY <1>6, <2>1, <2>2, <2>3, <2>4
<1>. QED
  BY <1>5, <1>6

LEMMA ReceivedAccounted ==
  ASSUME SegmentsInv, Receive
  PROVE  LineTyped' /\ Accounted'
<1>. DEFINE m == Len(written) - Closings(air, 0)
<1>1. /\ air' \in Seq(Segments) /\ written' = written /\ written \in Seq(PDU)
      /\ delivered \in Seq(Packets) /\ Len(written) \in Nat /\ Len(delivered) \in Nat
      /\ Closings(air, 0) \in Nat /\ Closings(air, 0) <= Len(written) /\ calm \in BOOLEAN
  <2>1. PICK src \in Seq(Pieces) : Line(src)
    BY DEF SegmentsInv
  <2>2. air' \in Seq(Segments) /\ Len(air) \in Nat
    BY <2>1, HeadOfLine
  <2>3. Closings(air, 0) \in Nat
    BY <2>2, 0 \in Nat, ClosingsAreFinite
  <2>. QED
    BY <2>2, <2>3, LenProperties DEF SegmentsInv, LineTyped, Receive, SegmentsTypeOK
<1>2. m \in Nat
  BY <1>1
<1>3. CASE Head(air).sar \notin Closing
  <2>1. Closings(air', 0) = Closings(air, 0) /\ delivered' = delivered /\ (calm' => calm)
    BY <1>3, ReceivedCounts
  <2>. QED
    BY <1>1, <2>1 DEF SegmentsInv, LineTyped, Accounted
<1>4. CASE Head(air).sar \in Closing
  <2>1. /\ Closings(air', 0) = Closings(air, 0) - 1
        /\ m \in 0 .. Len(written) - 1
        /\ written[m + 1] \in PDU
        /\ \/ delivered' = Append(delivered, Packet(written[m + 1])) /\ calm' = calm
              /\ (calm => Kept(written[m + 1]))
           \/ delivered' = delivered /\ (calm' => calm /\ ~Kept(written[m + 1]))
    BY <1>4, ReceivedCounts
  <2>2. Len(written') - Closings(air', 0) = m + 1 /\ Closings(air', 0) <= Len(written')
    BY <1>1, <2>1
  <2>3. /\ Kepts(written, m) \in Nat
        /\ Kepts(written, m + 1) = Kepts(written, m) + (IF Kept(written[m + 1]) THEN 1 ELSE 0)
    BY <1>2, KeptsStep
  <2>4. calm => Len(delivered) = Kepts(written, m)
    BY DEF SegmentsInv, Accounted
  <2>5. CASE /\ delivered' = Append(delivered, Packet(written[m + 1]))
             /\ calm' = calm /\ (calm => Kept(written[m + 1]))
    <3>1. Packet(written[m + 1]) \in Packets
      BY <2>1 DEF Packets
    <3>2. delivered' \in Seq(Packets) /\ Len(delivered') = Len(delivered) + 1
      BY <1>1, <2>5, <3>1, AppendProperties
    <3>3. calm' => Len(delivered') = Kepts(written, m + 1)
      BY <2>3, <2>4, <2>5, <3>2
    <3>. QED
      BY <1>1, <2>2, <3>2, <3>3 DEF LineTyped, Accounted
  <2>6. CASE delivered' = delivered /\ (calm' => calm /\ ~Kept(written[m + 1]))
    <3>1. calm' => Len(delivered') = Kepts(written, m + 1)
      BY <2>3, <2>4, <2>6
    <3>. QED
      BY <1>1, <2>2, <2>6, <3>1 DEF LineTyped, Accounted
  <2>. QED
    BY <2>1, <2>5, <2>6
<1>. QED
  BY <1>3, <1>4

-----------------------------------------------------------------------------
(* The invariant. *)

\* The receiver's buffer never outgrows the cap.
LEMMA RxTyped ==
  ASSUME SegmentsInv, Receive
  PROVE  /\ rx' \in {NoRx} \cup [open : {TRUE}, type : Types, body : Seq(Bytes), at : 0 .. now]
         /\ rx'.open => Len(rx'.body) \in 1 .. MaxMessage
<1>. DEFINE Holding == [open : {TRUE}, type : Types, body : Seq(Bytes), at : 0 .. now]
<1>0. ASSUME rx' = NoRx PROVE rx' \in {NoRx} \cup Holding /\ ~rx'.open
  BY <1>0 DEF NoRx
<1>. SUFFICES ASSUME rx' # NoRx
              PROVE  rx' \in Holding /\ Len(rx'.body) \in 1 .. MaxMessage
  BY <1>0
<1>1. PICK src \in Seq(Pieces) : Line(src)
  BY DEF SegmentsInv
<1>. PICK k : k = src[1]
  OBVIOUS
<1>. PICK s : s = Head(air)
  OBVIOUS
<1>2. Piece(k) /\ s = NextSegment(k)
  BY <1>1, HeadOfLine
<1>3. /\ s.type \in Types /\ s.body \in Seq(Bytes) /\ Len(s.body) \in Nat \ {0}
      /\ s.sar \in {"complete", "first", "more", "last"}
  <2>1. /\ s.type = k.pdu.type /\ s.body \in Seq(Bytes)
        /\ Len(s.body) = Stop(k) - k.done /\ Stop(k) \in k.done + 1 .. k.pdu.length
    BY <1>2, SegmentsAreParts
  <2>2. k.done \in Nat /\ k.pdu.type \in Types /\ k.pdu.length \in Nat
    BY <1>2, PDUsAreNumbered DEF Piece
  <2>. QED
    BY <1>2, <2>1, <2>2, SegmentsAreMarked
<1>4. now \in Nat
  BY DEF SegmentsInv, SegmentsTypeOK
<1>5. s.sar \in {"first", "more"}
  BY <1>3 DEF Receive
<1>6. CASE s.sar = "first"
  <2>1. rx' = Opened(s)
    BY <1>6 DEF Receive
  <2>2. /\ rx' = [open |-> TRUE, type |-> s.type, body |-> s.body, at |-> now]
        /\ ~(Len(s.body) > MaxMessage)
    BY <2>1 DEF Opened
  <2>. QED
    BY <1>3, <1>4, <2>2, LimitsAreNumbers
<1>7. CASE s.sar = "more"
  <2>1. Fits(s) /\ rx' = [rx EXCEPT !.body = @ \o s.body]
    BY <1>7 DEF Receive
  <2>2. rx.open /\ Len(rx.body) + Len(s.body) <= MaxMessage
    BY <2>1 DEF Fits
  <2>3. /\ rx \in [open : {TRUE}, type : Types, body : Seq(Bytes), at : 0 .. now]
        /\ rx.body \in Seq(Bytes) /\ Len(rx.body) \in Nat
    BY <2>2, OpenRx DEF SegmentsInv
  <2>4. rx.body \o s.body \in Seq(Bytes) /\ Len(rx.body \o s.body) = Len(rx.body) + Len(s.body)
    BY <1>3, <2>3, ConcatProperties
  <2>5. rx' \in Holding /\ rx'.body = rx.body \o s.body
    BY <2>1, <2>3, <2>4
  <2>6. Len(rx.body) + Len(s.body) \in 1 .. MaxMessage
    BY <1>3, <2>2, <2>3, LimitsAreNumbers
  <2>. QED
    BY <2>4, <2>5, <2>6
<1>. QED
  BY <1>5, <1>6, <1>7

\* What is on its way has one of the four marks.
LEMMA MarkedAll ==
  ASSUME NEW s \in Seq(Segments)
  PROVE  \A i \in 1 .. Len(s) : s[i].sar \in {"complete", "first", "more", "last"}
<1>. SUFFICES ASSUME NEW i \in 1 .. Len(s)
              PROVE  s[i].sar \in {"complete", "first", "more", "last"}
  OBVIOUS
<1>1. PICK j \in Pieces : s[i] = NextSegment(j)
  BY ElementOfSeq DEF Segments
<1>. QED
  BY <1>1, PiecesCut, SegmentsAreMarked

Jobs == {NoJob} \cup [busy : {TRUE}, pdu : PDU, done : Nat]

LEMMA JobTyped ==
  ASSUME SegmentsTypeOK, NEW w \in Writers, job[w].busy
  PROVE  job[w] \in [busy : {TRUE}, pdu : PDU, done : Nat]
<1>1. job[w] \in {NoJob} \cup [busy : {TRUE}, pdu : PDU, done : Nat]
  BY DEF SegmentsTypeOK
<1>2. job[w] # NoJob
  BY DEF NoJob
<1>. QED
  BY <1>1, <1>2

LEMMA WriteKeeps ==
  ASSUME SegmentsInv, NEW w \in Writers, Write(w)
  PROVE  SegmentsInv'
<1>1. Sends(w) /\ lock = w /\ lock \in Writers /\ w # NoOne
  BY SegmentAssumption DEF Write, Sends
<1>2. /\ Piece(job[w]) /\ Done(job[w]) = Stop(job[w])
      /\ AtEnd(job[w]) <=> Stop(job[w]) = job[w].pdu.length
  BY <1>1, WritersCut DEF SegmentsInv, Sends
<1>3. /\ Stop(job[w]) \in job[w].done + 1 .. job[w].pdu.length
      /\ job[w].pdu.length \in Nat /\ job[w].done \in Nat /\ job[w].pdu \in PDU
  BY <1>2, SegmentsAreParts, PDUsAreNumbered DEF Piece
<1>4. job \in [Writers -> Jobs] /\ job[w] \in [busy : {TRUE}, pdu : PDU, done : Nat]
  BY <1>1, JobTyped DEF SegmentsInv, SegmentsTypeOK, Sends, Jobs
<1>5. /\ \A u \in Writers : u # w => job'[u] = job[u]
      /\ job' \in [Writers -> Jobs]
      /\ IF AtEnd(job[w]) THEN job'[w] = NoJob /\ lock' = NoOne
         ELSE /\ job'[w] = [job[w] EXCEPT !.done = Stop(job[w])] /\ lock' = w
              /\ job'[w].busy /\ job'[w].pdu = job[w].pdu /\ job'[w].done = Stop(job[w])
  <2>1. CASE AtEnd(job[w])
    BY <1>4, <2>1 DEF Write, Jobs
  <2>2. CASE ~AtEnd(job[w])
    <3>1. job' = [job EXCEPT ![w].done = Stop(job[w])] /\ lock' = w
      BY <1>1, <1>2, <2>2 DEF Write
    <3>2. [job[w] EXCEPT !.done = Stop(job[w])] \in [busy : {TRUE}, pdu : PDU, done : Nat]
      <4>1. Stop(job[w]) \in Nat
        BY <1>3
      <4>. QED
        BY <1>4, <4>1
    <3>. QED
      BY <1>4, <2>2, <3>1, <3>2 DEF Jobs
  <2>. QED
    BY <2>1, <2>2
<1>6. \E src \in Seq(Pieces) : Line(src)'
  BY <1>1, <1>5, LineGrows
<1>7. LineTyped' /\ Accounted'
  BY <1>1, SentAccounted
<1>8. Serialised'
  <2>1. ~AtEnd(job[w]) => Piece(job'[w])
    <3>1. SUFFICES ASSUME ~AtEnd(job[w]) PROVE Piece(job'[w])
      OBVIOUS
    <3>2. job'[w].pdu = job[w].pdu /\ job'[w].done = Stop(job[w])
      BY <1>5, <3>1
    <3>3. Stop(job[w]) \in Nat /\ Stop(job[w]) < job[w].pdu.length
      BY <1>2, <1>3, <3>1
    <3>4. job[w].pdu.size \in Nat /\ job[w].pdu.size > 1
      BY <1>3, PDUsAreNumbered
    <3>5. job[w].pdu.length >= job[w].pdu.size
      BY <1>3, <3>3, <3>4 DEF Stop
    <3>. QED
      BY <1>3, <3>2, <3>3, <3>5 DEF Piece
  <2>2. ASSUME NEW u \in Writers, job'[u].busy
        PROVE  Piece(job'[u]) /\ (lock' # u => job'[u].done = 0)
    <3>1. CASE u = w
      BY <1>5, <2>1, <2>2, <3>1 DEF NoJob
    <3>2. CASE u # w
      BY <1>1, <1>5, <2>2, <3>2 DEF SegmentsInv, Serialised
    <3>. QED
      BY <3>1, <3>2
  <2>. QED
    BY <2>2 DEF Serialised
<1>9. SegmentsTypeOK'
  <2>1. \A i \in 1 .. Len(air') : air'[i].sar \in {"complete", "first", "more", "last"}
    BY <1>7, MarkedAll DEF LineTyped
  <2>2. \A u \in Writers : job'[u].busy => job'[u].done < job'[u].pdu.length
    BY <1>8, PDUsAreNumbered DEF Serialised, Piece
  <2>3. lock' \in Writers \cup {NoOne} /\ (lock' # NoOne => job'[lock'].busy)
    BY <1>1, <1>5
  <2>4. UNCHANGED <<rx, now, begun, calm>>
    BY DEF Write
  <2>. QED
    BY <1>5, <2>1, <2>2, <2>3, <2>4 DEF SegmentsInv, SegmentsTypeOK, Jobs
<1>. QED
  BY <1>6, <1>7, <1>8, <1>9 DEF SegmentsInv

\* The line stays as it is while no segment moves and the lock changes hands only
\* between two messages.
LEMMA LineStays ==
  ASSUME SegmentsInv, UNCHANGED <<air, rx, written, delivered, calm>>,
         \A u \in Writers : lock' = u /\ job'[u].busy =>
           \/ job'[u].done = 0
           \/ /\ lock = u /\ job[u].busy
              /\ job'[u].pdu = job[u].pdu /\ job'[u].done = job[u].done
  PROVE  LineTyped' /\ Accounted' /\ \E src \in Seq(Pieces) : Line(src)'
<1>1. PICK src \in Seq(Pieces) : Line(src)
  BY DEF SegmentsInv
<1>2. ASSUME NEW u \in Writers, lock' = u, job'[u].busy
      PROVE  (IF Len(air) = 0 THEN AtRx(job[u]) ELSE Continues(job[u], src[Len(air)]))'
  <2>1. CASE job'[u].done = 0
    BY <2>1 DEF AtRx, Continues
  <2>2. CASE /\ lock = u /\ job[u].busy
             /\ job'[u].pdu = job[u].pdu /\ job'[u].done = job[u].done
    <3>1. IF Len(air) = 0 THEN AtRx(job[u]) ELSE Continues(job[u], src[Len(air)])
      BY <1>1, <2>2 DEF Line
    <3>. QED
      BY <2>2, <3>1 DEF AtRx, Continues
  <2>. QED
    BY <1>2, <2>1, <2>2
<1>3. Len(air) > 0 => AtRx(src[1])'
  BY <1>1 DEF Line, AtRx
<1>4. \A i \in 1 .. Len(air) :
        air[i].sar \in Closing => written[Len(written) - Closings(air, i)] = src[i].pdu
  BY <1>1 DEF Line
<1>5. Line(src)'
  <2>1. /\ Len(src) = Len(air')
        /\ \A i \in 1 .. Len(air') : air'[i] = NextSegment(src[i])
        /\ \A i \in 2 .. Len(air') : Continues(src[i], src[i - 1])
    BY <1>1 DEF Line
  <2>2. \A i \in 1 .. Len(air') :
          air'[i].sar \in Closing => written'[Len(written') - Closings(air', i)] = src[i].pdu
    BY <1>4
  <2>3. Len(air') > 0 => AtRx(src[1])'
    BY <1>3
  <2>4. \A u \in Writers : lock' = u /\ job'[u].busy =>
          (IF Len(air) = 0 THEN AtRx(job[u]) ELSE Continues(job[u], src[Len(air)]))'
    BY <1>2
  <2>. QED
    BY <2>1, <2>2, <2>3, <2>4 DEF Line
<1>. QED
  BY <1>5 DEF SegmentsInv, LineTyped, Accounted

\* The part of the invariant the writers alone decide.
LEMMA Keeps ==
  ASSUME SegmentsInv, LineTyped', Accounted', \E src \in Seq(Pieces) : Line(src)',
         job' \in [Writers -> Jobs], Serialised',
         lock' \in Writers \cup {NoOne}, lock' # NoOne => job'[lock'].busy,
         rx' \in {NoRx} \cup [open : {TRUE}, type : Types, body : Seq(Bytes), at : 0 .. now'],
         rx'.open => Len(rx'.body) \in 1 .. MaxMessage,
         now' \in 0 .. MaxTicks, begun' \in 0 .. MaxPDUs, calm' \in BOOLEAN
  PROVE  SegmentsInv'
<1>1. \A i \in 1 .. Len(air') : air'[i].sar \in {"complete", "first", "more", "last"}
  BY MarkedAll DEF LineTyped
<1>2. \A u \in Writers : job'[u].busy => job'[u].done < job'[u].pdu.length
  BY DEF Serialised, Piece
<1>3. SegmentsTypeOK'
  BY <1>1, <1>2 DEF SegmentsTypeOK, Jobs
<1>. QED
  BY <1>3 DEF SegmentsInv

LEMMA GiveUpKeeps ==
  ASSUME SegmentsInv, NEW w \in Writers, GivesUp(w)
  PROVE  SegmentsInv'
<1>1. /\ \A u \in Writers : u # w => job'[u] = job[u]
      /\ job' \in [Writers -> Jobs] /\ job'[w] = NoJob /\ ~job'[w].busy
  BY DEF GivesUp, SegmentsInv, SegmentsTypeOK, Jobs, NoJob
<1>2. /\ lock' = IF lock = w THEN NoOne ELSE lock
      /\ lock' \in Writers \cup {NoOne} /\ w # NoOne
      /\ (lock' # NoOne => lock' # w /\ lock' = lock)
  BY SegmentAssumption DEF GivesUp, SegmentsInv, SegmentsTypeOK
<1>3. lock' # NoOne => job'[lock'].busy
  BY <1>1, <1>2 DEF SegmentsInv, SegmentsTypeOK
<1>4. LineTyped' /\ Accounted' /\ \E src \in Seq(Pieces) : Line(src)'
  <2>1. CASE UNCHANGED <<air, written>>
    <3>1. \A u \in Writers : lock' = u /\ job'[u].busy => lock = u /\ job'[u] = job[u]
      BY <1>1, <1>2, SegmentAssumption
    <3>2. UNCHANGED <<air, rx, written, delivered, calm>>
      BY <2>1 DEF GivesUp
    <3>. QED
      BY <3>1, <3>2, LineStays
  <2>2. CASE /\ lock = w
             /\ air' = Append(air, NextSegment(job[w]))
             /\ written' = IF AtEnd(job[w]) THEN Append(written, job[w].pdu) ELSE written
    <3>1. Sends(w) /\ lock' = NoOne
      BY <1>2, <2>2 DEF GivesUp, Sends
    <3>. QED
      BY <3>1, LineGrows, SentAccounted
  <2>. QED
    BY <2>1, <2>2 DEF GivesUp
<1>5. Serialised'
  <2>1. ASSUME NEW u \in Writers, job'[u].busy
        PROVE  Piece(job'[u]) /\ (lock' # u => job'[u].done = 0)
    <3>1. u # w /\ job'[u] = job[u]
      BY <1>1, <2>1
    <3>. QED
      BY <1>2, <2>1, <3>1 DEF SegmentsInv, Serialised
  <2>. QED
    BY <2>1 DEF Serialised
<1>6. UNCHANGED <<rx, now, begun, calm>>
  BY DEF GivesUp
<1>. QED
  BY <1>1, <1>2, <1>3, <1>4, <1>5, <1>6, Keeps DEF SegmentsInv, SegmentsTypeOK

LEMMA BeginKeeps ==
  ASSUME SegmentsInv, NEW w \in Writers, NEW type \in Types, NEW length \in Lengths, NEW size \in Sizes,
         Begin(w, type, length, size)
  PROVE  SegmentsInv'
<1>. PICK p : p = [id |-> begun + 1, type |-> type, length |-> length, size |-> size]
  OBVIOUS
<1>1. begun \in 0 .. MaxPDUs /\ MaxPDUs \in Nat /\ begun < MaxPDUs
  <2>1. {MaxMessage, Timeout, MaxPDUs, MaxTicks} \subseteq Nat
    BY SegmentAssumption
  <2>. QED
    BY <2>1 DEF SegmentsInv, SegmentsTypeOK, Begin
<1>2. p \in PDU /\ p.length \in Nat /\ p.length > 0
  <2>1. begun + 1 \in 1 .. MaxPDUs
    BY <1>1
  <2>2. p \in PDU
    BY <2>1 DEF PDU
  <2>. QED
    BY <2>2, PDUsAreNumbered
<1>3. /\ \A u \in Writers : u # w => job'[u] = job[u]
      /\ job' \in [Writers -> Jobs]
      /\ job'[w] = [busy |-> TRUE, done |-> 0, pdu |-> p]
  <2>1. [busy |-> TRUE, done |-> 0, pdu |-> p] \in [busy : {TRUE}, pdu : PDU, done : Nat]
    BY <1>2
  <2>2. job' = [job EXCEPT ![w] = [busy |-> TRUE, done |-> 0, pdu |-> p]]
    BY DEF Begin
  <2>3. job \in [Writers -> Jobs]
    BY DEF SegmentsInv, SegmentsTypeOK, Jobs
  <2>. QED
    BY <2>1, <2>2, <2>3 DEF Jobs
<1>4. lock' = lock /\ lock # w /\ lock \in Writers \cup {NoOne}
      /\ (lock # NoOne => job[lock].busy)
  BY SegmentAssumption DEF Begin, SegmentsInv, SegmentsTypeOK
<1>5. lock' # NoOne => job'[lock'].busy
  BY <1>3, <1>4
<1>6. LineTyped' /\ Accounted' /\ \E src \in Seq(Pieces) : Line(src)'
  <2>1. \A u \in Writers : lock' = u /\ job'[u].busy => lock = u /\ job'[u] = job[u]
    BY <1>3, <1>4
  <2>2. UNCHANGED <<air, rx, written, delivered, calm>>
    BY DEF Begin
  <2>. QED
    BY <2>1, <2>2, LineStays
<1>7. Serialised'
  <2>1. ASSUME NEW u \in Writers, job'[u].busy
        PROVE  Piece(job'[u]) /\ (lock' # u => job'[u].done = 0)
    <3>1. CASE u = w
      <4>1. job'[u].done = 0 /\ job'[u].pdu = p
        BY <1>3, <3>1
      <4>. QED
        BY <1>2, <4>1 DEF Piece
    <3>2. CASE u # w
      BY <1>3, <1>4, <2>1, <3>2 DEF SegmentsInv, Serialised
    <3>. QED
      BY <3>1, <3>2
  <2>. QED
    BY <2>1 DEF Serialised
<1>8. begun' \in 0 .. MaxPDUs /\ UNCHANGED <<rx, now, calm>>
  BY <1>1 DEF Begin
<1>. QED
  BY <1>3, <1>4, <1>5, <1>6, <1>7, <1>8, Keeps DEF SegmentsInv, SegmentsTypeOK

LEMMA LockKeeps ==
  ASSUME SegmentsInv, NEW w \in Writers, TakeLock(w)
  PROVE  SegmentsInv'
<1>1. /\ lock = NoOne /\ job[w].busy /\ lock' = w /\ w # NoOne
      /\ UNCHANGED <<job, air, rx, now, begun, written, delivered, calm>>
  BY SegmentAssumption DEF TakeLock
<1>2. \A u \in Writers : job[u].busy => Piece(job[u]) /\ job[u].done = 0
  BY <1>1, SegmentAssumption DEF SegmentsInv, Serialised
<1>3. LineTyped' /\ Accounted' /\ \E src \in Seq(Pieces) : Line(src)'
  BY <1>1, <1>2, LineStays
<1>4. Serialised'
  BY <1>1, <1>2 DEF Serialised
<1>. QED
  BY <1>1, <1>3, <1>4, Keeps DEF SegmentsInv, SegmentsTypeOK, Jobs

LEMMA ReceiveKeeps ==
  ASSUME SegmentsInv, Receive
  PROVE  SegmentsInv'
<1>1. UNCHANGED <<job, lock, now, begun, written>> /\ calm' \in BOOLEAN
  BY DEF Receive
<1>2. Serialised'
  BY <1>1 DEF SegmentsInv, Serialised
<1>3. LineTyped' /\ Accounted'
  BY ReceivedAccounted
<1>4. \E src \in Seq(Pieces) : Line(src)'
  BY LineMoves
<1>5. /\ rx' \in {NoRx} \cup [open : {TRUE}, type : Types, body : Seq(Bytes), at : 0 .. now']
      /\ rx'.open => Len(rx'.body) \in 1 .. MaxMessage
  BY <1>1, RxTyped
<1>. QED
  BY <1>1, <1>2, <1>3, <1>4, <1>5, Keeps DEF SegmentsInv, SegmentsTypeOK, Jobs

\* Nothing on its way, nobody writing: an empty line.
LEMMA EmptyLine ==
  ASSUME air' = <<>>, \A w \in Writers : ~job'[w].busy
  PROVE  /\ \E src \in Seq(Pieces) : Line(src)'
         /\ Closings(air', 0) = 0 /\ Len(air') = 0
<1>1. Len(air') = 0
  BY EmptySeq
<1>2. Closings(air', 0) = 0
  BY <1>1, ClosingsNone
<1>3. <<>> \in Seq(Pieces) /\ Len(<<>>) = 0
  BY EmptySeq
<1>4. Line(<<>>)'
  BY <1>1, <1>3 DEF Line
<1>. QED
  BY <1>1, <1>2, <1>3, <1>4

LEMMA ReconnectKeeps ==
  ASSUME SegmentsInv, Reconnect
  PROVE  SegmentsInv'
<1>1. /\ air' = <<>> /\ rx' = NoRx /\ calm' = FALSE /\ lock' = NoOne
      /\ UNCHANGED <<now, begun, written, delivered>>
      /\ job' \in [Writers -> Jobs] /\ \A w \in Writers : ~job'[w].busy
  BY DEF Reconnect, NoJob, Jobs
<1>2. /\ \E src \in Seq(Pieces) : Line(src)'
      /\ Closings(air', 0) = 0
  BY <1>1, EmptyLine
<1>3. air' \in Seq(Segments) /\ written \in Seq(PDU) /\ Len(written) \in Nat
  BY <1>1, EmptySeq, LenProperties DEF SegmentsInv, LineTyped
<1>4. LineTyped' /\ Accounted' /\ Serialised'
  BY <1>1, <1>2, <1>3 DEF SegmentsInv, LineTyped, Accounted, Serialised
<1>5. ~rx'.open
  BY <1>1 DEF NoRx
<1>. QED
  BY <1>1, <1>2, <1>4, <1>5, Keeps DEF SegmentsInv, SegmentsTypeOK

LEMMA TickKeeps ==
  ASSUME SegmentsInv, Tick
  PROVE  SegmentsInv'
<1>1. /\ now' = now + 1 /\ now < MaxTicks /\ now \in 0 .. MaxTicks /\ MaxTicks \in Nat
      /\ UNCHANGED <<job, lock, air, rx, begun, written, delivered, calm>>
  <2>1. {MaxMessage, Timeout, MaxPDUs, MaxTicks} \subseteq Nat
    BY SegmentAssumption
  <2>. QED
    BY <2>1 DEF Tick, SegmentsInv, SegmentsTypeOK
<1>2. now' \in 0 .. MaxTicks /\ 0 .. now \subseteq 0 .. now'
  BY <1>1
<1>3. LineTyped' /\ Accounted' /\ \E src \in Seq(Pieces) : Line(src)'
  BY <1>1, LineStays
<1>4. Serialised'
  BY <1>1 DEF SegmentsInv, Serialised
<1>5. rx' \in {NoRx} \cup [open : {TRUE}, type : Types, body : Seq(Bytes), at : 0 .. now']
  <2>1. CASE rx = NoRx
    BY <1>1, <2>1
  <2>2. CASE rx \in [open : {TRUE}, type : Types, body : Seq(Bytes), at : 0 .. now]
    BY <1>1, <1>2, <2>2
  <2>. QED
    BY <2>1, <2>2 DEF SegmentsInv, SegmentsTypeOK
<1>. QED
  BY <1>1, <1>2, <1>3, <1>4, <1>5, Keeps DEF SegmentsInv, SegmentsTypeOK, Jobs

LEMMA SegmentsInvInit == SegmentsInit => SegmentsInv
<1>. SUFFICES ASSUME SegmentsInit PROVE SegmentsInv
  OBVIOUS
<1>1. /\ job \in [Writers -> Jobs] /\ \A w \in Writers : ~job[w].busy
      /\ lock = NoOne /\ air = <<>> /\ rx = NoRx /\ now = 0 /\ begun = 0
      /\ written = <<>> /\ delivered = <<>> /\ calm = TRUE /\ ~rx.open
  BY DEF SegmentsInit, Jobs, NoJob, NoRx
<1>2. {MaxMessage, Timeout, MaxPDUs, MaxTicks} \subseteq Nat
  BY SegmentAssumption
<1>3. Len(air) = 0 /\ Len(written) = 0 /\ Len(delivered) = 0
  BY <1>1, EmptySeq
<1>4. Closings(air, 0) = 0
  BY <1>3, ClosingsNone
<1>5. <<>> \in Seq(Pieces) /\ Line(<<>>)
  <2>1. <<>> \in Seq(Pieces) /\ Len(<<>>) = 0
    BY EmptySeq
  <2>. QED
    BY <1>1, <1>3, <2>1 DEF Line
<1>6. LineTyped
  BY <1>1, <1>3, <1>4, EmptySeq DEF LineTyped
<1>7. Accounted
  <2>1. {i \in 1 .. 0 : Kept(written[i])} = {}
    OBVIOUS
  <2>2. Kepts(written, 0) = 0
    BY <2>1, FS_EmptySet DEF Kepts
  <2>. QED
    BY <1>3, <1>4, <2>2 DEF Accounted
<1>8. Serialised
  BY <1>1 DEF Serialised
<1>9. SegmentsTypeOK
  <2>1. \A i \in 1 .. Len(air) : air[i].sar \in {"complete", "first", "more", "last"}
    BY <1>3
  <2>2. now \in 0 .. MaxTicks /\ begun \in 0 .. MaxPDUs /\ calm \in BOOLEAN
    BY <1>1, <1>2
  <2>3. lock \in Writers \cup {NoOne} /\ (lock # NoOne => job[lock].busy)
    BY <1>1
  <2>. QED
    BY <1>1, <2>1, <2>2, <2>3 DEF SegmentsTypeOK, Jobs
<1>. QED
  BY <1>5, <1>6, <1>7, <1>8, <1>9 DEF SegmentsInv

\* The invariant, of every run of the two halves.
THEOREM SegmentsInvariance == SegmentsSpec => []SegmentsInv
<1>1. ASSUME SegmentsInv, [SegmentsNext]_segmentVars PROVE SegmentsInv'
  <2>1. ASSUME NEW w \in Writers, NEW type \in Types, NEW length \in Lengths, NEW size \in Sizes,
               Begin(w, type, length, size)
        PROVE  SegmentsInv'
    BY <1>1, <2>1, BeginKeeps
  <2>2. ASSUME NEW w \in Writers, TakeLock(w) \/ Write(w) \/ GivesUp(w)
        PROVE  SegmentsInv'
    BY <1>1, <2>2, LockKeeps, WriteKeeps, GiveUpKeeps
  <2>3. CASE Receive
    BY <1>1, <2>3, ReceiveKeeps
  <2>4. CASE Reconnect
    BY <1>1, <2>4, ReconnectKeeps
  <2>5. CASE Tick
    BY <1>1, <2>5, TickKeeps
  <2>6. CASE UNCHANGED segmentVars
    BY <1>1, <2>6 DEF segmentVars, SegmentsInv, SegmentsTypeOK, LineTyped, Serialised, Accounted, Line, AtRx
  <2>. QED
    BY <1>1, <2>1, <2>2, <2>3, <2>4, <2>5, <2>6 DEF SegmentsNext
<1>. QED
  BY SegmentsInvInit, <1>1, PTL DEF SegmentsSpec

THEOREM SegmentTypesHold == SegmentsSpec => []SegmentsTypeOK
<1>1. SegmentsInv => SegmentsTypeOK
  BY DEF SegmentsInv
<1>. QED
  BY SegmentsInvariance, <1>1, PTL

\* Once nothing is on its way and no connection ended and no message was late, as
\* many messages were delivered as were written that fit: none was lost to another
\* that was given up half way.
THEOREM OnlyTheLongIsLost == SegmentsSpec => []NothingElseIsLost
<1>1. SegmentsInv => NothingElseIsLost
  <2>. SUFFICES ASSUME SegmentsInv, air = <<>>, calm
                PROVE  Len(delivered) = Cardinality({i \in 1 .. Len(written) :
                           \/ written[i].length < written[i].size
                           \/ written[i].length <= MaxMessage})
    BY DEF NothingElseIsLost
  <2>1. Len(air) = 0 /\ Closings(air, 0) = 0
    BY EmptySeq, ClosingsNone
  <2>2. Len(written) \in Nat
    BY LenProperties DEF SegmentsInv, LineTyped
  <2>3. Len(delivered) = Kepts(written, Len(written))
    BY <2>1, <2>2 DEF SegmentsInv, Accounted
  <2>. QED
    BY <2>3 DEF Kepts, Kept
<1>. QED
  BY SegmentsInvariance, <1>1, PTL

-----------------------------------------------------------------------------
(* The two halves make a channel. *)

\* The packets on their way, oldest first.
LEMMA ComingIs ==
  /\ Coming = [i \in 1 .. Closings(air, 0) |-> Packet(written[Len(written) - Closings(air, 0) + i])]
  /\ Coming' = [i \in 1 .. Closings(air', 0) |->
                  Packet(written'[Len(written') - Closings(air', 0) + i])]
<1>1. 0 + 1 = 1
  OBVIOUS
<1>. QED
  BY <1>1 DEF Coming, Closings

LEMMA ComingTyped ==
  ASSUME SegmentsInv
  PROVE  /\ Closings(air, 0) \in Nat /\ Len(written) \in Nat /\ Closings(air, 0) <= Len(written)
         /\ Coming \in Seq(Packets) /\ Len(Coming) = Closings(air, 0)
         /\ \A i \in 1 .. Len(Coming) :
              Coming[i] = Packet(written[Len(written) - Closings(air, 0) + i])
<1>1. /\ air \in Seq(Segments) /\ written \in Seq(PDU) /\ Len(written) \in Nat
      /\ Closings(air, 0) <= Len(written)
  BY LenProperties DEF SegmentsInv, LineTyped
<1>2. Closings(air, 0) \in Nat
  BY <1>1, 0 \in Nat, LenProperties, ClosingsAreFinite
<1>. PICK n : n = Closings(air, 0)
  OBVIOUS
<1>3. ASSUME NEW i \in 1 .. n PROVE Packet(written[Len(written) - n + i]) \in Packets
  <2>1. Len(written) - n + i \in 1 .. Len(written)
    BY <1>1, <1>2
  <2>2. written[Len(written) - n + i] \in PDU
    BY <1>1, <2>1, ElementOfSeq
  <2>. QED
    BY <2>2 DEF Packets
<1>4. Coming = [i \in 1 .. n |-> Packet(written[Len(written) - n + i])]
  BY ComingIs
<1>. QED
  BY <1>1, <1>2, <1>3, <1>4

\* The last segment of a message leaves: its packet enters.  Any other changes nothing.
LEMMA SendingEnters ==
  ASSUME SegmentsInv, NEW w \in Writers, Sends(w)
  PROVE  [Channel!Next]_(Channel!vars)
<1>. PICK n : n = Closings(air, 0)
  OBVIOUS
<1>. PICK l : l = Len(written)
  OBVIOUS
<1>1. /\ n \in Nat /\ l \in Nat /\ n <= l /\ written \in Seq(PDU)
      /\ Coming \in Seq(Packets) /\ Len(Coming) = n
      /\ Coming = [i \in 1 .. n |-> Packet(written[l - n + i])]
      /\ Coming' = [i \in 1 .. Closings(air', 0) |->
                      Packet(written'[Len(written') - Closings(air', 0) + i])]
  BY ComingTyped, ComingIs DEF SegmentsInv, LineTyped
<1>2. Len(written') - Closings(air', 0) = l - n /\ Closings(air', 0) \in Nat
  <2>1. air' \in Seq(Segments)
    BY SentAccounted DEF LineTyped
  <2>. QED
    BY <2>1, 0 \in Nat, LenProperties, ClosingsAreFinite, SentAccounted
<1>3. job[w].pdu \in PDU
  BY WritersCut DEF SegmentsInv, Sends, Piece
<1>4. CASE AtEnd(job[w])
  <2>1. written' = Append(written, job[w].pdu) /\ Len(written') = l + 1
        /\ \A i \in 1 .. l : written'[i] = written[i]
        /\ written'[l + 1] = job[w].pdu
    BY <1>1, <1>3, <1>4, AppendProperties DEF Sends
  <2>2. Closings(air', 0) = n + 1
    BY <1>1, <1>2, <2>1
  <2>. PICK p : p = Packet(job[w].pdu)
    OBVIOUS
  <2>3. p \in Packets
    BY <1>3 DEF Packets
  <2>4. Append(Coming, p) = [i \in 1 .. n + 1 |-> IF i = n + 1 THEN p ELSE Coming[i]]
    BY <1>1, <2>3
  <2>5. ASSUME NEW i \in 1 .. n + 1
        PROVE  Packet(written'[l - n + i]) = IF i = n + 1 THEN p ELSE Coming[i]
    <3>1. CASE i = n + 1
      <4>1. l - n + i = l + 1
        BY <1>1, <3>1
      <4>. QED
        BY <2>1, <3>1, <4>1
    <3>2. CASE i \in 1 .. n
      <4>1. l - n + i \in 1 .. l /\ i # n + 1
        BY <1>1, <3>2
      <4>2. written'[l - n + i] = written[l - n + i]
        BY <2>1, <4>1
      <4>3. Coming[i] = Packet(written[l - n + i])
        BY <1>1, <3>2
      <4>. QED
        BY <4>1, <4>2, <4>3
    <3>. QED
      BY <1>1, <3>1, <3>2
  <2>6. Coming' = Append(Coming, p)
    <3>1. Coming' = [i \in 1 .. n + 1 |-> Packet(written'[l - n + i])]
      BY <1>1, <1>2, <2>2
    <3>. QED
      BY <2>4, <2>5, <3>1, Zenon
  <2>7. UNCHANGED <<delivered, calm>>
    BY DEF Sends
  <2>. QED
    BY <2>3, <2>6, <2>7 DEF Channel!Next, Channel!Enter, Packets
<1>5. CASE ~AtEnd(job[w])
  <2>1. UNCHANGED <<written, delivered, calm>>
    BY <1>5 DEF Sends
  <2>2. Closings(air', 0) = n
    BY <1>1, <1>2, <2>1
  <2>3. Coming' = Coming
    BY <1>1, <2>1, <2>2
  <2>. QED
    BY <2>1, <2>3 DEF Channel!vars
<1>. QED
  BY <1>4, <1>5

\* Packets that are the same are of one length.
LEMMA TooLongToFit ==
  ASSUME NEW p \in PDU, ~Kept(p)
  PROVE  Packet(p) \notin {Packet(r) : r \in {q \in PDU : \/ q.length <= MaxMessage
                                                         \/ \A size \in Sizes : q.length < size}}
<1>. SUFFICES ASSUME NEW q \in PDU, Packet(p) = Packet(q),
                     \/ q.length <= MaxMessage
                     \/ \A size \in Sizes : q.length < size
              PROVE  FALSE
  OBVIOUS
<1>1. Body(p) = Body(q)
  BY DEF Packet, Message
<1>2. p.length = q.length
  BY <1>1, BodiesAreSequences
<1>3. p.size \in Sizes
  BY DEF PDU
<1>. QED
  BY <1>2, <1>3 DEF Kept

\* A closing segment takes the oldest packet off, and hands it over unless it did not
\* fit or the channel faltered.
LEMMA ReceivingDelivers ==
  ASSUME SegmentsInv, Receive
  PROVE  [Channel!Next]_(Channel!vars)
<1>. PICK n : n = Closings(air, 0)
  OBVIOUS
<1>. PICK l : l = Len(written)
  OBVIOUS
<1>1. /\ n \in Nat /\ l \in Nat /\ n <= l
      /\ Coming \in Seq(Packets) /\ Len(Coming) = n
      /\ Coming = [i \in 1 .. n |-> Packet(written[l - n + i])]
      /\ Coming' = [i \in 1 .. Closings(air', 0) |->
                      Packet(written'[Len(written') - Closings(air', 0) + i])]
      /\ written' = written /\ calm \in BOOLEAN
  BY ComingTyped, ComingIs DEF SegmentsInv, Receive, SegmentsTypeOK
<1>2. CASE Head(air).sar \notin Closing
  <2>1. Closings(air', 0) = n /\ delivered' = delivered /\ (calm' => calm)
    BY <1>2, ReceivedCounts
  <2>2. Coming' = Coming
    BY <1>1, <2>1
  <2>3. CASE calm' = calm
    BY <2>1, <2>2, <2>3 DEF Channel!vars
  <2>4. CASE calm' = FALSE
    BY <2>1, <2>2, <2>4 DEF Channel!Next, Channel!Falter
  <2>5. calm' \in BOOLEAN
    BY DEF Receive
  <2>. QED
    BY <1>1, <2>1, <2>3, <2>4, <2>5, Zenon
<1>3. CASE Head(air).sar \in Closing
  <2>. PICK p : p = written[l - n + 1]
    OBVIOUS
  <2>1. /\ Closings(air', 0) = n - 1 /\ l - n \in 0 .. l - 1 /\ p \in PDU
        /\ \/ delivered' = Append(delivered, Packet(p)) /\ calm' = calm
           \/ delivered' = delivered /\ (calm' => calm /\ ~Kept(p))
    BY <1>3, ReceivedCounts
  <2>2. n > 0 /\ Coming # <<>> /\ Head(Coming) = Packet(p)
    BY <1>1, <2>1, EmptySeq
  <2>3. Coming' = Tail(Coming)
    <3>1. Tail(Coming) = [i \in 1 .. n - 1 |-> Coming[i + 1]]
      BY <1>1, <2>2
    <3>2. ASSUME NEW i \in 1 .. n - 1
          PROVE  Packet(written[l - (n - 1) + i]) = Coming[i + 1]
      <4>1. l - (n - 1) + i = l - n + (i + 1) /\ i + 1 \in 1 .. n
        <5>1. l \in Int /\ n \in Int /\ i \in Int /\ i >= 1 /\ i <= n - 1
          BY <1>1
        <5>. QED
          BY <5>1
      <4>. QED
        BY <1>1, <4>1
    <3>. QED
      BY <1>1, <2>1, <3>1, <3>2
  <2>4. CASE delivered' = Append(delivered, Packet(p)) /\ calm' = calm
    BY <2>2, <2>3, <2>4 DEF Channel!Next, Channel!Deliver
  <2>5. CASE delivered' = delivered /\ (calm' => calm /\ ~Kept(p))
    <3>1. calm' \in BOOLEAN
      BY DEF Receive
    <3>2. calm' \in {calm, FALSE}
      BY <1>1, <2>5, <3>1, Zenon
    <3>3. calm' => Head(Coming) \notin {Packet(r) : r \in {q \in PDU :
                     \/ q.length <= MaxMessage
                     \/ \A size \in Sizes : q.length < size}}
      BY <2>1, <2>2, <2>5, TooLongToFit
    <3>. QED
      BY <2>2, <2>3, <2>5, <3>2, <3>3 DEF Channel!Next, Channel!Lose
  <2>. QED
    BY <2>1, <2>4, <2>5
<1>. QED
  BY <1>2, <1>3

LEMMA StepSimulation == SegmentsInv /\ [SegmentsNext]_segmentVars => [Channel!Next]_(Channel!vars)
<1>. SUFFICES ASSUME SegmentsInv, [SegmentsNext]_segmentVars PROVE [Channel!Next]_(Channel!vars)
  OBVIOUS
<1>1. ASSUME UNCHANGED <<air, written, delivered, calm>> PROVE [Channel!Next]_(Channel!vars)
  BY <1>1, ComingIs DEF Channel!vars
<1>2. ASSUME NEW w \in Writers, NEW type \in Types, NEW length \in Lengths, NEW size \in Sizes,
             Begin(w, type, length, size)
      PROVE  [Channel!Next]_(Channel!vars)
  BY <1>1, <1>2 DEF Begin
<1>3. ASSUME NEW w \in Writers, TakeLock(w)
      PROVE  [Channel!Next]_(Channel!vars)
  BY <1>1, <1>3 DEF TakeLock
<1>4. ASSUME NEW w \in Writers, Write(w)
      PROVE  [Channel!Next]_(Channel!vars)
  <2>1. Sends(w)
    BY <1>4 DEF Write, Sends
  <2>. QED
    BY <2>1, SendingEnters
<1>5. ASSUME NEW w \in Writers, GivesUp(w)
      PROVE  [Channel!Next]_(Channel!vars)
  <2>1. \/ UNCHANGED <<air, written, delivered, calm>>
        \/ Sends(w)
    BY <1>5 DEF GivesUp, Sends
  <2>. QED
    BY <1>1, <2>1, SendingEnters
<1>6. CASE Reconnect
  <2>1. air' = <<>> /\ calm' = FALSE /\ delivered' = delivered
    BY <1>6 DEF Reconnect
  <2>2. Closings(air', 0) = 0
    <3>1. Len(air') = 0
      BY <2>1, EmptySeq
    <3>. QED
      BY <3>1, ClosingsNone
  <2>3. Coming' = <<>>
    BY <2>2, ComingIs
  <2>. QED
    BY <2>1, <2>3 DEF Channel!Next, Channel!Falter
<1>7. CASE Tick \/ UNCHANGED segmentVars
  BY <1>1, <1>7 DEF Tick, segmentVars
<1>. QED
  BY <1>2, <1>3, <1>4, <1>5, <1>6, <1>7, ReceivingDelivers DEF SegmentsNext

\* Segmentation and reassembly implement the channel, whatever tasks write, whenever
\* a write is given up, and for every set of lengths and of GATT limits.
THEOREM RefinesPacketChannel == SegmentsSpec => PacketsComeInOrder
<1>1. SegmentsInit => Channel!Init
  <2>. SUFFICES ASSUME SegmentsInit PROVE Channel!Init
    OBVIOUS
  <2>1. air = <<>> /\ delivered = <<>> /\ calm = TRUE
    BY DEF SegmentsInit
  <2>2. Len(air) = 0
    BY <2>1, EmptySeq
  <2>3. Closings(air, 0) = 0
    BY <2>2, ClosingsNone
  <2>4. Coming = <<>>
    BY <2>3, ComingIs
  <2>. QED
    BY <2>1, <2>4 DEF Channel!Init
<1>. QED
  BY SegmentsInvariance, <1>1, StepSimulation, PTL DEF SegmentsSpec, Channel!Spec, PacketsComeInOrder
=============================================================================

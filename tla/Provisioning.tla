---------------------------- MODULE Provisioning ----------------------------
(***************************************************************************)
(* A factory-reset light is put on a mesh: the PB-GATT exchange of         *)
(* ProvisioningSession, over ProvisioningClient; the ConfigSession that    *)
(* gives the light the application key; and the form after which the light *)
(* is in the node list.  "setup" is a config flow that makes a network     *)
(* (_async_provision), "join" puts the light on one that exists            *)
(* (async_provision_node).                                                 *)
(*                                                                         *)
(* Connections fail, drop and lose what is written; a light may refuse, or *)
(* answer something else; every await may be cancelled.  The light is the  *)
(* other end, as the Mesh Profile has it: it checks the confirmation, and  *)
(* keeps the keys once it has decrypted them.                              *)
(***************************************************************************)
EXTENDS ProvisioningPdus, FiniteSets

CONSTANTS
  Lights,
  Reported,          \* per light: the elements its Capabilities name
  DefaultElements,   \* MeshState.num_elements when nobody gives one
  MaxTries           \* bound on the attempts of a run

ASSUME ProvisioningAssumption ==
  /\ Reported \in [Lights -> Nat] /\ {DefaultElements, MaxTries} \subseteq Nat

Paths == {"setup", "join"}
Nothing == [length |-> 0, value |-> 0]

\* What ProvisioningSession._exchange sends and waits for.
Send(type) == [wait |-> FALSE, type |-> type]
Wait(type) == [wait |-> TRUE, type |-> type]
Script == << Send("invite"), Wait("capabilities"), Send("start"), Send("public_key"),
             Wait("public_key"), Send("confirmation"), Wait("confirmation"),
             Send("random"), Wait("random"), Send("data"), Wait("complete") >>

VARIABLES
  at,       \* where the attempt is
  step,     \* how much of Script is done
  job,      \* the attempt: which light, by which path, the how-manieth
  got,      \* payloads received from the light, per type
  state,    \* the MeshState the attempt has come to (a set of at most one)
  link,     \* the connection: "closed", "open" or "dropped"
  air,      \* written and not yet heard by the light
  rx,       \* the client's receive queue
  light,    \* the lights
  records,  \* node lists and config entries
  leaked,   \* lights a connection was left open to that nobody can close any more
  trouble   \* history, per light: what went wrong in its attempts, so far as it matters

vars == <<at, step, job, got, state, link, air, rx, light, records, leaked, trouble>>
wire == <<link, air, rx>>
kept == <<records, leaked>>

Stages == {"idle", "opening", "subscribing", "exchange", "closing", "failing", "made",
           "bindopening", "bindsubscribing", "addkey", "bindkey", "bindclosing", "bindfailing",
           "form"}

TypeOK == /\ at \in Stages /\ step \in 0 .. Len(Script)
          /\ job \in [light : Lights, path : Paths, try : 0 .. MaxTries]
          /\ Cardinality(state) <= 1
          /\ link \in {"closed", "open", "dropped"}
          /\ leaked \subseteq Lights
          /\ trouble \in [Lights -> SUBSET {"subscribe", "close", "unheard", "drop", "other"}]

Factory == [mode |-> "factory", got |-> [t \in DOMAIN PayloadLength |-> Nothing],
            keys |-> {}, app |-> {}, bound |-> FALSE]
Forgotten == [t \in DOMAIN PayloadLength |-> Nothing]

Init == /\ at = "idle" /\ step = 0
        /\ job \in {[light |-> l, path |-> "setup", try |-> 0] : l \in Lights}
        /\ got = Forgotten /\ state = {}
        /\ link = "closed" /\ air = <<>> /\ rx = <<>>
        /\ light = [l \in Lights |-> Factory]
        /\ records = {} /\ leaked = {} /\ trouble = [l \in Lights |-> {}]

\* The attempt is over: its client, its queue and all it knew are gone.
Over == /\ at' = "idle" /\ step' = 0 /\ got' = Forgotten /\ state' = {}
        /\ link' = "closed" /\ air' = <<>> /\ rx' = <<>>
        /\ light' = [light EXCEPT ![job.light].got = Forgotten]
        /\ job' = job

\* It ends with its connection closed, or as it was: a client that is dropped does
\* not disconnect.
Ends(closed) == /\ Over
                /\ leaked' = IF ~closed /\ link = "open" THEN leaked \cup {job.light} ELSE leaked

Blame(what) == trouble' = [trouble EXCEPT ![job.light] = @ \cup {what}]

-----------------------------------------------------------------------------
\* What the provisioner has, by where it is in the exchange.
Us == <<"provisioner", job.try>>
OurKeys   == generate_p256_keypair(Us)
OurRandom == Bytes(16, Us)
Secret == ecdh_shared_secret(OurKeys.private, got["public_key"])
ConfirmationSalt == compute_confirmation_salt(build_confirmation_inputs(
  build_invite(0).payload, got["capabilities"], build_start.payload,
  OurKeys.public, got["public_key"]))
ProvisionSalt == compute_provision_salt(ConfirmationSalt, OurRandom, got["random"])

\* The keys of the network: those of the entry that is joined, or new ones.
Net == IF job.path = "join" THEN <<"net", 0>> ELSE <<"net", job.try>>
App == IF job.path = "join" THEN <<"app", 0>> ELSE <<"app", job.try>>
NodeAddress == 2 + 2 * job.try
PlainData == [net |-> Net, index |-> 0, iv |-> 0, address |-> NodeAddress]

Outgoing(type) ==
  CASE type = "invite"       -> build_invite(0)
    [] type = "start"        -> build_start
    [] type = "public_key"   -> build_public_key(OurKeys.public)
    [] type = "confirmation" -> build_confirmation(
                                  compute_confirmation_value(Secret, ConfirmationSalt, OurRandom))
    [] type = "random"       -> build_random(OurRandom)
    [] type = "data"         -> build_data(encrypt_provisioning_data(PlainData,
                                  derive_session_key(Secret, ProvisionSalt),
                                  derive_session_nonce(Secret, ProvisionSalt)))

-----------------------------------------------------------------------------
\* The user submits the form; an address that is configured is not offered.
Begin(l, path) ==
  /\ at = "idle" /\ job.try < MaxTries
  /\ \A r \in records : r.light # l
  /\ job' = [light |-> l, path |-> path, try |-> job.try + 1]
  /\ at' = "opening" /\ step' = 0 /\ got' = Forgotten /\ state' = {}
  /\ UNCHANGED <<wire, light, kept, trouble>>

\* ProvisioningClient.connect.  Its queue is new, as the client is.
Opened == /\ at = "opening"
          /\ at' = "subscribing" /\ link' = "open" /\ air' = <<>> /\ rx' = <<>>
          /\ UNCHANGED <<step, job, got, state, light, kept, trouble>>
OpenFails == /\ at = "opening"
             /\ Ends(FALSE) /\ Blame("other")
             /\ UNCHANGED records

\* A light that is on a mesh has no provisioning characteristic to subscribe to.
Subscribed == /\ at = "subscribing" /\ link = "open" /\ light[job.light].mode = "factory"
              /\ at' = "exchange"
              /\ UNCHANGED <<step, job, got, state, wire, light, kept, trouble>>

\* connect raises with the connection open, outside run's try: nobody closes it.
SubscribeFails == /\ at = "subscribing"
                  /\ Ends(FALSE) /\ Blame("subscribe")
                  /\ UNCHANGED records

-----------------------------------------------------------------------------
Now == Script[step + 1]
Exchanging(wait) == at = "exchange" /\ step < Len(Script) /\ Now.wait = wait

SendPdu == /\ Exchanging(FALSE) /\ link = "open"
           /\ step' = step + 1
           /\ \/ air' = Append(air, Outgoing(Now.type)) /\ UNCHANGED trouble
              \/ UNCHANGED air /\ Blame("other")
           /\ UNCHANGED <<at, job, got, state, link, rx, light, kept>>

\* The next notification is the PDU waited for.  A confirmation that does not
\* match is only logged.
Receive == /\ Exchanging(TRUE) /\ rx # <<>>
           /\ Head(rx).type = Now.type /\ Parses(Head(rx))
           /\ rx' = Tail(rx)
           /\ got' = [got EXCEPT ![Now.type] = Head(rx).payload]
           /\ step' = step + 1
           /\ UNCHANGED <<at, job, state, link, air, light, kept, trouble>>

\* A Failed PDU, another type, or a payload of another length.
ReceiveRaises == /\ Exchanging(TRUE) /\ rx # <<>>
                 /\ Head(rx).type # Now.type \/ ~Parses(Head(rx))
                 /\ at' = "failing"
                 /\ UNCHANGED <<step, job, got, state, wire, light, kept, trouble>>

\* Mutant: no timeout; only a connection that drops ends the wait.
ReceiveWaitsOn == /\ Exchanging(TRUE) /\ link = "dropped"
                  /\ at' = "failing" /\ Blame("other")
                  /\ UNCHANGED <<step, job, got, state, wire, light, kept>>

\* Ten seconds have passed, or the wait is cancelled.
ReceiveTimesOut == /\ Exchanging(TRUE)
                   /\ at' = "failing" /\ Blame("other")
                   /\ UNCHANGED <<step, job, got, state, wire, light, kept>>

SendRaises == /\ Exchanging(FALSE)
              /\ at' = "failing" /\ Blame("other")
              /\ UNCHANGED <<step, job, got, state, wire, light, kept>>

\* Complete has come: the session's MeshState.
Provisioned ==
  /\ at = "exchange" /\ step = Len(Script)
  /\ state' = {[net |-> Net, app |-> <<"app", "zero">>, address |-> NodeAddress,
                device |-> derive_device_key(Secret, ProvisionSalt),
                elements |-> LET n == parse_capabilities(got["capabilities"]).num_elements
                             IN  IF n > 1 THEN n ELSE 1]}
  /\ at' = "closing"
  /\ UNCHANGED <<step, job, got, wire, light, kept, trouble>>

\* What the caller makes of the session's state: _async_provision builds a new
\* MeshState, without the element count; async_provision_node keeps its own.
Adopted(s) == [s EXCEPT !.app = App,
                        !.elements = IF job.path = "setup" THEN DefaultElements ELSE @]

\* Mutant: an exchange that raises leaves its connection open.
FailedOpen == /\ at = "failing"
              /\ Ends(FALSE)
              /\ UNCHANGED <<records, trouble>>

\* A disconnect that raises, or is cancelled, in stop_notify too, has closed the
\* connection or has not.
DisconnectRaises == Blame("close") /\ \E closed \in BOOLEAN : Ends(closed)

\* run's finally.  A disconnect that raises loses a state that was made.
Closed == /\ at = "closing"
          /\ link' = "closed" /\ air' = <<>> /\ rx' = <<>>
          /\ at' = "bindopening"
          /\ state' = {Adopted(s) : s \in state}
          /\ UNCHANGED <<step, job, got, light, kept, trouble>>
CloseRaises == /\ at = "closing"
               /\ DisconnectRaises
               /\ UNCHANGED records
Failed == /\ at = "failing"
          /\ \/ Ends(TRUE) /\ UNCHANGED trouble
             \/ DisconnectRaises
          /\ UNCHANGED records

-----------------------------------------------------------------------------
\* ConfigSession.run: async with opens the connection, and disconnects however its
\* body ends, a cancelled stop_notify included.
BindOpened == /\ at = "bindopening"
              /\ at' = "bindsubscribing" /\ link' = "open" /\ air' = <<>> /\ rx' = <<>>
              /\ UNCHANGED <<step, job, got, state, light, kept, trouble>>
BindSubscribed == /\ at = "bindsubscribing" /\ link = "open"
                  /\ at' = "addkey"
                  /\ UNCHANGED <<step, job, got, state, wire, light, kept, trouble>>

\* _send_config_pdu: with the device key, to the light's address.
Config(s, message) == [device |-> s.device, address |-> s.address, message |-> message]
\* Mutant: the binding goes before the key.
MessagesSwapped(s) == IF at = "bindkey" THEN Config(s, build_config_app_key_add(s.app))
                                        ELSE Config(s, build_config_model_app_bind(s.address))
Messages(s) == IF at = "addkey" THEN Config(s, build_config_app_key_add(s.app))
                                ELSE Config(s, build_config_model_app_bind(s.address))

\* Neither message is answered as far as run knows; it sleeps, and goes on.
SendConfig == /\ at \in {"addkey", "bindkey"} /\ link = "open"
              /\ at' = IF at = "addkey" THEN "bindkey" ELSE "bindclosing"
              /\ \/ \E s \in state : air' = Append(air, Messages(s)) /\ UNCHANGED trouble
                 \/ UNCHANGED air /\ Blame("unheard")
              /\ UNCHANGED <<step, job, got, state, link, rx, light, kept>>
BindRaises == /\ at \in {"bindopening", "bindsubscribing", "addkey", "bindkey", "bindclosing"}
              /\ \/ Ends(TRUE) /\ Blame("other")
                 \/ at # "bindopening" /\ DisconnectRaises
              /\ UNCHANGED records
BindClosed == /\ at = "bindclosing"
              /\ at' = "form" /\ link' = "closed" /\ air' = <<>>
              /\ trouble' = [trouble EXCEPT ![job.light] = @ \cup {x \in {"unheard"} : air # <<>>}]
              /\ UNCHANGED <<step, job, got, state, rx, light, kept>>

-----------------------------------------------------------------------------
\* Mutant: only a network of its own is recorded.
ListedHalf == /\ at = "form"
              /\ records' = records \cup {[light |-> job.light, net |-> s.net, app |-> s.app,
                 address |-> s.address, device |-> s.device, elements |-> s.elements] :
                    s \in {t \in state : job.path = "setup"}}
              /\ Ends(FALSE)
              /\ UNCHANGED trouble

\* The model and the settings are confirmed; _finish_entry or _complete_join.
Listed == /\ at = "form"
          /\ records' = records \cup {[light |-> job.light, net |-> s.net, app |-> s.app,
                 address |-> s.address, device |-> s.device, elements |-> s.elements] : s \in state}
          /\ Ends(FALSE)
          /\ UNCHANGED trouble
Abandon == /\ at = "form"
           /\ Ends(FALSE) /\ Blame("other")
           /\ UNCHANGED records

-----------------------------------------------------------------------------
\* The other end.  The light's own account of the exchange it is in.
Me == light[job.light]
LightId == <<"light", job.light, job.try>>
LightRandom == Bytes(16, LightId)
Capabilities == Bytes(11, Reported[job.light])
LightSecret == Bytes(32, {LightId, Me.got["public_key"].value})
LightSalt == s1(<<Me.got["invite"], Capabilities, Me.got["start"],
                  Me.got["public_key"], Bytes(64, LightId)>>)
LightSessionSalt == s1(<<LightSalt, Me.got["random"], LightRandom>>)
Confirms(random) == aes_cmac(k1(LightSecret, LightSalt, "prck"), random)

\* What it answers: nothing, one PDU, or that the exchange has failed.
Answer(type) ==
  CASE type = "invite"       -> <<Wrap("capabilities", Capabilities)>>
    [] type = "public_key"   -> <<Wrap("public_key", Bytes(64, LightId))>>
    [] type = "confirmation" -> <<Wrap("confirmation", Confirms(LightRandom))>>
    [] type = "random"       -> <<Wrap("random", LightRandom)>>
    [] type = "complete"     -> <<Wrap("complete", Nothing)>>
    [] type = "failed"       -> <<Wrap("failed", Bytes(1, 0))>>
    [] OTHER                 -> << >>

Agrees(pdu) == CASE pdu.type = "random" -> Confirms(pdu.payload) = Me.got["confirmation"]
                 [] pdu.type = "data"   ->
                      /\ pdu.payload.value.key = k1(LightSecret, LightSessionSalt, "prsk")
                      /\ pdu.payload.value.nonce.value = k1(LightSecret, LightSessionSalt, "prsn").value
                 [] OTHER               -> TRUE

\* Its answer is on the way, or lost.
Notify(type) == \/ rx' = rx \o Answer(type) /\ UNCHANGED trouble
                \/ Answer(type) # << >> /\ UNCHANGED rx /\ Blame("other")

LightHearsPdu ==
  /\ link = "open" /\ air # <<>> /\ at \in {"exchange", "failing"} /\ Me.mode = "factory"
  /\ air' = Tail(air)
  /\ LET pdu == Head(air) IN
     IF ~Agrees(pdu) THEN Notify("failed") /\ UNCHANGED light
     ELSE /\ Notify(IF pdu.type = "data" THEN "complete" ELSE pdu.type)
          /\ light' = [light EXCEPT ![job.light] =
               IF pdu.type = "data"
               THEN [@ EXCEPT !.mode = "node",
                       !.keys = {[net |-> pdu.payload.value.plain.net,
                                  address |-> pdu.payload.value.plain.address,
                                  device |-> k1(LightSecret, LightSessionSalt, "prdk")]}]
               ELSE [@ EXCEPT !.got[pdu.type] = pdu.payload]]
  /\ UNCHANGED <<at, step, job, got, state, link, kept>>

\* Firmware that refuses, or says something else.
LightMisbehaves ==
  /\ link = "open" /\ Exchanging(TRUE) /\ rx = <<>>
  /\ rx' \in {<<Wrap("failed", Bytes(1, 0))>>, <<Wrap(Now.type, Bytes(2, 0))>>,
              <<Wrap("start", Bytes(5, 0))>>}
  /\ Blame("other")
  /\ UNCHANGED <<at, step, job, got, state, link, air, light, kept>>

LightHearsConfig ==
  /\ link = "open" /\ air # <<>> /\ at \in {"bindkey", "bindclosing"}
  /\ air' = Tail(air)
  /\ LET m == Head(air)
         mine == \E k \in Me.keys : k.device = m.device /\ k.address = m.address
     IN  light' = [light EXCEPT ![job.light] =
           IF ~mine THEN @
           ELSE IF m.message.op = "app_key_add" THEN [@ EXCEPT !.app = {m.message.app}]
           ELSE [@ EXCEPT !.bound = (Me.app # {})]]
  /\ UNCHANGED <<at, step, job, got, state, link, rx, kept, trouble>>

Drop == /\ link = "open"
        /\ link' = "dropped" /\ Blame("drop")
        /\ UNCHANGED <<at, step, job, got, state, air, rx, light, kept>>

\* The owner resets a light that no list has.
Reset(l) == /\ at = "idle" /\ light[l].mode = "node"
            /\ \A r \in records : r.light # l
            /\ light' = [light EXCEPT ![l] = Factory]
            /\ leaked' = leaked \ {l}
            /\ UNCHANGED <<at, step, job, got, state, wire, records, trouble>>

-----------------------------------------------------------------------------
\* What the program does by itself once the user has submitted.
Attempt == \/ Opened \/ OpenFails \/ Subscribed \/ SubscribeFails
           \/ SendPdu \/ Receive \/ ReceiveRaises \/ ReceiveTimesOut \/ SendRaises
           \/ Provisioned \/ Closed \/ CloseRaises \/ Failed
           \/ BindOpened \/ BindSubscribed \/ SendConfig \/ BindRaises \/ BindClosed

Next == \/ \E l \in Lights, path \in Paths : Begin(l, path)
        \/ Attempt
        \/ Listed \/ Abandon
        \/ LightHearsPdu \/ LightMisbehaves \/ LightHearsConfig \/ Drop
        \/ \E l \in Lights : Reset(l)

\* Every await of the attempt returns or raises.
Spec == Init /\ [][Next]_vars /\ WF_vars(Attempt)

-----------------------------------------------------------------------------
HasRecord(l) == \E r \in records : r.light = l
InHand(l) == at # "idle" /\ job.light = l

\* What is recorded is what the light took, computed by each end for itself: the
\* device key that a later bind needs, the network and the address.
RecordOpensTheLight ==
  \A r \in records : \E k \in light[r.light].keys :
    k.device = r.device /\ k.net = r.net /\ k.address = r.address

\* ConfigSession hears no answer, so a light that is listed may lack the application
\* key or its binding; only if one of the two messages, or the link, was lost.
ListedIsBound ==
  \A r \in records : \/ light[r.light].bound /\ light[r.light].app = {r.app}
                     \/ {"unheard", "drop"} \cap trouble[r.light] # {}

\* A light that took the keys and is in no list is out of reach until it is reset.
\* It is so only after something went wrong, or the dialog was closed.
StrandedHadTrouble ==
  \A l \in Lights : light[l].mode = "node" => HasRecord(l) \/ InHand(l) \/ trouble[l] # {}

\* With nothing lost, refused or interrupted, the exchange runs to its end.
QuietAttemptSucceeds == at = "failing" => trouble[job.light] # {}

\* A connection is left open when its subscription fails, for connect raises before
\* run's try (provisioning_client.py:82), and when disconnect raises or is cancelled
\* (provisioning_client.py:92); an attempt that ends in any other way, at any other of
\* its awaits, refused, unanswered, dropped or given up, has closed what it opened.
NothingElseLeaks == \A l \in leaked : {"subscribe", "close"} \cap trouble[l] # {}

\* The user is always answered.
AttemptEnds == (at \notin {"idle", "form"}) ~> (at \in {"idle", "form"})

-----------------------------------------------------------------------------
\* A statement of the repository that the code does not keep.

\* config_flow.py:795, of the count it records for the first light: "What the light
\* itself reported, so later nodes are allocated around its real span rather than a
\* guess."
SpanIsWhatWasReported == \A r \in records : r.elements = Reported[r.light]
=============================================================================

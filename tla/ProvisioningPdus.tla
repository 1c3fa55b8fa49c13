-------------------------- MODULE ProvisioningPdus --------------------------
(***************************************************************************)
(* The provisioning PDUs (provisioning_pdu.py), the keys derived while     *)
(* they are exchanged (crypto.py) and the Config Server messages that      *)
(* follow (config.py).  A byte string is a term: what it was computed from *)
(* and how long it is; equal terms are equal bytes, and nothing else is.   *)
(***************************************************************************)
EXTENDS Naturals, Sequences

Bytes(length, value) == [length |-> length, value |-> value]

\* How many bytes of payload each type of PDU has, the type byte stripped.
PayloadLength == [invite |-> 1, capabilities |-> 11, start |-> 5, public_key |-> 64,
                  confirmation |-> 16, random |-> 16, data |-> 33, complete |-> 0, failed |-> 1]

-----------------------------------------------------------------------------
\* Builders.  Those that check a length are only ever given the right one, which
\* TLC sees to: a wrong one leaves the message without a value.
Wrap(type, payload) == [type |-> type, payload |-> payload]
Sized(type, payload) == CASE payload.length = PayloadLength[type] -> Wrap(type, payload)

build_invite(attention)          == Wrap("invite", Bytes(1, attention))
build_start                      == Wrap("start", Bytes(5, 0))
build_public_key(public)         == Sized("public_key", public)
build_confirmation(confirmation) == Sized("confirmation", confirmation)
build_random(random)             == Sized("random", random)
build_data(encrypted)            == Sized("data", encrypted)

\* Parsers: a payload of another length raises ValueError.
Parses(pdu) == pdu.payload.length = PayloadLength[pdu.type]
parse_capabilities(payload) == [num_elements |-> payload.value, raw |-> payload]

-----------------------------------------------------------------------------
\* Key derivation.  A pair of P-256 keys is named by its owner; either half of
\* two pairs gives the same secret.
generate_p256_keypair(owner) == [private |-> owner, public |-> Bytes(64, owner)]
ecdh_shared_secret(private, peer) == Bytes(32, {private, peer.value})

aes_cmac(key, data) == Bytes(16, <<key, data>>)
s1(text) == aes_cmac("zero", text)
k1(text, salt, label) == aes_cmac(aes_cmac(salt, text), label)

\* Mutant: the two public keys change places.
SwappedInputs(invite, capabilities, start, provisioner, device) ==
  <<invite, capabilities, start, device, provisioner>>
build_confirmation_inputs(invite, capabilities, start, provisioner, device) ==
  <<invite, capabilities, start, provisioner, device>>

compute_confirmation_salt(inputs) == s1(inputs)
compute_confirmation_value(secret, salt, random) == aes_cmac(k1(secret, salt, "prck"), random)
compute_provision_salt(salt, provisioner, device) == s1(<<salt, provisioner, device>>)
derive_session_key(secret, salt)   == k1(secret, salt, "prsk")
derive_session_nonce(secret, salt) == Bytes(13, k1(secret, salt, "prsn").value)

\* Mutant: the label of the session key.
SessionKeyAgain(secret, salt) == k1(secret, salt, "prsk")
derive_device_key(secret, salt) == k1(secret, salt, "prdk")

\* 25 bytes of plain text and a MIC of 8.
encrypt_provisioning_data(plain, key, nonce) ==
  Bytes(33, [plain |-> plain, key |-> key, nonce |-> nonce])

-----------------------------------------------------------------------------
\* Config Server messages, encrypted with the light's device key.
build_config_app_key_add(app)        == [op |-> "app_key_add", app |-> app]
build_config_model_app_bind(element) == [op |-> "model_app_bind", element |-> element]
=============================================================================

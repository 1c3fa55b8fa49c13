---------------------------- MODULE MeshPackets ----------------------------
(***************************************************************************)
(* The PDUs of the mesh (crypto.py): what is encrypted with which key      *)
(* under which nonce, what is obfuscated, and what a receiver makes of it. *)
(*                                                                         *)
(* The ciphers are ideal.  A cipher text is its key, nonce and plain text, *)
(* and opens with that key and nonce alone; AES-CMAC is injective; the XOR *)
(* with a pad is a set of pads, which a second XOR with one takes away     *)
(* again.  An unsigned number that does not fit its field has no encoding. *)
(***************************************************************************)
EXTENDS Naturals, Sequences

Unreadable == [unreadable |-> TRUE]

\* to_bytes(3, "big"): anything larger raises.
SeqLimit == 2 ^ 24
FitsSequence(seq) == seq < SeqLimit

-----------------------------------------------------------------------------
\* Keys derived from the network key and the application key.
aes_cmac(key, data) == <<key, data>>
k2(net) == [nid        |-> aes_cmac(net, "nid"),
            encryption |-> aes_cmac(net, "encryption"),
            privacy    |-> aes_cmac(net, "privacy")]
k3(net) == aes_cmac(net, "id64")
k4(app) == aes_cmac(app, "id6")

aes_ccm_encrypt(key, nonce, plain) == [key |-> key, nonce |-> nonce, plain |-> plain]
aes_ccm_decrypt(key, nonce, cipher) ==
  IF cipher.key = key /\ cipher.nonce = nonce THEN cipher.plain ELSE Unreadable

\* The four nonces differ in their first byte.  A proxy nonce has no TTL, and only
\* the access nonces have a destination.
Nonce(type, ttl, seq, src, dst, iv) ==
  [type |-> type, ttl |-> ttl, seq |-> seq, src |-> src, dst |-> dst, iv |-> iv]
NetworkNonce(ttl, seq, src, iv)     == Nonce(0, ttl, seq, src, 0, iv)
ApplicationNonce(seq, src, dst, iv) == Nonce(1, 0, seq, src, dst, iv)
DeviceNonce(seq, src, dst, iv)      == Nonce(2, 0, seq, src, dst, iv)
ProxyNonce(seq, src, iv)            == Nonce(3, 0, seq, src, 0, iv)

-----------------------------------------------------------------------------
\* Six header bytes are masked with a pad made of the privacy key, the IV index and
\* the first seven bytes of the cipher text; masking them twice shows them again.
Pad(pdu, privacy, iv) == <<privacy, iv, pdu.cipher>>
obfuscate(pdu, privacy, iv) ==
  [pdu EXCEPT !.pads = (@ \ {Pad(pdu, privacy, iv)}) \cup ({Pad(pdu, privacy, iv)} \ @)]
deobfuscate(pdu, privacy, iv) == obfuscate(pdu, privacy, iv)

encrypt_access_pdu(payload, app, iv, seq, src, dst) ==
  [aid |-> k4(app), cipher |-> aes_ccm_encrypt(app, ApplicationNonce(seq, src, dst, iv), payload)]
decrypt_access_pdu(pdu, app, iv, seq, src, dst) ==
  aes_ccm_decrypt(app, ApplicationNonce(seq, src, dst, iv), pdu.cipher)

encrypt_device_key_pdu(payload, device, iv, seq, src, dst) ==
  [aid |-> "device", cipher |-> aes_ccm_encrypt(device, DeviceNonce(seq, src, dst, iv), payload)]
decrypt_device_key_pdu(pdu, device, iv, seq, src, dst) ==
  aes_ccm_decrypt(device, DeviceNonce(seq, src, dst, iv), pdu.cipher)

\* Mutant: the nonce takes the destination.
encrypt_network_pdu_to(dst, access, encryption, iv, seq, src, ttl) ==
  [ttl |-> ttl, seq |-> seq, src |-> src,
   cipher |-> aes_ccm_encrypt(encryption, [NetworkNonce(ttl, seq, src, iv) EXCEPT !.dst = dst],
                              [dst |-> dst, access |-> access])]

encrypt_network_pdu(dst, access, encryption, iv, seq, src, ttl) ==
  [ttl |-> ttl, seq |-> seq, src |-> src,
   cipher |-> aes_ccm_encrypt(encryption, NetworkNonce(ttl, seq, src, iv),
                              [dst |-> dst, access |-> access])]
\* Header bytes that are still masked make another nonce.
decrypt_network_pdu(pdu, encryption, iv) ==
  IF pdu.pads # {} THEN Unreadable
  ELSE aes_ccm_decrypt(encryption, NetworkNonce(pdu.ttl, pdu.seq, pdu.src, iv), pdu.cipher)

-----------------------------------------------------------------------------
\* A proxy PDU: its type byte, the clear first byte and the obfuscated rest.
Obfuscated(type, keys, iv, pdu) ==
  [type |-> type,
   pdu  |-> obfuscate([ivi |-> iv % 2, nid |-> keys.nid, pads |-> {}, ttl |-> pdu.ttl,
                       seq |-> pdu.seq, src |-> pdu.src, cipher |-> pdu.cipher],
                      keys.privacy, iv)]

pack_proxy_network_pdu(payload, net, app, iv, seq, src, dst, ttl) ==
  Obfuscated("network", k2(net), iv,
    encrypt_network_pdu(dst, encrypt_access_pdu(payload, app, iv, seq, src, dst),
                        k2(net).encryption, iv, seq, src, ttl))

pack_proxy_device_key_pdu(payload, net, device, iv, seq, src, dst) ==
  Obfuscated("network", k2(net), iv,
    encrypt_network_pdu(dst, encrypt_device_key_pdu(payload, device, iv, seq, src, dst),
                        k2(net).encryption, iv, seq, src, 10))

pack_proxy_config_pdu(opcode, parameters, net, iv, seq, src) ==
  Obfuscated("configuration", k2(net), iv,
    [ttl |-> 128, seq |-> seq, src |-> src,
     cipher |-> aes_ccm_encrypt(k2(net).encryption, ProxyNonce(seq, src, iv),
                  [dst |-> 0, access |-> [opcode |-> opcode, parameters |-> parameters]])])

decrypt_proxy_network_pdu(proxy, net, app, iv) ==
  LET pdu == deobfuscate(proxy.pdu, k2(net).privacy, iv)
      network == IF proxy.type = "network" THEN decrypt_network_pdu(pdu, k2(net).encryption, iv)
                                           ELSE Unreadable
      access == IF network = Unreadable THEN Unreadable
                ELSE decrypt_access_pdu(network.access, app, iv, pdu.seq, pdu.src, network.dst)
  IN  IF access = Unreadable THEN Unreadable
      ELSE [src |-> pdu.src, dst |-> network.dst, seq |-> pdu.seq, access_payload |-> access]

\* The proxy reads a configuration PDU; the code has no counterpart.
ReadProxyConfig(proxy, net, iv) ==
  LET pdu == deobfuscate(proxy.pdu, k2(net).privacy, iv)
      config == IF pdu.pads # {} THEN Unreadable
                ELSE aes_ccm_decrypt(k2(net).encryption, ProxyNonce(pdu.seq, pdu.src, iv), pdu.cipher)
  IN  IF config = Unreadable THEN Unreadable ELSE config.access

\* Both a request's and a reply's opcode come before the payload, three bytes long.
build_vendor_access_payload(opcode, payload) == [opcode |-> opcode, payload |-> payload]
=============================================================================

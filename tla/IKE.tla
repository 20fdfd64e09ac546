--------------------------------- MODULE IKE ---------------------------------
(***************************************************************************)
(* The message layer of the library: EncodeEncrypt and DecodeDecrypt       *)
(* (src/ike.go) on top of the payload container and the header             *)
(* (src/message/message.go, header.go), called by the two endpoints of an  *)
(* IKE SA over UDP.                                                        *)
(*                                                                         *)
(* Bytes are abstracted to what the receiver can tell apart.  AES-CBC      *)
(* draws a fresh IV for every encryption, so a ciphertext is the index of  *)
(* the call in enc that produced it; a checksum is the set of at most one  *)
(* Mac it is equal to, and is empty when it is all zeros or damaged.       *)
(***************************************************************************)
EXTENDS Integers, Sequences, FiniteSets

CONSTANTS
  KeyIds,       \* key material: one value for each NewIKESAKey the endpoints agree on
  KeyShapes,    \* the sets of fields of an IKESAKey that are non-nil
  Headers,      \* SPIs, versions, exchange type, flags and message ID
  Plain,        \* lists of payloads with no Encrypted payload among them
  Types,        \* payload types, "NoNext" and "SK" among them
  FirstType,    \* the type of the first payload of a list
  Unencodable,  \* lists with a payload that Marshal or the 16-bit length refuses
  Large,        \* lists that encode, but whose Encrypted payload exceeds 0xFFFF
  Unmarshal,    \* what Decode returns for the encoding of a list (external: the payload codecs)
  Garbage,      \* payloads nobody built: the decoding of damaged or misread bytes
  Malformed,    \* the error result of Decode
  nil,
  MaxSeals,     \* bound: calls of Encrypt
  MaxNet        \* bound: distinct datagrams

Role == {"Initiator", "Responder"}
Fields == {"IntegInfo", "EncrInfo", "Integ_i", "Integ_r", "Encr_i", "Encr_r"}

ASSUME ConstantsAssumption ==
  /\ KeyShapes \subseteq SUBSET Fields
  /\ {"NoNext", "SK"} \subseteq Types
  /\ FirstType \in [Plain -> Types \ {"SK"}]
  /\ Unencodable \subseteq Plain /\ Large \subseteq Plain
  /\ Garbage \in Plain /\ FirstType[Garbage] # "NoNext"
  /\ Malformed \notin Plain
  /\ Unmarshal \in [Plain -> Plain \cup {Malformed}]
  /\ \A p \in Plain : FirstType[p] = "NoNext" => Unmarshal[p] = p
  /\ MaxSeals \in Nat /\ MaxNet \in Nat

IKESAKey == [id: KeyIds, has: KeyShapes]
Mac == [key: KeyIds, obj: {"Integ_i", "Integ_r"}, hdr: Headers, next: Types, ct: Nat]
Encrypted == [next: Types, ct: Nat, mac: SUBSET Mac]
Payloads == Plain \cup Encrypted                    \* an IKEPayloadContainer
IKEMessage == [hdr: Headers, payloads: Payloads]
Datagram == [hdr: Headers, np: Types, payloads: Payloads,
             intact: BOOLEAN]                       \* intact: as the sender encoded it
Encryption == [key: KeyIds, obj: {"Encr_i", "Encr_r"}, payloads: Payloads,
               by: Role, hdr: Headers, done: BOOLEAN] \* the call it was part of
Result == [by: Role, out: {"ok", "error", "panic"}, key: IKESAKey \cup {nil},
           rcvd: SUBSET Datagram, got: SUBSET Payloads]

ASSUME SentinelAssumption ==
  /\ nil \notin [id: KeyIds, has: SUBSET Fields] /\ nil \notin IKEMessage
  /\ Plain \cap Encrypted = {} /\ Malformed \notin Encrypted

VARIABLES
  key,          \* key[r]: the IKESAKey r passes to its calls, or nil
  msg,          \* msg[r]: the IKEMessage object r encodes, or nil
  enc,          \* the encryptions done so far
  net,          \* every datagram that was ever in flight
  ret,          \* what the last call returned: for DecodeDecrypt, with its arguments
  down          \* endpoints whose call panicked

vars == <<key, msg, enc, net, ret, down>>

TypeOK ==
  /\ key \in [Role -> IKESAKey \cup {nil}]
  /\ msg \in [Role -> IKEMessage \cup {nil}]
  /\ enc \in Seq(Encryption)
  /\ net \in SUBSET Datagram
  /\ ret \in Result
  /\ down \in SUBSET Role

Returned(r, o) == [by |-> r, out |-> o, key |-> nil, rcvd |-> {}, got |-> {}]

Init ==
  /\ key = [r \in Role |-> nil]
  /\ msg = [r \in Role |-> nil]
  /\ enc = <<>>
  /\ net = {}
  /\ ret = Returned("Initiator", "ok")
  /\ down = {}

------------------------------------------------------------------------------
(* Key selection.  Role is a bool in the code, so !role is the peer's.       *)

Other(r) == IF r = "Initiator" THEN "Responder" ELSE "Initiator"
IntegKey(r) == IF r = "Initiator" THEN "Integ_i" ELSE "Integ_r"
EncrKey(r) == IF r = "Initiator" THEN "Encr_i" ELSE "Encr_r"
DecrKey(r) == IF r = "Initiator" THEN "Encr_r" ELSE "Encr_i"

encryptChecks == {"IntegInfo", "EncrInfo", "Integ_r", "Encr_r"}
decryptChecks == {"IntegInfo", "EncrInfo", "Integ_i", "Encr_i"}

calculateIntegrity_NoHeader(k, r, h, next, ct) ==
  [key |-> k.id, obj |-> IntegKey(r), hdr |-> CHOOSE g \in Headers : TRUE, next |-> next, ct |-> ct]
calculateIntegrity(k, r, h, next, ct) ==
  [key |-> k.id, obj |-> IntegKey(r), hdr |-> h, next |-> next, ct |-> ct]

------------------------------------------------------------------------------
(* The payload container.                                                    *)

Type(p) == IF p \in Plain THEN FirstType[p] ELSE "SK"
Empty(p) == Type(p) = "NoNext"

\* IKEPayloadContainer.Encode succeeds.
Encodes(p) == IF p \in Plain THEN p \notin Unencodable
                             ELSE enc[p.ct].payloads \notin Large

\* The possible results of IKEPayloadContainer.Decode on the encoding of p when
\* the type of the first payload is taken to be t.
Decode(t, p) ==
  IF Empty(p) THEN {p}
  ELSE IF t # Type(p) \/ p = Garbage THEN {Malformed, Garbage}
  ELSE IF p \in Plain THEN {Unmarshal[p]} ELSE {p}

DecodePayload(d) ==
  IF d.np # "NoNext" /\ Empty(d.payloads) THEN {Malformed} ELSE Decode(d.np, d.payloads)

\* IKEMessage.Encode: the header's NextPayload is the type of the first payload.
Encode(m) == [hdr |-> m.hdr, np |-> Type(m.payloads), payloads |-> m.payloads, intact |-> TRUE]

------------------------------------------------------------------------------
(* The callers.                                                              *)

Running(r) == r \notin down

Return(res) == /\ ret' = res
               /\ down' = IF res.out = "panic" THEN down \cup {res.by} ELSE down

NewMessage(r) == \E h \in Headers, p \in Plain \ {Garbage} :
  /\ Running(r)
  /\ msg' = [msg EXCEPT ![r] = [hdr |-> h, payloads |-> p]]
  /\ UNCHANGED <<key, enc, net, ret, down>>

\* The caller may reuse a message object under another header (a new MessageID).
SetHeader(r) == \E h \in Headers :
  /\ Running(r) /\ msg[r] # nil
  /\ msg' = [msg EXCEPT ![r].hdr = h]
  /\ UNCHANGED <<key, enc, net, ret, down>>

\* The caller obtained an IKESAKey, complete or not; a second one is a rekey.
SetKey(r) == \E k \in IKESAKey :
  /\ Running(r)
  /\ key' = [key EXCEPT ![r] = k]
  /\ UNCHANGED <<msg, enc, net, ret, down>>

------------------------------------------------------------------------------
(* EncodeEncrypt.                                                            *)

Transmit(m) == net' = net \cup {Encode(m)}

\* ikesaKey is nil: the message is encoded as it stands.
EncodeClear(r) ==
  /\ Running(r) /\ msg[r] # nil /\ Cardinality(net) < MaxNet
  /\ IF Encodes(msg[r].payloads)
     THEN Transmit(msg[r]) /\ Return(Returned(r, "ok"))
     ELSE UNCHANGED net /\ Return(Returned(r, "error"))
  /\ UNCHANGED <<key, msg, enc>>

\* encryptMsg returns before it touches the message.
EncryptRefused(r) ==
  /\ Running(r) /\ msg[r] # nil /\ key[r] # nil
  /\ ~ (encryptChecks \subseteq key[r].has /\ Encodes(msg[r].payloads))
  /\ Return(Returned(r, "error"))
  /\ UNCHANGED <<key, msg, enc, net>>

EncryptReady(r) ==
  /\ Running(r) /\ msg[r] # nil /\ key[r] # nil
  /\ encryptChecks \subseteq key[r].has
  /\ Encodes(msg[r].payloads)

\* encryptPayload calls a method of a nil IKECrypto.
EncryptPanics(r) ==
  /\ EncryptReady(r)
  /\ EncrKey(r) \notin key[r].has
  /\ Return(Returned(r, "panic"))
  /\ UNCHANGED <<key, msg, enc, net>>

\* The Encrypted payload is short enough, and calculateIntegrity has its object.
CanFinish(r) == msg[r].payloads \notin Large /\ IntegKey(r) \in key[r].has

encryptPayload(r) ==
  /\ EncryptReady(r)
  /\ EncrKey(r) \in key[r].has
  /\ Len(enc) < MaxSeals
  /\ enc' = Append(enc, [key |-> key[r].id, obj |-> EncrKey(r), payloads |-> msg[r].payloads,
                         by |-> r, hdr |-> msg[r].hdr, done |-> CanFinish(r)])

\* The payloads are already replaced when the Encrypted payload turns out too
\* long, or the caller's own integrity object is nil: the checksum stays zero.
EncryptHalfDone(r) ==
  /\ encryptPayload(r)
  /\ ~ CanFinish(r)
  /\ msg' = [msg EXCEPT ![r].payloads =
               [next |-> Type(msg[r].payloads), ct |-> Len(enc) + 1, mac |-> {}]]
  /\ Return(Returned(r, "error"))
  /\ UNCHANGED <<key, net>>

\* The Encrypted payload with its checksum, as the ct-th encryption.
SealedPayload_NoNext(r, ct) ==
  [next |-> "NoNext", ct |-> ct,
   mac |-> {calculateIntegrity(key[r], r, msg[r].hdr, "NoNext", ct)}]
SealedPayload(r, ct) ==
  LET next == Type(msg[r].payloads)
  IN  [next |-> next, ct |-> ct,
       mac |-> {calculateIntegrity(key[r], r, msg[r].hdr, next, ct)}]

EncryptSeals(r) ==
  /\ encryptPayload(r)
  /\ CanFinish(r)
  /\ Cardinality(net) < MaxNet
  /\ msg' = [msg EXCEPT ![r].payloads = SealedPayload(r, Len(enc) + 1)]
  /\ Transmit(msg'[r])
  /\ Return(Returned(r, "ok"))
  /\ UNCHANGED key

EncodeEncrypt(r) == \/ EncodeClear(r) \/ EncryptRefused(r) \/ EncryptPanics(r)
                    \/ EncryptHalfDone(r) \/ EncryptSeals(r)

------------------------------------------------------------------------------
(* DecodeDecrypt.                                                            *)

Decoded(r, d, o, got) == Return([by |-> r, out |-> o, key |-> key[r], rcvd |-> {d}, got |-> got])

\* The container is empty or does not start with an Encrypted payload.
DecodeClear_NoError(r, d) ==
  /\ d.np # "SK" \/ Empty(d.payloads)
  /\ \E p \in DecodePayload(d) : Decoded(r, d, "ok", {p})
DecodeClear(r, d) ==
  /\ d.np # "SK" \/ Empty(d.payloads)
  /\ \E p \in DecodePayload(d) :
       IF p = Malformed THEN Decoded(r, d, "error", {}) ELSE Decoded(r, d, "ok", {p})

DecryptChecked(r) == key[r] # nil /\ decryptChecks \subseteq key[r].has

\* Other payloads read as an Encrypted one: no checksum matches, and one shorter
\* than a checksum is sliced out of range.
DecryptMisread(r, d) ==
  /\ d.np = "SK" /\ d.payloads \in Plain /\ ~ Empty(d.payloads)
  /\ \E o \in (IF DecryptChecked(r) THEN {"error", "panic"} ELSE {"error"}) :
       Decoded(r, d, o, {})

verifyIntegrity_OwnRole(r, d) ==
  /\ IntegKey(r) \in key[r].has
  /\ d.payloads.mac = {calculateIntegrity(key[r], r, d.hdr, d.payloads.next, d.payloads.ct)}
verifyIntegrity(r, d) ==
  /\ IntegKey(Other(r)) \in key[r].has
  /\ d.payloads.mac = {calculateIntegrity(key[r], Other(r), d.hdr, d.payloads.next, d.payloads.ct)}

DecryptRefused(r, d) ==
  /\ d.np = "SK" /\ d.payloads \notin Plain
  /\ ~ (DecryptChecked(r) /\ verifyIntegrity(r, d))
  /\ Decoded(r, d, "error", {})

\* decryptPayload, and the decoding of the plaintext it returns.
decryptPayload(r, sk) ==
  IF /\ sk.ct \in 1 .. Len(enc)
     /\ enc[sk.ct].key = key[r].id /\ enc[sk.ct].obj = DecrKey(r)
  THEN Decode(sk.next, enc[sk.ct].payloads)
  ELSE {Malformed, Garbage}

DecryptVerified(r, d) ==
  /\ d.np = "SK" /\ d.payloads \notin Plain
  /\ DecryptChecked(r) /\ verifyIntegrity(r, d)
  /\ IF DecrKey(r) \notin key[r].has
     THEN Decoded(r, d, "panic", {})
     ELSE \E p \in decryptPayload(r, d.payloads) :
            IF p = Malformed THEN Decoded(r, d, "error", {}) ELSE Decoded(r, d, "ok", {p})

DecodeDecrypt(r, d) ==
  /\ Running(r)
  /\ \/ DecodeClear(r, d) \/ DecryptMisread(r, d) \/ DecryptRefused(r, d) \/ DecryptVerified(r, d)
  /\ UNCHANGED <<key, msg, enc, net>>

------------------------------------------------------------------------------
(* UDP: datagrams stay in net, so each may arrive at either endpoint any      *)
(* number of times, in any order, or never; and bits may flip on the way.     *)

Damaged(d) ==
  {[d EXCEPT !.hdr = h] : h \in Headers} \cup {[d EXCEPT !.np = t] : t \in Types}
  \cup IF Empty(d.payloads) THEN {}
       ELSE IF d.payloads \in Plain THEN {[d EXCEPT !.payloads = Garbage]}
       ELSE {[d EXCEPT !.payloads.next = t] : t \in Types}
            \cup {[d EXCEPT !.payloads.ct = 0], [d EXCEPT !.payloads.mac = {}]}

Damage(d) ==
  /\ Cardinality(net) < MaxNet
  /\ \E e \in Damaged(d) : net' = net \cup {[e EXCEPT !.intact = FALSE]}
  /\ UNCHANGED <<key, msg, enc, ret, down>>

Next == \/ \E r \in Role : \/ NewMessage(r) \/ SetHeader(r) \/ SetKey(r) \/ EncodeEncrypt(r)
                           \/ \E d \in net : DecodeDecrypt(r, d)
        \/ \E d \in net : Damage(d)

Spec == Init /\ [][Next]_vars

------------------------------------------------------------------------------
(* Properties.                                                               *)

\* What the peer's decoder makes of payloads that travelled unharmed.
Received(p) == IF p \in Plain THEN Unmarshal[p] ELSE p

\* Whenever DecodeDecrypt returns, without error, a message whose header says
\* Encrypted, the peer's EncodeEncrypt sealed that very message and returned
\* without error: same SA, same header, and the payloads are the ones it sealed.
\* So a damaged, reflected or stale message is never returned, nor one left
\* half sealed by a failed call (ike.go:206 verifies with !role; ike.go:286).
Authenticity ==
  \A d \in ret.rcvd :
    ret.out = "ok" /\ d.np = "SK" =>
      \E i \in 1 .. Len(enc) :
        /\ enc[i].done /\ enc[i].by = Other(ret.by)
        /\ enc[i].key = ret.key.id /\ enc[i].hdr = d.hdr
        /\ ret.got = {Received(enc[i].payloads)}

\* DecodeDecrypt never refuses what the peer sealed: given the complete key of
\* the same SA, an undamaged datagram under the header it was sealed with yields
\* the payloads of the sealing call, however often it or its message object was
\* sent, and however many Encrypted payloads it is wrapped in.
RoundTrip ==
  \A d \in ret.rcvd : \A i \in 1 .. Len(enc) :
    /\ d.intact /\ d.np = "SK" /\ d.payloads.ct = i
    /\ enc[i].done /\ enc[i].by = Other(ret.by) /\ enc[i].hdr = d.hdr
    /\ ret.key = [id |-> enc[i].key, has |-> Fields]
    => IF Received(enc[i].payloads) = Malformed
       THEN ret.out = "error"
       ELSE ret.out = "ok" /\ ret.got = {Received(enc[i].payloads)}

\* "Check if the context contain needed data" (ike.go:175 and ike.go:242): a call
\* with an incomplete IKESAKey returns an error, it does not use a nil object.
NeededDataChecked == ret.out = "panic" => \E d \in ret.rcvd : ~ d.intact

------------------------------------------------------------------------------
(* The refinement mapping to SecureChannel.                                  *)

sealedBar == [r \in Role |->
  {[to |-> Other(r), sa |-> enc[i].key, hdr |-> enc[i].hdr, payloads |-> Received(enc[i].payloads)] :
     i \in {j \in 1 .. Len(enc) : enc[j].by = r /\ enc[j].done}}]

deliveredBar ==
  {[to |-> ret.by, sa |-> ret.key.id, hdr |-> d.hdr, payloads |-> p] :
     d \in {e \in ret.rcvd : ret.out = "ok" /\ e.np = "SK"}, p \in ret.got}

Abstract == INSTANCE SecureChannel WITH sealed <- sealedBar, delivered <- deliveredBar

\* EncodeEncrypt and DecodeDecrypt over an unreliable network implement the
\* secure channel: every step is a Seal, a Deliver or neither.
ImplementsSecureChannel == Abstract!Spec
==============================================================================

------------------------------ MODULE EapPacket ------------------------------
(***************************************************************************)
(* EAP packets (src/eap/eap.go) with the methods Identity, Notification,   *)
(* Nak, MD5-Challenge and Expanded: Marshal by the sender, an unreliable   *)
(* way, and Unmarshal into an EAP object that its owner may use again for  *)
(* the next packet.  The type data of EAP-AKA' are module EapAkaPrime's;   *)
(* here they are octets that Unmarshal takes or refuses.                   *)
(***************************************************************************)
EXTENDS Octets

CONSTANTS
  EapTypeAkaPrime, EapTypeExpanded,  \* 50 and 254
  EapMD5ChallengeSize,               \* 16
  Packets,                           \* the packets that senders marshal
  MaxPackets                         \* bound on the packets of a behaviour

EapCodeRequest == 1
EapCodeResponse == 2
EapTypeIdentity == 1
EapTypeNotification == 2
EapTypeNak == 3
EapTypeMD5 == 4

\* The three methods that consist of a type octet and data.
DataTypes == {EapTypeIdentity, EapTypeNotification, EapTypeNak}

EapMD5HeaderLen == 2
EapMD5MinLen == 3

\* EapTypeData: nil, or one of the method types.
NoData == [type |-> 0]
EapData(t, d) == [type |-> t, data |-> d]
EapMD5(size, value, name) ==
  [type |-> EapTypeMD5, valueSize |-> size, value |-> value, name |-> name]
EapExpanded(id, type, data) ==
  [type |-> EapTypeExpanded, vendorID |-> id, vendorType |-> type, vendorData |-> data]

EAP(code, id, data) == [code |-> code, identifier |-> id, typeData |-> data]

\* The packets that can be sent, those of EAP-AKA' excepted.
TypeData ==
  {NoData} \cup [type: DataTypes, data: Seq(Octets)]
  \cup [type: {EapTypeMD5}, valueSize: Octets, value: Seq(Octets), name: Seq(Octets)]
  \cup [type: {EapTypeExpanded}, vendorID: 0 .. Word * Word - 1, vendorType: 0 .. Word * Word - 1,
        vendorData: Seq(Octets)]

ASSUME EapAssumption ==
  /\ Octet \in Nat
  /\ {EapTypeAkaPrime, EapTypeExpanded, EapMD5ChallengeSize} \subseteq Octets
  /\ {EapTypeAkaPrime, EapTypeExpanded} \cap (0 .. EapTypeMD5) = {}
  /\ EapTypeAkaPrime # EapTypeExpanded
  /\ EapMD5ChallengeSize > 0
  /\ Packets \subseteq [code: Octets, identifier: Octets, typeData: TypeData]
  /\ MaxPackets \in Nat

VARIABLES
  packet,   \* the packet that is under way
  b,        \* its octets
  intact,   \* whether they are as sent
  eap,      \* the receiver's EAP object
  reads,    \* number of calls of Unmarshal on that object
  header,   \* history: the last header that Unmarshal took over
  taken,    \* history: the last type data that Unmarshal took over, <<>> if none
  sent,     \* number of packets so far
  pc        \* "idle", "wire", "unmarshal", or the result of Unmarshal: "ok", "error"

vars == <<packet, b, intact, eap, reads, header, taken, sent, pc>>

\* new(EAP).
NewEAP == EAP(0, 0, NoData)

Init ==
  /\ packet = NewEAP /\ b = <<>> /\ intact = TRUE
  /\ eap = NewEAP /\ reads = 0 /\ header = <<0, 0>> /\ taken = <<>>
  /\ sent = 0 /\ pc = "idle"

------------------------------------------------------------------------------
(* Marshal.                                                                  *)

MarshalMD5(d) == <<EapTypeMD5, d.valueSize>> \o d.value \o d.name

\* The type octet and three octets of vendor ID are written as one integer; & 0x00ffffff.
Masked(id) == id % (Octet * Word)
MarshalExpanded_Unmasked(d) ==
  PutUint32(EapTypeExpanded * (Octet * Word) + d.vendorID) \o PutUint32(d.vendorType) \o d.vendorData
MarshalExpanded(d) ==
  PutUint32(EapTypeExpanded * (Octet * Word) + Masked(d.vendorID))
  \o PutUint32(d.vendorType) \o d.vendorData

MarshalTypeData(d) ==
  CASE d.type = 0 -> <<>>
    [] d.type = EapTypeMD5 -> MarshalMD5(d)
    [] d.type = EapTypeExpanded -> MarshalExpanded(d)
    [] OTHER -> <<d.type>> \o d.data

TypeDataFails(d) ==
  \/ d.type \in DataTypes /\ d.data = <<>>
  \/ d.type = EapTypeMD5 /\ (d.valueSize # EapMD5ChallengeSize \/ Len(d.value) # EapMD5ChallengeSize)

PacketLength(p) == 4 + Len(MarshalTypeData(p.typeData))
MarshalFails(p) == TypeDataFails(p.typeData) \/ PacketLength(p) > Max16

Marshal(p) ==
  <<p.code, p.identifier>> \o PutUint16(PacketLength(p)) \o MarshalTypeData(p.typeData)

Send ==
  /\ pc \in {"idle", "ok", "error"} /\ sent < MaxPackets
  /\ \E p \in Packets :
       /\ packet' = p
       /\ IF MarshalFails(p) THEN pc' = "idle" /\ UNCHANGED b ELSE b' = Marshal(p) /\ pc' = "wire"
  /\ sent' = sent + 1
  /\ UNCHANGED <<intact, eap, reads, header, taken>>

------------------------------------------------------------------------------
(* The packet arrives as sent, without its end, or with one octet changed.   *)

Receive(octets) ==
  /\ pc = "wire"
  /\ b' = octets /\ intact' = (octets = b) /\ pc' = "unmarshal"
  /\ UNCHANGED <<packet, eap, reads, header, taken, sent>>

Intact == Receive(b)
Truncated == \E n \in 0 .. Len(b) - 1 : Receive(Slice(b, 0, n))
Changed == \E i \in 1 .. Len(b), o \in Octets : Receive([b EXCEPT ![i] = o])

\* The owner of the object replaces it, as NewPayloadEap does for every payload.
Renew ==
  /\ pc = "unmarshal" /\ reads > 0
  /\ eap' = NewEAP /\ reads' = 0 /\ header' = <<0, 0>> /\ taken' = <<>>
  /\ UNCHANGED <<packet, b, intact, sent, pc>>

------------------------------------------------------------------------------
(* Unmarshal.                                                                *)

\* The methods of EapTypeData: what Unmarshal refuses and what it makes of b[4:].
MD5Refused(d) ==
  \/ Len(d) < EapMD5MinLen
  \/ d[2] # EapMD5ChallengeSize
  \/ Len(d) < EapMD5HeaderLen + d[2]

UnmarshalMD5(d) ==
  LET end == EapMD5HeaderLen + EapMD5ChallengeSize
  IN  EapMD5(d[2], Slice(d, EapMD5HeaderLen, end), From(d, end))

UnmarshalExpanded(d) == EapExpanded(Masked(Uint32(d, 0)), Uint32(d, 4), From(d, 8))

TypeDataRefused(d) ==
  \/ d[1] \notin {EapTypeMD5, EapTypeAkaPrime, EapTypeExpanded} \cup DataTypes
  \/ d[1] = EapTypeMD5 /\ MD5Refused(d)
  \/ d[1] = EapTypeExpanded /\ Len(d) < 8

UnmarshalTypeData(d) ==
  CASE d[1] = EapTypeMD5 -> UnmarshalMD5(d)
    [] d[1] = EapTypeExpanded -> UnmarshalExpanded(d)
    [] OTHER -> EapData(d[1], From(d, 1))

\* The three length checks before the object is touched.
PacketRefused_Longer == Len(b) < 4 \/ Uint16(b, 2) < 4 \/ Len(b) < Uint16(b, 2)
PacketRefused == Len(b) < 4 \/ Uint16(b, 2) < 4 \/ Len(b) # Uint16(b, 2)

TooShort == b[1] \in {EapCodeRequest, EapCodeResponse} /\ Uint16(b, 2) < 5

\* What EAP-AKA' refuses is left open here.
MethodRefuses(d) == IF d[1] = EapTypeAkaPrime THEN BOOLEAN ELSE {TypeDataRefused(d)}

\* No type data: the object keeps those it has.
UnmarshalHeaderOnly ==
  /\ Uint16(b, 2) = 4 /\ pc' = IF TooShort THEN "error" ELSE "ok"
  /\ eap' = EAP(b[1], b[2], eap.typeData)
  /\ UNCHANGED taken

UnmarshalMethod_Early ==
  /\ Uint16(b, 2) > 4
  /\ \E refused \in MethodRefuses(From(b, 4)) :
       IF refused
       THEN /\ eap' = EAP(b[1], b[2], IF b[5] = EapTypeMD5 THEN EapMD5(0, <<>>, <<>>) ELSE eap.typeData)
            /\ pc' = "error" /\ UNCHANGED taken
       ELSE /\ eap' = EAP(b[1], b[2], UnmarshalTypeData(From(b, 4)))
            /\ pc' = "ok" /\ taken' = From(b, 4)
UnmarshalMethod ==
  /\ Uint16(b, 2) > 4
  /\ \E refused \in MethodRefuses(From(b, 4)) :
       IF refused
       THEN /\ eap' = EAP(b[1], b[2], eap.typeData)
            /\ pc' = "error" /\ UNCHANGED taken
       ELSE /\ eap' = EAP(b[1], b[2], UnmarshalTypeData(From(b, 4)))
            /\ pc' = "ok" /\ taken' = From(b, 4)

Unmarshal ==
  /\ pc = "unmarshal"
  /\ IF b = <<>> THEN pc' = "ok" /\ UNCHANGED <<eap, header, taken>>
     ELSE IF PacketRefused THEN pc' = "error" /\ UNCHANGED <<eap, header, taken>>
     ELSE header' = Slice(b, 0, 2) /\ (UnmarshalHeaderOnly \/ UnmarshalMethod)
  /\ reads' = reads + 1
  /\ UNCHANGED <<packet, b, intact, sent>>

Next == Send \/ Intact \/ Truncated \/ Changed \/ Renew \/ Unmarshal

Spec == Init /\ [][Next]_vars

------------------------------------------------------------------------------
(* Properties.                                                               *)

\* What an object says that read the packet as it was sent: the vendor ID of an
\* expanded type lost what three octets do not hold.
AsSent(p) ==
  IF p.typeData.type = EapTypeExpanded
  THEN [p EXCEPT !.typeData.vendorID = Masked(@)]
  ELSE p

\* A packet that Marshal accepts and that arrives as it was sent reads, in a new
\* object, to the same code, identifier and type data.  One kind is refused: a
\* Request or a Response without type data (eap.go:109, 145).
EapRoundTrip ==
  pc \in {"ok", "error"} /\ intact /\ reads = 1 =>
    IF packet.typeData = NoData /\ packet.code \in {EapCodeRequest, EapCodeResponse}
    THEN pc = "error"
    ELSE pc = "ok" /\ eap = AsSent(packet)

\* Whatever octets Unmarshal accepts in a new object, Marshal of that object gives
\* them back, every octet: no accepted packet has octets that the object does not
\* account for.  The one exception is an Identity, Notification or Nak of a type
\* octet alone, which Unmarshal accepts and Marshal refuses
\* (eap.go:137, eap_identity.go:14, 24, eap_md5.go:64, 74).
AcceptedIsAccounted ==
  pc = "ok" /\ reads = 1 /\ b # <<>> /\ eap.typeData.type # EapTypeAkaPrime =>
    IF MarshalFails(eap)
    THEN Len(b) = 5 /\ eap.typeData.type \in DataTypes
    ELSE Marshal(eap) = b

\* An object that reads one packet after the other, good and bad ones in any order,
\* has the code and the identifier of the last packet of the right length, and as a
\* whole the type data of the last packet whose type data were accepted, never a
\* part of those of a refused packet (eap.go:141, 150, 174, 178).
KeepsLastAccepted ==
  /\ <<eap.code, eap.identifier>> = header
  /\ MarshalTypeData(eap.typeData) = taken
==============================================================================

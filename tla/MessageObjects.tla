---------------------------- MODULE MessageObjects ----------------------------
(***************************************************************************)
(* Who owns what while messages are put together (src/message/build.go,    *)
(* NewMessage, and the part of EncodeEncrypt that replaces the payloads of *)
(* a message).  A container is a Go slice of pointers: a message made from *)
(* it shares its array, and a later append writes into that array if there *)
(* is capacity left.  Payload fields are slices too, and the caller goes   *)
(* on using the buffer it passed to a builder.                             *)
(***************************************************************************)
EXTENDS Octets

CONSTANTS
  Data,         \* contents of the caller's buffer
  MaxObjects,   \* bound: payload objects built
  MaxMessages,  \* bound: messages made
  MaxParts,     \* bound: parts of one payload
  Spare,        \* bound: capacity that append adds beyond what it needs
  Codes,        \* codes of EAP packets
  Addresses,    \* strings given as addresses: "", "IPv4" and "other"
  QFIs,         \* lists of QoS flow identifiers given to BuildNotify5G_QOS_INFO
  NASPDUs       \* messages given to BuildEAP5GNAS

\* The form of a transform's attribute: "empty" is one that Marshal refuses.
Forms == {"none", "TV", "TLV", "empty"}
Part == [data: Data, form: Forms]

Objects == [kind: {"data", "list", "TS", "EAP", "delete", "SK", "QoS", "NAS"},
            parts: Seq(Part), octets: Seq(Octets), shared: BOOLEAN]
Slice0 == [array |-> 0, len |-> 0]      \* the nil slice

ASSUME ObjectAssumption ==
  /\ Octet \in Nat /\ Octet > 4
  /\ MaxObjects \in Nat /\ MaxMessages \in Nat /\ MaxParts \in Nat /\ Spare \in Nat
  /\ Codes \subseteq 1 .. 4 /\ QFIs \subseteq Seq(Octets) /\ NASPDUs \subseteq Seq(Octets)

VARIABLES
  buffer,       \* the content of the caller's buffer
  objects,      \* the payload objects on the heap
  arrays,       \* the arrays of containers: sequences of object numbers, 0 = nil
  container,    \* the caller's IKEPayloadContainer, a slice [array, len]
  messages,     \* the messages' Payloads, slices too
  given,        \* ghost: what the builders were given for each object
  built, made   \* ghost: the objects put into the container and into each message

vars == <<buffer, objects, arrays, container, messages, given, built, made>>

Slices == [array: 0 .. Len(arrays), len: Nat]

TypeOK ==
  /\ buffer \in Data
  /\ objects \in Seq(Objects) /\ Len(given) = Len(objects)
  /\ \A a \in 1 .. Len(arrays) : arrays[a] \in Seq(0 .. Len(objects))
  /\ container \in Slices /\ messages \in Seq(Slices)
  /\ \A s \in {container} \cup {messages[m] : m \in 1 .. Len(messages)} :
       s.len > 0 => s.len <= Len(arrays[s.array])
  /\ built \in Seq(1 .. Len(objects)) /\ made \in Seq(Seq(1 .. Len(objects)))

Init ==
  /\ buffer \in Data
  /\ objects = <<>> /\ arrays = <<>> /\ container = Slice0 /\ messages = <<>>
  /\ given = <<>> /\ built = <<>> /\ made = <<>>

\* What a slice of object numbers reads as, and what an object holds.
Elements(s) == IF s.len = 0 THEN <<>> ELSE SubSeq(arrays[s.array], 1, s.len)
Holds(o) == IF o.shared THEN <<[data |-> buffer, form |-> "none"]>> ELSE o.parts

------------------------------------------------------------------------------
(* append, NewMessage and Reset.                                             *)

\* The outcomes of append(s, o): in place if the capacity allows it, else in a
\* new array.
Appended(s, o) ==
  IF s.array # 0 /\ s.len < Len(arrays[s.array])
  THEN {[slice |-> [s EXCEPT !.len = @ + 1], arrays |-> [arrays EXCEPT ![s.array][s.len + 1] = o]]}
  ELSE {[slice |-> [array |-> Len(arrays) + 1, len |-> s.len + 1],
         arrays |-> Append(arrays, Elements(s) \o <<o>> \o Zeros(n))] : n \in 0 .. Spare}

Reset_KeepsArray(s) == [s EXCEPT !.len = 0]
Reset(s) == Slice0

\* container.Reset().
ResetContainer ==
  /\ container # Slice0
  /\ container' = Reset(container) /\ built' = <<>>
  /\ UNCHANGED <<buffer, objects, arrays, messages, given, made>>

NewMessage ==
  /\ Len(messages) < MaxMessages
  /\ messages' = Append(messages, container) /\ made' = Append(made, built)
  /\ UNCHANGED <<buffer, objects, arrays, container, given, built>>

\* The caller writes something else into its buffer.
ReuseBuffer ==
  /\ buffer' \in Data \ {buffer}
  /\ UNCHANGED <<objects, arrays, container, messages, given, built, made>>

------------------------------------------------------------------------------
(* Builders.                                                                 *)

Put(object, gift) ==
  /\ Len(objects) < MaxObjects
  /\ objects' = Append(objects, object) /\ given' = Append(given, gift)
  /\ \E r \in Appended(container, Len(objects) + 1) : container' = r.slice /\ arrays' = r.arrays
  /\ built' = Append(built, Len(objects) + 1)
  /\ UNCHANGED <<buffer, messages, made>>

Plain == [data |-> buffer, form |-> "none"]
New(kind, parts, octets) == [kind |-> kind, parts |-> parts, octets |-> octets, shared |-> FALSE]

\* BuildNotification, BuildCertificate, BuildKeyExchange, BuildIdentification...,
\* BuildAuthentication, BuildNonce: append(nil, data...) copies the data.
BuildPayload_Shares == Put([New("data", <<>>, <<>>) EXCEPT !.shared = TRUE], <<Plain>>)
BuildPayload == Put(New("data", <<Plain>>, <<>>), <<Plain>>)

\* BuildConfiguration, BuildSecurityAssociation ("list"), BuildTrafficSelector...
\* ("TS"): an empty payload that is in the container before it is filled.
BuildList == \E kind \in {"list", "TS"} : Put(New(kind, <<>>, <<>>), <<>>)

\* BuildDeletePayload keeps the caller's slice.
BuildDeletePayload == Put([New("delete", <<>>, <<>>) EXCEPT !.shared = TRUE], <<Plain>>)

\* BuildEAP, BuildEAPSuccess, BuildEAPfailure.
BuildEAP == \E code \in Codes : Put(New("EAP", <<>>, <<code>>), <<>>)

\* BuildConfigurationAttribute, BuildIndividualTrafficSelector, BuildProposal: add
\* a copy to the payload o, whose pointer the caller got from BuildList.
AddPart(o, part) ==
  /\ Len(objects[o].parts) < MaxParts
  /\ objects' = [objects EXCEPT ![o].parts = Append(@, part)]
  /\ given' = [given EXCEPT ![o] = Append(@, part)]
  /\ UNCHANGED <<buffer, arrays, container, messages, built, made>>
BuildPart(o) == objects[o].kind \in {"list", "TS"} /\ AddPart(o, Plain)

\* BuildTransform: an attribute type without a value adds nothing.
Form(type, value, variable) ==
  IF ~ type THEN "none" ELSE IF value THEN "TV" ELSE IF variable THEN "TLV" ELSE "empty"
BuildTransform_Incomplete(o) ==
  /\ objects[o].kind = "list"
  /\ \E type, value, variable \in BOOLEAN : AddPart(o, [data |-> buffer, form |-> Form(type, value, variable)])
BuildTransform(o) ==
  /\ objects[o].kind = "list"
  /\ \E type, value, variable \in BOOLEAN :
       /\ Form(type, value, variable) # "empty"
       /\ AddPart(o, [data |-> buffer, form |-> Form(type, value, variable)])

\* Reset of the container inside a payload.
ResetParts(o) ==
  /\ objects[o].parts # <<>> /\ objects[o].kind \in {"list", "TS"}
  /\ objects' = [objects EXCEPT ![o].parts = <<>>] /\ given' = [given EXCEPT ![o] = <<>>]
  /\ UNCHANGED <<buffer, arrays, container, messages, built, made>>

------------------------------------------------------------------------------
(* The builders of 3GPP payloads.                                            *)

\* BuildNotify5G_QOS_INFO.  The first octet is the length of all.
DSCPs == {<<>>, <<3>>}   \* none, or one
DSCPI == 1
DCSI == 2
QoSInfo(session, qfis, isDefault, dscp) ==
  LET tail == <<(IF isDefault THEN DCSI ELSE 0) + (IF dscp = <<>> THEN 0 ELSE DSCPI)>> \o dscp
  IN  <<(3 + Len(qfis) + Len(tail)) % Octet, session, Len(qfis) % Octet>> \o qfis \o tail
QoSInfoTooLong_List(data, qfis) == Len(qfis) > Max8
QoSInfoTooLong(data, qfis) == Len(qfis) > Max8 \/ Len(data) > Max8

BuildNotify5G_QOS_INFO ==
  \E session \in {1}, qfis \in QFIs, isDefault \in BOOLEAN, dscp \in DSCPs :
    LET data == QoSInfo(session, qfis, isDefault, dscp)
    IN  /\ ~ QoSInfoTooLong(data, qfis)
        /\ Put(New("QoS", <<>>, data), <<session, qfis, isDefault, dscp>>)

\* BuildNotifyNAS_IP4_ADDRESS, ...UP_IP4_ADDRESS, ...NAS_TCP_PORT: nothing for an
\* empty string or port 0, no data for a string that is not an IPv4 address.
BuildNotifyAddress ==
  \E address \in Addresses :
    /\ address # ""
    /\ LET data == IF address = "IPv4" THEN <<Plain>> ELSE <<>>
       IN  Put(New("data", data, <<>>), data)

\* BuildEAP5GStart and BuildEAP5GNAS: the vendor data of an expanded type.
EapCodeRequest == 1
EAP5GType5GStart == 1
EAP5GType5GNAS == 2
BuildEAP5GStart ==
  /\ EapCodeRequest \in Codes
  /\ Put(New("EAP", <<>>, <<EapCodeRequest, EAP5GType5GStart, 0>>), <<>>)
BuildEAP5GNAS ==
  \E nas \in NASPDUs :
    /\ Len(nas) \in 1 .. Max16
    /\ Put(New("NAS", <<>>, <<EAP5GType5GNAS, 0>> \o PutUint16(Len(nas)) \o nas), <<nas>>)

------------------------------------------------------------------------------
(* encryptMsg as seen from outside.                                          *)

\* Marshal of a traffic selector payload without selectors, or of a transform with
\* an attribute without a value, fails.
Encodes(o) ==
  /\ o.kind = "TS" => o.parts # <<>>
  /\ \A i \in 1 .. Len(o.parts) : o.parts[i].form # "empty"

EncodeEncrypt(m) ==
  LET all == Elements(messages[m])
  IN  /\ Len(objects) < MaxObjects
      /\ \A i \in 1 .. Len(all) : Encodes(objects[all[i]])
      /\ objects' = Append(objects, New("SK", <<>>, <<>>)) /\ given' = Append(given, <<>>)
      /\ \E r \in Appended(Reset(messages[m]), Len(objects) + 1) :
           messages' = [messages EXCEPT ![m] = r.slice] /\ arrays' = r.arrays
      /\ made' = [made EXCEPT ![m] = <<Len(objects) + 1>>]
      /\ UNCHANGED <<buffer, container, built>>

Next ==
  \/ ResetContainer \/ NewMessage \/ ReuseBuffer
  \/ BuildPayload \/ BuildList \/ BuildDeletePayload \/ BuildEAP
  \/ BuildNotify5G_QOS_INFO \/ BuildNotifyAddress \/ BuildEAP5GStart \/ BuildEAP5GNAS
  \/ \E o \in 1 .. Len(objects) : BuildPart(o) \/ BuildTransform(o) \/ ResetParts(o)
  \/ \E m \in 1 .. Len(messages) : EncodeEncrypt(m)

Spec == Init /\ [][Next]_vars

------------------------------------------------------------------------------
(* Properties.                                                               *)

\* The caller's container and every message list exactly the payloads that were
\* put into them: building further payloads, resetting the container or replacing
\* the payloads of a message by an Encrypted payload changes no other list, in
\* spite of the arrays they share (build.go:13, ike.go:272).
ListsKept ==
  /\ Elements(container) = built
  /\ \A m \in 1 .. Len(messages) : Elements(messages[m]) = made[m]

\* A payload holds what its builder was given, whatever the caller does with its
\* buffer later (build.go:25, 33, 42, 50, 57, 64, 71, 92, 98, 131, 150, 188).  Only
\* BuildDeletePayload keeps the caller's slice (build.go:162).
ContentKept ==
  \A o \in 1 .. Len(objects) : objects[o].kind \in {"data", "list", "TS"} => Holds(objects[o]) = given[o]

\* A payload that has parts encodes: a transform whose attribute has no value,
\* which Marshal refuses, is never added (build.go:192,
\* payload_securityassociation.go:109).
FilledEncodes ==
  \A o \in 1 .. Len(objects) : objects[o].parts # <<>> => Encodes(objects[o])

\* The data of the 3GPP payloads can be read back with the lengths and counts they
\* hold: 5G_QOS_INFO has an octet for its own length and one for the list
\* (build.go:285, 307), a NAS message a 16-bit length (build.go:260).
VendorDataReadable ==
  \A o \in 1 .. Len(objects) :
    LET d == objects[o].octets IN
      /\ objects[o].kind = "QoS" =>
           /\ d[1] = Len(d)
           /\ LET n == d[3] IN
                given[o] = <<d[2], SubSeq(d, 4, 3 + n), d[4 + n] \div DCSI = 1,
                             IF d[4 + n] % DCSI = DSCPI THEN <<d[5 + n]>> ELSE <<>>>>
      /\ objects[o].kind = "NAS" => given[o] = <<SubSeq(d, 5, 4 + Uint16(d, 2))>>
==============================================================================

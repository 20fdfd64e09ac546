------------------------------ MODULE EapAkaPrime ------------------------------
(***************************************************************************)
(* EAP-AKA' packets and their AT_MAC (src/eap/eap_aka_prime.go, eap.go).   *)
(* A peer builds a packet with SetAttr, computes AT_MAC with               *)
(* CalcEapAkaPrimeAtMAC and sends it, or the packet comes from another     *)
(* implementation; one octet may change on the way; the receiver runs      *)
(* Unmarshal attribute by attribute, keeps the received AT_MAC, and        *)
(* computes it again over the packet it marshals from its own attributes.  *)
(*                                                                         *)
(* Octets and widths are the code's.  HMAC is an injective table: the MAC  *)
(* of a packet is 16 octets that name the packet's place in `hashed`.      *)
(***************************************************************************)
EXTENDS Integers, Sequences, SequencesExt, FiniteSets

CONSTANTS
  Settings,      \* arguments of SetAttr: pairs <<attribute type, value>>
  Foreign,       \* packets of other implementations: sequences of attributes
  MaxAttrs,      \* bound: attributes of a packet built here, AT_MAC not counted
  ChangedTo      \* the octets that an octet may change to

AT_RAND == 1
AT_AUTN == 2
AT_RES == 3
AT_AUTS == 4
AT_MAC == 11
AT_NOTIFICATION == 12
AT_KDF_INPUT == 23
AT_KDF == 24
AT_CHECKCODE == 134

Fixed == {AT_MAC, AT_RAND, AT_AUTN}         \* 16 octets of value
Padded == {AT_RES, AT_KDF_INPUT}            \* the reserved field holds the value's length
Short == {AT_KDF, AT_NOTIFICATION}          \* the reserved field is the value
Supported == Fixed \cup Padded \cup Short \cup {AT_AUTS, AT_CHECKCODE}

Octets == 0 .. 255
Attr == [type: Octets, length: Octets, reserved: 0 .. 65535, value: Seq(Octets)]

PutUint16(n) == <<(n \div 256) % 256, n % 256>>
Uint16(hi, lo) == 256 * hi + lo

\* What the constants are.
InputAssumption ==
  /\ \A s \in Settings : s[1] \in Octets /\ s[2] \in Seq(Octets)
  /\ Foreign \subseteq Seq(Attr)
  /\ \A p \in Foreign : \E i \in 1 .. Len(p) : p[i].type = AT_MAC
  /\ MaxAttrs \in Nat /\ ChangedTo \subseteq Octets

------------------------------------------------------------------------------
(* EAP packets of type AKA': code, identifier, subtype and two reserved      *)
(* octets (head), the attributes map, and the order in which Unmarshal met   *)
(* the attributes; an object that was not unmarshalled has no order.         *)

New == [head |-> <<1, 7, 1, 0, 0>>, attrs |-> <<>>, ordered |-> FALSE, order |-> <<>>]

getAttrsKeys_Sorted(o) == SetToSortSeq(DOMAIN o.attrs, <)
getAttrsKeys(o) == IF o.ordered THEN o.order ELSE SetToSortSeq(DOMAIN o.attrs, <)

Store(o, a) ==
  [o EXCEPT !.attrs = [t \in DOMAIN @ \cup {a.type} |-> IF t = a.type THEN a ELSE @[t]],
            !.order = IF o.ordered /\ a.type \notin DOMAIN o.attrs THEN Append(@, a.type) ELSE @]

\* setAttr: the value lengths it takes, and the attribute it makes.
Settable(t, n) ==
  CASE t \in Fixed -> n = 16
    [] t = AT_AUTS -> n = 14
    [] t = AT_RES -> n \in 4 .. 16
    [] t \in Short -> n = 2
    [] t = AT_CHECKCODE -> (4 + n) \div 4 <= 255
    [] t = AT_KDF_INPUT -> TRUE
    [] OTHER -> FALSE

Padding(n) == (4 - ((4 + n) % 4)) % 4
Zeros(n) == [i \in 1 .. n |-> 0]

setAttr(t, v) ==
  LET n == Len(v)
      pad == IF t \in Padded THEN Padding(n) ELSE 0
  IN  [type |-> t,
       length |-> CASE t = AT_AUTS -> 4 [] t \in Short -> 1 [] OTHER -> ((4 + n + pad) \div 4) % 256,
       reserved |-> CASE t = AT_RES -> 8 * n [] t = AT_KDF_INPUT -> n % 65536
                      [] t \in Short -> Uint16(v[1], v[2]) [] OTHER -> 0,
       value |-> IF t \in Short THEN <<>> ELSE v \o Zeros(pad)]

GetValue(a) == IF a.type \in Short THEN PutUint16(a.reserved) ELSE a.value

MarshalAttr(a) ==
  <<a.type, a.length>> \o (IF a.type = AT_AUTS THEN <<>> ELSE PutUint16(a.reserved)) \o a.value

\* EAP.Marshal of a packet whose EAP type is that of EAP-AKA'.
AkaPrimeType == 50
HeaderLen == 8
Packet_FixedSubtype(head, attributes) ==
  LET body == FlattenSeq([i \in 1 .. Len(attributes) |-> MarshalAttr(attributes[i])])
  IN  <<head[1], head[2]>> \o PutUint16(HeaderLen + Len(body))
      \o <<AkaPrimeType, 1, head[4], head[5]>> \o body
Packet(head, attributes) ==
  LET body == FlattenSeq([i \in 1 .. Len(attributes) |-> MarshalAttr(attributes[i])])
  IN  <<head[1], head[2]>> \o PutUint16(HeaderLen + Len(body))
      \o <<AkaPrimeType, head[3], head[4], head[5]>> \o body

InOrder(o) == [i \in 1 .. Len(getAttrsKeys(o)) |-> o.attrs[getAttrsKeys(o)[i]]]
Marshal(o) == Packet(o.head, InOrder(o))

------------------------------------------------------------------------------
(* State.                                                                    *)

VARIABLES
  pc,            \* where the exchange stands
  sender, receiver,   \* the two EapAkaPrime objects
  sent,          \* history: the attributes that were sent, as on the wire
  rest,          \* the octets that the receiver has not read
  wire, intact,  \* the packet, and whether it arrives as it was sent
  hashed,        \* the packets that were given to HMAC
  mac            \* AT_MAC as the sender computed it, then as the receiver read it

vars == <<pc, sender, receiver, sent, rest, wire, intact, hashed, mac>>

Init ==
  /\ pc = "build"
  /\ sender = New /\ receiver = New
  /\ sent = <<>> /\ rest = <<>> /\ wire = <<>> /\ intact = TRUE
  /\ hashed = <<>> /\ mac = <<>>

\* The HMAC table after b was hashed, and the MAC of b in it.
Hash(b) == IF b \in ToSet(hashed) THEN hashed ELSE Append(hashed, b)
MacIn(table, b) == [i \in 1 .. 16 |-> 200 + (CHOOSE k \in 1 .. Len(table) : table[k] = b)]

\* initMAC.
ZeroMAC(o) == Store(o, setAttr(AT_MAC, Zeros(16)))

------------------------------------------------------------------------------
(* Sender.                                                                   *)

SetAttr ==
  /\ pc = "build" /\ Cardinality(DOMAIN sender.attrs) < MaxAttrs
  /\ \E s \in Settings :
       IF Settable(s[1], Len(s[2])) THEN sender' = Store(sender, setAttr(s[1], s[2]))
       ELSE UNCHANGED sender
  /\ UNCHANGED <<pc, receiver, sent, rest, wire, intact, hashed, mac>>

CalcEapAkaPrimeAtMAC ==
  /\ pc = "build"
  /\ sender' = ZeroMAC(sender)
  /\ LET b == Marshal(ZeroMAC(sender))
     IN  hashed' = Hash(b) /\ mac' = MacIn(Hash(b), b)
  /\ pc' = "mac"
  /\ UNCHANGED <<receiver, sent, rest, wire, intact>>

SetMAC ==
  /\ pc = "mac"
  /\ sender' = Store(sender, setAttr(AT_MAC, mac))
  /\ pc' = "send"
  /\ UNCHANGED <<receiver, sent, rest, wire, intact, hashed, mac>>

Send ==
  /\ pc = "send"
  /\ sent' = InOrder(sender)
  /\ wire' = Marshal(sender)
  /\ pc' = "wire"
  /\ UNCHANGED <<sender, receiver, rest, intact, hashed, mac>>

\* A packet of another implementation, its AT_MAC computed over its own octets.
WithMAC(p, v) == [i \in 1 .. Len(p) |-> IF p[i].type = AT_MAC THEN [p[i] EXCEPT !.value = v] ELSE p[i]]

SendForeign ==
  /\ pc = "build" /\ sender = New
  /\ \E p \in Foreign :
       LET b == Packet(New.head, WithMAC(p, Zeros(16)))
           v == MacIn(Hash(b), b)
       IN  hashed' = Hash(b) /\ mac' = v /\ sent' = WithMAC(p, v) /\ wire' = Packet(New.head, WithMAC(p, v))
  /\ pc' = "wire"
  /\ UNCHANGED <<sender, receiver, rest, intact>>

Change ==
  /\ pc = "wire" /\ intact
  /\ \E i \in 1 .. Len(wire), o \in ChangedTo :
       wire[i] # o /\ wire' = [wire EXCEPT ![i] = o]
  /\ intact' = FALSE
  /\ UNCHANGED <<pc, sender, receiver, sent, rest, hashed, mac>>

------------------------------------------------------------------------------
(* Receiver.                                                                 *)

\* EAP.Unmarshal, and EapAkaPrime.Unmarshal up to its loop.
UnmarshalHeader ==
  /\ pc = "wire"
  /\ IF Uint16(wire[3], wire[4]) = Len(wire) /\ wire[5] = AkaPrimeType
     THEN /\ receiver' = [head |-> <<wire[1], wire[2], wire[6], wire[7], wire[8]>>,
                          attrs |-> <<>>, ordered |-> TRUE, order |-> <<>>]
          /\ rest' = SubSeq(wire, HeaderLen + 1, Len(wire))
          /\ pc' = "unmarshal"
     ELSE pc' = "error" /\ UNCHANGED <<receiver, rest>>
  /\ UNCHANGED <<sender, sent, wire, intact, hashed, mac>>

\* One attribute at the front of b: how many octets its reserved field, value and
\* padding take.  4 * length is computed in 8 bits, the padding in 16.  Of a type
\* without a case in the switch nothing is read but type and length.
ReservedLen(t) == IF t \in Supported \ {AT_AUTS} THEN 2 ELSE 0
ReservedOf(b) == IF ReservedLen(b[1]) = 2 THEN Uint16(b[3], b[4]) ELSE 0
Bytes(length) == (4 * length) % 256

ValueLen(b) ==
  CASE b[1] \in Fixed -> 16
    [] b[1] = AT_AUTS -> 14
    [] b[1] = AT_RES -> ReservedOf(b) \div 8
    [] b[1] = AT_KDF_INPUT -> ReservedOf(b)
    [] b[1] = AT_CHECKCODE -> (Bytes(b[2]) - 4) % 256
    [] OTHER -> 0

PaddingLen_Ignored(b) == 0
PaddingLen(b) == IF b[1] \in Padded THEN (Bytes(b[2]) - ValueLen(b) - 4) % 65536 ELSE 0

Unreadable(b) ==
  IF Len(b) < 2 + ReservedLen(b[1]) THEN TRUE
  ELSE \/ b[1] \in Fixed /\ b[2] # 5
       \/ b[1] = AT_AUTS /\ b[2] # 4
       \/ Len(b) < 2 + ReservedLen(b[1]) + ValueLen(b) + PaddingLen(b)

ReadAttr(b) ==
  [type |-> b[1], length |-> b[2],
   reserved |-> IF b[1] \in Padded \cup Short THEN ReservedOf(b) ELSE 0,
   value |-> SubSeq(b, 3 + ReservedLen(b[1]), 2 + ReservedLen(b[1]) + ValueLen(b))]

\* The loop ends where the type or the length of an attribute is missing.
UnmarshalAttr ==
  /\ pc = "unmarshal"
  /\ IF Len(rest) < 2 THEN pc' = "decoded" /\ UNCHANGED <<receiver, rest>>
     ELSE IF Unreadable(rest) THEN pc' = "error" /\ UNCHANGED <<receiver, rest>>
     ELSE /\ receiver' = Store(receiver, ReadAttr(rest))
          /\ rest' = SubSeq(rest, 3 + ReservedLen(rest[1]) + ValueLen(rest) + PaddingLen(rest), Len(rest))
          /\ UNCHANGED pc
  /\ UNCHANGED <<sender, sent, wire, intact, hashed, mac>>

\* GetAttr(AT_MAC), then CalcEapAkaPrimeAtMAC, which overwrites it, then compare.
Verify ==
  /\ pc = "decoded"
  /\ IF AT_MAC \notin DOMAIN receiver.attrs
     THEN pc' = "error" /\ UNCHANGED <<receiver, hashed, mac>>
     ELSE LET b == Marshal(ZeroMAC(receiver))
          IN  /\ mac' = GetValue(receiver.attrs[AT_MAC])
              /\ receiver' = ZeroMAC(receiver)
              /\ hashed' = Hash(b)
              /\ pc' = IF mac' = MacIn(Hash(b), b) THEN "verified" ELSE "mismatch"
  /\ UNCHANGED <<sender, sent, rest, wire, intact>>

Next ==
  \/ SetAttr \/ CalcEapAkaPrimeAtMAC \/ SetMAC \/ Send \/ SendForeign \/ Change
  \/ UnmarshalHeader \/ UnmarshalAttr \/ Verify

Spec == Init /\ [][Next]_vars

------------------------------------------------------------------------------
(* Properties.                                                               *)

\* What an attribute says, without padding.
Content(a) ==
  CASE a.type = AT_RES -> SubSeq(a.value, 1, a.reserved \div 8)
    [] a.type = AT_KDF_INPUT -> SubSeq(a.value, 1, a.reserved)
    [] OTHER -> GetValue(a)

Types(attributes) == {attributes[i].type : i \in 1 .. Len(attributes)}
LastOf(attributes, t) == attributes[CHOOSE i \in 1 .. Len(attributes) :
  attributes[i].type = t /\ \A j \in i + 1 .. Len(attributes) : attributes[j].type # t]

\* The packets whose every attribute Unmarshal reads to its end: types with a case
\* in its switch, and sizes within 8 bits.
WithinReach(attributes) ==
  \A i \in 1 .. Len(attributes) :
    attributes[i].type \in Supported /\ Len(MarshalAttr(attributes[i])) < 256

\* Unmarshal of an intact packet whose attribute types it knows, none of 256
\* octets or more, succeeds and yields every attribute with the value that was
\* sent, without padding; of several attributes of a type the last.
AttributesSurvive ==
  intact /\ sent # <<>> =>
    /\ pc \in {"decoded", "verified", "mismatch"} /\ WithinReach(sent) =>
         /\ DOMAIN receiver.attrs = Types(sent)
         /\ \A t \in Types(sent) \ {AT_MAC} : Content(receiver.attrs[t]) = Content(LastOf(sent, t))
    /\ pc = "error" => ~ WithinReach(sent)

\* No attribute had padding and no type occurs twice.
Canonical(attributes) ==
  /\ Cardinality(Types(attributes)) = Len(attributes)
  /\ \A i \in 1 .. Len(attributes) : Len(MarshalAttr(attributes[i])) = 4 + Len(Content(attributes[i]))
                                     \/ attributes[i].type \in Short \cup {AT_AUTS}

\* The AT_MAC of an intact packet verifies, in whatever order its attributes
\* came, if none is padded and none occurs twice: then Marshal gives back the
\* octets that were received (eap.go:199).
GenuineVerifies ==
  intact /\ WithinReach(sent) /\ Canonical(sent) => pc # "mismatch"

\* A packet that verifies says what its sender put into it, although AT_MAC is
\* computed over what the receiver made of the packet, not over what arrived.
VerifiedIsGenuine ==
  pc = "verified" =>
    /\ DOMAIN receiver.attrs = Types(sent)
    /\ \A t \in Types(sent) \ {AT_MAC} : Content(receiver.attrs[t]) = Content(LastOf(sent, t))
    /\ receiver.head = New.head

\* "Len(EapAkaPrimeAttr) = EapAkaPrimeAttr.length * 4" (eap_aka_prime.go:488), of
\* every attribute that an EapAkaPrime holds.
AttrLength ==
  \A o \in {sender, receiver} : \A t \in DOMAIN o.attrs :
    Len(MarshalAttr(o.attrs[t])) = 4 * o.attrs[t].length

\* What SetAttr stored is what GetAttr and GetValue return, as
\* TestEapAkaPrimeSetGetAttr requires (eap_aka_prime_test.go:206).
SetThenGet ==
  \A t \in DOMAIN sender.attrs \ {AT_MAC} : <<t, GetValue(sender.attrs[t])>> \in Settings

\* Unmarshal reads what Marshal wrote, attributes being 4 * length octets long
\* whatever their length field holds (eap_aka_prime.go:488).
OwnPacketsAccepted == intact => pc # "error"
==============================================================================

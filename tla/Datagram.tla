------------------------------- MODULE Datagram -------------------------------
(***************************************************************************)
(* IKE headers and the objects that a receive loop makes of datagrams      *)
(* (src/message/header.go, message.go, and both ways into DecodeDecrypt    *)
(* in src/ike.go).  All datagrams are read into one array: PayloadBytes of *)
(* a parsed header is a slice of it, everything else is copied.  A message *)
(* points to its header, which its caller may hold as well.                *)
(*                                                                         *)
(* The header is 28 octets.  A payload behind it is one element of the     *)
(* array, which stands for its octets and counts as one (the octets of a   *)
(* chain are module PayloadChain's).  Octet is 256.                        *)
(***************************************************************************)
EXTENDS Octets

CONSTANTS
  Calls,        \* arguments of NewHeader at the peers
  Chains,       \* the payloads that peers send: sequences of [type, critical, data]
  Known,        \* payload types that Decode has a case for
  Damage,       \* how a header may change: [at, to], an octet's place and new value
  MaxChain,     \* length of the longest chain
  MaxDatagrams, \* bound on arriving datagrams
  MaxHeaders    \* bound on parsed headers

NoNext == 0
ResponseBitCheck == 32
InitiatorBitCheck == 8
IKE_HEADER_LEN == 28

\* What the constants are.
DatagramAssumption ==
  /\ Octet = 256
  /\ Damage \subseteq [at: 1 .. IKE_HEADER_LEN, to: 0 .. 255]
  /\ Known \subseteq 1 .. 255
  /\ \A c \in Chains : Len(c) <= MaxChain
  /\ MaxChain \in Nat /\ MaxDatagrams \in Nat /\ MaxHeaders \in Nat

VARIABLES
  array,    \* the array that datagrams are read into
  n,        \* length of the datagram that was read last
  told,     \* history: its NewHeader arguments, a set that is empty if it was damaged
  arrived,  \* number of datagrams so far
  headers,  \* the IKEHeader objects
  header,   \* the header that the caller holds: an index of headers, 0 is nil
  message,  \* the IKEMessage of the last successful decoding
  encoded,  \* what Encode of that message returned last; <<>> if not called
  out       \* "ok", "error" or "panic": the result of the last call

vars == <<array, n, told, arrived, headers, header, message, encoded, out>>

NoMessage == [header |-> 0, payloads |-> <<>>, from |-> <<>>]

\* A payload in a datagram: its generic header, and its data.
Unit(next, critical, data) == [critical |-> critical, data |-> data, next |-> next]

Init ==
  /\ array = Zeros(IKE_HEADER_LEN) \o [i \in 1 .. MaxChain |-> Unit(NoNext, FALSE, 0)]
  /\ n = 0 /\ told = {} /\ arrived = 0
  /\ headers = <<>> /\ header = 0 /\ message = NoMessage /\ encoded = <<>> /\ out = "ok"

------------------------------------------------------------------------------
(* NewHeader and Marshal.                                                    *)

NewHeader_Else(c) ==
  [InitiatorSPI |-> c.iSPI, ResponderSPI |-> c.rSPI, MajorVersion |-> 2, MinorVersion |-> 0,
   ExchangeType |-> c.exchgType, MessageID |-> c.mId,
   Flags |-> IF c.response THEN ResponseBitCheck ELSE IF c.initiator THEN InitiatorBitCheck ELSE 0]
NewHeader(c) ==
  [InitiatorSPI |-> c.iSPI, ResponderSPI |-> c.rSPI, MajorVersion |-> 2, MinorVersion |-> 0,
   ExchangeType |-> c.exchgType, MessageID |-> c.mId,
   Flags |-> (IF c.response THEN ResponseBitCheck ELSE 0)
             + (IF c.initiator THEN InitiatorBitCheck ELSE 0)]

\* The total length fits: a chain is far shorter than 2^32.
MarshalHeader(h, next, length) ==
  h.InitiatorSPI \o h.ResponderSPI
  \o <<next, ((h.MajorVersion * 16) % Octet) + (h.MinorVersion % 16), h.ExchangeType, h.Flags>>
  \o h.MessageID \o PutUint32(length)

IsResponse(h) == (h.Flags \div ResponseBitCheck) % 2 = 1
IsInitiator(h) == (h.Flags \div InitiatorBitCheck) % 2 = 1

------------------------------------------------------------------------------
(* IKEMessage.Encode.                                                        *)

FirstType_Last(chain) == IF chain = <<>> THEN NoNext ELSE chain[Len(chain)].type
FirstType(chain) == IF chain = <<>> THEN NoNext ELSE chain[1].type

\* The library leaves the critical bit clear; other peers may set it.
EncodeChain(chain) ==
  [i \in 1 .. Len(chain) |->
     Unit(IF i < Len(chain) THEN chain[i + 1].type ELSE NoNext, chain[i].critical, chain[i].data)]

Datagram(h, chain) ==
  MarshalHeader(h, FirstType(chain), IKE_HEADER_LEN + Len(chain)) \o EncodeChain(chain)

\* NextPayload and PayloadBytes of the header are assigned before it is marshalled.
PayloadBytes_Cached(h, chain) ==
  IF h.size > 0 THEN Slice(array, IKE_HEADER_LEN, IKE_HEADER_LEN + h.size) ELSE EncodeChain(chain)
PayloadBytes(h, chain) == EncodeChain(chain)

Encode ==
  /\ message # NoMessage
  /\ LET h == headers[message.header]
         next == FirstType(message.payloads)
         bytes == PayloadBytes(h, message.payloads)
     IN  /\ headers' = [headers EXCEPT ![message.header].NextPayload = next,
                                       ![message.header].size = 0]
         /\ encoded' = MarshalHeader(h, next, IKE_HEADER_LEN + Len(bytes)) \o bytes
  /\ out' = "ok"
  /\ UNCHANGED <<array, n, told, arrived, header, message>>

------------------------------------------------------------------------------
(* A datagram is read into the array: as a peer sent it, without its end, or *)
(* with one octet of its header changed.                                     *)

Arrive(d, calls) ==
  /\ arrived < MaxDatagrams
  /\ array' = d \o From(array, Len(d))
  /\ n' = Len(d) /\ told' = calls /\ arrived' = arrived + 1
  /\ UNCHANGED <<headers, header, message, encoded, out>>

Intact == \E c \in Calls, chain \in Chains : Arrive(Datagram(NewHeader(c), chain), {c})
Truncated ==
  \E c \in Calls, chain \in Chains : LET d == Datagram(NewHeader(c), chain) IN
    \E m \in {0, IKE_HEADER_LEN - 1} \cup (IKE_HEADER_LEN .. Len(d) - 1) : Arrive(Slice(d, 0, m), {})
Changed ==
  \E c \in Calls, chain \in Chains, o \in Damage :
    Arrive([Datagram(NewHeader(c), chain) EXCEPT ![o.at] = o.to], {})

------------------------------------------------------------------------------
(* ParseHeader, and the two ways into DecodeDecrypt.                         *)

b == Slice(array, 0, n)

HeaderRefused == n < IKE_HEADER_LEN \/ Uint32(b, 24) < IKE_HEADER_LEN

MinorVersion(o) == o % 16

\* PayloadBytes is a slice of the array, size elements behind the header.
ParsedHeader ==
  [InitiatorSPI |-> Slice(b, 0, 8), ResponderSPI |-> Slice(b, 8, 16), NextPayload |-> b[17],
   MajorVersion |-> b[18] \div 16, MinorVersion |-> MinorVersion(b[18]), ExchangeType |-> b[19],
   Flags |-> b[20], MessageID |-> Slice(b, 20, 24),
   size |-> n - IKE_HEADER_LEN, from |-> b, told |-> told]

ParseHeader ==
  /\ Len(headers) < MaxHeaders
  /\ IF HeaderRefused
     THEN out' = "error" /\ UNCHANGED <<headers, header>>
     ELSE headers' = Append(headers, ParsedHeader) /\ header' = Len(headers) + 1 /\ out' = "ok"
  /\ UNCHANGED <<array, n, told, arrived, message, encoded>>

\* Container.Decode: one payload after the other, unknown ones are skipped, or
\* refused if critical.  The result is a set that is empty on error.
DecodeUnits(next, units) ==
  LET dec[i \in 0 .. Len(units)] ==
        IF i = 0 THEN [next |-> next, got |-> <<>>, failed |-> FALSE]
        ELSE LET u == units[i]
                 d == dec[i - 1]
             IN  [next |-> u.next,
                  got |-> IF d.next \in Known
                          THEN Append(d.got, [type |-> d.next, critical |-> FALSE, data |-> u.data])
                          ELSE d.got,
                  failed |-> d.failed \/ (d.next \notin Known /\ u.critical)]
      end == dec[Len(units)]
  IN  IF end.failed THEN {} ELSE {end.got}

DecodePayload(next, units) ==
  IF next # NoNext /\ units = <<>> THEN {} ELSE DecodeUnits(next, units)

Decoded(h, next, units) ==
  LET results == DecodePayload(next, units)
  IN  IF results = {} THEN out' = "error" /\ UNCHANGED <<message, encoded>>
      ELSE \E p \in results :
             /\ message' = [header |-> h, payloads |-> p, from |-> b]
             /\ encoded' = <<>> /\ out' = "ok"

\* ikeHeader is nil: the header is parsed anew.
DecodeParsing ==
  /\ Len(headers) < MaxHeaders
  /\ IF HeaderRefused THEN out' = "error" /\ UNCHANGED <<headers, message, encoded>>
     ELSE /\ headers' = Append(headers, ParsedHeader)
          /\ Decoded(Len(headers) + 1, b[17], From(b, IKE_HEADER_LEN))
  /\ UNCHANGED <<array, n, told, arrived, header>>

\* ikeHeader is the caller's: the message shares it.
DecodePassed ==
  /\ header # 0
  /\ IF n < IKE_HEADER_LEN THEN out' = "panic" /\ UNCHANGED <<message, encoded>>
     ELSE Decoded(header, headers[header].NextPayload, From(b, IKE_HEADER_LEN))
  /\ UNCHANGED <<array, n, told, arrived, headers, header>>

Next == \/ Intact \/ Truncated \/ Changed
        \/ ParseHeader \/ DecodeParsing \/ DecodePassed \/ Encode

Spec == Init /\ [][Next]_vars

------------------------------------------------------------------------------
(* Properties.                                                               *)

\* A header parsed from a datagram that arrived as it was sent tells, for as long
\* as the object lives, what the peer passed to NewHeader, whatever is read into
\* the array afterwards and whatever messages share the header (header.go:46, 107).
HeaderAsTold ==
  \A i \in 1 .. Len(headers) : \A c \in headers[i].told : LET h == headers[i] IN
    /\ <<h.InitiatorSPI, h.ResponderSPI, h.ExchangeType, h.MessageID>>
         = <<c.iSPI, c.rSPI, c.exchgType, c.mId>>
    /\ <<h.MajorVersion, h.MinorVersion>> = <<2, 0>>
    /\ IsResponse(h) = c.response /\ IsInitiator(h) = c.initiator

\* The header of the message was parsed from the datagram it was decoded from.
Coherent == headers[message.header].from = message.from

Units(d) == From(d, IKE_HEADER_LEN)
FromKnown(d) ==
  /\ Uint32(d, 24) = Len(d)
  /\ \A i \in 1 .. Len(Units(d)) : ~ Units(d)[i].critical
  /\ \A i \in 1 .. Len(Units(d)) : (IF i = 1 THEN d[17] ELSE Units(d)[i - 1].next) \in Known
  /\ IF Units(d) = <<>> THEN d[17] = NoNext ELSE Units(d)[Len(Units(d))].next = NoNext

\* A message that was decoded from a datagram with payloads of known types encodes
\* to exactly that datagram, also after further datagrams were read into the array
\* that PayloadBytes of its header is a slice of (header.go:116, message.go:35).
ReencodesAsReceived ==
  message # NoMessage /\ Coherent /\ encoded # <<>> /\ FromKnown(message.from) =>
    encoded = message.from

\* As long as the array holds the datagram that the caller's header was parsed
\* from, passing that header to DecodeDecrypt gives the payloads that parsing it
\* anew gives, also if a message that shares the header was encoded in between,
\* which assigns NextPayload.  A first payload of an unknown type is excluded: it is
\* skipped, and Encode assigns the type of another (ike.go:45, message.go:29, 172).
PassedHeaderAgrees ==
  header # 0 /\ headers[header].from = b /\ (b[17] \in Known \/ n = IKE_HEADER_LEN) =>
    DecodePayload(headers[header].NextPayload, Units(b)) = DecodePayload(b[17], Units(b))
==============================================================================

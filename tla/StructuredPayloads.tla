-------------------------- MODULE StructuredPayloads --------------------------
(***************************************************************************)
(* The payloads with fields, lists and lengths of their own: Notification, *)
(* Delete, Configuration, and the two traffic selector payloads            *)
(* (src/message/payload_{notification,delete,configuration,                *)
(* trafficselectorinitiator,trafficselectorresponder}.go).  Marshal is one *)
(* step; Unmarshal is one step for the fixed part and one for each turn of *)
(* its loop.  The body that Unmarshal gets may be shorter than what was    *)
(* sent, and it is a slice of the received datagram: the octets behind it  *)
(* are within the slice's capacity.                                        *)
(***************************************************************************)
EXTENDS Octets, SequencesExt

CONSTANTS
  Payloads,     \* the payloads that are encoded
  Behind        \* what may follow the body in the datagram

TS_IPV4_ADDR_RANGE == 7
TS_IPV6_ADDR_RANGE == 8

Selector == [type: Octets, protocol: Octets, startPort: 0 .. Max16, endPort: 0 .. Max16,
             start: Seq(Octets), end: Seq(Octets)]
Notification == [kind: {"N"}, protocol: Octets, type: 0 .. Max16, spi: Seq(Octets), data: Seq(Octets)]
Delete == [kind: {"D"}, protocol: Octets, spiSize: Octets, number: 0 .. Max16, spis: Seq(Nat)]
Configuration == [kind: {"CP"}, type: Octets, attributes: Seq([type: 0 .. Max16, value: Seq(Octets)])]
TrafficSelector == [kind: {"TSi", "TSr"}, selectors: Seq(Selector)]
Payload == Notification \cup Delete \cup Configuration \cup TrafficSelector

\* What the constants are.
PayloadAssumption ==
  /\ Octet \in Nat /\ Octet > TS_IPV6_ADDR_RANGE /\ Octet % 2 = 0
  /\ Payloads \subseteq Payload
  /\ Behind \subseteq Seq(Octets)

\* What new(T) holds before Unmarshal.
Zero(kind) ==
  CASE kind = "N" -> [kind |-> "N", protocol |-> 0, type |-> 0, spi |-> <<>>, data |-> <<>>]
    [] kind = "D" -> [kind |-> "D", protocol |-> 0, spiSize |-> 0, number |-> 0, spis |-> <<>>]
    [] kind = "CP" -> [kind |-> "CP", type |-> 0, attributes |-> <<>>]
    [] OTHER -> [kind |-> kind, selectors |-> <<>>]

VARIABLES
  p,            \* the payload that is encoded
  wire, behind, \* its body, and the octets that follow it where it is decoded
  cut,          \* the body is shorter than what was encoded
  rest, left,   \* Unmarshal's b or configurationAttributeData, and numberOfSPI
  got,          \* the decoded payload
  outside,      \* a slice expression reached behind the body
  pc            \* "encode", "wire", "header", "loop", or the end: "ok", "error", "panic", "unsent"

vars == <<p, wire, behind, cut, rest, left, got, outside, pc>>
decoding == <<rest, left, got, outside>>

Init ==
  /\ p \in Payloads /\ behind \in Behind
  /\ wire = <<>> /\ cut = FALSE
  /\ rest = <<>> /\ left = 0 /\ got = Zero(p.kind) /\ outside = FALSE
  /\ pc = "encode"

------------------------------------------------------------------------------
(* Marshal.                                                                  *)

MarshalNotification(n) == <<n.protocol, Len(n.spi)>> \o PutUint16(n.type) \o n.spi \o n.data

\* Every SPI is written into one slice of SPISize octets: zeros behind the first
\* four, and a panic if there are no four.
MarshalDelete(d) ==
  <<d.protocol, d.spiSize>> \o PutUint16(d.number)
    \o FlattenSeq([i \in 1 .. Len(d.spis) |-> PutUint32(d.spis[i]) \o Zeros(d.spiSize - 4)])

MarshalConfiguration_NoMask(c) ==
  <<c.type, 0, 0, 0>>
    \o FlattenSeq([i \in 1 .. Len(c.attributes) |->
                    LET a == c.attributes[i]
                    IN  PutUint16(a.type) \o PutUint16(Len(a.value)) \o a.value])
MarshalConfiguration(c) ==
  <<c.type, 0, 0, 0>>
    \o FlattenSeq([i \in 1 .. Len(c.attributes) |->
                    LET a == c.attributes[i]
                    IN  PutUint16(a.type % (Octet * TopBit)) \o PutUint16(Len(a.value)) \o a.value])

AddressLength == [t \in {TS_IPV4_ADDR_RANGE, TS_IPV6_ADDR_RANGE} |-> IF t = TS_IPV4_ADDR_RANGE THEN 4 ELSE 16]

SelectorFails(s) ==
  \/ s.type \notin DOMAIN AddressLength
  \/ Len(s.start) # AddressLength[s.type]
  \/ Len(s.end) # AddressLength[s.type]

MarshalSelector(s) ==
  <<s.type, s.protocol>> \o PutUint16(8 + Len(s.start) + Len(s.end))
    \o PutUint16(s.startPort) \o PutUint16(s.endPort) \o s.start \o s.end

MarshalTSi(t) ==
  <<Len(t.selectors), 0, 0, 0>> \o FlattenSeq([i \in 1 .. Len(t.selectors) |-> MarshalSelector(t.selectors[i])])
MarshalTSr(t) ==
  <<Len(t.selectors), 0, 0, 0>> \o FlattenSeq([i \in 1 .. Len(t.selectors) |-> MarshalSelector(t.selectors[i])])

Encoding(x) ==
  CASE x.kind = "N" -> MarshalNotification(x)
    [] x.kind = "D" -> MarshalDelete(x)
    [] x.kind = "CP" -> MarshalConfiguration(x)
    [] x.kind = "TSi" -> MarshalTSi(x)
    [] x.kind = "TSr" -> MarshalTSr(x)

MarshalFails(x) ==
  CASE x.kind = "N" -> Len(x.spi) > Max8
    [] x.kind = "D" -> Len(x.spis) # x.number
    [] x.kind = "CP" -> \E i \in 1 .. Len(x.attributes) : Len(x.attributes[i].value) > Max16
    [] OTHER -> \/ Len(x.selectors) \notin 1 .. Max8
                \/ \E i \in 1 .. Len(x.selectors) : SelectorFails(x.selectors[i])

Marshal ==
  /\ pc = "encode"
  /\ IF MarshalFails(p) THEN pc' = "unsent" /\ UNCHANGED wire
     ELSE IF p.kind = "D" /\ p.number > 0 /\ p.spiSize < 4 THEN pc' = "panic" /\ UNCHANGED wire
     ELSE pc' = "wire" /\ wire' = Encoding(p)
  /\ UNCHANGED <<p, behind, cut, decoding>>

Receive(n) ==
  /\ pc = "wire"
  /\ cut' = (n < Len(wire))
  /\ wire' = SubSeq(wire, 1, n) /\ rest' = SubSeq(wire, 1, n)
  /\ pc' = "header"
  /\ UNCHANGED <<p, behind, left, got, outside>>

Intact == Receive(Len(wire))
Cut == \E n \in 0 .. Len(wire) - 1 : Receive(n)

------------------------------------------------------------------------------
(* Unmarshal.                                                                *)

End(result) == pc' = result /\ UNCHANGED <<p, wire, behind, cut, decoding>>
Step(b, n, payload, label) ==
  /\ rest' = b /\ left' = n /\ got' = payload /\ pc' = label
  /\ UNCHANGED <<p, wire, behind, cut>>

\* Every Unmarshal accepts an empty body, and leaves the payload as it is.
UnmarshalNothing ==
  /\ pc = "header" /\ rest = <<>>
  /\ End("ok")

\* The sum 4+spiSize is a uint8; b[4:4+spiSize] panics if it is below 4.
EndOfSPI(b) == Add8(4, b[2])
UnmarshalNotification ==
  /\ pc = "header" /\ rest # <<>> /\ p.kind = "N"
  /\ LET b == rest IN
       IF Len(b) < 4 \/ Len(b) < EndOfSPI(b) THEN End("error")
       ELSE IF EndOfSPI(b) < 4 THEN End("panic")
       ELSE /\ Step(<<>>, 0, [got EXCEPT !.protocol = b[1], !.type = Uint16(b, 2),
                                         !.spi = Slice(b, 4, EndOfSPI(b)), !.data = From(b, EndOfSPI(b))], "ok")
            /\ UNCHANGED outside

EnoughSPIs_Unchecked(b) == TRUE
EnoughSPIs(b) == Len(b) >= 4 + b[2] * Uint16(b, 2)
UnmarshalDelete ==
  /\ pc = "header" /\ rest # <<>> /\ p.kind = "D"
  /\ LET b == rest IN
       IF Len(b) <= 3 THEN End("error")
       ELSE IF ~ EnoughSPIs(b) THEN End("error")
       ELSE /\ Step(From(b, 4), 0, [got EXCEPT !.protocol = b[1], !.spiSize = b[2], !.number = Uint16(b, 2)], "loop")
            /\ UNCHANGED outside

\* b[i:i+4] is limited by the capacity of b, not by its length.
UnmarshalSPI ==
  /\ pc = "loop" /\ p.kind = "D"
  /\ IF rest = <<>> THEN End("ok")
     ELSE IF Len(rest) + Len(behind) < 4 THEN End("panic")
     ELSE /\ Step(From(rest, 4), 0, [got EXCEPT !.spis = Append(@, Uint32(rest \o behind, 0))], "loop")
          /\ outside' = (outside \/ Len(rest) < 4)

UnmarshalConfiguration ==
  /\ pc = "header" /\ rest # <<>> /\ p.kind = "CP"
  /\ IF Len(rest) <= 4 THEN End("error")
     ELSE /\ Step(From(rest, 4), 0, [got EXCEPT !.type = rest[1]], "loop")
          /\ UNCHANGED outside

\* The sum 4+length is a uint16.  Taking length octets that are not there panics,
\* at the latest in configurationAttributeData[length:].
AttributeFits(b) == Len(b) >= Add16(4, Uint16(b, 2))
UnmarshalAttribute ==
  /\ pc = "loop" /\ p.kind = "CP"
  /\ LET b == rest IN
       IF b = <<>> THEN End("ok")
       ELSE IF Len(b) < 4 THEN End("error")
       ELSE IF ~ AttributeFits(b) THEN End("error")
       ELSE IF Len(b) < 4 + Uint16(b, 2) THEN End("panic")
       ELSE /\ Step(From(b, 4 + Uint16(b, 2)), 0,
                    [got EXCEPT !.attributes =
                       Append(@, [type |-> Uint16(b, 0), value |-> Slice(b, 4, 4 + Uint16(b, 2))])], "loop")
            /\ UNCHANGED outside

SelectorHeader ==
  /\ pc = "header" /\ rest # <<>>
  /\ IF Len(rest) < 4 THEN End("error")
     ELSE Step(From(rest, 4), rest[1], got, "loop") /\ UNCHANGED outside

\* One turn of the loop over numberOfSPI, which counts selectors.
SelectorLength(b) == 8 + 2 * AddressLength[b[1]]
SelectorRefused(b) ==
  IF Len(b) < 4 THEN TRUE
  ELSE IF b[1] \notin DOMAIN AddressLength THEN TRUE
  ELSE Uint16(b, 2) # SelectorLength(b) \/ Len(b) < SelectorLength(b)

NextSelector ==
  /\ pc = "loop"
  /\ LET b == rest
         l == AddressLength[b[1]]
     IN  IF left = 0 THEN End("ok")
         ELSE IF SelectorRefused(b) THEN End("error")
         ELSE /\ Step(From(b, SelectorLength(b)), left - 1,
                      [got EXCEPT !.selectors =
                         Append(@, [type |-> b[1], protocol |-> b[2],
                                    startPort |-> Uint16(b, 4), endPort |-> Uint16(b, 6),
                                    start |-> Slice(b, 8, 8 + l), end |-> Slice(b, 8 + l, 8 + 2 * l)])], "loop")
              /\ UNCHANGED outside

UnmarshalTSi == p.kind = "TSi" /\ (SelectorHeader \/ NextSelector)
UnmarshalTSr == p.kind = "TSr" /\ (SelectorHeader \/ NextSelector)

Next == \/ Marshal \/ Intact \/ Cut
        \/ UnmarshalNothing
        \/ UnmarshalNotification
        \/ UnmarshalDelete \/ UnmarshalSPI
        \/ UnmarshalConfiguration \/ UnmarshalAttribute
        \/ UnmarshalTSi \/ UnmarshalTSr

Spec == Init /\ [][Next]_vars

------------------------------------------------------------------------------
(* Properties.                                                               *)

\* The payload that Unmarshal makes of what Marshal wrote: the top bit of a
\* configuration attribute type is dropped, and the zeros behind SPIs of more
\* than 4 octets are read as SPIs.
Received(x) ==
  CASE x.kind = "CP" ->
         [x EXCEPT !.attributes = [i \in 1 .. Len(@) |-> [@[i] EXCEPT !.type = @ % (Octet * TopBit)]]]
    [] x.kind = "D" ->
         [x EXCEPT !.spis = FlattenSeq([i \in 1 .. Len(@) |-> <<@[i]>> \o Zeros(x.spiSize \div 4 - 1)])]
    [] OTHER -> x

\* The sizes of SPIs that Unmarshal handles: 4+spiSize fits in an octet
\* (payload_notification.go:47), SPIs end at a multiple of 4 octets
\* (payload_delete.go:60).
Regular(x) ==
  CASE x.kind = "N" -> 4 + Len(x.spi) <= Max8
    [] x.kind = "D" -> x.number > 0 => x.spiSize % 4 = 0
    [] OTHER -> TRUE

Ended == pc \in {"ok", "error", "panic"}

\* Unmarshal of what Marshal wrote gives the payload back, field by field and in
\* order.  A configuration without attributes is encoded but refused
\* (payload_configuration.go:50).  The SPI of a notification for which 4+spiSize
\* does not fit in an octet passes the check and panics
\* (payload_notification.go:47).
StructuredRoundTrip ==
  Ended /\ wire # <<>> /\ ~ cut =>
    CASE p.kind = "CP" /\ p.attributes = <<>> -> pc = "error"
      [] p.kind = "N" /\ ~ Regular(p) -> pc = "panic"
      [] p.kind = "D" /\ ~ Regular(p) -> TRUE
      [] OTHER -> pc = "ok" /\ got = Received(p)

\* A body that is cut short is refused, or it yields what the whole one would have
\* yielded, less the end: Delete and traffic selectors have counts that tell
\* (payload_delete.go:50, payload_trafficselectorinitiator.go:126), notification
\* data and configuration attributes have none.  No body is an empty payload.  Cut
\* or not, no slice expression of Unmarshal leaves the body of a payload that a
\* container can carry (payload_configuration.go:62, payload_delete.go:60,
\* payload_trafficselectorresponder.go:127, 151).
CutYieldsPrefix ==
  /\ pc = "ok" /\ cut /\ wire # <<>> =>
       CASE p.kind = "N" -> got = [p EXCEPT !.data = got.data] /\ IsPrefix(got.data, p.data)
         [] p.kind = "CP" -> got.type = p.type /\ IsStrictPrefix(got.attributes, Received(p).attributes)
         [] OTHER -> FALSE
  /\ Regular(p) /\ 4 + Len(Encoding(p)) <= Max16 /\ pc \notin {"encode", "unsent"} =>
       ~ outside /\ (pc = "panic" => wire = <<>>)
==============================================================================

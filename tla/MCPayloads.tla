------------------------------ MODULE MCPayloads ------------------------------
(***************************************************************************)
(* The payloads with lengths of their own: SecurityAssociation and         *)
(* StructuredPayloads, with octets of 16 values.  A behaviour is one of    *)
(* either; the other stays in its initial state.                           *)
(***************************************************************************)
EXTENDS SecurityAssociation

(* SecurityAssociation: 8+spiSize wraps around from an SPI of 8 octets on,   *)
(* lengths are at most 255, attribute types keep 3 bits.  Attribute type 6   *)
(* stands for the key length.                                                *)

Plain(t, i) == [type |-> t, id |-> i, present |-> FALSE, format |-> 0, attr |-> 0, value |-> 0, variable |-> <<>>]
TV(t, a, v) == [Plain(t, 12) EXCEPT !.present = TRUE, !.format = UseTV, !.attr = a, !.value = v]
TLV(t, n) == [Plain(t, 12) EXCEPT !.present = TRUE, !.attr = 6, !.variable = [i \in 1 .. n |-> i % Octet]]

Lists(encr, integ, dh) == [t \in TransformTypes |-> CASE t = 1 -> encr [] t = 3 -> integ [] t = 4 -> dh [] OTHER -> <<>>]
P(n, spi, encr, integ, dh) ==
  [number |-> n, protocol |-> 1, spi |-> [i \in 1 .. spi |-> i % Octet], list |-> Lists(encr, integ, dh)]

\* Proposals with no, one or three transforms, keys in attributes, every kind
\* of attribute, and transforms that are in another list than their type's.
MCProposals ==
  {P(1, 0, <<TV(1, 6, 128)>>, <<>>, <<>>),
   P(2, 4, <<TV(1, 6, 192), TV(1, 6, 255)>>, <<>>, <<Plain(4, 14)>>),
   P(1, 1, <<Plain(1, 3)>>, <<Plain(3, 2)>>, <<>>),
   P(1, 0, <<Plain(3, 2)>>, <<TV(1, 9, 7)>>, <<Plain(7, 1)>>)}
MCSAs ==
  {<<>>} \cup {<<p>> : p \in MCProposals} \cup {<<p, q>> : p \in MCProposals, q \in MCProposals}
  \cup {<<P(1, 0, <<>>, <<>>, <<>>)>>}
MCEdges ==
  {<<P(1, n, <<Plain(1, 3)>>, <<>>, <<>>)>> : n \in {7, 8, 15, 16}}
  \cup {<<P(1, 0, <<TLV(1, n)>>, <<Plain(3, 2)>>, <<>>)>> : n \in {0, 1, 4}}
  \cup {<<P(1, 2, [i \in 1 .. n |-> TV(1, 6, i)], <<>>, <<>>)>> : n \in {15, 16}}
  \cup {<<P(1, 7, <<TLV(1, n)>>, <<>>, <<>>)>> : n \in {228, 229, 243, 244}}
  \cup {<<P(1, 0, <<[TLV(1, 4) EXCEPT !.present = p, !.format = f, !.value = 7]>>, <<>>, <<>>)>> :
         p \in BOOLEAN, f \in {UseTLV, UseTV}}
MCAll == MCSAs \cup MCEdges
MCAttributes == {<<P(1, 0, <<TLV(1, n)>>, <<>>, <<>>)>> : n \in 1 .. 4}

------------------------------------------------------------------------------
(* StructuredPayloads: 4+spiSize wraps around from 12 on, 4+length from 252  *)
(* on, counts go up to 15.                                                   *)

Ramp(n) == [i \in 1 .. n |-> i % Octet]

N(spi, data) == [kind |-> "N", protocol |-> 3, type |-> 255, spi |-> Ramp(spi), data |-> Ramp(data)]
MCNotifications == {N(s, d) : s \in {0, 1, 4, 11}, d \in {0, 1, 5}} \cup {N(s, 3) : s \in {12, 15, 16}}

D(size, spis) == [kind |-> "D", protocol |-> 3, spiSize |-> size, number |-> Len(spis), spis |-> spis]
MCDeletes ==
  {D(s, n) : s \in {0, 3, 4, 5, 8, 15}, n \in {<<>>, <<65535>>, <<4097, 0, 2>>}}
  \cup {[D(4, <<1, 2>>) EXCEPT !.number = n] : n \in {0, 1, 3}}

A(type, value) == [type |-> type, value |-> Ramp(value)]
CP(attributes) == [kind |-> "CP", type |-> 2, attributes |-> attributes]
MCConfigurations ==
  {CP(<<>>)} \cup {CP(<<A(t, n)>>) : t \in {1, 127, 128, 200}, n \in {0, 1, 4}}
  \cup {CP(<<A(1, m), A(t, n), A(3, m)>>) : t \in {2, 255}, m \in {0, 4}, n \in {0, 5}}
  \cup {CP(<<A(1, n)>>) : n \in {243, 251, 252, 255, 256}}

S(type, from, to) ==
  [type |-> type, protocol |-> 6, startPort |-> 0, endPort |-> 255, start |-> Ramp(from), end |-> Zeros(to)]
IPv4 == S(7, 4, 4)
IPv6 == S(8, 16, 16)
MCSelectors ==
  {<<>>, <<IPv4>>, <<IPv6>>, <<IPv4, IPv4>>, <<IPv6, IPv4>>, <<IPv4, IPv6, IPv4>>,
   [i \in 1 .. 15 |-> IPv4], [i \in 1 .. 16 |-> IPv4],
   <<IPv4, S(7, 16, 4)>>, <<S(8, 16, 4)>>, <<S(9, 4, 4)>>}
MCTrafficSelectors == [kind: {"TSi", "TSr"}, selectors: MCSelectors]

MCPayloads == MCNotifications \cup MCDeletes \cup MCConfigurations \cup MCTrafficSelectors

\* Nothing behind the body, or the start of a further payload.
MCBehind == {<<>>, <<0, 0, 0, 9, 1>>}

VARIABLES payload, body, behind, cut, rest2, left, got2, outside, pc2

Structured == INSTANCE StructuredPayloads WITH
                Payloads <- MCPayloads, Behind <- MCBehind,
                p <- payload, wire <- body, rest <- rest2, got <- got2, pc <- pc2

ASSUME Structured!PayloadAssumption

------------------------------------------------------------------------------

structuredVars == <<payload, body, behind, cut, rest2, left, got2, outside, pc2>>
allVars == <<vars, structuredVars>>

NextSA ==
  /\ pc2 = "encode" /\ payload = CP(<<>>) /\ behind = <<>>
  /\ Next
  /\ UNCHANGED structuredVars
NextStructured == pc = "encode" /\ sa = <<>> /\ Structured!Next /\ UNCHANGED vars

MCInit ==
  /\ Init /\ Structured!Init
  /\ sa = <<>> \/ (payload = CP(<<>>) /\ behind = <<>>)

MCSpec ==
  /\ MCInit
  /\ [][NextSA \/ NextStructured]_allVars
  /\ WF_allVars(NextSA)

\* Unmarshal of what Marshal wrote gives a payload back, field by field and in
\* order, with the exceptions that module StructuredPayloads names: at
\* payload_configuration.go:50, payload_notification.go:47, payload_delete.go:60.
StructuredRoundTrip == Structured!StructuredRoundTrip

\* A body that is cut short is refused, or it yields what the whole one would have
\* yielded, less the end, and Unmarshal never slices beyond it (payload_delete.go:50,
\* 60, payload_trafficselectorinitiator.go:126, payload_configuration.go:62).
CutYieldsPrefix == Structured!CutYieldsPrefix
==============================================================================

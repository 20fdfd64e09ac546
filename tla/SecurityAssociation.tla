-------------------------- MODULE SecurityAssociation --------------------------
(***************************************************************************)
(* The security association payload (src/message/                          *)
(* payload_securityassociation.go): proposals with an SPI and transforms,  *)
(* transforms with an attribute, three lengths inside each other.  Marshal *)
(* is one step; Unmarshal is a loop within a loop, one step per proposal   *)
(* header, transform and finished proposal.  In between the octets may be  *)
(* cut or one of them changed: the exchange that carries this payload      *)
(* first is not protected.                                                 *)
(***************************************************************************)
EXTENDS Octets

CONSTANTS
  SAs,          \* the security associations that are encoded
  ChangedTo     \* the values an octet may be changed to on the way

\* TypeEncryptionAlgorithm = 1, ..., TypeExtendedSequenceNumbers = 5, in the order
\* in which Marshal writes the five lists.
TransformTypes == 1 .. 5
UseTLV == 0
UseTV == 1

Transform == [type: Octets, id: 0 .. Max16, present: BOOLEAN, format: {UseTLV, UseTV},
              attr: 0 .. Octet * TopBit - 1, value: 0 .. Max16, variable: Seq(Octets)]
Proposal == [number: Octets, protocol: Octets, spi: Seq(Octets),
             list: [TransformTypes -> Seq(Transform)]]

ASSUME SAAssumption ==
  /\ Octet \in Nat /\ Octet > 12 /\ Octet % 2 = 0
  /\ SAs \subseteq Seq(Proposal)
  /\ ChangedTo \subseteq Octets

NoProposal == <<>>

VARIABLES
  sa,           \* what the sender encodes
  wire, damage, \* the octets; the index of the first that is not as sent, or 0
  rest,         \* Unmarshal's b
  proposal, transformData,   \* its variables of these names
  got, used,    \* the Proposals decoded, and how many octets of wire they took
  pc            \* "encode", "wire", "decode", or the end: "ok", "error", "panic", "unsent"

vars == <<sa, wire, damage, rest, proposal, transformData, got, used, pc>>
decoding == <<rest, proposal, transformData, got, used>>

Init ==
  /\ sa \in SAs
  /\ wire = <<>> /\ damage = 0 /\ rest = <<>>
  /\ proposal = NoProposal /\ transformData = <<>> /\ got = <<>> /\ used = 0
  /\ pc = "encode"

------------------------------------------------------------------------------
(* Marshal.                                                                  *)

transformList(p) == AppendAll(p.list, 5)

\* The format is the top bit of the 16-bit attribute type.
attributeData(t) ==
  IF ~ t.present THEN <<>>
  ELSE PutUint16(t.format * Octet * TopBit + t.attr) \o
       IF t.format = UseTLV
       THEN PutUint16(Len(t.variable)) \o t.variable
       ELSE PutUint16(t.value)

MarshalTransform_NoAttribute(t, last) ==
  <<IF last THEN 0 ELSE 3, 0>> \o PutUint16(8) \o <<t.type, 0>> \o PutUint16(t.id)
MarshalTransform(t, last) ==
  <<IF last THEN 0 ELSE 3, 0>> \o PutUint16(8 + Len(attributeData(t)))
    \o <<t.type, 0>> \o PutUint16(t.id) \o attributeData(t)

proposalTransformData(p) ==
  LET l == transformList(p)
  IN  AppendAll([i \in 1 .. Len(l) |-> MarshalTransform(l[i], i = Len(l))], Len(l))

ProposalLength(p) == 8 + Len(p.spi) + Len(proposalTransformData(p))

TransformFails(t) ==
  \/ t.present /\ t.format = UseTLV /\ Len(t.variable) \notin 1 .. Max16
  \/ 8 + Len(attributeData(t)) > Max16

MarshalFails(p) ==
  \/ Len(p.spi) > Max8
  \/ Len(transformList(p)) \notin 1 .. Max8
  \/ \E i \in 1 .. Len(transformList(p)) : TransformFails(transformList(p)[i])
  \/ ProposalLength(p) > Max16

MarshalProposal(p, last) ==
  <<IF last THEN 0 ELSE 2, 0>> \o PutUint16(ProposalLength(p))
    \o <<p.number, p.protocol, Len(p.spi), Len(transformList(p))>>
    \o p.spi \o proposalTransformData(p)

\* The first n proposals of an association.
Encoded(association, n) ==
  AppendAll([i \in 1 .. Len(association) |-> MarshalProposal(association[i], i = Len(association))], n)

Marshal ==
  /\ pc = "encode"
  /\ IF \E i \in 1 .. Len(sa) : MarshalFails(sa[i])
     THEN pc' = "unsent" /\ UNCHANGED wire
     ELSE wire' = Encoded(sa, Len(sa)) /\ pc' = "wire"
  /\ UNCHANGED <<sa, damage, decoding>>

------------------------------------------------------------------------------
(* The network.                                                              *)

Receive(w, d) ==
  /\ pc = "wire"
  /\ wire' = w /\ rest' = w /\ damage' = d
  /\ pc' = "decode"
  /\ UNCHANGED <<sa, proposal, transformData, got, used>>

Intact == Receive(wire, 0)
Truncated == \E n \in 0 .. Len(wire) - 1 : Receive(SubSeq(wire, 1, n), n + 1)
Changed == \E i \in 1 .. Len(wire), o \in ChangedTo :
             o # wire[i] /\ Receive([wire EXCEPT ![i] = o], i)

------------------------------------------------------------------------------
(* Unmarshal.                                                                *)

End(result) == pc' = result /\ UNCHANGED <<sa, wire, damage, decoding>>

UnmarshalDone ==
  /\ pc = "decode" /\ rest = <<>>
  /\ End("ok")

\* The checks of a proposal header, and of the SPI with the sum 8+spiSize in
\* uint8.  A slice expression whose bounds are not in order panics.
proposalLength(b) == Uint16(b, 2)
GoodProposal(b) == Len(b) >= 8 /\ proposalLength(b) >= 8 /\ Len(b) >= proposalLength(b)
EndOfSPI(b) == Add8(8, b[7])
SPIFits(b) == Len(b) >= EndOfSPI(b)
InOrder(b) == 8 <= EndOfSPI(b) /\ EndOfSPI(b) <= proposalLength(b)
TransformOctets_ToTheEnd(b) == From(b, EndOfSPI(b))
TransformOctets(b) == Slice(b, EndOfSPI(b), proposalLength(b))

UnmarshalProposal ==
  /\ pc = "decode" /\ rest # <<>> /\ proposal = NoProposal
  /\ IF ~ GoodProposal(rest) \/ ~ SPIFits(rest) THEN End("error")
     ELSE IF ~ InOrder(rest) THEN End("panic")
     ELSE /\ proposal' = [number |-> rest[5], protocol |-> rest[6],
                          spi |-> Slice(rest, 8, EndOfSPI(rest)),
                          list |-> [t \in TransformTypes |-> <<>>]]
          /\ transformData' = TransformOctets(rest)
          /\ UNCHANGED <<sa, wire, damage, rest, got, used, pc>>

transformLength(b) == Uint16(b, 2)
GoodTransform_Stalls(b) == Len(b) >= 8 /\ Len(b) >= transformLength(b)
GoodTransform(b) == Len(b) >= 8 /\ transformLength(b) >= 8 /\ Len(b) >= transformLength(b)

\* An attribute is there if the transform is longer than its header.  That of a
\* TLV must fill the transform, in uint16; its value is copied into a nil slice,
\* which keeps nothing.
HasAttribute(b) == transformLength(b) > 8
Format(b) == b[9] \div TopBit
GoodAttribute(b) ==
  /\ Len(b) >= 12
  /\ Format(b) = UseTLV => Add16(12, Uint16(b, 10)) = transformLength(b)
AttributePanics(b) == Format(b) = UseTLV /\ transformLength(b) < 12

NewTransform(b) ==
  [type |-> b[5], id |-> Uint16(b, 6), present |-> HasAttribute(b),
   format |-> IF HasAttribute(b) THEN Format(b) ELSE 0,
   attr   |-> IF HasAttribute(b) THEN Uint16(b, 8) % TopBit ELSE 0,
   value  |-> IF HasAttribute(b) /\ Format(b) = UseTV THEN Uint16(b, 10) ELSE 0,
   variable |-> <<>>]

\* A transform of a type without a list is dropped.
AppendTransform_InFront(p, t) ==
  IF t.type \in TransformTypes
  THEN [p EXCEPT !.list[t.type] = <<t>> \o @]
  ELSE p
AppendTransform(p, t) ==
  IF t.type \in TransformTypes
  THEN [p EXCEPT !.list[t.type] = Append(@, t)]
  ELSE p

UnmarshalTransform ==
  /\ pc = "decode" /\ proposal # NoProposal /\ transformData # <<>>
  /\ LET b == transformData IN
       IF ~ GoodTransform(b) \/ (HasAttribute(b) /\ ~ GoodAttribute(b)) THEN End("error")
       ELSE IF HasAttribute(b) /\ AttributePanics(b) THEN End("panic")
       ELSE /\ proposal' = AppendTransform(proposal, NewTransform(b))
            /\ transformData' = From(b, transformLength(b))
            /\ UNCHANGED <<sa, wire, damage, rest, got, used, pc>>

UnmarshalNext_KeepsSPI ==
  /\ pc = "decode" /\ proposal # NoProposal /\ transformData = <<>>
  /\ got' = Append(got, proposal)
  /\ used' = used + proposalLength(rest)
  /\ rest' = From(rest, proposalLength(rest) - Len(proposal.spi))
  /\ proposal' = NoProposal
  /\ UNCHANGED <<sa, wire, damage, transformData, pc>>
UnmarshalNext ==
  /\ pc = "decode" /\ proposal # NoProposal /\ transformData = <<>>
  /\ got' = Append(got, proposal)
  /\ used' = used + proposalLength(rest)
  /\ rest' = From(rest, proposalLength(rest))
  /\ proposal' = NoProposal
  /\ UNCHANGED <<sa, wire, damage, transformData, pc>>

Next == \/ Marshal
        \/ Intact \/ Truncated \/ Changed
        \/ UnmarshalDone \/ UnmarshalProposal \/ UnmarshalTransform \/ UnmarshalNext

\* The loops are sequential code: they run on until they return.
Spec == Init /\ [][Next]_vars /\ WF_vars(Next)

------------------------------------------------------------------------------
(* Properties.                                                               *)

\* A transform as it comes back: without the value of a variable-length attribute,
\* with the low 7 bits of an attribute type, and with nothing that was not encoded.
Kept(t) ==
  [type |-> t.type, id |-> t.id, present |-> t.present,
   format |-> IF t.present THEN t.format ELSE 0,
   attr   |-> IF t.present THEN t.attr % TopBit ELSE 0,
   value  |-> IF t.present /\ t.format = UseTV THEN t.value ELSE 0,
   variable |-> <<>>]

\* A proposal as it comes back: each transform in the list of its own type,
\* whatever list the sender kept it in.
Sorted(l, type) ==
  AppendAll([i \in 1 .. Len(l) |-> IF l[i].type = type THEN <<Kept(l[i])>> ELSE <<>>], Len(l))
Received(p) == [p EXCEPT !.list = [t \in TransformTypes |-> Sorted(transformList(p), t)]]

\* Unmarshal of what Marshal wrote returns every proposal, number, SPI and
\* transform in order, unless 8+spiSize of an SPI does not fit in an octet: then
\* the slice behind the bounds check panics (payload_securityassociation.go:175,
\* 178, 181).
SARoundTrip ==
  damage = 0 /\ pc \in {"ok", "error", "panic"} =>
    IF \A i \in 1 .. Len(sa) : 8 + Len(sa[i].spi) <= Max8
    THEN pc = "ok" /\ got = [i \in 1 .. Len(sa) |-> Received(sa[i])]
    ELSE pc = "panic"

\* Where the proposals that were sent end in the octets.
EndOf(i) == Len(Encoded(sa, i))

\* Whatever happens to the octets, the proposals that lie wholly before the first
\* cut or changed octet are decoded as they were sent: the three nested lengths
\* cannot make Unmarshal read one proposal with the octets of another
\* (payload_securityassociation.go:162, 181, 248).
DamageStaysBehind ==
  \A i \in 1 .. Len(got) :
    i <= Len(sa) /\ (damage = 0 \/ EndOf(i) < damage) => got[i] = Received(sa[i])

\* Whatever arrives, b and transformData shrink by exactly what the headers
\* announce, and the transforms of a proposal lie inside it
\* (payload_securityassociation.go:162, 181, 192, 243, 248).
OctetsAccounted ==
  pc \in {"decode", "ok", "error", "panic"} =>
    /\ used + Len(rest) = Len(wire)
    /\ proposal # NoProposal =>
         8 + Len(proposal.spi) + Len(transformData) <= proposalLength(rest)

\* Unmarshal ends, whatever arrives: lengths below 8 are errors
\* (payload_securityassociation.go:159, 189).
UnmarshalTerminates == pc = "decode" ~> pc \in {"ok", "error", "panic"}

\* A variable-length attribute arrives with its value, as the decoding test asks of
\* every field ("require.Equal(t, *tc.expSA, sa)").
TransformsSurvive ==
  pc = "ok" /\ damage = 0 =>
    \A i \in 1 .. Len(sa) : transformList(got[i]) = transformList(sa[i])
==============================================================================

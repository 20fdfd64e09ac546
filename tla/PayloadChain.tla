----------------------------- MODULE PayloadChain -----------------------------
(***************************************************************************)
(* IKEPayloadContainer.Encode and Decode (src/message/message.go), octet   *)
(* by octet: the loop that frames payloads behind 4-octet generic headers, *)
(* the loop that takes them apart, and between them a network that may     *)
(* truncate the octets or change one.  The payloads are the ones whose     *)
(* Marshal writes a fixed prefix and then their data: KE, IDi, IDr, AUTH   *)
(* (prefix 4), CERT, CERTREQ (1), Ni/Nr, V, SK (0).                        *)
(*                                                                         *)
(* Octets (module Octets) may be scaled: the 16-bit length field holds     *)
(* Octet * Octet - 1 at most.                                              *)
(***************************************************************************)
EXTENDS Octets

CONSTANTS
  Known,        \* payload types with a case in Decode, SK among them
  SK,           \* the Encrypted payload's type
  Prefix,       \* octets that Marshal writes before the data, per type
  Containers,   \* the containers that are encoded
  MaxGot        \* bound: payloads decoded; no decoder that makes progress reaches it

NoNext == 0
HeaderLen == 4

Payload == [type: Known, data: Seq(Octets), next: Octets]   \* next: of Encrypted, 0 in the others

ASSUME ChainAssumption ==
  /\ Octet \in Nat /\ Octet > HeaderLen
  /\ Known \subseteq Octets \ {NoNext} /\ SK \in Known
  /\ Prefix \in [Known -> 0 .. HeaderLen] /\ Prefix[SK] = 0
  /\ Containers \subseteq Seq(Payload)
  /\ \A c \in Containers : \A i \in 1 .. Len(c) : c[i].type # SK => c[i].next = NoNext
  /\ MaxGot \in Nat

VARIABLES
  container,    \* what the sender encodes
  index,        \* payloads already encoded
  wire,         \* the octets produced, then received
  fate,         \* what the network did to them: "intact", "truncated" or "changed"
  nextPayload, rest, got,    \* Decode's variables nextPayload, b and *container
  used,         \* octets of the payloads that Decode has gone past
  pc            \* "encode", "wire", "decode", or how the call ended: "ok", "error", "unsent"

vars == <<container, index, wire, fate, nextPayload, rest, got, used, pc>>
decoding == <<nextPayload, rest, got, used>>

TypeOK ==
  /\ container \in Containers /\ index \in 0 .. Len(container)
  /\ wire \in Seq(Octets) /\ rest \in Seq(Octets)
  /\ fate \in {"intact", "truncated", "changed"}
  /\ nextPayload \in Octets
  /\ got \in Seq(Payload)
  /\ used \in Nat
  /\ pc \in {"encode", "wire", "decode", "ok", "error", "unsent"}

Init ==
  /\ container \in Containers
  /\ index = 0 /\ wire = <<>> /\ fate = "intact"
  /\ nextPayload = NoNext /\ rest = <<>> /\ got = <<>> /\ used = 0
  /\ pc = "encode"

------------------------------------------------------------------------------
(* Encode.                                                                   *)

Marshal(p) == Zeros(Prefix[p.type]) \o p.data
MarshalFails(p) == p.type = SK /\ p.data = <<>>

\* The first octet of the i-th generic header.
NextType(i) ==
  IF i < Len(container) THEN container[i + 1].type
  ELSE IF container[i].type = SK THEN container[i].next ELSE NoNext

TooLong_NoLimit(n) == FALSE
TooLong(n) == n > Max16

EncodePayload ==
  /\ pc = "encode" /\ index < Len(container)
  /\ LET p == container[index + 1]
         length == HeaderLen + Len(Marshal(p))
     IN  IF MarshalFails(p) \/ TooLong(length)
         THEN pc' = "unsent" /\ UNCHANGED <<index, wire>>
         ELSE /\ wire' = wire \o <<NextType(index + 1), 0>> \o PutUint16(length) \o Marshal(p)
              /\ index' = index + 1
              /\ UNCHANGED pc
  /\ UNCHANGED <<container, fate, decoding>>

\* IKEMessage.Encode: the header names the type of the first payload.
Send ==
  /\ pc = "encode" /\ index = Len(container)
  /\ nextPayload' = IF container = <<>> THEN NoNext ELSE container[1].type
  /\ pc' = "wire"
  /\ UNCHANGED <<container, index, wire, fate, rest, got, used>>

------------------------------------------------------------------------------
(* The network.                                                              *)

Receive(w, f) ==
  /\ pc = "wire"
  /\ wire' = w /\ rest' = w /\ fate' = f
  /\ pc' = "decode"
  /\ UNCHANGED <<container, index, nextPayload, got, used>>

Intact == Receive(wire, "intact")
Truncated == \E n \in 0 .. Len(wire) - 1 : Receive(SubSeq(wire, 1, n), "truncated")
Changed == \E i \in 1 .. Len(wire), o \in Octets :
             o # wire[i] /\ Receive([wire EXCEPT ![i] = o], "changed")

------------------------------------------------------------------------------
(* DecodePayload and the loop of Decode.                                     *)

Result(r) == pc' = r /\ UNCHANGED <<container, index, wire, fate, decoding>>

DecodeNothing ==
  /\ pc = "decode" /\ rest = <<>>
  /\ Result(IF nextPayload # NoNext /\ wire = <<>> THEN "error" ELSE "ok")

Length(b) == Uint16(b, 2)
Critical(b) == b[2] >= TopBit

GoodHeader_Overreads(b) == Len(b) >= HeaderLen /\ Length(b) >= HeaderLen
GoodHeader_Stalls(b) == Len(b) >= HeaderLen /\ Len(b) >= Length(b)
GoodHeader(b) == Len(b) >= HeaderLen /\ Length(b) >= HeaderLen /\ Len(b) >= Length(b)

DecodeRefused ==
  /\ pc = "decode" /\ rest # <<>>
  /\ ~ (GoodHeader(rest) /\ (nextPayload \in Known \/ ~ Critical(rest)))
  /\ Result("error")

\* b[4:payloadLength]
Body(b) == SubSeq(b, HeaderLen + 1, IF Length(b) <= Len(b) THEN Length(b) ELSE Len(b))
UnmarshalFails(t, body) == body # <<>> /\ Prefix[t] > 0 /\ Len(body) <= Prefix[t]
Unmarshal(t, b) ==
  [type |-> t, data |-> SubSeq(Body(b), Prefix[t] + 1, Len(Body(b))),
   next |-> IF t = SK THEN b[1] ELSE NoNext]

\* b = b[payloadLength:]
Advance ==
  /\ nextPayload' = rest[1]
  /\ rest' = SubSeq(rest, Length(rest) + 1, Len(rest))
  /\ used' = used + Length(rest)
  /\ UNCHANGED <<container, index, wire, fate, pc>>

DecodeSkip ==
  /\ pc = "decode" /\ rest # <<>> /\ GoodHeader(rest)
  /\ nextPayload \notin Known /\ ~ Critical(rest)
  /\ Advance
  /\ UNCHANGED got

DecodeKnown ==
  /\ pc = "decode" /\ rest # <<>> /\ GoodHeader(rest)
  /\ nextPayload \in Known
  /\ Len(got) < MaxGot
  /\ IF UnmarshalFails(nextPayload, Body(rest))
     THEN Result("error")
     ELSE Advance /\ got' = Append(got, Unmarshal(nextPayload, rest))

Next == \/ EncodePayload \/ Send
        \/ Intact \/ Truncated \/ Changed
        \/ DecodeNothing \/ DecodeRefused \/ DecodeSkip \/ DecodeKnown

\* The loops are sequential code: they run on until they return.
Spec == Init /\ [][Next]_vars /\ WF_vars(Next)

------------------------------------------------------------------------------
(* Properties.                                                               *)

\* The payloads that do not survive the peer's Unmarshal: an empty data field
\* behind a prefix (KE, ID, AUTH, CERT, CERTREQ) encodes but is refused.
Unreadable(p) == Prefix[p.type] > 0 /\ p.data = <<>>

\* What comes back: the payloads themselves, except that an Encrypted payload that
\* is not the last loses its NextPayload to the type of its successor
\* (message.go:83); no caller builds one.
Received ==
  [i \in 1 .. Len(container) |->
     IF container[i].type = SK THEN [container[i] EXCEPT !.next = NextType(i)] ELSE container[i]]

\* Decode of what Encode produced returns the same payloads in the same order,
\* Encrypted.NextPayload included, unless the peer's Unmarshal refuses one of
\* them.
ChainRoundTrip ==
  pc \in {"ok", "error"} /\ fate = "intact"
  => IF \E i \in 1 .. Len(container) : Unreadable(container[i])
     THEN pc = "error"
     ELSE pc = "ok" /\ got = Received

\* Whatever arrives, the loop takes from b exactly the octets that the headers it
\* accepts announce, and never more than there are (message.go:125).
Accounted == pc \in {"decode", "ok", "error"} => used + Len(rest) = Len(wire)

\* Every turn of the loop that does not return leaves less to decode: the header of
\* the payload at least (message.go:122, 173, 188).
DecodeAdvances ==
  [][pc = "decode" /\ pc' = "decode" => Len(rest') + HeaderLen <= Len(rest)]_vars

\* A message that was cut short is refused, or read as the payloads that are
\* whole: no payload is decoded from part of its octets.  The cut is noticed
\* inside a payload (message.go:118, 125) or before the first (message.go:59),
\* not between two payloads, where the loop simply ends.
TruncatedReadsPrefix ==
  pc = "ok" /\ fate = "truncated" => got = SubSeq(Received, 1, Len(got))

\* Decode returns, whatever octets arrive: a payload length below 4, which would
\* leave b as it is, is an error (message.go:122).
DecodeTerminates == pc = "decode" ~> pc \in {"ok", "error"}
==============================================================================

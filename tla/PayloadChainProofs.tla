-------------------------- MODULE PayloadChainProofs --------------------------
(***************************************************************************)
(* Proofs about PayloadChain for every size of an octet, every set of      *)
(* payload types and every container: type correctness, Accounted,         *)
(* DecodeAdvances, the safety half of DecodeTerminates, and the two        *)
(* properties of what is read, ChainRoundTrip and TruncatedReadsPrefix.    *)
(***************************************************************************)
EXTENDS PayloadChain, OctetLemmas

\* Before the octets arrive Decode has used none of them.
NotStarted == pc \in {"encode", "wire", "unsent"} => used = 0

\* The inductive invariant: Accounted alone is not preserved by the arrival of the
\* octets, which sets b to all of them but leaves what was used alone.
IInv == TypeOK /\ NotStarted /\ Accounted

------------------------------------------------------------------------------

\* A big-endian 16-bit integer is a natural number, and PutUint16 yields octets.
LEMMA Uint16Type ==
  /\ \A b \in Seq(Octets), i \in Nat : i + 2 <= Len(b) => Uint16(b, i) \in Nat
  /\ \A n \in Nat : PutUint16(n) \in Seq(Octets)
<1>1. ASSUME NEW b \in Seq(Octets), NEW i \in Nat, i + 2 <= Len(b)
      PROVE  Uint16(b, i) \in Nat
  <2>1. b[i + 1] \in Nat /\ b[i + 2] \in Nat
    BY <1>1, ChainAssumption, SMTT(60) DEF Octets
  <2>2. b[i + 1] * Octet \in Nat
    BY <2>1, ChainAssumption
  <2> QED
    BY <2>1, <2>2 DEF Uint16
<1>2. ASSUME NEW n \in Nat
      PROVE  PutUint16(n) \in Seq(Octets)
  <2>1. n \div Octet \in Nat
    BY ChainAssumption DEF HeaderLen
  <2>2. (n \div Octet) % Octet \in Octets /\ n % Octet \in Octets
    BY <2>1, ChainAssumption DEF Octets, HeaderLen
  <2> QED
    BY <2>2 DEF PutUint16
<1> QED
  BY <1>1, <1>2

\* A header that Decode accepts announces a length between the header's and what is
\* left of b.
LEMMA GoodLength ==
  ASSUME NEW b \in Seq(Octets), GoodHeader(b)
  PROVE  Length(b) \in Nat /\ HeaderLen <= Length(b) /\ Length(b) <= Len(b) /\ HeaderLen <= Len(b)
BY Uint16Type DEF GoodHeader, Length, HeaderLen

\* The octets of a suffix: b[n:].
LEMMA Suffix ==
  ASSUME NEW S, NEW b \in Seq(S), NEW n \in Nat, n <= Len(b)
  PROVE  SubSeq(b, n + 1, Len(b)) \in Seq(S) /\ Len(SubSeq(b, n + 1, Len(b))) = Len(b) - n
OBVIOUS

\* What Marshal writes are octets.
LEMMA MarshalType ==
  ASSUME NEW p \in Payload
  PROVE  Marshal(p) \in Seq(Octets) /\ Len(Marshal(p)) \in Nat
<1>1. Prefix[p.type] \in Nat
  BY ChainAssumption DEF Payload, HeaderLen
<1>2. Zeros(Prefix[p.type]) \in Seq(Octets)
  <2>1. 0 \in Octets
    BY ChainAssumption DEF Octets, HeaderLen
  <2> QED
    BY <1>1, <2>1 DEF Zeros
<1> QED
  BY <1>2 DEF Marshal, Payload

\* What Unmarshal returns for an accepted header and a known type is a payload.
LEMMA UnmarshalType ==
  ASSUME NEW b \in Seq(Octets), GoodHeader(b), NEW t \in Known,
         ~ UnmarshalFails(t, Body(b))
  PROVE  Unmarshal(t, b) \in Payload
<1>1. Body(b) \in Seq(Octets)
  BY GoodLength DEF Body, HeaderLen
<1>2. Prefix[t] \in Nat
  BY ChainAssumption DEF HeaderLen
<1>3. Prefix[t] <= Len(Body(b)) \/ Body(b) = <<>>
  BY <1>1, <1>2 DEF UnmarshalFails
<1>4. SubSeq(Body(b), Prefix[t] + 1, Len(Body(b))) \in Seq(Octets)
  BY <1>1, <1>2, <1>3
<1>5. b[1] \in Octets /\ NoNext \in Octets
  BY GoodLength, ChainAssumption DEF HeaderLen, Octets, NoNext
<1> QED
  BY <1>4, <1>5 DEF Unmarshal, Payload

------------------------------------------------------------------------------

\* At the beginning nothing is encoded.
LEMMA InitIInv == Init => IInv
<1> SUFFICES ASSUME Init PROVE IInv
  OBVIOUS
<1>1. NoNext \in Octets
  BY ChainAssumption DEF Octets, NoNext, HeaderLen
<1>2. container \in Seq(Payload)
  BY ChainAssumption DEF Init
<1> QED
  BY <1>1, <1>2 DEF Init, IInv, TypeOK, NotStarted, Accounted

\* One turn of Encode's loop and the call of Encode that ends it.
LEMMA EncodeIInv == IInv /\ (EncodePayload \/ Send) => IInv'
<1> SUFFICES ASSUME IInv, EncodePayload \/ Send PROVE IInv'
  OBVIOUS
<1> USE DEF IInv, TypeOK, NotStarted, Accounted
<1>1. container \in Seq(Payload) /\ Known \subseteq Octets /\ NoNext \in Octets /\ 0 \in Octets
  BY ChainAssumption DEF Octets, NoNext, HeaderLen
<1>2. \A i \in 1 .. Len(container) : container[i].type \in Octets /\ container[i].next \in Octets
  <2>1. \A i \in 1 .. Len(container) : container[i] \in Payload
    BY <1>1
  <2> QED
    BY <1>1, <2>1 DEF Payload
<1>3. CASE EncodePayload
  <2> DEFINE p == container[index + 1]
             length == HeaderLen + Len(Marshal(p))
  <2>1. index + 1 \in 1 .. Len(container) /\ p \in Payload
    BY <1>1, <1>3 DEF EncodePayload
  <2>2. NextType(index + 1) \in Octets
    <3>1. CASE index + 1 < Len(container)
      BY <1>2, <2>1, <3>1 DEF NextType
    <3>2. CASE ~ (index + 1 < Len(container))
      BY <1>1, <1>2, <2>1, <3>2 DEF NextType
    <3> QED
      BY <3>1, <3>2
  <2>3. Marshal(p) \in Seq(Octets) /\ length \in Nat
    BY <2>1, MarshalType DEF HeaderLen
  <2>4. PutUint16(length) \in Seq(Octets)
    BY <2>3, Uint16Type
  <2>5. <<NextType(index + 1), 0>> \in Seq(Octets)
    BY <2>2, <1>1
  <2>6. wire \o <<NextType(index + 1), 0>> \o PutUint16(length) \o Marshal(p) \in Seq(Octets)
    BY <2>3, <2>4, <2>5
  <2>7. \/ pc' = "unsent" /\ UNCHANGED <<index, wire>>
        \/ /\ wire' = wire \o <<NextType(index + 1), 0>> \o PutUint16(length) \o Marshal(p)
           /\ index' = index + 1 /\ UNCHANGED pc
    BY <1>3, SMTT(60) DEF EncodePayload
  <2>8. wire' \in Seq(Octets)
    BY <2>6, <2>7, Zenon
  <2>9. index' \in 0 .. Len(container)
    <3>1. index' = index \/ index' = index + 1
      BY <2>7
    <3> QED
      BY <2>1, <3>1
  <2>10. pc' \in {"encode", "unsent"}
    BY <2>7, <1>3 DEF EncodePayload
  <2> QED
    BY <2>8, <2>9, <2>10, <1>3 DEF EncodePayload, decoding
<1>4. CASE Send
  <2>1. nextPayload' \in Octets
    <3>1. container = <<>> \/ 1 \in 1 .. Len(container)
      BY <1>1
    <3> QED
      BY <1>1, <1>4, <1>2, <3>1 DEF Send
  <2> QED
    BY <2>1, <1>4 DEF Send
<1> QED
  BY <1>3, <1>4

\* The octets arrive, all of them, fewer, or with one changed.
LEMMA ReceiveIInv == IInv /\ (Intact \/ Truncated \/ Changed) => IInv'
<1> SUFFICES ASSUME IInv, Intact \/ Truncated \/ Changed PROVE IInv'
  OBVIOUS
<1>1. PICK w, f : /\ Receive(w, f) /\ w \in Seq(Octets)
                  /\ f \in {"intact", "truncated", "changed"}
  <2>1. CASE Intact
    BY <2>1 DEF Intact, IInv, TypeOK
  <2>2. CASE Truncated
    <3>1. PICK n \in 0 .. Len(wire) - 1 : Receive(SubSeq(wire, 1, n), "truncated")
      BY <2>2 DEF Truncated
    <3>2. SubSeq(wire, 1, n) \in Seq(Octets)
      BY DEF IInv, TypeOK
    <3> QED
      BY <3>1, <3>2, Zenon
  <2>3. CASE Changed
    <3>1. PICK i \in 1 .. Len(wire), o \in Octets : Receive([wire EXCEPT ![i] = o], "changed")
      BY <2>3 DEF Changed
    <3>2. [wire EXCEPT ![i] = o] \in Seq(Octets)
      BY DEF IInv, TypeOK
    <3> QED
      BY <3>1, <3>2
  <2> QED
    BY <2>1, <2>2, <2>3
<1>2. used = 0
  BY <1>1 DEF IInv, NotStarted, Receive
<1> QED
  BY <1>1, <1>2 DEF Receive, IInv, TypeOK, NotStarted, Accounted

\* b = b[payloadLength:] behind an accepted header.
LEMMA AdvanceIInv ==
  ASSUME IInv, pc = "decode", GoodHeader(rest), Advance, got' \in Seq(Payload)
  PROVE  IInv' /\ Len(rest') + HeaderLen <= Len(rest)
<1>1. /\ Length(rest) \in Nat /\ HeaderLen <= Length(rest)
      /\ Length(rest) <= Len(rest) /\ HeaderLen <= Len(rest)
  BY GoodLength DEF IInv, TypeOK
<1>2. rest' \in Seq(Octets) /\ Len(rest') = Len(rest) - Length(rest)
  BY <1>1, Suffix, SMTT(60) DEF Advance, IInv, TypeOK
<1>3. rest[1] \in Octets
  BY <1>1 DEF IInv, TypeOK, HeaderLen
<1>4. TypeOK' /\ NotStarted'
  <2>1. used' \in Nat
    BY <1>1, SMTT(60) DEF Advance, IInv, TypeOK
  <2>2. nextPayload' \in Octets
    BY <1>3 DEF Advance
  <2>3. UNCHANGED <<container, index, wire, fate, pc>>
    BY DEF Advance
  <2> QED
    BY <1>2, <2>1, <2>2, <2>3 DEF IInv, TypeOK, NotStarted
<1>5. Accounted' /\ Len(rest') + HeaderLen <= Len(rest)
  <2>1. used + Len(rest) = Len(wire) /\ used \in Nat /\ Len(rest) \in Nat
    BY DEF IInv, Accounted, TypeOK
  <2>2. used' = used + Length(rest) /\ wire' = wire
    BY DEF Advance
  <2> QED
    BY <1>1, <1>2, <2>1, <2>2, SMTT(60) DEF Accounted, HeaderLen
<1> QED
  BY <1>4, <1>5 DEF IInv

\* A turn of Decode's loop returns, or takes at least a header from b.
LEMMA DecodeIInv ==
  ASSUME IInv, DecodeNothing \/ DecodeRefused \/ DecodeSkip \/ DecodeKnown
  PROVE  /\ IInv'
         /\ pc' = "decode" => Len(rest') + HeaderLen <= Len(rest)
<1>1. ASSUME NEW r \in {"ok", "error"}, pc = "decode", Result(r)
      PROVE  IInv' /\ pc' # "decode"
  BY <1>1 DEF Result, decoding, IInv, TypeOK, NotStarted, Accounted
<1>2. CASE DecodeNothing
  <2>1. PICK r \in {"ok", "error"} : Result(r) /\ pc = "decode"
    BY <1>2 DEF DecodeNothing
  <2> QED
    BY <2>1, <1>1
<1>3. CASE DecodeRefused
  BY <1>1, <1>3 DEF DecodeRefused
<1>4. CASE DecodeSkip
  BY <1>4, AdvanceIInv DEF DecodeSkip, IInv, TypeOK
<1>5. CASE DecodeKnown
  <2>1. CASE UnmarshalFails(nextPayload, Body(rest))
    BY <1>1, <1>5, <2>1 DEF DecodeKnown
  <2>2. CASE ~ UnmarshalFails(nextPayload, Body(rest))
    <3>1. Unmarshal(nextPayload, rest) \in Payload
      BY <1>5, <2>2, UnmarshalType DEF DecodeKnown, IInv, TypeOK
    <3>2. got' \in Seq(Payload)
      BY <1>5, <2>2, <3>1 DEF DecodeKnown, IInv, TypeOK
    <3> QED
      BY <1>5, <2>2, <3>2, AdvanceIInv DEF DecodeKnown
  <2> QED
    BY <2>1, <2>2
<1> QED
  BY <1>2, <1>3, <1>4, <1>5

\* A step that changes nothing preserves it too.
LEMMA StutterIInv == IInv /\ UNCHANGED vars => IInv'
BY DEF IInv, TypeOK, NotStarted, Accounted, vars

\* Every step preserves the invariant.
LEMMA NextIInv == IInv /\ [Next]_vars => IInv'
BY EncodeIInv, ReceiveIInv, DecodeIInv, StutterIInv DEF Next

\* The invariant holds in every state.
LEMMA IInvHolds == Spec => []IInv
BY InitIInv, NextIInv, PTL DEF Spec

------------------------------------------------------------------------------

\* Every variable of Encode and Decode keeps its type: in particular the payloads
\* decoded from any octets are well formed (message.go:73, 115).
THEOREM TypeCorrect == Spec => []TypeOK
<1>1. IInv => TypeOK
  BY DEF IInv
<1> QED
  BY <1>1, IInvHolds, PTL

\* Whatever arrives, Decode takes from b exactly the octets that the headers it
\* accepts announce (message.go:125, 188), whatever the width of an octet.
THEOREM AccountedHolds == Spec => []Accounted
<1>1. IInv => Accounted
  BY DEF IInv
<1> QED
  BY <1>1, IInvHolds, PTL

\* Every turn of Decode's loop that does not return takes a header at least from
\* b (message.go:122): with b finite, the loop ends.
THEOREM DecodeAdvancesHolds == Spec => DecodeAdvances
<1> DEFINE A == pc = "decode" /\ pc' = "decode" => Len(rest') + HeaderLen <= Len(rest)
<1>1. ASSUME IInv, [Next]_vars PROVE [A]_vars
  <2>1. CASE EncodePayload \/ Send \/ Intact \/ Truncated \/ Changed
    BY <2>1 DEF EncodePayload, Send, Intact, Truncated, Changed, Receive
  <2>2. CASE DecodeNothing \/ DecodeRefused \/ DecodeSkip \/ DecodeKnown
    BY <1>1, <2>2, DecodeIInv
  <2> QED
    BY <1>1, <2>1, <2>2 DEF Next
<1>2. Spec => [][A]_vars
  BY <1>1, IInvHolds, PTL DEF Spec
<1> QED
  BY <1>2 DEF DecodeAdvances
------------------------------------------------------------------------------
(* The round trip.                                                           *)

\* The next-payload octet, the generic header and the octets of the i-th payload of
\* container c, and the type by which Decode knows the payload behind the i-th.
NextIn(c, i) == IF i < Len(c) THEN c[i + 1].type ELSE IF c[i].type = SK THEN c[i].next ELSE NoNext
FrameLen(c, i) == HeaderLen + Len(Marshal(c[i]))
Frame(c, i) == <<NextIn(c, i), 0>> \o PutUint16(FrameLen(c, i)) \o Marshal(c[i])
TypeBehind(c, i) == IF i > 0 THEN NextIn(c, i) ELSE IF c = <<>> THEN NoNext ELSE c[1].type

\* What Decode makes of the i-th payload of c.
ReadAs(c, i) == IF c[i].type = SK THEN [c[i] EXCEPT !.next = NextIn(c, i)] ELSE c[i]

\* Encode accepts the first n payloads of c.
Sendable(c, n) == \A i \in 1 .. n : ~ MarshalFails(c[i]) /\ ~ TooLong(FrameLen(c, i))

\* The octets w are those of the first n payloads of c, or a prefix of them; the i-th
\* payload ends at off[i].
Layout(c, n, off, w) ==
  /\ off \in [0 .. n -> Nat] /\ off[0] = 0
  /\ \A i \in 1 .. n : off[i] = off[i - 1] + FrameLen(c, i)
  /\ \A i \in 0 .. n : off[i] <= off[n]
  /\ Len(w) <= off[n]
  /\ \A i \in 1 .. n : \A k \in 1 .. FrameLen(c, i) :
        off[i - 1] + k <= Len(w) => w[off[i - 1] + k] = Frame(c, i)[k]

\* The octets of b are those of the i-th payload of c as far as they go.
Begins(c, i, b) == \A k \in 1 .. FrameLen(c, i) : k <= Len(b) => b[k] = Frame(c, i)[k]

\* The next-payload octet is an octet.
LEMMA NextInType ==
  ASSUME NEW c \in Seq(Payload), NEW i \in 1 .. Len(c)
  PROVE  NextIn(c, i) \in Octets
<1>1. NoNext \in Octets /\ Known \subseteq Octets
  BY ChainAssumption DEF HeaderLen, Octets, NoNext
<1>2. c[i] \in Payload /\ (i < Len(c) => c[i + 1] \in Payload)
  OBVIOUS
<1> QED BY <1>1, <1>2 DEF NextIn, Payload

\* The octets of a payload behind its header: what Encode writes (message.go:77-107).
LEMMA FrameOctets ==
  ASSUME NEW c \in Seq(Payload), NEW i \in 1 .. Len(c), ~ TooLong(FrameLen(c, i))
  PROVE  /\ FrameLen(c, i) \in Nat /\ FrameLen(c, i) >= HeaderLen
         /\ Frame(c, i) \in Seq(Octets)
         /\ Len(Frame(c, i)) = FrameLen(c, i)
         /\ Frame(c, i)[1] = NextIn(c, i) /\ Frame(c, i)[2] = 0
         /\ Frame(c, i)[3] * Octet + Frame(c, i)[4] = FrameLen(c, i)
         /\ \A k \in 1 .. Len(Marshal(c[i])) : Frame(c, i)[HeaderLen + k] = Marshal(c[i])[k]
<1> DEFINE m == Marshal(c[i])
           h == PutUint16(FrameLen(c, i))
           t == NextIn(c, i)
<1>1. c[i] \in Payload
  OBVIOUS
<1>2. m \in Seq(Octets) /\ Len(m) \in Nat
  BY <1>1, MarshalType
<1>3. FrameLen(c, i) \in Nat /\ FrameLen(c, i) = 4 + Len(m)
  BY <1>2 DEF FrameLen, HeaderLen
<1>4. h[1] * Octet + h[2] = FrameLen(c, i)
  <2>1. Octet \in Nat /\ Octet > 0 /\ FrameLen(c, i) < Word
    BY <1>3, ChainAssumption DEF HeaderLen, TooLong, Max16, Word
  <2> QED BY <1>3, <2>1, Put16
<1>5. h = <<h[1], h[2]>>
  BY DEF PutUint16
<1>6. Frame(c, i) = <<t, 0>> \o h \o m
  BY DEF Frame
<1> HIDE DEF m, h, t
<1>7. t \in Octets /\ 0 \in Octets /\ h[1] \in Octets /\ h[2] \in Octets
  <2>1. 0 \in Octets
    BY ChainAssumption DEF HeaderLen, Octets
  <2>2. t \in Octets
    BY NextInType DEF t
  <2>3. h[1] \in Octets /\ h[2] \in Octets
    <3>1. FrameLen(c, i) \div Octet \in Nat
      BY <1>3, ChainAssumption DEF HeaderLen
    <3> QED BY <3>1, <1>3, ChainAssumption DEF HeaderLen, h, PutUint16, Octets
  <2> QED BY <2>1, <2>2, <2>3
<1>8. LET f == Frame(c, i)
      IN  /\ f \in Seq(Octets) /\ Len(f) = 4 + Len(m) /\ f[1] = t /\ f[2] = 0 /\ f[3] = h[1] /\ f[4] = h[2]
          /\ \A k \in 1 .. Len(m) : f[4 + k] = m[k]
  <2>1. Frame(c, i) = <<t, 0>> \o <<h[1], h[2]>> \o m
    BY <1>5, <1>6, Zenon
  <2> QED BY <2>1, <1>2, <1>7, FourAndRest
<1> QED BY <1>2, <1>3, <1>4, <1>8 DEF m, t, HeaderLen
\* A header whose octets are those of a payload's header tells the payload's length
\* and its successor's type (message.go:119-121, 187).
LEMMA FrameHeader ==
  ASSUME NEW c \in Seq(Payload), NEW i \in 1 .. Len(c), ~ TooLong(FrameLen(c, i)),
         NEW b \in Seq(Octets), Begins(c, i, b), Len(b) >= HeaderLen
  PROVE  Length(b) = FrameLen(c, i) /\ b[1] = NextIn(c, i) /\ ~ Critical(b)
<1> DEFINE f == Frame(c, i)
<1>1. FrameLen(c, i) \in Nat /\ FrameLen(c, i) >= HeaderLen /\ f[1] = NextIn(c, i) /\ f[2] = 0
      /\ f[3] * Octet + f[4] = FrameLen(c, i)
  BY FrameOctets
<1> HIDE DEF f
<1>2. \A k \in 1 .. 4 : k \in 1 .. FrameLen(c, i) /\ k <= Len(b)
  BY <1>1 DEF HeaderLen
<1>3. \A k \in 1 .. 4 : b[k] = f[k]
  BY <1>2 DEF Begins, f
<1>4. b[1] = f[1] /\ b[2] = f[2] /\ b[3] = f[3] /\ b[4] = f[4]
  BY <1>3
<1>5. Length(b) = FrameLen(c, i)
  BY <1>1, <1>4 DEF Length, Uint16
<1>6. ~ Critical(b)
  <2>1. TopBit >= 1
    BY ChainAssumption DEF TopBit, HeaderLen
  <2>2. TopBit \in Nat
    BY ChainAssumption DEF TopBit, HeaderLen
  <2> QED BY <1>1, <1>4, <2>1, <2>2 DEF Critical
<1> QED BY <1>1, <1>4, <1>5, <1>6

\* b[4:payloadLength] of the octets of a payload is what Marshal wrote.
LEMMA FrameBody ==
  ASSUME NEW c \in Seq(Payload), NEW i \in 1 .. Len(c), ~ TooLong(FrameLen(c, i)),
         NEW b \in Seq(Octets), Begins(c, i, b), FrameLen(c, i) <= Len(b)
  PROVE  Body(b) = Marshal(c[i])
<1> DEFINE m == Marshal(c[i])
<1>1. m \in Seq(Octets) /\ Len(m) \in Nat
  BY MarshalType
<1>2. FrameLen(c, i) = 4 + Len(m) /\ HeaderLen = 4
  BY DEF FrameLen, HeaderLen
<1>3. Length(b) = FrameLen(c, i)
  BY <1>1, <1>2, FrameHeader
<1>4. \A k \in 1 .. Len(m) : Frame(c, i)[4 + k] = m[k]
  BY <1>2, FrameOctets
<1> HIDE DEF m
<1>5. Body(b) = SubSeq(b, 5, 4 + Len(m))
  BY <1>1, <1>2, <1>3 DEF Body
<1>6. Body(b) \in Seq(Octets) /\ Len(Body(b)) = Len(m)
  BY <1>1, <1>2, <1>5
<1>7. ASSUME NEW k \in 1 .. Len(m) PROVE Body(b)[k] = m[k]
  <2>1. Body(b)[k] = b[4 + k]
    BY <1>1, <1>2, <1>5
  <2>2. 4 + k \in 1 .. FrameLen(c, i) /\ 4 + k <= Len(b)
    BY <1>1, <1>2
  <2>3. b[4 + k] = Frame(c, i)[4 + k]
    BY <2>2 DEF Begins
  <2> QED BY <2>1, <2>3, <1>4
<1>8. Body(b) = m
  BY <1>1, <1>6, <1>7
<1> QED BY <1>8 DEF m

\* What Unmarshal finds behind the prefix is the data; it refuses a body that has a
\* prefix and nothing behind it.
LEMMA MarshalParts ==
  ASSUME NEW p \in Payload
  PROVE  /\ SubSeq(Marshal(p), Prefix[p.type] + 1, Len(Marshal(p))) = p.data
         /\ UnmarshalFails(p.type, Marshal(p)) <=> Unreadable(p)
<1> DEFINE k == Prefix[p.type]
           d == p.data
           m == Marshal(p)
<1>1. k \in Nat /\ d \in Seq(Octets)
  BY ChainAssumption DEF Payload, HeaderLen
<1>2. Zeros(k) \in Seq(Octets) /\ Len(Zeros(k)) = k
  <2>1. 0 \in Octets
    BY ChainAssumption DEF Octets, HeaderLen
  <2> QED BY <1>1, <2>1 DEF Zeros
<1>3. m = Zeros(k) \o d
  BY DEF Marshal
<1>4. Joined(Octets, m, Zeros(k), d)
  BY <1>1, <1>2, <1>3, Concat
<1> HIDE DEF m, k, d
<1>5. m \in Seq(Octets) /\ Len(m) = k + Len(d) /\ \A j \in 1 .. Len(d) : m[k + j] = d[j]
  BY <1>2, <1>4 DEF Joined
<1>6. SubSeq(m, k + 1, Len(m)) = d
  <2> DEFINE s == SubSeq(m, k + 1, Len(m))
  <2>1. s \in Seq(Octets) /\ Len(s) = Len(d)
    BY <1>1, <1>5
  <2>2. \A j \in 1 .. Len(d) : s[j] = m[k + j]
    BY <1>1, <1>5
  <2> HIDE DEF s
  <2>3. \A j \in 1 .. Len(d) : s[j] = d[j]
    BY <1>5, <2>2
  <2>4. s = d
    BY <1>1, <2>1, <2>3
  <2> QED BY <2>4 DEF s
<1>7. UnmarshalFails(p.type, m) <=> k > 0 /\ d = <<>>
  <2>1. d = <<>> <=> Len(d) = 0
    BY <1>1
  <2>2. m = <<>> <=> Len(m) = 0
    BY <1>5
  <2> QED BY <1>1, <1>5, <2>1, <2>2 DEF UnmarshalFails, k
<1> QED BY <1>6, <1>7 DEF m, k, d, Unreadable

\* Unmarshal of the octets of a payload returns the payload.
LEMMA FrameRead ==
  ASSUME NEW c \in Seq(Payload), NEW i \in 1 .. Len(c), ~ TooLong(FrameLen(c, i)),
         NEW b \in Seq(Octets), Begins(c, i, b), FrameLen(c, i) <= Len(b),
         c[i].type # SK => c[i].next = NoNext
  PROVE  /\ Unmarshal(c[i].type, b) = ReadAs(c, i)
         /\ UnmarshalFails(c[i].type, Body(b)) <=> Unreadable(c[i])
<1>1. c[i] \in Payload
  OBVIOUS
<1>2. Body(b) = Marshal(c[i])
  BY FrameBody
<1>3. b[1] = NextIn(c, i)
  <2>1. Len(b) >= HeaderLen
    <3>1. FrameLen(c, i) \in Nat /\ FrameLen(c, i) >= HeaderLen
      BY FrameOctets
    <3> QED BY <3>1 DEF HeaderLen
  <2> QED BY <2>1, FrameHeader
<1>4. Unmarshal(c[i].type, b)
        = [type |-> c[i].type, data |-> c[i].data,
           next |-> IF c[i].type = SK THEN NextIn(c, i) ELSE NoNext]
  BY <1>1, <1>2, <1>3, MarshalParts, Zenon DEF Unmarshal
<1>5. c[i] = [type |-> c[i].type, data |-> c[i].data, next |-> c[i].next]
  BY <1>1 DEF Payload
<1>6. UnmarshalFails(c[i].type, Body(b)) <=> Unreadable(c[i])
  BY <1>1, <1>2, MarshalParts
<1>7. CASE c[i].type = SK
  <2>1. [c[i] EXCEPT !.next = NextIn(c, i)] = [type |-> c[i].type, data |-> c[i].data, next |-> NextIn(c, i)]
    BY <1>1, SMTT(60) DEF Payload
  <2> QED BY <1>4, <1>6, <1>7, <2>1 DEF ReadAs
<1>8. CASE c[i].type # SK
  BY <1>4, <1>5, <1>6, <1>8 DEF ReadAs
<1> QED BY <1>7, <1>8
------------------------------------------------------------------------------

\* No octets are no payloads.
LEMMA LayoutEmpty ==
  ASSUME NEW c
  PROVE  \E off : Layout(c, 0, off, <<>>) /\ off[0] = Len(<<>>)
<1> DEFINE o == [i \in 0 .. 0 |-> 0]
<1>1. o \in [0 .. 0 -> Nat] /\ o[0] = 0 /\ \A i \in 0 .. 0 : o[i] <= o[0]
  OBVIOUS
<1> HIDE DEF o
<1>2. Layout(c, 0, o, <<>>) /\ o[0] = Len(<<>>)
  BY <1>1 DEF Layout
<1> QED BY <1>2

\* One turn of Encode's loop appends the octets of the next payload.
LEMMA LayoutExtends ==
  ASSUME NEW c \in Seq(Payload), NEW n \in Nat, n < Len(c), ~ TooLong(FrameLen(c, n + 1)),
         NEW w \in Seq(Octets), NEW off, Layout(c, n, off, w), off[n] = Len(w)
  PROVE  \E o : /\ Layout(c, n + 1, o, w \o Frame(c, n + 1))
                /\ o[n + 1] = Len(w \o Frame(c, n + 1))
<1> DEFINE f == Frame(c, n + 1)
           l == FrameLen(c, n + 1)
           v == w \o f
           o == [i \in 0 .. n + 1 |-> IF i <= n THEN off[i] ELSE off[n] + l]
<1>1. n + 1 \in 1 .. Len(c)
  OBVIOUS
<1>2. f \in Seq(Octets) /\ Len(f) = l /\ l \in Nat
  BY <1>1, FrameOctets
<1>3. Joined(Octets, v, w, f)
  BY <1>2, Concat
<1>4. /\ off \in [0 .. n -> Nat] /\ off[0] = 0
      /\ \A i \in 1 .. n : off[i] = off[i - 1] + FrameLen(c, i)
      /\ \A i \in 0 .. n : off[i] <= off[n]
      /\ \A i \in 1 .. n : \A k \in 1 .. FrameLen(c, i) :
            off[i - 1] + k <= Len(w) => w[off[i - 1] + k] = Frame(c, i)[k]
  BY DEF Layout
<1>5. /\ Len(v) = off[n] + l
      /\ \A k \in 1 .. off[n] : v[k] = w[k]
      /\ \A k \in 1 .. l : v[off[n] + k] = f[k]
  BY <1>2, <1>3, Zenon DEF Joined
<1>6. /\ o \in [0 .. n + 1 -> Nat]
      /\ \A i \in 0 .. n : o[i] = off[i]
      /\ o[n + 1] = off[n] + l
  BY <1>2, <1>4
<1> HIDE DEF f, l, v, o
<1>7. o[0] = 0 /\ o[n + 1] = Len(v) /\ Len(v) <= o[n + 1]
  BY <1>2, <1>4, <1>5, <1>6
<1>8. \A i \in 1 .. n + 1 : o[i] = o[i - 1] + FrameLen(c, i)
  <2> SUFFICES ASSUME NEW i \in 1 .. n + 1 PROVE o[i] = o[i - 1] + FrameLen(c, i)
    OBVIOUS
  <2>1. CASE i = n + 1
    <3>1. i - 1 = n /\ n \in 0 .. n
      BY <2>1
    <3> QED BY <1>6, <2>1, <3>1 DEF l
  <2>2. CASE i # n + 1
    <3>1. i \in 1 .. n /\ i \in 0 .. n /\ i - 1 \in 0 .. n
      BY <2>2
    <3> QED BY <1>4, <1>6, <3>1
  <2> QED BY <2>1, <2>2
<1>9. \A i \in 0 .. n + 1 : o[i] <= o[n + 1]
  <2> SUFFICES ASSUME NEW i \in 0 .. n + 1 PROVE o[i] <= o[n + 1]
    OBVIOUS
  <2>1. CASE i = n + 1
    BY <1>2, <1>4, <1>6, <2>1
  <2>2. CASE i # n + 1
    <3>1. i \in 0 .. n
      BY <2>2
    <3> QED BY <1>2, <1>4, <1>6, <3>1
  <2> QED BY <2>1, <2>2
<1>10. ASSUME NEW i \in 1 .. n + 1, NEW k \in 1 .. FrameLen(c, i), o[i - 1] + k <= Len(v)
       PROVE  v[o[i - 1] + k] = Frame(c, i)[k]
  <2>1. CASE i = n + 1
    <3>1. o[i - 1] = off[n] /\ k \in 1 .. l
      BY <1>6, <2>1 DEF l
    <3> QED BY <1>5, <2>1, <3>1 DEF f
  <2>2. CASE i # n + 1
    <3>1. i \in 1 .. n /\ i \in 0 .. n /\ i - 1 \in 0 .. n
      BY <2>2
    <3>2. /\ off[i - 1] \in Nat /\ off[i] = off[i - 1] + FrameLen(c, i) /\ off[i] <= off[n]
          /\ off[i] \in Nat /\ off[n] \in Nat /\ o[i - 1] = off[i - 1]
      BY <1>4, <1>6, <3>1
    <3>3. i \in 1 .. Len(c)
      BY <3>1
    <3>4. FrameLen(c, i) \in Nat
      BY <3>3, MarshalType DEF FrameLen, HeaderLen
    <3>5. off[i - 1] + k \in 1 .. off[n] /\ off[i - 1] + k <= Len(w)
      BY <3>2, <3>4, SMTT(60)
    <3> QED BY <1>4, <1>5, <3>1, <3>2, <3>5, SMTT(60)
  <2> QED BY <2>1, <2>2
<1>11. Layout(c, n + 1, o, v)
  BY <1>6, <1>7, <1>8, <1>9, <1>10 DEF Layout
<1> QED BY <1>7, <1>11 DEF v, f

\* A message that was cut keeps the layout of what is left.
LEMMA LayoutCut ==
  ASSUME NEW c, NEW n, NEW off, NEW w \in Seq(Octets), Layout(c, n, off, w), NEW m \in 0 .. Len(w),
         n \in Nat
  PROVE  Layout(c, n, off, SubSeq(w, 1, m))
<1> DEFINE v == SubSeq(w, 1, m)
<1>1. v \in Seq(Octets) /\ Len(v) = m /\ \A k \in 1 .. m : v[k] = w[k]
  OBVIOUS
<1> HIDE DEF v
<1>2. off \in [0 .. n -> Nat] /\ Len(w) <= off[n] /\ off[n] \in Nat
  BY DEF Layout
<1>3. ASSUME NEW i \in 1 .. n, NEW k \in 1 .. FrameLen(c, i), off[i - 1] + k <= Len(v)
      PROVE  v[off[i - 1] + k] = Frame(c, i)[k]
  <2>1. off[i - 1] \in Nat
    BY <1>2
  <2>2. off[i - 1] + k \in 1 .. m /\ off[i - 1] + k <= Len(w)
    BY <1>1, <1>3, <2>1
  <2> QED BY <1>1, <2>2, Zenon DEF Layout
<1>4. Len(v) <= off[n]
  BY <1>1, <1>2
<1> QED BY <1>3, <1>4, Zenon DEF Layout, v

\* What is left behind j payloads begins with the next one.
LEMMA LayoutRest ==
  ASSUME NEW c, NEW n \in Nat, NEW off, NEW w \in Seq(Octets), Layout(c, n, off, w),
         NEW j \in 0 .. n - 1, off[j] <= Len(w)
  PROVE  Begins(c, j + 1, SubSeq(w, off[j] + 1, Len(w)))
<1> DEFINE b == SubSeq(w, off[j] + 1, Len(w))
<1>1. off[j] \in Nat
  BY DEF Layout
<1>2. Len(b) = Len(w) - off[j] /\ \A k \in 1 .. Len(w) - off[j] : b[k] = w[off[j] + k]
  <2> DEFINE u == off[j]
  <2>1. u \in Nat /\ u <= Len(w)
    BY <1>1
  <2> HIDE DEF u
  <2>2. LET s == SubSeq(w, u + 1, Len(w))
        IN  Len(s) = Len(w) - u /\ \A k \in 1 .. Len(w) - u : s[k] = w[u + k]
    BY <2>1
  <2> QED BY <2>2, Zenon DEF u
<1> HIDE DEF b
<1>3. ASSUME NEW k \in 1 .. FrameLen(c, j + 1), k <= Len(b)
      PROVE  b[k] = Frame(c, j + 1)[k]
  <2>1. j + 1 \in 1 .. n /\ (j + 1) - 1 = j
    OBVIOUS
  <2>2. k \in 1 .. Len(w) - off[j] /\ off[j] + k <= Len(w)
    BY <1>1, <1>2, <1>3
  <2>3. w[off[j] + k] = Frame(c, j + 1)[k]
    BY <2>1, <2>2 DEF Layout
  <2> QED BY <1>2, <2>2, <2>3
<1> QED BY <1>3, Zenon DEF Begins, b
------------------------------------------------------------------------------

\* While Encode runs, and until the octets arrive, wire holds the payloads encoded so
\* far, and nothing was decoded.
Encoded ==
  pc \in {"encode", "wire"} =>
    /\ fate = "intact" /\ got = <<>>
    /\ Sendable(container, index)
    /\ \E off : Layout(container, index, off, wire) /\ off[index] = Len(wire)
    /\ pc = "wire" => index = Len(container) /\ nextPayload = TypeBehind(container, 0)

\* Decode has read g, the first payloads of c, from the first u octets of w; b is what
\* is left of them, and t the type of what follows.
ReadSoFar(c, w, off, g, u, b, t) ==
  /\ Len(g) <= Len(c)
  /\ \A i \in 1 .. Len(g) : g[i] = ReadAs(c, i) /\ ~ Unreadable(c[i])
  /\ u = off[Len(g)]
  /\ b = SubSeq(w, u + 1, Len(w))
  /\ t = TypeBehind(c, Len(g))

\* Octets of which none was changed are read payload by payload.
Decoded ==
  pc \in {"decode", "ok", "error"} /\ fate # "changed" =>
    /\ Sendable(container, Len(container))
    /\ \E off :
         /\ Layout(container, Len(container), off, wire)
         /\ fate = "intact" => off[Len(container)] = Len(wire)
         /\ ReadSoFar(container, wire, off, got, used, rest, nextPayload)
    /\ fate = "intact" /\ pc = "ok" => Len(got) = Len(container)
    /\ fate = "intact" /\ pc = "error" =>
         Len(got) < Len(container) /\ Unreadable(container[Len(got) + 1])

\* The names of this module for what the model says of container.
LEMMA Names ==
  ASSUME TypeOK
  PROVE  /\ \A i \in 1 .. Len(container) : NextType(i) = NextIn(container, i)
         /\ container \in Seq(Payload) /\ Len(container) \in Nat
         /\ DOMAIN Received = 1 .. Len(container)
         /\ \A i \in 1 .. Len(container) :
              /\ Received[i] = ReadAs(container, i)
              /\ container[i].type # SK => container[i].next = NoNext
<1>1. container \in Seq(Payload) /\ Len(container) \in Nat
  BY ChainAssumption DEF TypeOK
<1>2. \A i \in 1 .. Len(container) : NextType(i) = NextIn(container, i)
  BY DEF NextType, NextIn
<1>3. DOMAIN Received = 1 .. Len(container)
  BY DEF Received
<1>4. \A i \in 1 .. Len(container) : Received[i] = ReadAs(container, i)
  BY <1>2 DEF Received, ReadAs
<1>5. \A i \in 1 .. Len(container) : container[i].type # SK => container[i].next = NoNext
  BY ChainAssumption DEF TypeOK
<1> QED BY <1>1, <1>2, <1>3, <1>4, <1>5

\* At the beginning nothing is encoded.
LEMMA InitEncoded == Init => Encoded /\ Decoded
<1> SUFFICES ASSUME Init PROVE Encoded /\ Decoded
  OBVIOUS
<1>1. \E off : Layout(container, 0, off, <<>>) /\ off[0] = Len(<<>>)
  BY LayoutEmpty, SMTT(60)
<1> QED BY <1>1 DEF Init, Encoded, Decoded, Sendable

\* One turn of Encode's loop.
LEMMA EncodeEncoded == IInv /\ Encoded /\ Decoded /\ EncodePayload => Encoded' /\ Decoded'
<1> SUFFICES ASSUME IInv, Encoded, EncodePayload PROVE Encoded' /\ Decoded'
  OBVIOUS
<1> DEFINE c == container
           n == index
           f == Frame(c, n + 1)
<1>1. /\ c \in Seq(Payload) /\ n \in Nat /\ n < Len(c) /\ wire \in Seq(Octets)
      /\ n + 1 \in 1 .. Len(c) /\ c[n + 1] \in Payload /\ NextType(n + 1) = NextIn(c, n + 1)
  BY Names DEF IInv, TypeOK, EncodePayload
<1>2. pc = "encode" /\ UNCHANGED <<container, fate, decoding>>
  BY DEF EncodePayload
<1>3. CASE pc' = "unsent"
  BY <1>3 DEF Encoded, Decoded
<1>4. CASE pc' # "unsent"
  <2>1. /\ ~ MarshalFails(c[n + 1]) /\ ~ TooLong(FrameLen(c, n + 1))
        /\ index' = n + 1 /\ pc' = pc
        /\ wire' = wire \o <<NextIn(c, n + 1), 0>> \o PutUint16(FrameLen(c, n + 1)) \o Marshal(c[n + 1])
    BY <1>1, <1>4, SMTT(60) DEF EncodePayload, FrameLen
  <2>2. wire' = wire \o f
    <3>1. <<NextIn(c, n + 1), 0>> \in Seq(Octets)
      <4>1. 0 \in Octets
        BY ChainAssumption DEF HeaderLen, Octets
      <4> QED BY <1>1, <4>1, NextInType
    <3>2. Marshal(c[n + 1]) \in Seq(Octets) /\ FrameLen(c, n + 1) \in Nat
      BY <1>1, MarshalType DEF FrameLen, HeaderLen
    <3>3. PutUint16(FrameLen(c, n + 1)) \in Seq(Octets)
      BY <3>2, Uint16Type
    <3> DEFINE x == <<NextIn(c, n + 1), 0>>
               y == PutUint16(FrameLen(c, n + 1))
               z == Marshal(c[n + 1])
    <3>4. wire' = wire \o x \o y \o z /\ f = x \o y \o z
      BY <2>1 DEF Frame
    <3>5. wire \in Seq(Octets) /\ x \in Seq(Octets) /\ y \in Seq(Octets) /\ z \in Seq(Octets)
      BY <1>1, <3>1, <3>2, <3>3
    <3> HIDE DEF x, y, z, f
    <3>6. Regrouped(wire, x, y, z)
      BY <3>5, Assoc
    <3> QED BY <3>4, <3>6, Zenon DEF Regrouped
  <2>3. PICK off : Layout(c, n, off, wire) /\ off[n] = Len(wire)
    BY <1>2 DEF Encoded
  <2>4. \E o : Layout(c, n + 1, o, wire \o f) /\ o[n + 1] = Len(wire \o f)
    BY <1>1, <2>1, <2>3, LayoutExtends
  <2>5. Sendable(c, n + 1)
    <3>1. Sendable(c, n)
      BY <1>2 DEF Encoded
    <3>2. \A i \in 1 .. n + 1 : i \in 1 .. n \/ i = n + 1
      BY <1>1
    <3> QED BY <2>1, <3>1, <3>2 DEF Sendable
  <2> QED BY <1>2, <2>1, <2>2, <2>4, <2>5, Zenon DEF Encoded, Decoded, decoding
<1> QED BY <1>3, <1>4

\* The end of Encode.
LEMMA SendEncoded == IInv /\ Encoded /\ Decoded /\ Send => Encoded' /\ Decoded'
<1> SUFFICES ASSUME IInv, Encoded, Send PROVE Encoded' /\ Decoded'
  OBVIOUS
<1>1. nextPayload' = TypeBehind(container, 0)
  BY DEF Send, TypeBehind
<1>2. /\ pc = "encode" /\ pc' = "wire" /\ index = Len(container)
      /\ UNCHANGED <<container, index, wire, fate, rest, got, used>>
  BY DEF Send
<1> QED BY <1>1, <1>2 DEF Encoded, Decoded

\* What arrives unchanged is laid out as it was sent, or as the front of it.
LEMMA ReceiveDecoded ==
  IInv /\ Encoded /\ Decoded /\ (Intact \/ Truncated \/ Changed) => Encoded' /\ Decoded'
<1> SUFFICES ASSUME IInv, Encoded, Intact \/ Truncated \/ Changed PROVE Encoded' /\ Decoded'
  OBVIOUS
<1> DEFINE c == container
<1>1. /\ pc = "wire" /\ pc' = "decode" /\ rest' = wire'
      /\ UNCHANGED <<container, index, nextPayload, got, used>>
  BY DEF Intact, Truncated, Changed, Receive
<1>2. Encoded'
  BY <1>1 DEF Encoded
<1>3. CASE Changed
  <2>1. fate' = "changed"
    BY <1>3 DEF Changed, Receive
  <2> QED BY <1>2, <2>1 DEF Decoded
<1>4. CASE Intact \/ Truncated
  <2>1. PICK m \in 0 .. Len(wire) : wire' = SubSeq(wire, 1, m) /\ (fate' = "intact" => m = Len(wire))
    <3>1. Len(wire) \in Nat /\ wire = SubSeq(wire, 1, Len(wire))
      BY DEF IInv, TypeOK
    <3>2. CASE Intact
      <4>1. wire' = wire /\ Len(wire) \in 0 .. Len(wire)
        BY <3>1, <3>2 DEF Intact, Receive
      <4> QED BY <3>1, <4>1, Zenon
    <3>3. CASE Truncated
      <4>1. PICK m \in 0 .. Len(wire) - 1 : Receive(SubSeq(wire, 1, m), "truncated")
        BY <3>3 DEF Truncated
      <4>2. m \in 0 .. Len(wire)
        BY <3>1
      <4>3. wire' = SubSeq(wire, 1, m) /\ fate' # "intact"
        BY <4>1 DEF Receive
      <4> QED BY <4>2, <4>3
    <3> QED BY <1>4, <3>2, <3>3
  <2>2. PICK off : Layout(c, Len(c), off, wire) /\ off[Len(c)] = Len(wire)
    BY <1>1 DEF Encoded
  <2>3. c \in Seq(Payload) /\ Len(c) \in Nat /\ wire \in Seq(Octets) /\ wire' \in Seq(Octets)
    BY <2>1, Names DEF IInv, TypeOK
  <2>4. Layout(c, Len(c), off, wire')
    BY <2>1, <2>2, <2>3, LayoutCut
  <2>5. fate' = "intact" => off[Len(c)] = Len(wire')
    BY <2>1, <2>2, <2>3
  <2>6. got = <<>> /\ Len(got) = 0 /\ used = 0 /\ off[0] = 0
    BY <1>1, <2>2 DEF Encoded, IInv, NotStarted, Layout
  <2>7. wire' = SubSeq(wire', 1, Len(wire'))
    BY <2>3
  <2>8. nextPayload = TypeBehind(c, 0) /\ Sendable(c, Len(c))
    BY <1>1 DEF Encoded
  <2>9. ReadSoFar(c, wire', off, got', used', rest', nextPayload')
    BY <1>1, <2>3, <2>6, <2>7, <2>8 DEF ReadSoFar
  <2> QED BY <1>1, <1>2, <2>4, <2>5, <2>8, <2>9 DEF Decoded
<1> QED BY <1>3, <1>4
\* The situation in which Decode takes a turn: off are the ends of the payloads.
Reading(off) ==
  /\ Sendable(container, Len(container))
  /\ Layout(container, Len(container), off, wire)
  /\ fate = "intact" => off[Len(container)] = Len(wire)
  /\ ReadSoFar(container, wire, off, got, used, rest, nextPayload)

\* As long as octets are left, they begin with the next payload, whose type Decode
\* knows.
LEMMA ReadingRest ==
  ASSUME TypeOK, NEW off, Reading(off), rest # <<>>
  PROVE  LET i == Len(got) + 1
         IN  /\ i \in 1 .. Len(container) /\ nextPayload = container[i].type
             /\ ~ TooLong(FrameLen(container, i)) /\ Begins(container, i, rest)
<1> DEFINE c == container
           n == Len(container)
           j == Len(got)
<1>1. /\ c \in Seq(Payload) /\ n \in Nat /\ j \in Nat /\ wire \in Seq(Octets) /\ j <= n
      /\ off \in [0 .. n -> Nat] /\ Len(wire) <= off[n] /\ used = off[j]
      /\ rest = SubSeq(wire, off[j] + 1, Len(wire)) /\ nextPayload = TypeBehind(c, j)
  BY Names, SMTT(60) DEF TypeOK, Reading, Layout, ReadSoFar
<1>2. off[j] \in Nat /\ off[n] \in Nat
  BY <1>1
<1>3. off[j] < Len(wire)
  <2>1. SUFFICES ASSUME off[j] >= Len(wire) PROVE FALSE
    BY <1>1, <1>2
  <2> DEFINE u == off[j]
  <2>2. u \in Nat /\ u >= Len(wire)
    BY <1>2, <2>1
  <2> HIDE DEF u
  <2>3. SubSeq(wire, u + 1, Len(wire)) = <<>>
    BY <1>1, <2>2
  <2> QED BY <1>1, <2>3 DEF u
<1>4. j < n
  BY <1>1, <1>2, <1>3
<1>5. Begins(c, j + 1, rest)
  <2>1. j \in 0 .. n - 1 /\ off[j] <= Len(wire)
    BY <1>1, <1>2, <1>3, <1>4
  <2>2. Layout(c, n, off, wire)
    BY DEF Reading
  <2>3. Begins(c, j + 1, SubSeq(wire, off[j] + 1, Len(wire)))
    BY <1>1, <2>1, <2>2, LayoutRest
  <2> QED BY <1>1, <2>3
<1>6. nextPayload = c[j + 1].type
  <2>1. c # <<>>
    BY <1>1, <1>4
  <2>2. CASE j = 0
    BY <1>1, <2>1, <2>2 DEF TypeBehind
  <2>3. CASE j # 0
    BY <1>1, <1>4, <2>3 DEF TypeBehind, NextIn
  <2> QED BY <2>2, <2>3
<1>7. j + 1 \in 1 .. n
  BY <1>1, <1>4
<1>8. ~ TooLong(FrameLen(c, j + 1))
  BY <1>7 DEF Reading, Sendable
<1> QED BY <1>5, <1>6, <1>7, <1>8

\* Behind the last payload there is nothing, and only there.
LEMMA ReadingEnd ==
  ASSUME TypeOK, NEW off, Reading(off), rest = <<>>, fate = "intact"
  PROVE  Len(got) = Len(container)
<1> DEFINE c == container
           n == Len(container)
           j == Len(got)
<1>1. /\ c \in Seq(Payload) /\ n \in Nat /\ j \in Nat /\ wire \in Seq(Octets) /\ j <= n
      /\ off \in [0 .. n -> Nat] /\ Len(wire) = off[n] /\ used = off[j]
      /\ rest = SubSeq(wire, off[j] + 1, Len(wire))
      /\ \A i \in 1 .. n : off[i] = off[i - 1] + FrameLen(c, i)
      /\ \A i \in 0 .. n : off[i] <= off[n]
  BY Names DEF TypeOK, Reading, Layout, ReadSoFar
<1>2. SUFFICES ASSUME j < n PROVE FALSE
  BY <1>1
<1>3. j \in 0 .. n /\ j + 1 \in 1 .. n /\ j + 1 \in 0 .. n /\ (j + 1) - 1 = j
  BY <1>1, <1>2
<1>4. off[j] \in Nat /\ off[n] \in Nat /\ off[j + 1] \in Nat /\ off[j + 1] <= off[n]
      /\ off[j + 1] = off[j] + FrameLen(c, j + 1)
  BY <1>1, <1>3, SMTT(60)
<1>5. FrameLen(c, j + 1) \in Nat /\ FrameLen(c, j + 1) >= 4
  BY <1>1, <1>3, MarshalType, SMTT(60) DEF FrameLen, HeaderLen
<1>6. off[j] < Len(wire)
  BY <1>1, <1>4, <1>5
<1> DEFINE u == off[j]
<1>7. u \in Nat /\ u < Len(wire)
  BY <1>4, <1>6
<1> HIDE DEF u
<1>8. Len(SubSeq(wire, u + 1, Len(wire))) = Len(wire) - u
  BY <1>1, <1>7
<1>9. SubSeq(wire, u + 1, Len(wire)) = <<>>
  BY <1>1, Zenon DEF u
<1>10. Len(wire) - u = 0
  BY <1>8, <1>9, Zenon
<1> QED BY <1>1, <1>7, <1>10, SMTT(60)

\* The loop ends where the octets end.
LEMMA NothingDecoded ==
  IInv /\ Encoded /\ Decoded /\ DecodeNothing => Encoded' /\ Decoded'
<1> SUFFICES ASSUME IInv, Decoded, DecodeNothing PROVE Encoded' /\ Decoded'
  OBVIOUS
<1> DEFINE c == container
<1>1. /\ pc = "decode" /\ rest = <<>> /\ UNCHANGED <<container, index, wire, fate, decoding>>
      /\ pc' = IF nextPayload # NoNext /\ wire = <<>> THEN "error" ELSE "ok"
  BY DEF DecodeNothing, Result
<1>2. Encoded'
  BY <1>1 DEF Encoded
<1>3. CASE fate = "changed"
  BY <1>1, <1>2, <1>3 DEF Decoded
<1>4. CASE fate # "changed"
  <2>1. PICK off : Reading(off)
    BY <1>1, <1>4 DEF Decoded, Reading
  <2>2. fate = "intact" => Len(got) = Len(c)
    BY <1>1, <2>1, ReadingEnd DEF IInv
  <2>3. fate = "intact" => pc' = "ok"
    <3> SUFFICES ASSUME fate = "intact", wire = <<>> PROVE nextPayload = NoNext
      BY <1>1
    <3>1. /\ off[Len(c)] = Len(wire) /\ nextPayload = TypeBehind(c, Len(c))
          /\ \A i \in 1 .. Len(c) : off[i] = off[i - 1] + FrameLen(c, i)
          /\ off \in [0 .. Len(c) -> Nat]
      BY <2>1, <2>2 DEF Reading, ReadSoFar, Layout
    <3>2. c \in Seq(Payload) /\ Len(c) \in Nat
      BY Names DEF IInv
    <3>3. CASE Len(c) = 0
      <4>1. c = <<>>
        BY <3>2, <3>3
      <4> QED BY <3>1, <3>3, <4>1 DEF TypeBehind
    <3>4. CASE Len(c) # 0
      <4>1. Len(c) \in 1 .. Len(c) /\ Len(c) - 1 \in 0 .. Len(c)
        BY <3>2, <3>4
      <4>2. FrameLen(c, Len(c)) \in Nat /\ FrameLen(c, Len(c)) >= 4
        BY <3>2, <4>1, MarshalType DEF FrameLen, HeaderLen
      <4>3. off[Len(c)] = off[Len(c) - 1] + FrameLen(c, Len(c)) /\ off[Len(c) - 1] \in Nat
        BY <3>1, <4>1
      <4>4. Len(wire) = 0
        OBVIOUS
      <4> QED BY <3>1, <4>2, <4>3, <4>4
    <3> QED BY <3>3, <3>4
  <2>4. Reading(off)'
    BY <1>1, <2>1 DEF Reading, decoding
  <2> QED BY <1>1, <1>2, <2>2, <2>3, <2>4 DEF Decoded, Reading, decoding
<1> QED BY <1>3, <1>4

\* Nothing that was not changed is refused before its body is read, unless it was cut.
LEMMA RefusedDecoded ==
  IInv /\ Encoded /\ Decoded /\ DecodeRefused => Encoded' /\ Decoded'
<1> SUFFICES ASSUME IInv, Decoded, DecodeRefused PROVE Encoded' /\ Decoded'
  OBVIOUS
<1> DEFINE c == container
           i == Len(got) + 1
<1>1. /\ pc = "decode" /\ rest # <<>> /\ UNCHANGED <<container, index, wire, fate, decoding>>
      /\ pc' = "error" /\ ~ (GoodHeader(rest) /\ (nextPayload \in Known \/ ~ Critical(rest)))
  BY DEF DecodeRefused, Result
<1>2. Encoded'
  BY <1>1 DEF Encoded
<1>3. CASE fate = "changed"
  BY <1>1, <1>2, <1>3 DEF Decoded
<1>4. CASE fate # "changed"
  <2>1. PICK off : Reading(off)
    BY <1>1, <1>4 DEF Decoded, Reading
  <2>2. /\ i \in 1 .. Len(c) /\ nextPayload = c[i].type
        /\ ~ TooLong(FrameLen(c, i)) /\ Begins(c, i, rest)
    BY <1>1, <2>1, ReadingRest DEF IInv
  <2>3. fate # "intact"
    <3> SUFFICES ASSUME fate = "intact" PROVE FALSE
      OBVIOUS
    <3>1. c \in Seq(Payload) /\ rest \in Seq(Octets) /\ c[i] \in Payload
      BY <2>2, Names, SMTT(60) DEF IInv, TypeOK
    <3>2. nextPayload \in Known
      BY <2>2, <3>1 DEF Payload
    <3>3. FrameLen(c, i) \in Nat /\ FrameLen(c, i) >= 4 /\ HeaderLen = 4
      BY <3>1, MarshalType DEF FrameLen, HeaderLen
    <3>4. FrameLen(c, i) <= Len(rest)
      <4>1. off[i] = off[i - 1] + FrameLen(c, i) /\ off[i] <= off[Len(c)] /\ off[Len(c)] = Len(wire)
            /\ off \in [0 .. Len(c) -> Nat] /\ used = off[Len(got)]
        BY <2>1, <2>2, SMTT(60) DEF Reading, Layout, ReadSoFar
      <4>2. used + Len(rest) = Len(wire) /\ used \in Nat /\ Len(rest) \in Nat /\ Len(wire) \in Nat
            /\ i - 1 = Len(got)
        BY <1>1 DEF IInv, Accounted, TypeOK
      <4> QED BY <3>3, <4>1, <4>2, SMTT(60)
    <3>5. Length(rest) = FrameLen(c, i)
      BY <2>2, <3>1, <3>3, <3>4, FrameHeader
    <3>6. GoodHeader(rest)
      BY <3>1, <3>3, <3>4, <3>5 DEF GoodHeader
    <3> QED BY <1>1, <3>2, <3>6
  <2>4. Reading(off)'
    BY <1>1, <2>1 DEF Reading, decoding
  <2> QED BY <1>1, <1>2, <2>3, <2>4 DEF Decoded, Reading, decoding
<1> QED BY <1>3, <1>4
\* A type that Decode does not know does not occur in octets that were not changed.
LEMMA SkipDecoded ==
  IInv /\ Encoded /\ Decoded /\ DecodeSkip => Encoded' /\ Decoded'
<1> SUFFICES ASSUME IInv, Decoded, DecodeSkip PROVE Encoded' /\ Decoded'
  OBVIOUS
<1>1. pc = "decode" /\ rest # <<>> /\ nextPayload \notin Known /\ pc' = pc /\ fate' = fate
  BY DEF DecodeSkip, Advance
<1>2. Encoded'
  BY <1>1 DEF Encoded
<1>3. CASE fate = "changed"
  BY <1>1, <1>2, <1>3, SMTT(60) DEF Decoded
<1>4. CASE fate # "changed"
  <2>1. PICK off : Reading(off)
    BY <1>1, <1>4 DEF Decoded, Reading
  <2>2. Len(got) + 1 \in 1 .. Len(container) /\ nextPayload = container[Len(got) + 1].type
    BY <1>1, <2>1, ReadingRest DEF IInv
  <2>3. container[Len(got) + 1] \in Payload
    BY <2>2, Names DEF IInv
  <2> QED BY <1>1, <2>2, <2>3 DEF Payload
<1> QED BY <1>3, <1>4

\* The turn of the loop that reads the i-th payload: the payload is appended as it was
\* sent, and b is what follows it.
LEMMA KnownDecoded ==
  IInv /\ Encoded /\ Decoded /\ DecodeKnown => Encoded' /\ Decoded'
<1> SUFFICES ASSUME IInv, Decoded, DecodeKnown PROVE Encoded' /\ Decoded'
  OBVIOUS
<1> DEFINE c == container
           i == Len(got) + 1
           w == wire
<1>1. /\ pc = "decode" /\ rest # <<>> /\ GoodHeader(rest)
      /\ UNCHANGED <<container, index, wire, fate>>
      /\ \/ /\ UnmarshalFails(nextPayload, Body(rest))
            /\ pc' = "error" /\ UNCHANGED decoding
         \/ /\ ~ UnmarshalFails(nextPayload, Body(rest))
            /\ Advance /\ pc' = pc
            /\ got' = Append(got, Unmarshal(nextPayload, rest))
  BY DEF DecodeKnown, Advance, Result
<1>2. Encoded'
  BY <1>1 DEF Encoded
<1>3. CASE fate = "changed"
  BY <1>1, <1>2, <1>3 DEF Decoded
<1>4. CASE fate # "changed"
  <2>1. PICK off : Reading(off)
    BY <1>1, <1>4 DEF Decoded, Reading
  <2>2. /\ i \in 1 .. Len(c) /\ nextPayload = c[i].type
        /\ ~ TooLong(FrameLen(c, i)) /\ Begins(c, i, rest)
    BY <1>1, <2>1, ReadingRest DEF IInv
  <2>3. c \in Seq(Payload) /\ rest \in Seq(Octets) /\ c[i] \in Payload /\ Len(got) \in Nat
        /\ w \in Seq(Octets) /\ got \in Seq(Payload)
        /\ (c[i].type # SK => c[i].next = NoNext)
    BY <2>2, Names DEF IInv, TypeOK
  <2>4. Len(rest) >= HeaderLen /\ Length(rest) <= Len(rest)
    BY <1>1, <2>3, GoodLength
  <2>5. Length(rest) = FrameLen(c, i) /\ rest[1] = NextIn(c, i)
    BY <2>2, <2>3, <2>4, FrameHeader
  <2>6. /\ Unmarshal(nextPayload, rest) = ReadAs(c, i)
        /\ UnmarshalFails(nextPayload, Body(rest)) <=> Unreadable(c[i])
    BY <2>2, <2>3, <2>4, <2>5, FrameRead
  <2>7. CASE UnmarshalFails(nextPayload, Body(rest))
    <3>1. pc' = "error" /\ UNCHANGED decoding
      BY <1>1, <2>7
    <3>2. Reading(off)'
      BY <1>1, <2>1, <3>1 DEF Reading, decoding
    <3>3. Len(got) < Len(c) /\ Unreadable(c[Len(got) + 1])
      BY <2>2, <2>3, <2>6, <2>7
    <3> QED BY <1>1, <1>2, <3>1, <3>2, <3>3 DEF Decoded, Reading, decoding
  <2>8. CASE ~ UnmarshalFails(nextPayload, Body(rest))
    <3>1. /\ pc' = "decode" /\ got' = Append(got, ReadAs(c, i)) /\ ~ Unreadable(c[i])
          /\ nextPayload' = NextIn(c, i) /\ used' = used + FrameLen(c, i)
          /\ rest' = SubSeq(rest, FrameLen(c, i) + 1, Len(rest))
      BY <1>1, <2>5, <2>6, <2>8, SMTT(60) DEF Advance
    <3>2. /\ used = off[Len(got)] /\ rest = SubSeq(w, used + 1, Len(w))
          /\ off[i] = off[i - 1] + FrameLen(c, i) /\ Len(got) <= Len(c)
          /\ \A k \in 1 .. Len(got) : got[k] = ReadAs(c, k) /\ ~ Unreadable(c[k])
      BY <2>1, <2>2 DEF Reading, Layout, ReadSoFar
    <3>3. used' = off[i]
      <4>1. i - 1 = Len(got)
        BY <2>3
      <4> QED BY <3>1, <3>2, <4>1
    <3>4. rest' = SubSeq(w, used' + 1, Len(w))
      <4>1. FrameLen(c, i) \in Nat /\ used \in Nat
        BY <2>3, MarshalType DEF FrameLen, HeaderLen, IInv, TypeOK
      <4>2. used + Len(rest) = Len(w) /\ FrameLen(c, i) <= Len(rest)
        BY <1>1, <2>4, <2>5 DEF IInv, Accounted
      <4> DEFINE l == FrameLen(c, i)
      <4>3. SubSeq(rest, l + 1, Len(rest)) = SubSeq(w, used + l + 1, Len(w))
        <5>1. IsFrom(rest, w, used)
          BY <3>2, <4>2, Zenon DEF IsFrom
        <5>2. LeavesFrom(rest, l, w, used)
          BY <2>3, <4>1, <4>2, <5>1, SuffixOfSuffix, SMTT(60)
        <5> QED BY <5>2, Zenon DEF LeavesFrom
      <4> QED BY <3>1, <4>3, Zenon
    <3>5. /\ Len(got') = i
          /\ \A k \in 1 .. i : got'[k] = ReadAs(c, k) /\ ~ Unreadable(c[k])
      <4>1. Len(got') = i /\ got'[i] = ReadAs(c, i) /\ \A k \in 1 .. Len(got) : got'[k] = got[k]
        BY <2>3, <3>1
      <4>2. \A k \in 1 .. i : k \in 1 .. Len(got) \/ k = i
        BY <2>3, SMTT(60)
      <4> QED BY <3>1, <3>2, <4>1, <4>2
    <3>6. TypeBehind(c, i) = NextIn(c, i) /\ i <= Len(c)
      BY <2>2 DEF TypeBehind
    <3>7. ReadSoFar(c, w, off, got', used', rest', nextPayload')
      BY <3>1, <3>3, <3>4, <3>5, <3>6, Zenon DEF ReadSoFar
    <3>8. Reading(off)'
      BY <1>1, <2>1, <3>7 DEF Reading
    <3> QED BY <1>2, <3>1, <3>8 DEF Decoded, Reading
  <2> QED BY <2>7, <2>8
<1> QED BY <1>3, <1>4

\* Every step preserves the invariants of the round trip.
LEMMA NextDecoded == IInv /\ Encoded /\ Decoded /\ [Next]_vars => Encoded' /\ Decoded'
<1>1. IInv /\ Encoded /\ Decoded /\ UNCHANGED vars => Encoded' /\ Decoded'
  BY DEF Encoded, Decoded, vars
<1> QED BY <1>1, EncodeEncoded, SendEncoded, ReceiveDecoded, NothingDecoded, RefusedDecoded,
           SkipDecoded, KnownDecoded DEF Next

\* They hold in every state.
LEMMA DecodedHolds == Spec => [](IInv /\ Decoded)
BY IInvHolds, InitEncoded, NextDecoded, PTL DEF Spec

\* got is the front of Received, as far as it was read.
LEMMA GotIsFront ==
  ASSUME IInv, Decoded, pc \in {"ok", "error"}, fate # "changed"
  PROVE  /\ Len(got) <= Len(container) /\ got = SubSeq(Received, 1, Len(got))
         /\ \A i \in 1 .. Len(got) : ~ Unreadable(container[i])
<1>1. PICK off : Reading(off)
  BY DEF Decoded, Reading
<1>2. /\ Len(got) <= Len(container)
      /\ \A i \in 1 .. Len(got) : got[i] = ReadAs(container, i) /\ ~ Unreadable(container[i])
  BY <1>1 DEF Reading, ReadSoFar
<1>3. /\ got \in Seq(Payload) /\ Len(got) \in Nat /\ Len(container) \in Nat
      /\ DOMAIN Received = 1 .. Len(container)
      /\ \A i \in 1 .. Len(container) : Received[i] = ReadAs(container, i)
  BY Names DEF IInv, TypeOK
<1>4. got = [i \in 1 .. Len(got) |-> got[i]]
  BY <1>3
<1>5. SubSeq(Received, 1, Len(got)) = [i \in 1 .. Len(got) |-> Received[i]]
  BY <1>3 DEF Received
<1>6. \A i \in 1 .. Len(got) : got[i] = Received[i]
  BY <1>2, <1>3
<1> QED BY <1>2, <1>4, <1>5, <1>6

\* Decode of what Encode produced returns the payloads in their order, unless the
\* peer's Unmarshal refuses one of them (message.go:73-109, 115-189), for every
\* container, every set of payload types and every width of an octet.
THEOREM ChainRoundTripHolds == Spec => []ChainRoundTrip
<1>1. ASSUME IInv, Decoded PROVE ChainRoundTrip
  <2> SUFFICES ASSUME pc \in {"ok", "error"}, fate = "intact"
               PROVE  IF \E i \in 1 .. Len(container) : Unreadable(container[i])
                      THEN pc = "error"
                      ELSE pc = "ok" /\ got = Received
    BY DEF ChainRoundTrip
  <2>1. /\ Len(got) <= Len(container) /\ got = SubSeq(Received, 1, Len(got))
        /\ \A i \in 1 .. Len(got) : ~ Unreadable(container[i])
    BY <1>1, GotIsFront
  <2>2. got \in Seq(Payload) /\ Len(got) \in Nat /\ Len(container) \in Nat
    BY <1>1, Names DEF IInv, TypeOK
  <2>3. CASE pc = "ok"
    <3>1. Len(got) = Len(container)
      BY <1>1, <2>3 DEF Decoded
    <3>2. SubSeq(Received, 1, Len(container)) = Received
      BY <2>2 DEF Received
    <3> QED BY <2>1, <2>3, <3>1, <3>2
  <2>4. CASE pc = "error"
    <3>1. Len(got) < Len(container) /\ Unreadable(container[Len(got) + 1])
      BY <1>1, <2>4 DEF Decoded
    <3>2. Len(got) + 1 \in 1 .. Len(container)
      BY <2>2, <3>1
    <3> QED BY <2>4, <3>1, <3>2
  <2> QED BY <2>3, <2>4
<1> QED BY <1>1, DecodedHolds, PTL

\* A message that was cut short is refused, or read as the payloads that are whole
\* (message.go:118, 125).
THEOREM TruncatedReadsPrefixHolds == Spec => []TruncatedReadsPrefix
<1>1. ASSUME IInv, Decoded PROVE TruncatedReadsPrefix
  BY <1>1, GotIsFront DEF TruncatedReadsPrefix
<1> QED BY <1>1, DecodedHolds, PTL
==============================================================================

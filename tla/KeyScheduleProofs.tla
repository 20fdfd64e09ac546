--------------------------- MODULE KeyScheduleProofs ---------------------------
(***************************************************************************)
(* Proofs about KeySchedule: for all proposals and nonces, whatever is     *)
(* altered on the way and however often children are made, key objects     *)
(* have registered algorithms, no octet of a stream serves two keys, and   *)
(* the two ends share keys exactly if they should.                         *)
(***************************************************************************)
EXTENDS KeySchedule, RecursionLemmas

------------------------------------------------------------------------------
(* The keys are consecutive intervals of a stream.                           *)

\* F has the starts of consecutive intervals of the given lengths.
StartsOf(F, lens) ==
  /\ F \in [1 .. Len(lens) -> Nat]
  /\ F[1] = 0
  /\ \A i \in 2 .. Len(lens) : F[i] = F[i - 1] + lens[i - 1]
Intervals(F, stream, lens) ==
  [i \in 1 .. Len(lens) |-> [of |-> stream, from |-> F[i], to |-> F[i] + lens[i]]]

\* Cut starts every interval where the one before it ends.
LEMMA CutShape ==
  ASSUME NEW stream, NEW lens \in Seq(Nat), lens # <<>>
  PROVE  \E F : StartsOf(F, lens) /\ Cut(stream, lens) = Intervals(F, stream, lens)
<1> DEFINE n == Len(lens)
           Starts(F) == F = [i \in 1 .. Len(lens) |-> IF i = 1 THEN 0 ELSE F[i - 1] + lens[i - 1]]
           g == [i \in 1 .. n |-> [x \in Nat |-> IF i = 1 THEN 0 ELSE x + lens[i - 1]]]
           G == CHOOSE F : Starts(F)
<1>1. n \in Nat /\ 1 \in 1 .. n /\ \A i \in 1 .. n : lens[i] \in Nat
  OBVIOUS
<1>2. \A i \in 1 .. n : i = 1 \/ i - 1 \in 1 .. n
  BY <1>1
<1>3. g \in [1 .. n -> [Nat -> Nat]]
  BY <1>1, <1>2
<1>4. \A i \in 1 .. n : \A x \in Nat : i # 1 => g[i][x] = x + lens[i - 1]
  OBVIOUS
<1> HIDE DEF g, n
<1>5. PICK F \in [1 .. n -> Nat] : Loop(F, n, 0, g)
  BY <1>1, <1>3, LoopExists, Zenon
<1>6. ASSUME NEW i \in 1 .. n
      PROVE  F[i] = IF i = 1 THEN 0 ELSE F[i - 1] + lens[i - 1]
  <2>1. F[i] = IF i = 1 THEN 0 ELSE g[i][F[i - 1]]
    BY <1>5, Zenon DEF Loop
  <2>2. i # 1 => F[i - 1] \in Nat
    BY <1>2
  <2> QED BY <2>1, <2>2, <1>4, Zenon
<1>7. F = [i \in 1 .. n |-> IF i = 1 THEN 0 ELSE F[i - 1] + lens[i - 1]]
  BY <1>6
<1>8. Starts(F)
  BY <1>7, Zenon DEF n
<1>9. Starts(G)
  BY <1>8, Zenon
<1>10. Cut(stream, lens) = [i \in 1 .. Len(lens) |-> [of |-> stream, from |-> G[i], to |-> G[i] + lens[i]]]
  BY DEF Cut
<1> HIDE DEF G
<1>11. DOMAIN G = 1 .. n /\ \A i \in 1 .. n : G[i] = IF i = 1 THEN 0 ELSE G[i - 1] + lens[i - 1]
  BY <1>9, SMTT(60) DEF n
<1>12. \A i \in 1 .. n : G[i] \in Nat
  <2> DEFINE P == {k \in Nat : k = 0 \/ G[k] \in Nat}
  <2>1. 0 \in P
    OBVIOUS
  <2>2. ASSUME NEW k \in 0 .. n - 1, k \in P
        PROVE  k + 1 \in P
    <3>1. k \in Nat /\ k + 1 \in 1 .. n /\ (k + 1) - 1 = k /\ (k + 1 = 1 <=> k = 0)
      BY <1>1
    <3>2. G[k + 1] = IF k = 0 THEN 0 ELSE G[k] + lens[k]
      BY <3>1, <1>11
    <3>3. k # 0 => k \in 1 .. n
      BY <3>1, <1>1
    <3>4. k # 0 => lens[k] \in Nat /\ G[k] \in Nat
      BY <3>3, <1>1, <2>2
    <3> QED BY <3>1, <3>2, <3>4
  <2> HIDE DEF P
  <2>3. \A k \in 0 .. n : k \in P
    BY <2>1, <2>2, <1>1, InductionUpTo, Zenon
  <2>4. \A k \in 1 .. n : k \in P /\ k # 0
    BY <2>3, <1>1
  <2> QED BY <2>4 DEF P
<1>13. G \in [1 .. n -> Nat]
  <2>1. G = [i \in 1 .. n |-> G[i]]
    BY <1>9 DEF n
  <2> QED BY <2>1, <1>12
<1>14. G[1] = 0 /\ \A i \in 2 .. Len(lens) : G[i] = G[i - 1] + lens[i - 1]
  <2>1. \A i \in 2 .. n : i \in 1 .. n /\ i # 1
    BY <1>1
  <2> QED BY <2>1, <1>1, <1>11 DEF n
<1> QED BY <1>10, <1>13, <1>14, Zenon DEF n, StartsOf, Intervals

\* Every interval has the length that was asked for.
LEMMA CutParts ==
  ASSUME NEW stream, NEW lens \in Seq(Nat), lens # <<>>, NEW i \in 1 .. Len(lens)
  PROVE  /\ DOMAIN Cut(stream, lens) = 1 .. Len(lens)
         /\ Cut(stream, lens)[i].of = stream
         /\ Cut(stream, lens)[i].from \in Nat
         /\ Cut(stream, lens)[i].to = Cut(stream, lens)[i].from + lens[i]
<1>1. PICK F : StartsOf(F, lens) /\ Cut(stream, lens) = Intervals(F, stream, lens)
  BY CutShape, Zenon
<1>2. F[i] \in Nat /\ Intervals(F, stream, lens)[i] = [of |-> stream, from |-> F[i], to |-> F[i] + lens[i]]
  BY <1>1, Zenon DEF StartsOf, Intervals
<1>3. DOMAIN Intervals(F, stream, lens) = 1 .. Len(lens)
  BY Zenon DEF Intervals
<1> HIDE DEF Intervals
<1> QED BY <1>1, <1>2, <1>3

\* Starts grow by the lengths between them.
LEMMA StartsOrdered ==
  ASSUME NEW n \in Nat, NEW F \in [1 .. n -> Nat], NEW l \in [1 .. n -> Nat],
         \A k \in 2 .. n : F[k] = F[k - 1] + l[k - 1],
         NEW i \in 1 .. n, NEW j \in 1 .. n, i < j
  PROVE  F[i] + l[i] <= F[j]
<1> DEFINE P == {k \in Nat : i < k => F[i] + l[i] <= F[k]}
<1>0. \A a, b, c, d \in Nat : a + b <= c => a + b <= c + d
  OBVIOUS
<1>1. 0 \in P
  OBVIOUS
<1>2. ASSUME NEW k \in 0 .. n - 1, k \in P
      PROVE  k + 1 \in P
  <2>1. k \in Nat /\ k + 1 \in Nat
    OBVIOUS
  <2>2. SUFFICES ASSUME i < k + 1 PROVE F[i] + l[i] <= F[k + 1]
    BY <2>1
  <2>3. k + 1 \in 2 .. n /\ k \in 1 .. n /\ (k + 1) - 1 = k
    BY <2>1, <2>2
  <2>4. F[k + 1] = F[k] + l[k]
    BY <2>3
  <2>5. i = k \/ F[i] + l[i] <= F[k]
    BY <1>2, <2>1, <2>2
  <2>6. F[i] \in Nat /\ l[i] \in Nat /\ F[k] \in Nat /\ l[k] \in Nat
    BY <2>3
  <2>7. CASE i = k
    BY <2>4, <2>6, <2>7
  <2>8. CASE F[i] + l[i] <= F[k]
    BY <1>0, <2>4, <2>6, <2>8, Zenon
  <2> QED BY <2>5, <2>7, <2>8
<1> HIDE DEF P
<1>3. \A k \in 0 .. n : k \in P
  BY <1>1, <1>2, InductionUpTo, Zenon
<1>4. j \in P
  BY <1>3
<1> QED BY <1>4 DEF P

\* No two intervals overlap: an interval ends before each later one.
LEMMA CutOrdered ==
  ASSUME NEW stream, NEW lens \in Seq(Nat), lens # <<>>,
         NEW i \in 1 .. Len(lens), NEW j \in 1 .. Len(lens), i < j
  PROVE  Cut(stream, lens)[i].to <= Cut(stream, lens)[j].from
<1>1. PICK F : StartsOf(F, lens) /\ Cut(stream, lens) = Intervals(F, stream, lens)
  BY CutShape, Zenon
<1>2. /\ Intervals(F, stream, lens)[i].to = F[i] + lens[i]
      /\ Intervals(F, stream, lens)[j].from = F[j]
  <2>1. /\ Intervals(F, stream, lens)[i] = [of |-> stream, from |-> F[i], to |-> F[i] + lens[i]]
        /\ Intervals(F, stream, lens)[j] = [of |-> stream, from |-> F[j], to |-> F[j] + lens[j]]
    BY Zenon DEF Intervals
  <2> QED BY <2>1
<1>3. F \in [1 .. Len(lens) -> Nat] /\ \A k \in 2 .. Len(lens) : F[k] = F[k - 1] + lens[k - 1]
  BY <1>1, Zenon DEF StartsOf
<1>4. Len(lens) \in Nat /\ lens \in [1 .. Len(lens) -> Nat]
  OBVIOUS
<1>5. F[i] + lens[i] <= F[j]
  BY <1>3, <1>4, StartsOrdered, Zenon
<1> QED BY <1>1, <1>2, <1>5

\* No octet of the stream is in two intervals.
LEMMA CutDisjoint ==
  ASSUME NEW stream, NEW lens \in Seq(Nat), lens # <<>>,
         NEW i \in 1 .. Len(lens), NEW j \in 1 .. Len(lens), i # j
  PROVE  ~ Overlap(Cut(stream, lens)[i], Cut(stream, lens)[j])
<1> DEFINE x == Cut(stream, lens)[i]
           y == Cut(stream, lens)[j]
<1>1. lens[i] \in Nat /\ lens[j] \in Nat /\ (i < j \/ j < i)
  OBVIOUS
<1>2. x.from \in Nat /\ x.to \in Nat /\ y.from \in Nat /\ y.to \in Nat
  BY <1>1, CutParts, SMTT(60)
<1>3. x.to <= y.from \/ y.to <= x.from
  BY <1>1, CutOrdered
<1> HIDE DEF x, y
<1>4. ~ (x.from < y.to /\ y.from < x.to)
  BY <1>2, <1>3
<1> QED BY <1>4 DEF Overlap, x, y

\* An interval determines its stream and its length.
LEMMA CutDetermined ==
  ASSUME NEW st1, NEW l1 \in Seq(Nat), l1 # <<>>, NEW st2, NEW l2 \in Seq(Nat), l2 # <<>>,
         NEW i \in 1 .. Len(l1), i \in 1 .. Len(l2), Cut(st1, l1)[i] = Cut(st2, l2)[i]
  PROVE  st1 = st2 /\ l1[i] = l2[i]
<1>1. l1[i] \in Nat /\ l2[i] \in Nat
  OBVIOUS
<1>2. /\ Cut(st1, l1)[i].of = st1 /\ Cut(st1, l1)[i].from \in Nat
      /\ Cut(st1, l1)[i].to = Cut(st1, l1)[i].from + l1[i]
  BY CutParts, SMTT(60)
<1>3. /\ Cut(st2, l2)[i].of = st2 /\ Cut(st2, l2)[i].from \in Nat
      /\ Cut(st2, l2)[i].to = Cut(st2, l2)[i].from + l2[i]
  BY CutParts
<1> DEFINE x == Cut(st1, l1)[i]
<1>4. x.of = st1 /\ x.of = st2 /\ x.from \in Nat /\ x.to = x.from + l1[i] /\ x.to = x.from + l2[i]
  BY <1>2, <1>3
<1> HIDE DEF x
<1> QED BY <1>1, <1>4, SMTT(60)

------------------------------------------------------------------------------
(* The seven keys of an IKE SA and the four of a child.                      *)

Suites == [dh: dhTypes, encr: encrTypes, integ: integTypes, prf: prfTypes]
ChildSuites ==
  [dh: dhTypes \cup {nilType}, encr: encrTypes, integ: integTypes \cup {nilType}, esn: esnTypes]

SKSet == {SKNames[i] : i \in 1 .. 7}
IndexOf(n) == CHOOSE i \in 1 .. 7 : SKNames[i] = n
SKLens(info) ==
  LET p == GetKeyLength[info.prf]
      a == GetKeyLength[info.integ]
      e == GetKeyLength[info.encr]
  IN  <<p, a, a, e, e, p, p>>
ChildLens(info) ==
  LET e == GetKeyLength[info.encr]
      a == IF info.integ = nilType THEN 0 ELSE GetKeyLength[info.integ]
  IN  <<e, a, e, a>>

\* The lengths of the keys tell the algorithms apart.
LEMMA KeyLengths ==
  /\ GetKeyLength["ENCR_AES_CBC_128"] = 16 /\ GetKeyLength["ENCR_AES_CBC_192"] = 24
  /\ GetKeyLength["ENCR_AES_CBC_256"] = 32
  /\ GetKeyLength["AUTH_HMAC_SHA1_96"] = 20 /\ GetKeyLength["AUTH_HMAC_SHA2_256_128"] = 32
  /\ GetKeyLength["PRF_HMAC_SHA1"] = 20 /\ GetKeyLength["PRF_HMAC_SHA2_256"] = 32
BY DEF GetKeyLength

\* No key is empty, and the length of a key tells which of the encryption or integrity
\* algorithms it is for.
LEMMA LengthTells ==
  /\ \A x \in encrTypes \cup integTypes \cup prfTypes : GetKeyLength[x] \in Nat \ {0}
  /\ \A x, y \in encrTypes : GetKeyLength[x] = GetKeyLength[y] => x = y
  /\ \A x, y \in integTypes : GetKeyLength[x] = GetKeyLength[y] => x = y
BY KeyLengths DEF encrTypes, integTypes, prfTypes

\* The seven lengths that GenerateKeyForIKESA cuts by.
LEMMA SKLensType ==
  ASSUME NEW info \in Suites
  PROVE  /\ SKLens(info) \in Seq(Nat) /\ SKLens(info) # <<>> /\ Len(SKLens(info)) = 7
         /\ SKLens(info)[2] = GetKeyLength[info.integ] /\ SKLens(info)[4] = GetKeyLength[info.encr]
<1>1. GetKeyLength[info.prf] \in Nat /\ GetKeyLength[info.integ] \in Nat /\ GetKeyLength[info.encr] \in Nat
  BY LengthTells DEF Suites
<1> QED BY <1>1 DEF SKLens

\* The four lengths that GenerateKeyForChildSA cuts by.
LEMMA ChildLensType ==
  ASSUME NEW info \in ChildSuites
  PROVE  /\ ChildLens(info) \in Seq(Nat) /\ ChildLens(info) # <<>> /\ Len(ChildLens(info)) = 4
         /\ ChildLens(info)[1] = GetKeyLength[info.encr]
         /\ ChildLens(info)[2] = IF info.integ = nilType THEN 0 ELSE GetKeyLength[info.integ]
<1>1. GetKeyLength[info.encr] \in Nat /\ (info.integ # nilType => GetKeyLength[info.integ] \in Nat)
  BY LengthTells DEF ChildSuites
<1> QED BY <1>1 DEF ChildLens

\* Every key of an IKE SA has its place in the stream.
LEMMA IndexOfName ==
  /\ \A n \in SKSet : IndexOf(n) \in 1 .. 7 /\ SKNames[IndexOf(n)] = n
  /\ {"SK_d", "SK_ai", "SK_ei"} \subseteq SKSet
  /\ IndexOf("SK_d") = 1 /\ IndexOf("SK_ai") = 2 /\ IndexOf("SK_ei") = 4
<1>1. \A n \in SKSet : IndexOf(n) \in 1 .. 7 /\ SKNames[IndexOf(n)] = n
  BY DEF SKSet, IndexOf
<1>2. SKNames[1] = "SK_d" /\ SKNames[2] = "SK_ai" /\ SKNames[3] = "SK_ar" /\ SKNames[4] = "SK_ei"
      /\ SKNames[5] = "SK_er" /\ SKNames[6] = "SK_pi" /\ SKNames[7] = "SK_pr"
  BY DEF SKNames
<1>3. {"SK_d", "SK_ai", "SK_ei"} \subseteq SKSet
  BY <1>2 DEF SKSet
<1>4. \A i \in 1 .. 7 : /\ SKNames[i] = "SK_d" => i = 1
                        /\ SKNames[i] = "SK_ai" => i = 2
                        /\ SKNames[i] = "SK_ei" => i = 4
  BY <1>2
<1> QED BY <1>1, <1>3, <1>4

\* GenerateKeyForIKESA cuts seven keys, GenerateKeyForChildSA four.
SKStream(info, nonce, shared, spi) == PrfPlus(info.prf, <<nonce, shared>>, <<nonce, spi>>)
ChildStream(key, nonce) == PrfPlus(key.info.prf, key.SK.SK_d, nonce)

\* The keys of an IKE SA are the seven pieces of its stream.
LEMMA IKESAKeys ==
  ASSUME NEW info \in Suites, NEW nonce, NEW shared, NEW spi
  PROVE  GenerateKeyForIKESA(info, nonce, shared, spi) =
           [n \in SKSet |-> Cut(SKStream(info, nonce, shared, spi), SKLens(info))[IndexOf(n)]]
BY Zenon DEF GenerateKeyForIKESA, SKSet, SKStream, SKLens, IndexOf

\* The keys of a child SA are the four pieces of its stream.
LEMMA ChildSAKeys ==
  ASSUME NEW key, NEW info \in ChildSuites, NEW nonce
  PROVE  ChildKeys(key, info, nonce) = Cut(ChildStream(key, nonce), ChildLens(info))
BY Zenon DEF ChildKeys, ChildStream, ChildLens

\* No octet of a stream serves two of them.
LEMMA IKESADisjoint ==
  ASSUME NEW info \in Suites, NEW nonce, NEW shared, NEW spi,
         NEW m \in SKSet, NEW n \in SKSet, m # n
  PROVE  ~ Overlap(GenerateKeyForIKESA(info, nonce, shared, spi)[m],
                   GenerateKeyForIKESA(info, nonce, shared, spi)[n])
<1> DEFINE stream == SKStream(info, nonce, shared, spi)
           lens == SKLens(info)
<1>1. lens \in Seq(Nat) /\ lens # <<>> /\ Len(lens) = 7
  BY SKLensType
<1>2. IndexOf(m) \in 1 .. 7 /\ IndexOf(n) \in 1 .. 7 /\ IndexOf(m) # IndexOf(n)
  BY IndexOfName
<1>3. ~ Overlap(Cut(stream, lens)[IndexOf(m)], Cut(stream, lens)[IndexOf(n)])
  <2> HIDE DEF stream, lens
  <2> QED BY <1>1, <1>2, CutDisjoint, Zenon
<1> QED BY <1>3, IKESAKeys

\* No octet of a stream serves two keys of a child SA.
LEMMA ChildDisjoint ==
  ASSUME NEW key, NEW info \in ChildSuites, NEW nonce, NEW i \in 1 .. 4, NEW j \in 1 .. 4, i # j
  PROVE  ~ Overlap(ChildKeys(key, info, nonce)[i], ChildKeys(key, info, nonce)[j])
<1> DEFINE stream == ChildStream(key, nonce)
           lens == ChildLens(info)
<1>1. lens \in Seq(Nat) /\ lens # <<>> /\ Len(lens) = 4
  BY ChildLensType
<1>2. ~ Overlap(Cut(stream, lens)[i], Cut(stream, lens)[j])
  <2> HIDE DEF stream, lens
  <2> QED BY <1>1, CutDisjoint, Zenon
<1> QED BY <1>2, ChildSAKeys

\* The seven keys determine everything they were made from: the prf, the nonces,
\* the shared secret, the SPIs, and the algorithms through their key lengths.
LEMMA IKESADetermined ==
  ASSUME NEW i1 \in Suites, NEW n1, NEW g1, NEW s1, NEW i2 \in Suites, NEW n2, NEW g2, NEW s2,
         GenerateKeyForIKESA(i1, n1, g1, s1) = GenerateKeyForIKESA(i2, n2, g2, s2)
  PROVE  n1 = n2 /\ g1 = g2 /\ s1 = s2 /\ i1.prf = i2.prf /\ i1.integ = i2.integ /\ i1.encr = i2.encr
<1> DEFINE st1 == SKStream(i1, n1, g1, s1)
           st2 == SKStream(i2, n2, g2, s2)
           l1 == SKLens(i1)
           l2 == SKLens(i2)
<1>1. /\ l1 \in Seq(Nat) /\ l1 # <<>> /\ Len(l1) = 7 /\ l2 \in Seq(Nat) /\ l2 # <<>> /\ Len(l2) = 7
      /\ l1[2] = GetKeyLength[i1.integ] /\ l1[4] = GetKeyLength[i1.encr]
      /\ l2[2] = GetKeyLength[i2.integ] /\ l2[4] = GetKeyLength[i2.encr]
  BY SKLensType
<1>2. \A n \in SKSet : Cut(st1, l1)[IndexOf(n)] = Cut(st2, l2)[IndexOf(n)]
  <2>1. \A n \in SKSet : /\ GenerateKeyForIKESA(i1, n1, g1, s1)[n] = Cut(st1, l1)[IndexOf(n)]
                         /\ GenerateKeyForIKESA(i2, n2, g2, s2)[n] = Cut(st2, l2)[IndexOf(n)]
    BY IKESAKeys
  <2> QED BY <2>1
<1>3. Cut(st1, l1)[2] = Cut(st2, l2)[2] /\ Cut(st1, l1)[4] = Cut(st2, l2)[4]
  <2>1. "SK_ai" \in SKSet /\ "SK_ei" \in SKSet
    BY IndexOfName
  <2> HIDE DEF st1, st2, l1, l2
  <2> QED BY <1>2, <2>1, IndexOfName
<1>4. st1 = st2 /\ l1[2] = l2[2] /\ l1[4] = l2[4]
  <2> HIDE DEF st1, st2, l1, l2
  <2>1. 2 \in 1 .. 7 /\ 4 \in 1 .. 7
    OBVIOUS
  <2>2. /\ 2 \in 1 .. Len(l1) /\ 4 \in 1 .. Len(l1) /\ 2 \in 1 .. Len(l2) /\ 4 \in 1 .. Len(l2)
        /\ l1 \in Seq(Nat) /\ l1 # <<>> /\ l2 \in Seq(Nat) /\ l2 # <<>>
    BY <1>1, <2>1
  <2>3. st1 = st2 /\ l1[2] = l2[2]
    BY <1>3, <2>2, CutDetermined
  <2>4. l1[4] = l2[4]
    BY <1>3, <2>2, CutDetermined
  <2> QED BY <2>3, <2>4
<1>5. i1.integ = i2.integ /\ i1.encr = i2.encr
  BY <1>1, <1>4, LengthTells, ZenonT(60) DEF Suites
<1>6. i1.prf = i2.prf /\ <<n1, g1>> = <<n2, g2>> /\ <<n1, s1>> = <<n2, s2>>
  BY <1>4 DEF SKStream, PrfPlus
<1> QED BY <1>5, <1>6

------------------------------------------------------------------------------
(* The inductive invariant.                                                  *)

\* Every proposal that can arrive, and every message of endpoint r; a message
\* is marked as altered exactly if a part that enters the derivation is.
AllProposals == Proposals \cup {ToProposal(i) : i \in Suites}
Messages(r) ==
  [proposal: AllProposals, ke: {Invalid} \cup [group: dhTypes, x: {r, "altered"}],
   nonce: {Nonce(r), Nonce("altered")}, spi: {SPI(r), SPI("altered")}, altered: BOOLEAN]
Marked(r, m) == m.altered <=> ~ (m.ke.x = r /\ m.nonce = Nonce(r) /\ m.spi = SPI(r))

OfferInv == offer # nil => offer \in Messages("Initiator") /\ Marked("Initiator", offer)

\* The responder answers with a value of the group it chose.
AnswerInv ==
  answer # nil =>
    /\ answer \in Messages("Responder") /\ Marked("Responder", answer)
    /\ sa["Responder"] # nil
    /\ answer.ke # Invalid => answer.ke.group = sa["Responder"].info.dh

Arrived(r) == IF r = "Responder" THEN offer ELSE answer
KeyOf(r, info, m) ==
  [info |-> info,
   SK |-> GenerateKeyForIKESA(info, ConcatenatedNonce(r, m), GetSharedKey(info.dh, r, m.ke), SPIs(r, m))]

\* A key object holds what the message that arrived at its endpoint leads to.
KeyInv ==
  \A r \in Role : sa[r] # nil =>
    /\ Arrived(r) # nil /\ Arrived(r).ke # Invalid
    /\ sa[r].info \in Suites
    /\ sa[r] = KeyOf(r, sa[r].info, Arrived(r))

KeysOf(key, info, ns) ==
  [i \in 1 .. 4 |-> [c \in 1 .. Len(ns) |-> ChildKeys(key, info, ns[c])[i]]]
ChildOf(key, info, ns) == [info |-> info, keys |-> KeysOf(key, info, ns), nonces |-> ns]

\* A child's keys are those of its calls, in their order.
ChildInv ==
  \A r \in Role : child[r] # nil =>
    /\ child[r].info \in ChildSuites /\ child[r].nonces \in Seq(ChildNonces)
    /\ child[r].nonces # <<>> => sa[r] # nil
    /\ child[r] = ChildOf(sa[r], child[r].info, child[r].nonces)

Shape == sa \in [Role -> {sa[r] : r \in Role}] /\ child \in [Role -> {child[r] : r \in Role}]

IInv == Shape /\ OfferInv /\ AnswerInv /\ KeyInv /\ ChildInv

\* A transform that DecodeTransform finds is in the registry of its kind.
LEMMA Decoded ==
  ASSUME NEW t, NEW k \in {"dh", "encr", "integ", "prf", "esn"}, DecodeTransform(k, t) # nilType
  PROVE  DecodeTransform(k, t) \in Registry[k]
<1>1. CASE k = "encr"
  BY <1>1 DEF DecodeTransform, toString_ENCR_AES_CBC, Registry, encrTypes
<1>2. CASE k # "encr"
  BY <1>2 DEF DecodeTransform
<1> QED BY <1>1, <1>2

\* The name of no registered algorithm is that of a nil one.
LEMMA NilIsNoType ==
  nilType \notin dhTypes \cup encrTypes \cup integTypes \cup prfTypes \cup esnTypes
BY DEF nilType, dhTypes, encrTypes, integTypes, prfTypes, esnTypes

\* Algorithms that are all found make a suite.
LEMMA FoundIsSuite ==
  ASSUME NEW p \in AllProposals, \A k \in {"dh", "encr", "integ", "prf"} : Infos(p)[k] # nilType
  PROVE  Infos(p) \in Suites /\ DOMAIN Infos(p) = {"dh", "encr", "integ", "prf"}
<1>1. DOMAIN p = {"dh", "encr", "integ", "prf"}
  <2>1. CASE p \in Proposals
    BY <2>1, ProposalAssumption
  <2>2. ASSUME NEW i \in Suites, p = ToProposal(i) PROVE DOMAIN p = {"dh", "encr", "integ", "prf"}
    <3>1. DOMAIN i = {"dh", "encr", "integ", "prf"}
      BY DEF Suites
    <3> QED BY <2>2, <3>1 DEF ToProposal
  <2> QED BY <2>1, <2>2 DEF AllProposals
<1>2. Infos(p) = [k \in {"dh", "encr", "integ", "prf"} |-> DecodeTransform(k, p[k][1])]
  BY <1>1 DEF Infos
<1>3. \A k \in {"dh", "encr", "integ", "prf"} : Infos(p)[k] \in Registry[k]
  BY <1>2, Decoded
<1>4. /\ Infos(p)["dh"] \in dhTypes /\ Infos(p)["encr"] \in encrTypes
      /\ Infos(p)["integ"] \in integTypes /\ Infos(p)["prf"] \in prfTypes
  BY <1>3 DEF Registry
<1>5. Infos(p) = [dh |-> Infos(p)["dh"], encr |-> Infos(p)["encr"],
                  integ |-> Infos(p)["integ"], prf |-> Infos(p)["prf"]]
  BY <1>2
<1>6. ASSUME NEW a \in dhTypes, NEW b \in encrTypes, NEW c \in integTypes, NEW d \in prfTypes
      PROVE  [dh |-> a, encr |-> b, integ |-> c, prf |-> d] \in Suites
  BY DEF Suites
<1> QED BY <1>2, <1>4, <1>5, <1>6

\* An accepted ESP proposal gives a child suite.
LEMMA AcceptedIsChildSuite ==
  ASSUME NEW p \in ChildProposals, ChildProposalAccepted(p)
  PROVE  ChildInfo(p) \in ChildSuites
<1> DEFINE c == ChildInfo(p)
<1>1. c.encr \in encrTypes
  BY Decoded DEF ChildProposalAccepted, ChildInfo, Registry
<1>2. c.esn \in esnTypes
  BY Decoded DEF ChildProposalAccepted, ChildInfo, Registry
<1>3. c.dh \in dhTypes \cup {nilType}
  BY Decoded DEF ChildInfo, Registry
<1>4. c.integ \in integTypes \cup {nilType}
  BY Decoded DEF ChildInfo, Registry
<1> QED BY <1>1, <1>2, <1>3, <1>4 DEF ChildInfo, ChildSuites
\* Before the first call a child has no keys, whatever the IKE SA is.
LEMMA ChildOfNone ==
  ASSUME NEW key, NEW info
  PROVE  ChildOf(key, info, <<>>) = [info |-> info, keys |-> [i \in 1 .. 4 |-> <<>>], nonces |-> <<>>]
<1>1. \A i \in 1 .. 4 : [c \in 1 .. Len(<<>>) |-> ChildKeys(key, info, <<>>[c])[i]] = <<>>
  OBVIOUS
<1> QED BY <1>1 DEF ChildOf, KeysOf

\* A call of GenerateKeyForChildSA appends its keys to those of the calls before.
Extended(keys, new) == [i \in 1 .. 4 |-> Append(keys[i], new[i])]

\* The keys after one more call are those of one more nonce.
LEMMA KeysOfAppend ==
  ASSUME NEW key, NEW info, NEW ns \in Seq(ChildNonces), NEW nonce \in ChildNonces
  PROVE  Extended(KeysOf(key, info, ns), ChildKeys(key, info, nonce)) = KeysOf(key, info, Append(ns, nonce))
<1>0. SUFFICES ASSUME NEW i \in 1 .. 4
               PROVE  Append(KeysOf(key, info, ns)[i], ChildKeys(key, info, nonce)[i])
                        = KeysOf(key, info, Append(ns, nonce))[i]
  <2>1. KeysOf(key, info, Append(ns, nonce)) = [i \in 1 .. 4 |-> KeysOf(key, info, Append(ns, nonce))[i]]
    BY Zenon DEF KeysOf
  <2> QED BY <2>1, Zenon DEF Extended
<1> DEFINE K(n) == ChildKeys(key, info, n)[i]
           old == [c \in 1 .. Len(ns) |-> K(ns[c])]
           new == [c \in 1 .. Len(Append(ns, nonce)) |-> K(Append(ns, nonce)[c])]
<1>1. KeysOf(key, info, ns)[i] = old /\ KeysOf(key, info, Append(ns, nonce))[i] = new
  BY Zenon DEF KeysOf
<1> HIDE DEF K
<1>2. Append(old, K(nonce)) = new
  <2>1. /\ Len(ns) \in Nat /\ Len(Append(ns, nonce)) = Len(ns) + 1
        /\ Append(ns, nonce)[Len(ns) + 1] = nonce
        /\ \A c \in 1 .. Len(ns) : Append(ns, nonce)[c] = ns[c]
    OBVIOUS
  <2>2. old \in Seq({K(ns[c]) : c \in 1 .. Len(ns)}) /\ Len(old) = Len(ns)
    BY <2>1
  <2>3. \A c \in 1 .. Len(ns) + 1 : Append(old, K(nonce))[c] = new[c]
    BY <2>1, <2>2
  <2>4. /\ Append(old, K(nonce)) = [c \in 1 .. Len(ns) + 1 |-> Append(old, K(nonce))[c]]
        /\ new = [c \in 1 .. Len(ns) + 1 |-> new[c]]
    BY <2>1, <2>2
  <2> HIDE DEF old, new
  <2> QED BY <2>3, <2>4
<1> QED BY <1>1, <1>2 DEF K

\* The invariant holds before anything was sent.
LEMMA InitIInv == Init => IInv
BY DEF Init, IInv, Shape, OfferInv, AnswerInv, KeyInv, ChildInv, Arrived, nil, Role

\* Propose sends an unaltered message; nothing was derived from it yet.
LEMMA ProposeIInv == IInv /\ Propose => IInv'
<1> SUFFICES ASSUME IInv, Propose PROVE IInv'
  OBVIOUS
<1>1. offer = nil /\ answer' = answer /\ sa' = sa /\ child' = child
  BY DEF Propose
<1>2. PICK p \in Proposals : /\ DecodeTransform("dh", p.dh[1]) # nilType
                             /\ offer' = Message("Initiator", p, DecodeTransform("dh", p.dh[1]))
  BY DEF Propose
<1> DEFINE g == DecodeTransform("dh", p.dh[1])
<1>3. g \in dhTypes
  BY <1>2, Decoded DEF Registry
<1> HIDE DEF g
<1>4. offer' \in Messages("Initiator") /\ Marked("Initiator", offer')
  BY <1>2, <1>3 DEF g, Message, Messages, Marked, GetPublicValue, AllProposals
<1>5. sa["Responder"] = nil
  BY <1>1 DEF IInv, KeyInv, Arrived, Role
<1>6. KeyInv'
  BY <1>1, <1>5 DEF IInv, KeyInv, Arrived, Role
<1> QED BY <1>1, <1>4, <1>6 DEF IInv, Shape, OfferInv, AnswerInv, ChildInv

\* An alteration of a part that counts marks the message.
LEMMA AlterationMarked ==
  ASSUME NEW r \in Role, NEW m \in Messages(r), Marked(r, m), ~ m.altered, NEW n \in Alterations(m)
  PROVE  /\ n \in Messages(r) /\ Marked(r, n)
         /\ n.ke # Invalid => n.ke.group = m.ke.group
<1>1. m.ke.x = r /\ r # "altered" /\ r # "none"
  BY DEF Marked, Role
<1>2. m.ke # Invalid /\ m.ke \in [group: dhTypes, x: {r, "altered"}]
  BY <1>1 DEF Messages, Invalid
<1>3. CASE \E p \in Proposals : n = [m EXCEPT !.proposal = p]
  BY <1>3 DEF Messages, Marked, AllProposals
<1>4. CASE n = [m EXCEPT !.ke = Invalid, !.altered = TRUE]
  BY <1>1, <1>4, Zenon DEF Messages, Marked, Invalid
<1>5. CASE n = [m EXCEPT !.ke = GetPublicValue(m.ke.group, "altered"), !.altered = TRUE]
  <2>1. GetPublicValue(m.ke.group, "altered") \in [group: dhTypes, x: {r, "altered"}]
    BY <1>2 DEF GetPublicValue
  <2> QED BY <1>1, <1>5, <2>1, Zenon DEF Messages, Marked, GetPublicValue
<1>6. CASE n = [m EXCEPT !.nonce = Nonce("altered"), !.altered = TRUE]
  BY <1>1, <1>6, Zenon DEF Messages, Marked, Nonce
<1>7. CASE n = [m EXCEPT !.spi = SPI("altered"), !.altered = TRUE]
  BY <1>1, <1>7, Zenon DEF Messages, Marked, SPI
<1> QED BY <1>3, <1>4, <1>5, <1>6, <1>7 DEF Alterations

\* The network alters the offer before the responder's call, the answer before
\* the initiator's: no key object depends on it yet.
LEMMA AlterOfferIInv == IInv /\ AlterOffer => IInv'
<1> SUFFICES ASSUME IInv, AlterOffer PROVE IInv'
  OBVIOUS
<1>1. /\ offer # nil /\ ~ offer.altered /\ sa["Responder"] = nil /\ offer' \in Alterations(offer)
      /\ answer' = answer /\ sa' = sa /\ child' = child
  BY DEF AlterOffer
<1>2. offer \in Messages("Initiator") /\ Marked("Initiator", offer)
  BY <1>1 DEF IInv, OfferInv
<1>3. offer' \in Messages("Initiator") /\ Marked("Initiator", offer')
  BY <1>1, <1>2, AlterationMarked DEF Role
<1>4. KeyInv'
  BY <1>1 DEF IInv, KeyInv, Arrived, Role
<1> QED BY <1>1, <1>3, <1>4 DEF IInv, Shape, OfferInv, AnswerInv, ChildInv

\* The answer arrives altered.
LEMMA AlterAnswerIInv == IInv /\ AlterAnswer => IInv'
<1> SUFFICES ASSUME IInv, AlterAnswer PROVE IInv'
  OBVIOUS
<1>1. /\ answer # nil /\ ~ answer.altered /\ sa["Initiator"] = nil /\ answer' \in Alterations(answer)
      /\ offer' = offer /\ sa' = sa /\ child' = child
  BY DEF AlterAnswer
<1>2. /\ answer \in Messages("Responder") /\ Marked("Responder", answer) /\ sa["Responder"] # nil
      /\ answer.ke # Invalid => answer.ke.group = sa["Responder"].info.dh
  BY <1>1 DEF IInv, AnswerInv
<1>3. /\ answer' \in Messages("Responder") /\ Marked("Responder", answer')
      /\ answer'.ke # Invalid => answer'.ke.group = answer.ke.group
  BY <1>1, <1>2, AlterationMarked DEF Role
<1>4. answer.ke # Invalid
  BY <1>1, <1>2 DEF Marked, Invalid
<1>5. KeyInv'
  BY <1>1 DEF IInv, KeyInv, Arrived, Role
<1> QED BY <1>1, <1>2, <1>3, <1>4, <1>5 DEF IInv, Shape, OfferInv, AnswerInv, ChildInv
\* A new key object does not disturb the children: without one there were no
\* calls of GenerateKeyForChildSA that succeeded.
LEMMA InstallKeeps ==
  ASSUME IInv, NEW r \in Role, sa[r] = nil, NEW key, sa' = [sa EXCEPT ![r] = key], key # nil, child' = child
  PROVE  /\ sa'[r] = key /\ \A q \in Role \ {r} : sa'[q] = sa[q]
         /\ Shape' /\ ChildInv'
<1>1. sa \in [Role -> {sa[q] : q \in Role}]
  BY DEF IInv, Shape
<1>2. sa'[r] = key /\ \A q \in Role \ {r} : sa'[q] = sa[q]
  BY <1>1
<1>3. Shape'
  <2>1. sa' \in [Role -> {sa'[q] : q \in Role}]
    BY <1>1
  <2> QED BY <2>1 DEF IInv, Shape
<1>4. ASSUME NEW q \in Role, child[q] # nil
      PROVE  /\ child[q].info \in ChildSuites /\ child[q].nonces \in Seq(ChildNonces)
             /\ child[q].nonces # <<>> => sa'[q] # nil
             /\ child[q] = ChildOf(sa'[q], child[q].info, child[q].nonces)
  <2>1. /\ child[q].info \in ChildSuites /\ child[q].nonces \in Seq(ChildNonces)
        /\ child[q].nonces # <<>> => sa[q] # nil
        /\ child[q] = ChildOf(sa[q], child[q].info, child[q].nonces)
    BY <1>4 DEF IInv, ChildInv
  <2>2. CASE q = r
    <3>1. child[q].nonces = <<>>
      BY <2>1, <2>2
    <3>2. ChildOf(sa[q], child[q].info, <<>>) = ChildOf(sa'[q], child[q].info, <<>>)
      BY ChildOfNone, Zenon
    <3> QED BY <2>1, <3>1, <3>2, Zenon
  <2>3. CASE q # r
    BY <1>2, <2>1, <2>3, Zenon
  <2> QED BY <2>2, <2>3
<1>5. ChildInv'
  BY <1>4 DEF ChildInv
<1> QED BY <1>2, <1>3, <1>5

\* With algorithms that are all found, GenerateKeyForIKESA does not panic.
LEMMA DerivedKey ==
  ASSUME NEW r \in Role, NEW info \in Suites, NEW m
  PROVE  /\ Derive(r, info, m, ConcatenatedNonce(r, m)) = KeyOf(r, info, m)
         /\ KeyOf(r, info, m).info = info
         /\ KeyOf(r, info, m) # nil
<1>1. DOMAIN info = {"dh", "encr", "integ", "prf"} /\ \A k \in DOMAIN info : info[k] # nilType
  BY NilIsNoType DEF Suites
<1>2. Derive(r, info, m, ConcatenatedNonce(r, m)) = KeyOf(r, info, m)
  BY <1>1, Zenon DEF Derive, KeyOf
<1>3. KeyOf(r, info, m).info = info /\ KeyOf(r, info, m) # nil
  BY DEF KeyOf, nil
<1> QED BY <1>2, <1>3

\* A call that fails leaves the objects alone.
LEMMA FailIInv == IInv /\ Fail /\ offer' = offer => IInv'
BY DEF Fail, IInv, Shape, OfferInv, AnswerInv, KeyInv, ChildInv, Arrived

\* The responder's call: an error, or the key of the offer that arrived and an
\* answer in the chosen group.
LEMMA NewIKESAKeyIInv == IInv /\ NewIKESAKey => IInv'
<1> SUFFICES ASSUME IInv, NewIKESAKey, ~ Fail PROVE IInv'
  BY FailIInv DEF NewIKESAKey
<1> DEFINE p == offer.proposal
           info == Infos(p)
           r == "Responder"
<1>1. offer # nil /\ sa[r] = nil /\ offer' = offer
  BY DEF NewIKESAKey
<1>2. PICK nonce \in {ConcatenatedNonce(r, offer), <<>>} :
        /\ \A k \in {"dh", "encr", "prf"} : info[k] # nilType
        /\ InRange(info.dh, offer.ke)
        /\ DerivationChecked(info, nonce)
        /\ Install(r, Derive(r, info, offer, nonce))
        /\ answer' = Message(r, ToProposal(info), info.dh)
        /\ UNCHANGED child
  BY DEF NewIKESAKey
<1>3. offer \in Messages("Initiator")
  BY <1>1 DEF IInv, OfferInv
<1>4. info \in Suites
  <2>1. p \in AllProposals
    BY <1>3 DEF Messages
  <2>2. \A k \in {"dh", "encr", "integ", "prf"} : info[k] # nilType
    BY <1>2 DEF DerivationChecked
  <2> QED BY <2>1, <2>2, FoundIsSuite
<1> HIDE DEF info
<1>5. nonce = ConcatenatedNonce(r, offer)
  BY <1>2 DEF DerivationChecked
<1> DEFINE key == KeyOf(r, info, offer)
<1>6. sa' = [sa EXCEPT ![r] = key] /\ key # nil /\ key.info = info /\ child' = child
  BY <1>2, <1>4, <1>5, DerivedKey, Zenon DEF Install, Role
<1> HIDE DEF key
<1>7. r \in Role /\ "Initiator" \in Role /\ r # "Initiator"
  BY DEF Role
<1>8. sa'[r] = key /\ sa'["Initiator"] = sa["Initiator"] /\ Shape' /\ ChildInv'
  BY <1>1, <1>6, <1>7, InstallKeeps, Zenon
<1>9. answer = nil
  BY <1>1 DEF IInv, AnswerInv
<1>10. sa["Initiator"] = nil
  BY <1>7, <1>9 DEF IInv, KeyInv, Arrived
<1>11. AnswerInv'
  <2>1. ToProposal(info) \in AllProposals
    BY <1>4 DEF AllProposals
  <2>2. info.dh \in dhTypes
    BY <1>4 DEF Suites
  <2>3. answer' = [proposal |-> ToProposal(info), ke |-> [group |-> info.dh, x |-> "Responder"],
                   nonce |-> Nonce("Responder"), spi |-> SPI("Responder"), altered |-> FALSE]
    BY <1>2 DEF Message, GetPublicValue
  <2>4. answer' \in Messages("Responder") /\ Marked("Responder", answer')
    BY <2>1, <2>2, <2>3 DEF Messages, Marked
  <2>5. answer'.ke.group = sa'["Responder"].info.dh
    BY <1>6, <1>8, <2>3
  <2> QED BY <1>6, <1>8, <2>4, <2>5 DEF AnswerInv
<1>12. KeyInv'
  <2>1. offer.ke # Invalid
    BY <1>2 DEF InRange
  <2>2. Arrived("Responder")' = offer
    BY <1>1 DEF Arrived
  <2>3. sa'["Responder"] = KeyOf("Responder", info, offer) /\ sa'["Responder"].info = info
    BY <1>6, <1>8 DEF key
  <2>4. sa'["Initiator"] = nil
    BY <1>8, <1>10
  <2> QED BY <1>1, <1>4, <2>1, <2>2, <2>3, <2>4 DEF KeyInv, Role
<1> QED BY <1>1, <1>8, <1>11, <1>12 DEF IInv, OfferInv

\* The initiator's: an error, or the key of the answer that arrived.
LEMMA FinishInitiatorIInv == IInv /\ FinishInitiator => IInv'
<1> SUFFICES ASSUME IInv, FinishInitiator, ~ Fail PROVE IInv'
  BY FailIInv DEF FinishInitiator
<1> DEFINE p == answer.proposal
           info == Infos(p)
           r == "Initiator"
<1>1. answer # nil /\ sa[r] = nil /\ offer' = offer
  BY DEF FinishInitiator
<1>2. /\ info.dh # nilType /\ InRange(info.dh, answer.ke)
      /\ DerivationChecked(info, ConcatenatedNonce(r, answer))
      /\ Install(r, Derive(r, info, answer, ConcatenatedNonce(r, answer)))
      /\ answer' = answer /\ child' = child
  BY DEF FinishInitiator
<1>3. answer \in Messages("Responder") /\ sa["Responder"] # nil
  BY <1>1 DEF IInv, AnswerInv
<1>4. info \in Suites
  <2>1. p \in AllProposals
    BY <1>3 DEF Messages
  <2>2. \A k \in {"dh", "encr", "integ", "prf"} : info[k] # nilType
    BY <1>2 DEF DerivationChecked
  <2> QED BY <2>1, <2>2, FoundIsSuite
<1> HIDE DEF info
<1> DEFINE key == KeyOf(r, info, answer)
<1>5. sa' = [sa EXCEPT ![r] = key] /\ key # nil /\ key.info = info
  BY <1>2, <1>4, DerivedKey, Zenon DEF Install, Role
<1> HIDE DEF key
<1>6. r \in Role /\ "Responder" \in Role /\ r # "Responder"
  BY DEF Role
<1>7. sa'[r] = key /\ sa'["Responder"] = sa["Responder"] /\ Shape' /\ ChildInv'
  BY <1>1, <1>2, <1>5, <1>6, InstallKeeps, ZenonT(60)
<1>8. KeyInv'
  <2>1. answer.ke # Invalid
    BY <1>2 DEF InRange
  <2>2. Arrived("Initiator")' = answer /\ Arrived("Responder")' = Arrived("Responder")
    BY <1>1, <1>2 DEF Arrived
  <2>3. sa'["Initiator"] = KeyOf("Initiator", info, answer) /\ sa'["Initiator"].info = info
    BY <1>5, <1>7 DEF key
  <2>4. /\ Arrived("Responder") # nil /\ Arrived("Responder").ke # Invalid
        /\ sa["Responder"].info \in Suites
        /\ sa["Responder"] = KeyOf("Responder", sa["Responder"].info, Arrived("Responder"))
    BY <1>3, <1>6 DEF IInv, KeyInv
  <2> QED BY <1>1, <1>4, <1>7, <2>1, <2>2, <2>3, <2>4 DEF KeyInv, Role
<1> QED BY <1>1, <1>2, <1>7, <1>8, SMTT(60) DEF IInv, OfferInv, AnswerInv
\* A new child object has a child suite and no keys.
LEMMA NewChildIInv == ASSUME NEW r \in Role PROVE IInv /\ NewChildSAKeyByProposal(r) => IInv'
<1> SUFFICES ASSUME IInv, NewChildSAKeyByProposal(r), ~ Fail PROVE IInv'
  BY FailIInv, ZenonT(60) DEF NewChildSAKeyByProposal
<1>1. child[r] = nil /\ offer' = offer
  BY DEF NewChildSAKeyByProposal
<1>2. PICK p \in ChildProposals :
        /\ ChildProposalAccepted(p)
        /\ child' = [child EXCEPT ![r] = [info |-> ChildInfo(p), keys |-> [i \in 1 .. 4 |-> <<>>], nonces |-> <<>>]]
        /\ UNCHANGED <<answer, sa>>
  BY DEF NewChildSAKeyByProposal
<1> DEFINE new == [info |-> ChildInfo(p), keys |-> [i \in 1 .. 4 |-> <<>>], nonces |-> <<>>]
<1>3. new.info \in ChildSuites /\ new.nonces = <<>> /\ new = ChildOf(sa[r], new.info, <<>>)
  BY <1>2, AcceptedIsChildSuite, ChildOfNone
<1> HIDE DEF new
<1>4. child \in [Role -> {child[q] : q \in Role}]
  BY DEF IInv, Shape
<1>5. /\ child'[r] = new /\ \A q \in Role \ {r} : child'[q] = child[q]
      /\ child' \in [Role -> {child'[q] : q \in Role}]
  BY <1>2, <1>4 DEF new
<1>6. ChildInv'
  <2>1. ASSUME NEW q \in Role, child'[q] # nil
        PROVE  /\ child'[q].info \in ChildSuites /\ child'[q].nonces \in Seq(ChildNonces)
               /\ child'[q].nonces # <<>> => sa[q] # nil
               /\ child'[q] = ChildOf(sa[q], child'[q].info, child'[q].nonces)
    <3>1. CASE q = r
      <4>1. <<>> \in Seq(ChildNonces)
        OBVIOUS
      <4> QED BY <1>3, <1>5, <3>1, <4>1, Zenon
    <3>2. CASE q # r
      BY <1>5, <2>1, <3>2 DEF IInv, ChildInv
    <3> QED BY <3>1, <3>2
  <2> QED BY <1>2, <2>1 DEF ChildInv
<1> QED BY <1>1, <1>2, <1>5, <1>6, SMTT(60) DEF IInv, Shape, OfferInv, AnswerInv, KeyInv, Arrived

\* A call of GenerateKeyForChildSA adds the keys of one more nonce.
LEMMA GenerateChildIInv == ASSUME NEW r \in Role PROVE IInv /\ GenerateKeyForChildSA(r) => IInv'
<1> SUFFICES ASSUME IInv, GenerateKeyForChildSA(r), ~ Fail PROVE IInv'
  BY FailIInv, ZenonT(60) DEF GenerateKeyForChildSA
<1>1. child[r] # nil /\ sa[r] # nil /\ offer' = offer
  BY DEF GenerateKeyForChildSA
<1> DEFINE info == child[r].info
           ns == child[r].nonces
<1>2. PICK nonce \in ChildNonces :
        /\ child' = [child EXCEPT ![r].keys = [i \in 1 .. 4 |-> Append(@[i], ChildKeys(sa[r], info, nonce)[i])],
                                  ![r].nonces = Append(@, nonce)]
        /\ UNCHANGED <<answer, sa>>
  BY ZenonT(60) DEF GenerateKeyForChildSA
<1>3. /\ info \in ChildSuites /\ ns \in Seq(ChildNonces) /\ child[r] = ChildOf(sa[r], info, ns)
      /\ child \in [Role -> {child[q] : q \in Role}]
  BY <1>1 DEF IInv, ChildInv, Shape
<1> DEFINE K == Extended(child[r].keys, ChildKeys(sa[r], info, nonce))
           new == [info |-> info, keys |-> K, nonces |-> Append(ns, nonce)]
<1>4. child' = [child EXCEPT ![r] = new]
  <2>1. PICK K0 : child[r] = [info |-> info, keys |-> K0, nonces |-> ns]
    BY <1>3 DEF ChildOf
  <2> HIDE DEF info, ns, K
  <2>2. [child EXCEPT ![r].keys = K] = [child EXCEPT ![r] = [info |-> info, keys |-> K, nonces |-> ns]]
    <3>1. [child EXCEPT ![r].keys = K] = [child EXCEPT ![r] = [child[r] EXCEPT !.keys = K]]
      OBVIOUS
    <3>2. [child[r] EXCEPT !.keys = K] = [info |-> info, keys |-> K, nonces |-> ns]
      BY <2>1
    <3> QED BY <3>1, <3>2, Zenon
  <2>3. [child EXCEPT ![r].keys = K][r] = [info |-> info, keys |-> K, nonces |-> ns]
    BY <1>3, <2>2, SMTT(60)
  <2>4. child' = [[child EXCEPT ![r].keys = K] EXCEPT ![r].nonces = Append(@, nonce)]
    BY <1>2 DEF K, Extended
  <2> QED BY <1>3, <2>2, <2>3, <2>4
<1>6. new = ChildOf(sa[r], info, Append(ns, nonce))
  <2> HIDE DEF info, ns
  <2>1. ns \in Seq(ChildNonces) /\ child[r].keys = KeysOf(sa[r], info, ns)
    BY <1>3 DEF ChildOf
  <2>2. K = KeysOf(sa[r], info, Append(ns, nonce))
    BY <2>1, KeysOfAppend
  <2> HIDE DEF K
  <2> QED BY <2>2 DEF ChildOf
<1> HIDE DEF info, ns, K, new
<1>9. /\ child'[r] = new /\ \A q \in Role \ {r} : child'[q] = child[q]
      /\ child' \in [Role -> {child'[q] : q \in Role}]
  BY <1>3, <1>4
<1>7. /\ new.info = info /\ new.nonces = Append(ns, nonce)
      /\ Append(ns, nonce) \in Seq(ChildNonces)
  BY <1>3 DEF new
<1>8. ChildInv'
  <2>1. ASSUME NEW q \in Role, child'[q] # nil
        PROVE  /\ child'[q].info \in ChildSuites /\ child'[q].nonces \in Seq(ChildNonces)
               /\ child'[q].nonces # <<>> => sa[q] # nil
               /\ child'[q] = ChildOf(sa[q], child'[q].info, child'[q].nonces)
    <3>1. CASE q = r
      BY <1>1, <1>3, <1>6, <1>7, <1>9, <3>1, Zenon
    <3>2. CASE q # r
      BY <1>9, <2>1, <3>2 DEF IInv, ChildInv
    <3> QED BY <3>1, <3>2
  <2> QED BY <1>2, <2>1, ZenonT(60) DEF ChildInv
<1> QED BY <1>1, <1>2, <1>8, <1>9, ZenonT(60) DEF IInv, Shape, OfferInv, AnswerInv, KeyInv, Arrived

\* Every step keeps the invariant.
LEMMA NextIInv == IInv /\ [Next]_vars => IInv'
<1> SUFFICES ASSUME IInv, [Next]_vars PROVE IInv'
  OBVIOUS
<1>1. CASE UNCHANGED vars
  BY <1>1 DEF vars, IInv, Shape, OfferInv, AnswerInv, KeyInv, ChildInv, Arrived
<1> QED BY <1>1, ProposeIInv, AlterOfferIInv, NewIKESAKeyIInv, AlterAnswerIInv, FinishInitiatorIInv,
           NewChildIInv, GenerateChildIInv DEF Next

\* Every key object, at every time, is what the messages that arrived and the
\* calls that were made lead to (security.go:106, 203, 405).
THEOREM Invariance == Spec => []IInv
BY InitIInv, NextIInv, PTL DEF Spec
------------------------------------------------------------------------------
(* The properties.                                                           *)

\* What the invariant says of a key object that exists.
LEMMA KeyObject ==
  ASSUME IInv, NEW r \in Derived
  PROVE  /\ r \in Role /\ sa[r] # nil /\ sa[r].info \in Suites
         /\ sa[r] = KeyOf(r, sa[r].info, Arrived(r))
         /\ Arrived(r) # nil /\ Arrived(r).ke # Invalid
BY DEF IInv, KeyInv, Derived

\* No endpoint calls a method of a nil algorithm, and every algorithm in a key
\* object is registered, although security.go:167 does not test the integrity
\* algorithm.
THEOREM OnlySupportedHolds == Spec => []OnlySupported
<1>1. IInv => OnlySupported
  <2> SUFFICES ASSUME IInv PROVE OnlySupported
    OBVIOUS
  <2>1. ASSUME NEW r \in Role PROVE sa[r] # panic
    <3>1. DOMAIN panic = {"panic"} /\ DOMAIN nil = {}
      BY DEF panic, nil
    <3>2. \A info, m : DOMAIN KeyOf(r, info, m) = {"info", "SK"}
      BY DEF KeyOf
    <3>3. sa[r] # nil => DOMAIN sa[r] = {"info", "SK"}
      BY <3>2 DEF IInv, KeyInv
    <3>4. {"panic"} # {} /\ {"panic"} # {"info", "SK"}
      OBVIOUS
    <3> QED BY <3>1, <3>3, <3>4, ZenonT(60)
  <2>2. ASSUME NEW r \in Derived, NEW k \in DOMAIN sa[r].info PROVE sa[r].info[k] \in Registry[k]
    <3>1. sa[r].info \in Suites
      BY KeyObject
    <3>2. \A i \in Suites : \A q \in DOMAIN i : i[q] \in Registry[q]
      BY DEF Suites, Registry
    <3> QED BY <3>1, <3>2
  <2>3. ASSUME NEW r \in Role, child[r] # nil, NEW k \in DOMAIN child[r].info
        PROVE  child[r].info[k] \in Registry[k] \cup (IF k \in {"dh", "integ"} THEN {nilType} ELSE {})
    <3>1. child[r].info \in ChildSuites
      BY <2>3 DEF IInv, ChildInv
    <3>2. \A i \in ChildSuites : \A q \in DOMAIN i :
            i[q] \in Registry[q] \cup (IF q \in {"dh", "integ"} THEN {nilType} ELSE {})
      BY SMTT(60) DEF ChildSuites, Registry
    <3> QED BY <3>1, <3>2
  <2> QED BY <2>1, <2>2, <2>3 DEF OnlySupported
<1> QED BY <1>1, Invariance, PTL

\* No octet of a key stream serves two purposes, in an IKE SA or in a child.
THEOREM KeysDisjointHolds == Spec => []KeysDisjoint
<1>1. IInv => KeysDisjoint
  <2> SUFFICES ASSUME IInv PROVE KeysDisjoint
    OBVIOUS
  <2>1. ASSUME NEW r \in Derived, NEW m \in DOMAIN sa[r].SK, NEW n \in DOMAIN sa[r].SK, m # n
        PROVE  ~ Overlap(sa[r].SK[m], sa[r].SK[n])
    <3>1. sa[r].info \in Suites /\ sa[r] = KeyOf(r, sa[r].info, Arrived(r))
      BY KeyObject, SMTT(60)
    <3> DEFINE info == sa[r].info
               nonce == ConcatenatedNonce(r, Arrived(r))
               shared == GetSharedKey(info.dh, r, Arrived(r).ke)
               spi == SPIs(r, Arrived(r))
    <3>2. sa[r].SK = GenerateKeyForIKESA(info, nonce, shared, spi)
      BY <3>1 DEF KeyOf
    <3> HIDE DEF info, nonce, shared, spi
    <3>3. DOMAIN sa[r].SK = SKSet
      BY <3>1, <3>2, IKESAKeys, SMTT(60) DEF info
    <3> QED BY <2>1, <3>1, <3>2, <3>3, IKESADisjoint DEF info
  <2>2. ASSUME NEW r \in Role, child[r] # nil, NEW c \in 1 .. Len(child[r].nonces),
               NEW i \in 1 .. 4, NEW j \in 1 .. 4, i # j
        PROVE  ~ Overlap(child[r].keys[i][c], child[r].keys[j][c])
    <3> DEFINE info == child[r].info
               ns == child[r].nonces
    <3>1. info \in ChildSuites /\ child[r] = ChildOf(sa[r], info, ns)
      BY <2>2 DEF IInv, ChildInv
    <3>2. child[r].keys = KeysOf(sa[r], info, ns)
      BY <3>1, SMTT(60) DEF ChildOf
    <3>3. \A q \in 1 .. 4 : child[r].keys[q][c] = ChildKeys(sa[r], info, ns[c])[q]
      <4>1. \A q \in 1 .. 4 : KeysOf(sa[r], info, ns)[q]
                                = [d \in 1 .. Len(ns) |-> ChildKeys(sa[r], info, ns[d])[q]]
        BY Zenon DEF KeysOf
      <4> QED BY <3>2, <4>1, SMTT(60)
    <3> HIDE DEF info, ns
    <3> QED BY <2>2, <3>1, <3>3, ChildDisjoint
  <2> QED BY <2>1, <2>2 DEF KeysDisjoint
<1> QED BY <1>1, Invariance, PTL

\* The seven keys are equal exactly if the parts of the exchange that enter the
\* derivation are those that were sent.
LEMMA SameExchange ==
  ASSUME NEW o \in Messages("Initiator"), Marked("Initiator", o), o.ke # Invalid,
         NEW a \in Messages("Responder"), Marked("Responder", a), a.ke # Invalid
  PROVE  /\ ConcatenatedNonce("Initiator", a) = ConcatenatedNonce("Responder", o)
              <=> a.nonce = Nonce("Responder") /\ o.nonce = Nonce("Initiator")
         /\ SPIs("Initiator", a) = SPIs("Responder", o)
              <=> a.spi = SPI("Responder") /\ o.spi = SPI("Initiator")
         /\ \A g, h : GetSharedKey(g, "Initiator", a.ke) = GetSharedKey(h, "Responder", o.ke)
              <=> g = h /\ a.ke.group = o.ke.group /\ a.ke.x = "Responder" /\ o.ke.x = "Initiator"
<1>1. /\ ConcatenatedNonce("Initiator", a)["Initiator"] = Nonce("Initiator")
      /\ ConcatenatedNonce("Initiator", a)["Responder"] = a.nonce
      /\ ConcatenatedNonce("Responder", o)["Initiator"] = o.nonce
      /\ ConcatenatedNonce("Responder", o)["Responder"] = Nonce("Responder")
      /\ SPIs("Initiator", a)["Initiator"] = SPI("Initiator")
      /\ SPIs("Initiator", a)["Responder"] = a.spi
      /\ SPIs("Responder", o)["Initiator"] = o.spi
      /\ SPIs("Responder", o)["Responder"] = SPI("Responder")
  BY DEF ConcatenatedNonce, SPIs, Role
<1>2. ConcatenatedNonce("Initiator", a) = ConcatenatedNonce("Responder", o)
        <=> a.nonce = Nonce("Responder") /\ o.nonce = Nonce("Initiator")
  <2>1. ConcatenatedNonce("Initiator", a) = ConcatenatedNonce("Responder", o)
          => a.nonce = Nonce("Responder") /\ o.nonce = Nonce("Initiator")
    BY <1>1
  <2>2. a.nonce = Nonce("Responder") /\ o.nonce = Nonce("Initiator")
          => ConcatenatedNonce("Initiator", a) = ConcatenatedNonce("Responder", o)
    BY DEF ConcatenatedNonce, Role
  <2> QED BY <2>1, <2>2
<1>3. SPIs("Initiator", a) = SPIs("Responder", o)
        <=> a.spi = SPI("Responder") /\ o.spi = SPI("Initiator")
  <2>1. SPIs("Initiator", a) = SPIs("Responder", o)
          => a.spi = SPI("Responder") /\ o.spi = SPI("Initiator")
    BY <1>1
  <2>2. a.spi = SPI("Responder") /\ o.spi = SPI("Initiator")
          => SPIs("Initiator", a) = SPIs("Responder", o)
    BY DEF SPIs, Role
  <2> QED BY <2>1, <2>2
<1>4. a.ke.x \in {"Responder", "altered"} /\ o.ke.x \in {"Initiator", "altered"}
  BY DEF Messages
<1>5. {"Initiator", a.ke.x} = {"Responder", o.ke.x} <=> a.ke.x = "Responder" /\ o.ke.x = "Initiator"
  BY <1>4
<1>6. \A g, h : GetSharedKey(g, "Initiator", a.ke) = GetSharedKey(h, "Responder", o.ke)
        <=> g = h /\ a.ke.group = o.ke.group /\ {"Initiator", a.ke.x} = {"Responder", o.ke.x}
  BY DEF GetSharedKey
<1> QED BY <1>2, <1>3, <1>5, <1>6

\* The ends hold the same keys exactly if everything that counts arrived
\* unaltered and they took the same algorithms.
THEOREM KeysAgreeHolds == Spec => []KeysAgree
<1>1. IInv => KeysAgree
  <2> SUFFICES ASSUME IInv, Derived = Role PROVE KeysAgree
    BY DEF KeysAgree
  <2> DEFINE I == "Initiator"
             R == "Responder"
             iI == sa[I].info
             iR == sa[R].info
  <2>1. I \in Derived /\ R \in Derived
    BY DEF Role
  <2>2. /\ iI \in Suites /\ sa[I] = KeyOf(I, iI, answer) /\ answer # nil /\ answer.ke # Invalid
        /\ iR \in Suites /\ sa[R] = KeyOf(R, iR, offer) /\ offer # nil /\ offer.ke # Invalid
    BY <2>1, KeyObject DEF Arrived
  <2>3. /\ offer \in Messages("Initiator") /\ Marked("Initiator", offer)
        /\ answer \in Messages("Responder") /\ Marked("Responder", answer)
        /\ answer.ke.group = iR.dh
    BY <2>2 DEF IInv, OfferInv, AnswerInv
  <2> DEFINE nI == ConcatenatedNonce("Initiator", answer)
             nR == ConcatenatedNonce("Responder", offer)
             gI == GetSharedKey(iI.dh, "Initiator", answer.ke)
             gR == GetSharedKey(iR.dh, "Responder", offer.ke)
             sI == SPIs("Initiator", answer)
             sR == SPIs("Responder", offer)
             Same == nI = nR /\ gI = gR /\ sI = sR
  <2>4. Same <=> /\ ~ offer.altered /\ ~ answer.altered
                 /\ iI.dh = iR.dh /\ offer.ke.group = iR.dh
    <3>1. /\ nI = nR <=> answer.nonce = Nonce("Responder") /\ offer.nonce = Nonce("Initiator")
          /\ sI = sR <=> answer.spi = SPI("Responder") /\ offer.spi = SPI("Initiator")
          /\ gI = gR <=> /\ iI.dh = iR.dh /\ answer.ke.group = offer.ke.group
                         /\ answer.ke.x = "Responder" /\ offer.ke.x = "Initiator"
      BY <2>2, <2>3, SameExchange
    <3>2. /\ offer.altered <=> ~ (offer.ke.x = "Initiator" /\ offer.nonce = Nonce("Initiator") /\ offer.spi = SPI("Initiator"))
          /\ answer.altered <=> ~ (answer.ke.x = "Responder" /\ answer.nonce = Nonce("Responder") /\ answer.spi = SPI("Responder"))
      BY <2>3, SMTT(60) DEF Marked
    <3> QED BY <2>3, <3>1, <3>2, Zenon
  <2>5. sa[I].SK = GenerateKeyForIKESA(iI, nI, gI, sI) /\ sa[R].SK = GenerateKeyForIKESA(iR, nR, gR, sR)
    BY <2>2 DEF KeyOf
  <2> HIDE DEF iI, iR, nI, nR, gI, gR, sI, sR
  <2>6. sa[I].SK = sa[R].SK => Same /\ iI.prf = iR.prf /\ iI.integ = iR.integ /\ iI.encr = iR.encr
    <3>1. iI \in Suites /\ iR \in Suites
      BY <2>2
    <3>2. SUFFICES ASSUME GenerateKeyForIKESA(iI, nI, gI, sI) = GenerateKeyForIKESA(iR, nR, gR, sR)
                   PROVE  Same /\ iI.prf = iR.prf /\ iI.integ = iR.integ /\ iI.encr = iR.encr
      BY <2>5, Zenon
    <3> QED BY <3>1, <3>2, IKESADetermined
  <2>7. iI = iR <=> iI.dh = iR.dh /\ iI.prf = iR.prf /\ iI.integ = iR.integ /\ iI.encr = iR.encr
    BY <2>2 DEF Suites
  <2>8. iI = iR /\ Same => sa[I].SK = sa[R].SK
    BY <2>5, Zenon
  <2> QED BY <2>4, <2>6, <2>7, <2>8, Zenon DEF KeysAgree, iI, iR
<1> QED BY <1>1, Invariance, PTL
\* The first two keys of a call determine what GenerateKeyForChildSA made them
\* from.
FirstKeysEqual(k1, i1, n1, k2, i2, n2) ==
  /\ ChildKeys(k1, i1, n1)[1] = ChildKeys(k2, i2, n2)[1]
  /\ ChildKeys(k1, i1, n1)[2] = ChildKeys(k2, i2, n2)[2]
MadeAlike(k1, i1, n1, k2, i2, n2) ==
  k1.SK.SK_d = k2.SK.SK_d /\ n1 = n2 /\ i1.encr = i2.encr /\ i1.integ = i2.integ

\* Two child SAs have the same first two keys only if they were made alike.
LEMMA ChildDetermined ==
  ASSUME NEW k1, NEW i1 \in ChildSuites, NEW n1, NEW k2, NEW i2 \in ChildSuites, NEW n2,
         FirstKeysEqual(k1, i1, n1, k2, i2, n2)
  PROVE  MadeAlike(k1, i1, n1, k2, i2, n2)
<1> DEFINE st1 == ChildStream(k1, n1)
           st2 == ChildStream(k2, n2)
           l1 == ChildLens(i1)
           l2 == ChildLens(i2)
<1>1. /\ l1 \in Seq(Nat) /\ l1 # <<>> /\ Len(l1) = 4 /\ l2 \in Seq(Nat) /\ l2 # <<>> /\ Len(l2) = 4
      /\ l1[1] = GetKeyLength[i1.encr] /\ l2[1] = GetKeyLength[i2.encr]
      /\ l1[2] = IF i1.integ = nilType THEN 0 ELSE GetKeyLength[i1.integ]
      /\ l2[2] = IF i2.integ = nilType THEN 0 ELSE GetKeyLength[i2.integ]
  BY ChildLensType
<1>2. Cut(st1, l1)[1] = Cut(st2, l2)[1] /\ Cut(st1, l1)[2] = Cut(st2, l2)[2]
  BY ChildSAKeys DEF FirstKeysEqual
<1>3. st1 = st2 /\ l1[1] = l2[1] /\ l1[2] = l2[2]
  <2> HIDE DEF st1, st2, l1, l2
  <2>1. /\ 1 \in 1 .. Len(l1) /\ 2 \in 1 .. Len(l1) /\ 1 \in 1 .. Len(l2) /\ 2 \in 1 .. Len(l2)
        /\ l1 \in Seq(Nat) /\ l1 # <<>> /\ l2 \in Seq(Nat) /\ l2 # <<>>
    BY <1>1
  <2>2. st1 = st2 /\ l1[1] = l2[1]
    BY <1>2, <2>1, CutDetermined
  <2>3. l1[2] = l2[2]
    BY <1>2, <2>1, CutDetermined
  <2> QED BY <2>2, <2>3, SMTT(60)
<1>4. i1.encr = i2.encr
  BY <1>1, <1>3, LengthTells, ZenonT(60) DEF ChildSuites
<1>5. i1.integ = i2.integ
  <2>1. i1.integ \in integTypes \cup {nilType} /\ i2.integ \in integTypes \cup {nilType}
    BY DEF ChildSuites
  <2>2. /\ i1.integ # nilType => GetKeyLength[i1.integ] \in Nat \ {0}
        /\ i2.integ # nilType => GetKeyLength[i2.integ] \in Nat \ {0}
    BY <2>1, LengthTells, SMTT(60)
  <2> HIDE DEF l1, l2
  <2> QED BY <1>1, <1>3, <2>1, <2>2, LengthTells
<1>6. k1.SK.SK_d = k2.SK.SK_d /\ n1 = n2
  BY <1>3 DEF ChildStream, PrfPlus
<1> QED BY <1>4, <1>5, <1>6, SMTT(60) DEF MadeAlike

\* SK_d is a key of the prf that was negotiated.
LEMMA PrfOfSKd ==
  ASSUME IInv, NEW r \in Derived
  PROVE  sa[r].SK.SK_d.of.prf = sa[r].info.prf
<1>1. sa[r].info \in Suites /\ sa[r] = KeyOf(r, sa[r].info, Arrived(r))
  BY KeyObject, SMTT(60)
<1> DEFINE info == sa[r].info
           nonce == ConcatenatedNonce(r, Arrived(r))
           shared == GetSharedKey(info.dh, r, Arrived(r).ke)
           spi == SPIs(r, Arrived(r))
<1>2. sa[r].SK = GenerateKeyForIKESA(info, nonce, shared, spi)
  BY <1>1 DEF KeyOf
<1>3. info \in Suites
  BY <1>1, SMTT(60)
<1> HIDE DEF info, nonce, shared, spi
<1>4. sa[r].SK.SK_d = Cut(SKStream(info, nonce, shared, spi), SKLens(info))[1]
  BY <1>2, <1>3, IKESAKeys, IndexOfName, SMTT(60)
<1>5. SKLens(info) \in Seq(Nat) /\ SKLens(info) # <<>> /\ 1 \in 1 .. Len(SKLens(info))
  BY <1>3, SKLensType
<1>6. sa[r].SK.SK_d.of = SKStream(info, nonce, shared, spi)
  BY <1>4, <1>5, CutParts
<1>7. SKStream(info, nonce, shared, spi).prf = info.prf
  BY SMTT(60) DEF SKStream, PrfPlus
<1> QED BY <1>6, <1>7, Zenon DEF info

\* Children of the two ends have the same keys exactly if the ends share SK_d,
\* took the same algorithms and made the same calls.
THEOREM ChildKeysAgreeHolds == Spec => []ChildKeysAgree
<1>1. IInv => ChildKeysAgree
  <2> DEFINE I == "Initiator"
             R == "Responder"
             iI == child[I].info
             iR == child[R].info
             nI == child[I].nonces
             nR == child[R].nonces
  <2> SUFFICES ASSUME IInv, Derived = Role,
                      child[I] # nil, nI # <<>>, child[R] # nil, nR # <<>>
               PROVE  child[I].keys = child[R].keys
                        <=> /\ sa[I].SK.SK_d = sa[R].SK.SK_d
                            /\ \A k \in {"encr", "integ"} : iI[k] = iR[k]
                            /\ nI = nR
    BY DEF ChildKeysAgree, Role
  <2>1. /\ iI \in ChildSuites /\ nI \in Seq(ChildNonces) /\ child[I] = ChildOf(sa[I], iI, nI)
        /\ iR \in ChildSuites /\ nR \in Seq(ChildNonces) /\ child[R] = ChildOf(sa[R], iR, nR)
    BY DEF IInv, ChildInv, Role
  <2>2. child[I].keys = KeysOf(sa[I], iI, nI) /\ child[R].keys = KeysOf(sa[R], iR, nR)
    BY <2>1 DEF ChildOf
  <2>3. sa[I].SK.SK_d = sa[R].SK.SK_d => sa[I].info.prf = sa[R].info.prf
    BY PrfOfSKd DEF Role
  <2> HIDE DEF iI, iR, nI, nR, I, R
  <2>4. ASSUME KeysOf(sa[I], iI, nI) = KeysOf(sa[R], iR, nR)
        PROVE  /\ sa[I].SK.SK_d = sa[R].SK.SK_d
               /\ iI.encr = iR.encr /\ iI.integ = iR.integ
               /\ nI = nR
    <3> DEFINE f(q) == [c \in 1 .. Len(nI) |-> ChildKeys(sa[I], iI, nI[c])[q]]
               g(q) == [c \in 1 .. Len(nR) |-> ChildKeys(sa[R], iR, nR[c])[q]]
    <3>1. \A q \in 1 .. 4 : f(q) = g(q)
      <4>1. \A q \in 1 .. 4 : KeysOf(sa[I], iI, nI)[q] = f(q) /\ KeysOf(sa[R], iR, nR)[q] = g(q)
        BY Zenon DEF KeysOf
      <4> HIDE DEF f, g
      <4> QED BY <2>4, <4>1, Zenon
    <3>2. 1 \in 1 .. 4 /\ 2 \in 1 .. 4
      OBVIOUS
    <3>3. DOMAIN f(1) = 1 .. Len(nI) /\ DOMAIN g(1) = 1 .. Len(nR)
      BY Zenon
    <3>4. 1 .. Len(nI) = 1 .. Len(nR)
      <4> HIDE DEF f, g
      <4> QED BY <3>1, <3>2, <3>3, Zenon
    <3>5. Len(nI) = Len(nR) /\ Len(nI) \in Nat /\ 1 \in 1 .. Len(nI)
      BY <2>1, <3>4
    <3>6. ASSUME NEW c \in 1 .. Len(nI)
          PROVE  /\ ChildKeys(sa[I], iI, nI[c])[1] = ChildKeys(sa[R], iR, nR[c])[1]
                 /\ ChildKeys(sa[I], iI, nI[c])[2] = ChildKeys(sa[R], iR, nR[c])[2]
      <4>1. \A q : f(q)[c] = ChildKeys(sa[I], iI, nI[c])[q] /\ g(q)[c] = ChildKeys(sa[R], iR, nR[c])[q]
        BY <3>4, Zenon
      <4> HIDE DEF f, g
      <4> QED BY <3>1, <3>2, <4>1, Zenon
    <3> HIDE DEF f, g
    <3>7. ASSUME NEW c \in 1 .. Len(nI)
          PROVE  /\ sa[I].SK.SK_d = sa[R].SK.SK_d /\ nI[c] = nR[c]
                 /\ iI.encr = iR.encr /\ iI.integ = iR.integ
      <4>1. iI \in ChildSuites /\ iR \in ChildSuites
        BY <2>1
      <4>2. FirstKeysEqual(sa[I], iI, nI[c], sa[R], iR, nR[c])
        BY <3>6, Zenon DEF FirstKeysEqual
      <4>3. MadeAlike(sa[I], iI, nI[c], sa[R], iR, nR[c])
        BY <4>1, <4>2, ChildDetermined, Zenon
      <4> QED BY <4>3 DEF MadeAlike
    <3>8. nI = nR
      BY <2>1, <3>5, <3>7
    <3> QED BY <3>5, <3>7, <3>8
  <2>5. ASSUME sa[I].SK.SK_d = sa[R].SK.SK_d, iI.encr = iR.encr, iI.integ = iR.integ, nI = nR
        PROVE  KeysOf(sa[I], iI, nI) = KeysOf(sa[R], iR, nR)
    <3>1. \A n : ChildStream(sa[I], n) = ChildStream(sa[R], n)
      BY <2>3, <2>5 DEF ChildStream
    <3>2. ChildLens(iI) = ChildLens(iR)
      BY <2>5, Zenon DEF ChildLens
    <3>3. \A n : ChildKeys(sa[I], iI, n) = ChildKeys(sa[R], iR, n)
      <4>1. \A n : /\ ChildKeys(sa[I], iI, n) = Cut(ChildStream(sa[I], n), ChildLens(iI))
                   /\ ChildKeys(sa[R], iR, n) = Cut(ChildStream(sa[R], n), ChildLens(iR))
        BY <2>1, ChildSAKeys
      <4> QED BY <3>1, <3>2, <4>1, Zenon
    <3> QED BY <2>5, <3>3, Zenon DEF KeysOf
  <2> QED BY <2>2, <2>4, <2>5
<1> QED BY <1>1, Invariance, PTL
==============================================================================

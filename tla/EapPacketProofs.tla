--------------------------- MODULE EapPacketProofs ---------------------------
(***************************************************************************)
(* Proofs about EapPacket for every width of an octet, every size of a     *)
(* challenge, all packets and any number of them: what an object says that *)
(* read packets one after the other, and that Marshal and Unmarshal are    *)
(* inverse in both directions.                                             *)
(***************************************************************************)
EXTENDS EapPacket, OctetLemmas

\* The weight of the first of four octets, 1 << 24.
Top == Octet * Word

\* The constants.
LEMMA Constants ==
  /\ Octet \in Nat /\ EapTypeAkaPrime \in Octets /\ EapTypeExpanded \in Octets
  /\ EapMD5ChallengeSize \in Octets /\ EapMD5ChallengeSize > 0
  /\ EapTypeAkaPrime \notin 0 .. 4 /\ EapTypeExpanded \notin 0 .. 4
  /\ EapTypeAkaPrime # EapTypeExpanded
<1>1. EapTypeAkaPrime \notin 0 .. EapTypeMD5 /\ EapTypeExpanded \notin 0 .. EapTypeMD5
  BY EapAssumption, Zenon
<1> QED BY <1>1, EapAssumption, Zenon DEF EapTypeMD5

\* Octets are numbers below Octet, of which there are more than the methods' types.
LEMMA Widths ==
  /\ Octet \in Nat /\ Octet > 5 /\ Word \in Nat /\ Word > 0 /\ Top \in Nat /\ Top > 0
  /\ Octet * Top = Word * Word
<1>1. Octet \in Nat /\ Octet > 5
  BY Constants DEF Octets
<1>2. Word \in Nat /\ Word > 0
  BY <1>1 DEF Word
<1>3. Top \in Nat /\ Top > 0
  BY <1>1, <1>2 DEF Top
<1>4. Octet * Top = Word * Word
  BY <1>1 DEF Top, Word
<1> QED BY <1>1, <1>2, <1>3, <1>4

\* The first octet of n, a 32-bit integer, is x.
Begins(n, x) == n \div Top = x /\ n = x * Top + Masked(n)

\* The integer of four octets, with the first apart from the others.
LEMMA FirstApart ==
  ASSUME NEW x \in Octets, NEW y \in Octets, NEW z \in Octets, NEW u \in Octets
  PROVE  Begins((x * Octet + y) * Word + (z * Octet + u), x)
<1> DEFINE n == (x * Octet + y) * Word + (z * Octet + u)
           l == z * Octet + u
           r == y * Word + l
<1>1. x \in Nat /\ y \in Nat /\ y < Octet
  BY Widths DEF Octets
<1>2. l \in Nat /\ l < Word
  BY Widths, Join16
<1>3. n = (x * Octet + y) * Word + l
  OBVIOUS
<1> HIDE DEF n, l
<1>4. r \in Nat /\ r < Top
  BY <1>1, <1>2, Widths, SumBelow DEF Top
<1>5. n = x * Top + r
  BY <1>1, <1>2, <1>3, Widths DEF Top
<1> HIDE DEF r
<1>6. (x * Top + r) \div Top = x /\ (x * Top + r) % Top = r
  BY <1>1, <1>4, Widths, DivMod
<1>7. Masked(n) = r /\ n \div Top = x
  BY <1>5, <1>6 DEF Masked, Top
<1>8. Begins(n, x)
  BY <1>5, <1>7 DEF Begins
<1> QED BY <1>8 DEF n, l

\* typeAndVendorID (eap_expanded.go:40): the type is the first octet and & 0x00ffffff
\* gives the vendor ID.
LEMMA Tagged ==
  ASSUME NEW e \in Octets, NEW m \in Nat, m < Top
  PROVE  LET x == e * Top + m
         IN  x \in Nat /\ x < Word * Word /\ Masked(x) = m /\ PutUint32(x)[1] = e
<1> DEFINE x == e * Top + m
           t == PutUint32(x)
<1>1. e \in Nat /\ e < Octet
  BY Widths DEF Octets
<1>2. x \in Nat /\ x < Word * Word
  BY <1>1, Widths, SumBelow
<1>3. x \div Top = e /\ x % Top = m
  BY <1>1, Widths, DivMod
<1> HIDE DEF x
<1>4. /\ t[1] \in Octets /\ t[2] \in Octets /\ t[3] \in Octets /\ t[4] \in Octets
      /\ (t[1] * Octet + t[2]) * Word + (t[3] * Octet + t[4]) = x
  BY <1>2, Widths, Put32
<1> HIDE DEF t
<1>5. x \div Top = t[1]
  BY <1>4, FirstApart DEF Begins
<1> QED BY <1>2, <1>3, <1>5 DEF x, t, Masked, Top

\* What is masked is masked.
LEMMA MaskedType ==
  ASSUME NEW n \in Nat
  PROVE  Masked(n) \in Nat /\ Masked(n) < Top /\ Masked(Masked(n)) = Masked(n)
<1>1. n % Top \in Nat /\ n % Top < Top
  BY Widths
<1>2. \A k \in Nat : k < Top => k % Top = k
  BY Widths
<1> QED BY <1>1, <1>2 DEF Masked, Top

------------------------------------------------------------------------------
(* The methods: Marshal of what Unmarshal made of d is d.                     *)

\* Identity, Notification, Nak, and EAP-AKA' as octets.
LEMMA RereadData ==
  ASSUME NEW d \in Seq(Octets), Len(d) > 0
  PROVE  <<d[1]>> \o From(d, 1) = d
<1>1. SubSeq(d, 1, 1) = <<d[1]>> /\ 1 \in 0 .. Len(d)
  BY FirstOne
<1>2. /\ Joined(Octets, d, SubSeq(d, 1, 1), From(d, 1))
      /\ SubSeq(d, 1, 1) \in Seq(Octets) /\ From(d, 1) \in Seq(Octets)
  BY <1>1, SplitAt DEF From
<1> QED BY <1>1, <1>2, JoinedIsConcat, Zenon

\* MD5-Challenge (eap_md5.go:55-74).
LEMMA RereadMD5 ==
  ASSUME NEW d \in Seq(Octets), d[1] = EapTypeMD5, ~ MD5Refused(d)
  PROVE  /\ MarshalMD5(UnmarshalMD5(d)) = d
         /\ UnmarshalMD5(d).valueSize = EapMD5ChallengeSize
         /\ Len(UnmarshalMD5(d).value) = EapMD5ChallengeSize
<1> DEFINE n == EapMD5ChallengeSize
           e == 2 + n
<1>1. Len(d) >= 3 /\ d[2] = n /\ Len(d) >= 2 + n /\ n \in Nat
  BY Constants DEF MD5Refused, EapMD5MinLen, EapMD5HeaderLen, Octets
<1>2. SubSeq(d, 1, 2) = <<d[1], d[2]>>
  BY <1>1, FirstTwo
<1> DEFINE v == SubSeq(d, 2 + 1, e)
           w == SubSeq(d, e + 1, Len(d))
<1>3. UnmarshalMD5(d) = EapMD5(d[2], v, w)
  BY DEF UnmarshalMD5, Slice, From, EapMD5HeaderLen
<1>4. SubSeq(d, 1, 2) \o v \o w = d
  <2>1. e \in 0 .. Len(d) /\ 2 \in 0 .. e
    BY <1>1
  <2> HIDE DEF e
  <2> QED BY <2>1, ThreeJoined, Zenon
<1>5. Len(v) = n
  BY <1>1
<1> HIDE DEF v, w, e
<1>6. MarshalMD5(UnmarshalMD5(d)) = <<d[1], d[2]>> \o v \o w
  BY <1>3 DEF MarshalMD5, EapMD5
<1>7. UnmarshalMD5(d).valueSize = n /\ Len(UnmarshalMD5(d).value) = n
  BY <1>1, <1>3, <1>5 DEF EapMD5
<1> QED BY <1>2, <1>4, <1>6, <1>7

\* The octets of a 32-bit integer in d.
LEMMA Octets32 ==
  ASSUME NEW d \in Seq(Octets), NEW i \in Nat, i + 4 <= Len(d)
  PROVE  /\ Uint32(d, i) \in Nat /\ Uint32(d, i) < Word * Word
         /\ PutUint32(Uint32(d, i)) = SubSeq(d, i + 1, i + 4)
<1> DEFINE x == d[i + 1]
           y == d[i + 2]
           z == d[i + 3]
           u == d[i + 4]
<1>1. x \in Octets /\ y \in Octets /\ z \in Octets /\ u \in Octets
  OBVIOUS
<1>2. Uint32(d, i) = (x * Octet + y) * Word + (z * Octet + u)
  BY DEF Uint32, Uint16
<1> DEFINE s == SubSeq(d, i + 1, i + 4)
<1>3. s \in Seq(Octets) /\ Len(s) = 4 /\ s[1] = x /\ s[2] = y /\ s[3] = z /\ s[4] = u
  <2>1. IsSlice(Octets, s, d, i, 4)
    BY SliceOf
  <2> HIDE DEF s
  <2>2. s \in Seq(Octets) /\ Len(s) = 4 /\ \A k \in 1 .. 4 : s[k] = d[i + k]
    BY <2>1 DEF IsSlice
  <2> QED BY <2>2
<1> HIDE DEF x, y, z, u, s
<1>4. /\ Uint32(d, i) \in Nat /\ Uint32(d, i) < Word * Word
      /\ PutUint32(Uint32(d, i)) = <<x, y>> \o <<z, u>>
  BY <1>1, <1>2, Widths, Join32, SMTT(60)
<1>5. <<x, y>> \o <<z, u>> = s
  <2> DEFINE p == <<x, y>>
             q == <<z, u>>
  <2>1. p \in Seq(Octets) /\ q \in Seq(Octets) /\ Len(p) = 2 /\ Len(q) = 2
        /\ p[1] = x /\ p[2] = y /\ q[1] = z /\ q[2] = u
    BY <1>1
  <2> HIDE DEF p, q
  <2>2. Joined(Octets, s, p, q)
    <3>1. \A k \in 1 .. 2 : s[k] = p[k]
      BY <1>3, <2>1
    <3>2. \A k \in 1 .. 2 : s[2 + k] = q[k]
      BY <1>3, <2>1
    <3> QED BY <1>3, <2>1, <3>1, <3>2 DEF Joined
  <2>3. p \o q = s
    BY <2>1, <2>2, JoinedIsConcat, Zenon
  <2> QED BY <2>3 DEF p, q
<1> QED BY <1>4, <1>5, SMTT(60) DEF s

\* Expanded types (eap_expanded.go:37-66).
LEMMA RereadExpanded ==
  ASSUME NEW d \in Seq(Octets), d[1] = EapTypeExpanded, Len(d) >= 8
  PROVE  MarshalExpanded(UnmarshalExpanded(d)) = d
<1> DEFINE n == Uint32(d, 0)
           v == Uint32(d, 4)
<1>1. n \in Nat /\ PutUint32(n) = SubSeq(d, 1, 4)
  BY Octets32
<1>2. PutUint32(v) = SubSeq(d, 4 + 1, 8)
  BY Octets32
<1>3. EapTypeExpanded * Top + Masked(n) = n
  <2>1. d[1] \in Octets /\ d[2] \in Octets /\ d[3] \in Octets /\ d[4] \in Octets
    OBVIOUS
  <2>2. n = (d[1] * Octet + d[2]) * Word + (d[3] * Octet + d[4])
    BY DEF Uint32, Uint16
  <2> DEFINE m == (d[1] * Octet + d[2]) * Word + (d[3] * Octet + d[4])
  <2>3. Begins(m, d[1])
    BY <2>1, FirstApart
  <2> HIDE DEF n, m
  <2>4. n = m
    BY <2>2 DEF m
  <2> QED BY <2>3, <2>4 DEF Begins
<1> HIDE DEF n, v
<1>4. MarshalExpanded(UnmarshalExpanded(d)) =
        PutUint32(EapTypeExpanded * Top + Masked(Masked(n))) \o PutUint32(v) \o SubSeq(d, 8 + 1, Len(d))
  BY Zenon DEF MarshalExpanded, UnmarshalExpanded, EapExpanded, From, Top, n, v
<1>5. Masked(Masked(n)) = Masked(n)
  BY <1>1, MaskedType
<1>6. SubSeq(d, 1, 4) \o SubSeq(d, 4 + 1, 8) \o SubSeq(d, 8 + 1, Len(d)) = d
  <2>1. 8 \in 0 .. Len(d) /\ 4 \in 0 .. 8
    OBVIOUS
  <2> QED BY <2>1, ThreeJoined
<1> QED BY <1>1, <1>2, <1>3, <1>4, <1>5, <1>6, Zenon
------------------------------------------------------------------------------
(* The methods: Unmarshal of what Marshal made of t is t.                     *)

\* The type data that Unmarshal yields for those that were sent.
DataAsSent(t) == IF t.type = EapTypeExpanded THEN [t EXCEPT !.vendorID = Masked(@)] ELSE t

\* The type data of a packet that is sent have one of the four shapes.
LEMMA Shapes ==
  ASSUME NEW t \in TypeData
  PROVE  \/ t = NoData /\ t.type = 0
         \/ /\ t.type \in DataTypes /\ t.data \in Seq(Octets)
            /\ t = EapData(t.type, t.data)
         \/ /\ t.type = EapTypeMD5
            /\ t.valueSize \in Octets /\ t.value \in Seq(Octets) /\ t.name \in Seq(Octets)
            /\ t = EapMD5(t.valueSize, t.value, t.name)
         \/ /\ t.type = EapTypeExpanded
            /\ t.vendorID \in Nat /\ t.vendorID < Word * Word
            /\ t.vendorType \in Nat /\ t.vendorType < Word * Word
            /\ t.vendorData \in Seq(Octets)
            /\ t = EapExpanded(t.vendorID, t.vendorType, t.vendorData)
<1>1. CASE t = NoData
  BY <1>1 DEF NoData
<1>2. CASE t \in [type: DataTypes, data: Seq(Octets)]
  BY <1>2 DEF EapData
<1>3. CASE t \in [type: {EapTypeMD5}, valueSize: Octets, value: Seq(Octets), name: Seq(Octets)]
  BY <1>3 DEF EapMD5
<1>4. CASE t \in [type: {EapTypeExpanded}, vendorID: 0 .. Word * Word - 1,
                  vendorType: 0 .. Word * Word - 1, vendorData: Seq(Octets)]
  <2>1. Word * Word \in Nat
    BY Widths
  <2>2. t.type = EapTypeExpanded /\ t = EapExpanded(t.vendorID, t.vendorType, t.vendorData)
        /\ t.vendorID \in 0 .. Word * Word - 1 /\ t.vendorType \in 0 .. Word * Word - 1
        /\ t.vendorData \in Seq(Octets)
    BY <1>4 DEF EapExpanded
  <2>3. \A m \in Nat : \A k \in 0 .. m - 1 : k \in Nat /\ k < m
    OBVIOUS
  <2>4. /\ t.vendorID \in Nat /\ t.vendorID < Word * Word
        /\ t.vendorType \in Nat /\ t.vendorType < Word * Word
    BY <2>1, <2>2, <2>3, Zenon
  <2> QED BY <2>2, <2>4, Zenon
<1> QED BY <1>1, <1>2, <1>3, <1>4, Zenon DEF TypeData

\* Identity, Notification, Nak.
LEMMA ReadData ==
  ASSUME NEW x \in Octets, NEW data \in Seq(Octets)
  PROVE  LET d == <<x>> \o data
         IN  /\ d \in Seq(Octets) /\ Len(d) = 1 + Len(data) /\ d[1] = x /\ From(d, 1) = data
<1> DEFINE p == <<x>>
           d == p \o data
<1>1. p \in Seq(Octets) /\ Len(p) = 1 /\ p[1] = x
  OBVIOUS
<1> HIDE DEF p
<1>2. Joined(Octets, d, p, data)
  BY <1>1, Concat
<1>3. SubSeq(d, Len(p) + 1, Len(d)) = data
  BY <1>1, <1>2, DropFirst, SMTT(60)
<1>4. d \in Seq(Octets) /\ Len(d) = 1 + Len(data) /\ d[1] = x
  BY <1>1, <1>2 DEF Joined
<1> QED BY <1>1, <1>3, <1>4 DEF p, From

\* MD5-Challenge (eap_md5.go:35-48, 55-74).
LEMMA ReadMD5 ==
  ASSUME NEW value \in Seq(Octets), NEW name \in Seq(Octets), Len(value) = EapMD5ChallengeSize
  PROVE  LET t == EapMD5(EapMD5ChallengeSize, value, name)
             d == MarshalMD5(t)
         IN  /\ d \in Seq(Octets) /\ Len(d) >= 3 /\ d[1] = EapTypeMD5
             /\ ~ MD5Refused(d) /\ UnmarshalMD5(d) = t
<1> DEFINE n == EapMD5ChallengeSize
           t == EapMD5(n, value, name)
           p == <<EapTypeMD5, n>>
           d == p \o value \o name
<1>1. n \in Octets /\ n \in Nat /\ n > 0 /\ EapTypeMD5 \in Octets
  BY Constants, Widths DEF Octets, EapTypeMD5
<1>2. MarshalMD5(t) = d
  BY DEF MarshalMD5, EapMD5
<1>3. p \in Seq(Octets) /\ Len(p) = 2 /\ p[1] = EapTypeMD5 /\ p[2] = n
  BY <1>1
<1> HIDE DEF p
<1>4. d \in Seq(Octets) /\ ThreeParts(d, p, value, name)
  BY <1>3, ThreeTaken
<1> HIDE DEF d
<1>5. /\ Len(d) = 2 + n + Len(name) /\ d[1] = EapTypeMD5 /\ d[2] = n
      /\ SubSeq(d, 2 + 1, 2 + n) = value /\ SubSeq(d, 2 + n + 1, Len(d)) = name
  <2>1. /\ Len(d) = 2 + n + Len(name) /\ \A k \in 1 .. 2 : d[k] = p[k]
        /\ SubSeq(d, 2 + 1, 2 + n) = value /\ SubSeq(d, 2 + n + 1, Len(d)) = name
    BY <1>3, <1>4, SMTT(60) DEF ThreeParts
  <2> QED BY <1>3, <2>1, SMTT(60)
<1>6. Len(d) >= 3 /\ Len(d) >= 2 + n
  BY <1>1, <1>5
<1>7. ~ MD5Refused(d)
  BY <1>1, <1>5, <1>6 DEF MD5Refused, EapMD5MinLen, EapMD5HeaderLen
<1>8. UnmarshalMD5(d) = t
  BY <1>5, Zenon DEF UnmarshalMD5, Slice, From, EapMD5HeaderLen
<1> QED BY <1>2, <1>4, <1>5, <1>6, <1>7, <1>8

\* Expanded types (eap_expanded.go:37-66).
LEMMA ReadExpanded ==
  ASSUME NEW id \in Nat, NEW type \in Nat, type < Word * Word, NEW data \in Seq(Octets)
  PROVE  LET d == MarshalExpanded(EapExpanded(id, type, data))
         IN  /\ d \in Seq(Octets) /\ Len(d) >= 8 /\ d[1] = EapTypeExpanded
             /\ UnmarshalExpanded(d) = EapExpanded(Masked(id), type, data)
<1> DEFINE x == EapTypeExpanded * Top + Masked(id)
           p == PutUint32(x)
           v == PutUint32(type)
           d == p \o v \o data
<1>1. MarshalExpanded(EapExpanded(id, type, data)) = d
  BY DEF MarshalExpanded, EapExpanded, Top
<1>2. x \in Nat /\ x < Word * Word /\ Masked(x) = Masked(id) /\ PutUint32(x)[1] = EapTypeExpanded
  BY Constants, MaskedType, Tagged, Zenon
<1> HIDE DEF x
<1>3. /\ p \in Seq(Octets) /\ Len(p) = 4 /\ p[1] = EapTypeExpanded
      /\ (p[1] * Octet + p[2]) * Word + (p[3] * Octet + p[4]) = x
  BY <1>2, Widths, Put32
<1>4. /\ v \in Seq(Octets) /\ Len(v) = 4
      /\ (v[1] * Octet + v[2]) * Word + (v[3] * Octet + v[4]) = type
  BY Widths, Put32
<1> HIDE DEF p, v
<1>5. d \in Seq(Octets) /\ ThreeParts(d, p, v, data)
  BY <1>3, <1>4, ThreeTaken
<1> HIDE DEF d
<1>6. /\ Len(d) = 8 + Len(data) /\ \A k \in 1 .. 4 : d[k] = p[k]
      /\ SubSeq(d, 4 + 1, 4 + 4) = v /\ SubSeq(d, 8 + 1, Len(d)) = data
  BY <1>3, <1>4, <1>5 DEF ThreeParts
<1>7. Len(d) >= 8
  BY <1>6
<1>8. Uint32(d, 0) = x /\ d[1] = EapTypeExpanded
  <2>1. d[1] = p[1] /\ d[2] = p[2] /\ d[3] = p[3] /\ d[4] = p[4]
    BY <1>6
  <2> QED BY <1>3, <2>1 DEF Uint32, Uint16
<1>9. Uint32(d, 4) = type
  <2>1. IsSlice(Octets, SubSeq(d, 4 + 1, 4 + 4), d, 4, 4)
    BY <1>5, <1>7, SliceOf
  <2>2. \A k \in 1 .. 4 : v[k] = d[4 + k]
    BY <1>6, <2>1 DEF IsSlice
  <2>3. d[5] = v[1] /\ d[6] = v[2] /\ d[7] = v[3] /\ d[8] = v[4]
    BY <2>2
  <2> QED BY <1>4, <2>3 DEF Uint32, Uint16
<1>10. UnmarshalExpanded(d) = EapExpanded(Masked(id), type, data)
  BY <1>2, <1>6, <1>8, <1>9, Zenon DEF UnmarshalExpanded, From
<1> QED BY <1>1, <1>5, <1>7, <1>8, <1>10
------------------------------------------------------------------------------
(* All methods, and the packet around them.                                   *)

\* An MD5 challenge of the size that Marshal asks for (eap_md5.go:35).
Whole(t) ==
  t.type = EapTypeMD5 =>
    t.valueSize = EapMD5ChallengeSize /\ Len(t.value) = EapMD5ChallengeSize

\* The types of the methods are distinct octets.
LEMMA Types ==
  /\ EapTypeMD5 \in Octets /\ DataTypes \subseteq Octets
  /\ EapTypeMD5 # 0 /\ EapTypeExpanded # 0 /\ EapTypeAkaPrime # 0 /\ 0 \notin DataTypes
  /\ EapTypeMD5 # EapTypeExpanded /\ EapTypeMD5 # EapTypeAkaPrime
  /\ EapTypeExpanded # EapTypeAkaPrime
  /\ EapTypeMD5 \notin DataTypes /\ EapTypeExpanded \notin DataTypes /\ EapTypeAkaPrime \notin DataTypes
BY Constants, Widths
   DEF Octets, DataTypes, EapTypeMD5, EapTypeIdentity, EapTypeNotification, EapTypeNak

\* Type data that Unmarshal accepted are marshalled to the octets they were read from;
\* EAP-AKA' is octets.
LEMMA Reread ==
  ASSUME NEW d \in Seq(Octets), Len(d) > 0, d[1] = EapTypeAkaPrime \/ ~ TypeDataRefused(d)
  PROVE  MarshalTypeData(UnmarshalTypeData(d)) = d /\ Whole(UnmarshalTypeData(d))
<1> DEFINE t == UnmarshalTypeData(d)
<1>1. CASE d[1] = EapTypeMD5
  <2>1. t = UnmarshalMD5(d) /\ ~ MD5Refused(d)
    BY <1>1, Types DEF UnmarshalTypeData, TypeDataRefused
  <2>2. t.type = EapTypeMD5
    BY <2>1 DEF UnmarshalMD5, EapMD5
  <2>3. MarshalTypeData(t) = MarshalMD5(t)
    BY <2>2, Types DEF MarshalTypeData
  <2> QED BY <1>1, <2>1, <2>3, RereadMD5 DEF Whole
<1>2. CASE d[1] = EapTypeExpanded
  <2>1. t = UnmarshalExpanded(d) /\ Len(d) >= 8
    BY <1>2, Types DEF UnmarshalTypeData, TypeDataRefused
  <2>2. t.type = EapTypeExpanded
    BY <2>1 DEF UnmarshalExpanded, EapExpanded
  <2>3. MarshalTypeData(t) = MarshalExpanded(t)
    BY <2>2, Types DEF MarshalTypeData
  <2> QED BY <1>2, <2>1, <2>2, <2>3, RereadExpanded, Types DEF Whole
<1>3. CASE d[1] # EapTypeMD5 /\ d[1] # EapTypeExpanded
  <2>1. t = EapData(d[1], From(d, 1)) /\ d[1] # 0
    BY <1>3, Types DEF UnmarshalTypeData, TypeDataRefused
  <2>2. t.type = d[1] /\ t.data = From(d, 1)
    BY <2>1 DEF EapData
  <2>3. MarshalTypeData(t) = <<d[1]>> \o From(d, 1)
    BY <1>3, <2>1, <2>2 DEF MarshalTypeData
  <2> QED BY <1>3, <2>2, <2>3, RereadData DEF Whole
<1> QED BY <1>1, <1>2, <1>3

\* Type data that Marshal accepts are read as they were sent.
LEMMA Read ==
  ASSUME NEW t \in TypeData, t # NoData, ~ TypeDataFails(t)
  PROVE  LET d == MarshalTypeData(t)
         IN  /\ d \in Seq(Octets) /\ Len(d) > 0 /\ d[1] # EapTypeAkaPrime
             /\ ~ TypeDataRefused(d) /\ UnmarshalTypeData(d) = DataAsSent(t)
<1> DEFINE d == MarshalTypeData(t)
<1>1. CASE t.type \in DataTypes /\ t.data \in Seq(Octets) /\ t = EapData(t.type, t.data)
  <2>1. d = <<t.type>> \o t.data /\ t.type \in Octets
    BY <1>1, Types DEF MarshalTypeData
  <2>2. d \in Seq(Octets) /\ Len(d) > 0 /\ d[1] = t.type /\ From(d, 1) = t.data
    BY <1>1, <2>1, ReadData
  <2>3. ~ TypeDataRefused(d) /\ d[1] # EapTypeAkaPrime
    BY <1>1, <2>2, Types DEF TypeDataRefused
  <2>4. UnmarshalTypeData(d) = t /\ DataAsSent(t) = t
    BY <1>1, <2>2, Types DEF UnmarshalTypeData, DataAsSent
  <2> QED BY <2>2, <2>3, <2>4
<1>2. CASE /\ t.type = EapTypeMD5 /\ t.value \in Seq(Octets) /\ t.name \in Seq(Octets)
           /\ t = EapMD5(t.valueSize, t.value, t.name)
  <2>1. t.valueSize = EapMD5ChallengeSize /\ Len(t.value) = EapMD5ChallengeSize
    BY <1>2 DEF TypeDataFails
  <2>2. d = MarshalMD5(t)
    BY <1>2, Types DEF MarshalTypeData
  <2>3. d \in Seq(Octets) /\ Len(d) > 0 /\ d[1] = EapTypeMD5 /\ ~ MD5Refused(d) /\ UnmarshalMD5(d) = t
    BY <1>2, <2>1, <2>2, ReadMD5
  <2>4. ~ TypeDataRefused(d) /\ d[1] # EapTypeAkaPrime
    BY <2>3, Types DEF TypeDataRefused
  <2>5. UnmarshalTypeData(d) = t /\ DataAsSent(t) = t
    BY <1>2, <2>3, Types DEF UnmarshalTypeData, DataAsSent
  <2> QED BY <2>3, <2>4, <2>5
<1>3. CASE /\ t.type = EapTypeExpanded /\ t.vendorID \in Nat
           /\ t.vendorType \in Nat /\ t.vendorType < Word * Word /\ t.vendorData \in Seq(Octets)
           /\ t = EapExpanded(t.vendorID, t.vendorType, t.vendorData)
  <2>1. d = MarshalExpanded(t)
    BY <1>3, Types DEF MarshalTypeData
  <2>2. /\ d \in Seq(Octets) /\ Len(d) >= 8 /\ d[1] = EapTypeExpanded
        /\ UnmarshalExpanded(d) = EapExpanded(Masked(t.vendorID), t.vendorType, t.vendorData)
    BY <1>3, <2>1, ReadExpanded
  <2>3. DataAsSent(t) = EapExpanded(Masked(t.vendorID), t.vendorType, t.vendorData)
    BY <1>3 DEF DataAsSent, EapExpanded
  <2>4. ~ TypeDataRefused(d) /\ d[1] # EapTypeAkaPrime
    BY <2>2, Types DEF TypeDataRefused
  <2>5. UnmarshalTypeData(d) = DataAsSent(t)
    BY <2>2, <2>3, Types DEF UnmarshalTypeData
  <2>6. Len(d) > 0
    BY <2>2
  <2> QED BY <2>2, <2>4, <2>5, <2>6
<1> QED BY <1>1, <1>2, <1>3, Shapes, Zenon
\* A packet: four octets of header and the type data d.
Frame(c, i, d) == <<c, i>> \o PutUint16(4 + Len(d)) \o d
Unframed(f, c, i, d) ==
  /\ f \in Seq(Octets) /\ Len(f) = 4 + Len(d) /\ f[1] = c /\ f[2] = i
  /\ Uint16(f, 2) = 4 + Len(d) /\ From(f, 4) = d

\* What is read from a packet that fits its length field.
LEMMA FrameRead ==
  ASSUME NEW c \in Octets, NEW i \in Octets, NEW d \in Seq(Octets), 4 + Len(d) <= Max16
  PROVE  Unframed(Frame(c, i, d), c, i, d)
<1> DEFINE n == 4 + Len(d)
           h == PutUint16(n)
           f == <<c, i>> \o h \o d
           x == h[1]
           y == h[2]
<1>1. n \in Nat /\ n < Word
  BY Widths DEF Max16, Word
<1> HIDE DEF n
<1>2. x \in Octets /\ y \in Octets /\ x * Octet + y = n
  BY <1>1, Widths, Put16
<1>3. h = <<x, y>>
  BY DEF PutUint16
<1> HIDE DEF h, x, y
<1>4. /\ f \in Seq(Octets) /\ Len(f) = 4 + Len(d)
      /\ f[1] = c /\ f[2] = i /\ f[3] = x /\ f[4] = y
      /\ \A k \in 1 .. Len(d) : f[4 + k] = d[k]
  BY <1>2, <1>3, FourAndRest
<1> HIDE DEF f
<1>5. Uint16(f, 2) = n
  BY <1>2, <1>4 DEF Uint16
<1>6. From(f, 4) = d
  <2> DEFINE s == SubSeq(f, 4 + 1, 4 + Len(d))
  <2>0. Len(d) \in Nat /\ 4 + Len(d) <= Len(f)
    BY <1>4
  <2>1. IsSlice(Octets, s, f, 4, Len(d))
    BY <1>4, <2>0, SliceOf
  <2>2. From(f, 4) = s
    BY <1>4 DEF From
  <2> HIDE DEF s
  <2>3. s \in Seq(Octets) /\ Len(s) = Len(d) /\ \A k \in 1 .. Len(d) : s[k] = d[k]
    BY <1>4, <2>1 DEF IsSlice
  <2> QED BY <2>2, <2>3, SameElements
<1> QED BY <1>4, <1>5, <1>6 DEF Frame, Unframed, f, n, h

\* The octets of a packet of the right length, from its header and type data.
LEMMA FrameReread ==
  ASSUME NEW f \in Seq(Octets), Len(f) >= 4, Uint16(f, 2) = Len(f)
  PROVE  /\ From(f, 4) \in Seq(Octets) /\ 4 + Len(From(f, 4)) = Len(f) /\ Len(f) <= Max16
         /\ f[1] \in Octets /\ f[2] \in Octets /\ Slice(f, 0, 2) = <<f[1], f[2]>>
         /\ Frame(f[1], f[2], From(f, 4)) = f
<1> DEFINE d == From(f, 4)
           x == f[3]
           y == f[4]
<1>1. f[1] \in Octets /\ f[2] \in Octets /\ x \in Octets /\ y \in Octets
  OBVIOUS
<1>2. d \in Seq(Octets) /\ Len(d) = Len(f) - 4 /\ \A k \in 1 .. Len(d) : d[k] = f[4 + k]
  BY DEF From
<1>3. x * Octet + y = Len(f)
  BY DEF Uint16
<1> HIDE DEF d, x, y
<1>4. Len(f) < Word /\ PutUint16(Len(f)) = <<x, y>>
  BY <1>1, <1>3, Widths, Join16
<1>5. Len(f) <= Max16
  BY <1>4, Widths DEF Word, Max16
<1>6. Slice(f, 0, 2) = <<f[1], f[2]>>
  <2>1. SubSeq(f, 1, 2) = <<f[1], f[2]>>
    BY FirstTwo
  <2> QED BY <2>1 DEF Slice
<1> DEFINE g == <<f[1], f[2]>> \o <<x, y>> \o d
<1>7. /\ g \in Seq(Octets) /\ Len(g) = 4 + Len(d)
      /\ g[1] = f[1] /\ g[2] = f[2] /\ g[3] = x /\ g[4] = y
      /\ \A k \in 1 .. Len(d) : g[4 + k] = d[k]
  BY <1>1, <1>2, FourAndRest
<1>8. Frame(f[1], f[2], d) = g
  <2>1. 4 + Len(d) = Len(f)
    BY <1>2
  <2> QED BY <1>4, <2>1, Zenon DEF Frame
<1> HIDE DEF g
<1>9. g = f
  <2>1. ASSUME NEW k \in 1 .. Len(f) PROVE g[k] = f[k]
    <3>1. CASE k > 4
      <4>1. k - 4 \in 1 .. Len(d) /\ 4 + (k - 4) = k
        BY <1>2, <3>1
      <4> QED BY <1>2, <1>7, <4>1, Zenon
    <3>2. CASE ~ (k > 4)
      BY <1>7, <3>2 DEF x, y
    <3> QED BY <3>1, <3>2
  <2>2. Len(g) = Len(f)
    BY <1>2, <1>7
  <2> QED BY <1>7, <2>1, <2>2, SameElements
<1>10. 4 + Len(d) = Len(f)
  BY <1>2
<1> QED BY <1>1, <1>2, <1>5, <1>6, <1>8, <1>9, <1>10 DEF d

\* A packet without type data has a header only.
LEMMA NothingSent == MarshalTypeData(NoData) = <<>> /\ ~ TypeDataFails(NoData) /\ NoData.type = 0
<1>1. NoData.type = 0
  BY DEF NoData
<1>2. MarshalTypeData(NoData) = <<>>
  BY <1>1, Types DEF MarshalTypeData
<1> QED BY <1>1, <1>2, Types DEF TypeDataFails

\* What Marshal accepts arrives as a packet of the right length.
LEMMA Sent ==
  ASSUME NEW p \in Packets, ~ MarshalFails(p)
  PROVE  /\ p.code \in Octets /\ p.identifier \in Octets /\ p.typeData \in TypeData
         /\ p = EAP(p.code, p.identifier, p.typeData) /\ ~ TypeDataFails(p.typeData)
         /\ Unframed(Marshal(p), p.code, p.identifier, MarshalTypeData(p.typeData))
<1> DEFINE d == MarshalTypeData(p.typeData)
<1>1. p \in [code: Octets, identifier: Octets, typeData: TypeData]
  BY EapAssumption, Zenon
<1>2. /\ p.code \in Octets /\ p.identifier \in Octets /\ p.typeData \in TypeData
      /\ p = EAP(p.code, p.identifier, p.typeData)
  BY <1>1 DEF EAP
<1>3. ~ TypeDataFails(p.typeData) /\ ~ (4 + Len(d) > Max16)
  BY DEF MarshalFails, PacketLength
<1>4. d \in Seq(Octets)
  <2>1. CASE p.typeData = NoData
    BY <2>1, NothingSent
  <2> QED BY <1>2, <1>3, <2>1, Read
<1>5. Marshal(p) = Frame(p.code, p.identifier, d)
  BY DEF Marshal, Frame, PacketLength
<1> HIDE DEF d
<1>6. 4 + Len(d) <= Max16
  BY <1>3, <1>4, Widths DEF Max16
<1>7. Unframed(Frame(p.code, p.identifier, d), p.code, p.identifier, d)
  BY <1>2, <1>4, <1>6, FrameRead
<1> QED BY <1>2, <1>3, <1>5, <1>7 DEF d
------------------------------------------------------------------------------
(* The inductive invariant.                                                   *)

\* The types of the variables that the proof speaks of; Unmarshal has returned if
\* there is a result.
Shape ==
  /\ b \in Seq(Octets) /\ taken \in Seq(Octets) /\ reads \in Nat
  /\ pc \in {"idle", "wire", "unmarshal", "ok", "error"}

\* An object that has not read is new.
Fresh == reads = 0 => eap = NewEAP /\ taken = <<>>

\* What is under way, and what arrived intact, is a packet that Marshal accepted.
Genuine ==
  pc = "wire" \/ (pc \in {"unmarshal", "ok", "error"} /\ intact) =>
    packet \in Packets /\ ~ MarshalFails(packet) /\ b = Marshal(packet)

\* A new object that accepted octets took the header and the data from them.
Accepted ==
  pc = "ok" /\ reads = 1 /\ b # <<>> =>
    /\ Len(b) >= 4 /\ Uint16(b, 2) = Len(b)
    /\ header = Slice(b, 0, 2) /\ taken = From(b, 4)

IInv ==
  Shape /\ Whole(eap.typeData) /\ Fresh /\ Genuine /\ Accepted /\ KeepsLastAccepted /\ EapRoundTrip

\* A new object holds nothing.
LEMMA NewIsEmpty ==
  /\ NewEAP.code = 0 /\ NewEAP.identifier = 0 /\ NewEAP.typeData = NoData
  /\ MarshalTypeData(NewEAP.typeData) = <<>> /\ Whole(NewEAP.typeData)
<1>1. NewEAP.code = 0 /\ NewEAP.identifier = 0 /\ NewEAP.typeData = NoData
  BY DEF NewEAP, EAP
<1> QED BY <1>1, NothingSent, Types DEF Whole

\* Initially.
LEMMA InitIInv == Init => IInv
<1> SUFFICES ASSUME Init PROVE IInv
  OBVIOUS
<1>1. Shape
  BY DEF Init, Shape
<1>2. Whole(eap.typeData) /\ Fresh /\ KeepsLastAccepted
  BY NewIsEmpty DEF Init, Fresh, KeepsLastAccepted
<1>3. Genuine /\ Accepted /\ EapRoundTrip
  BY DEF Init, Genuine, Accepted, EapRoundTrip
<1> QED BY <1>1, <1>2, <1>3 DEF IInv

\* Marshal, refusing or not.
LEMMA SendIInv == IInv /\ Send => IInv'
<1> SUFFICES ASSUME IInv, Send PROVE IInv'
  OBVIOUS
<1>1. /\ UNCHANGED <<intact, eap, reads, header, taken>>
      /\ \/ pc' = "idle" /\ b' = b
         \/ packet' \in Packets /\ ~ MarshalFails(packet') /\ b' = Marshal(packet') /\ pc' = "wire"
  BY DEF Send
<1>2. b' \in Seq(Octets)
  BY <1>1, Sent DEF IInv, Shape, Unframed
<1>3. Shape'
  BY <1>1, <1>2 DEF IInv, Shape
<1>4. Whole(eap.typeData)' /\ Fresh' /\ KeepsLastAccepted'
  BY <1>1 DEF IInv, Whole, Fresh, KeepsLastAccepted
<1>5. Genuine' /\ Accepted' /\ EapRoundTrip'
  BY <1>1 DEF Genuine, Accepted, EapRoundTrip
<1> QED BY <1>3, <1>4, <1>5 DEF IInv

\* The way to the receiver.
LEMMA ReceiveIInv ==
  ASSUME NEW o \in Seq(Octets)
  PROVE  IInv /\ Receive(o) => IInv'
<1> SUFFICES ASSUME IInv, Receive(o) PROVE IInv'
  OBVIOUS
<1>1. /\ pc = "wire" /\ b' = o /\ intact' = (o = b) /\ pc' = "unmarshal"
      /\ UNCHANGED <<packet, eap, reads, header, taken, sent>>
  BY DEF Receive
<1>2. Shape'
  BY <1>1 DEF IInv, Shape
<1>3. Whole(eap.typeData)' /\ Fresh' /\ KeepsLastAccepted'
  BY <1>1 DEF IInv, Whole, Fresh, KeepsLastAccepted
<1>4. Genuine' /\ Accepted' /\ EapRoundTrip'
  BY <1>1, Zenon DEF IInv, Genuine, Accepted, EapRoundTrip
<1> QED BY <1>2, <1>3, <1>4 DEF IInv

\* Intact, Truncated, Changed.
LEMMA ArriveIInv == IInv /\ (Intact \/ Truncated \/ Changed) => IInv'
<1> SUFFICES ASSUME IInv, Intact \/ Truncated \/ Changed PROVE IInv'
  OBVIOUS
<1>1. b \in Seq(Octets)
  BY DEF IInv, Shape
<1>2. CASE Intact
  BY <1>1, <1>2, ReceiveIInv DEF Intact
<1>3. CASE Truncated
  <2>1. PICK n \in 0 .. Len(b) - 1 : Receive(Slice(b, 0, n))
    BY <1>3 DEF Truncated
  <2>2. Slice(b, 0, n) \in Seq(Octets)
    BY <1>1 DEF Slice
  <2> QED BY <2>1, <2>2, ReceiveIInv
<1>4. CASE Changed
  <2>1. PICK i \in 1 .. Len(b), o \in Octets : Receive([b EXCEPT ![i] = o])
    BY <1>4 DEF Changed
  <2>2. [b EXCEPT ![i] = o] \in Seq(Octets)
    BY <1>1
  <2> QED BY <2>1, <2>2, ReceiveIInv
<1> QED BY <1>2, <1>3, <1>4

\* A new object.
LEMMA RenewIInv == IInv /\ Renew => IInv'
<1> SUFFICES ASSUME IInv, Renew PROVE IInv'
  OBVIOUS
<1>1. /\ pc = "unmarshal" /\ eap' = NewEAP /\ reads' = 0 /\ header' = <<0, 0>> /\ taken' = <<>>
      /\ UNCHANGED <<packet, b, intact, sent, pc>>
  BY DEF Renew
<1>2. Shape'
  BY <1>1 DEF IInv, Shape
<1>3. Whole(eap.typeData)' /\ Fresh' /\ KeepsLastAccepted'
  BY <1>1, NewIsEmpty DEF Fresh, KeepsLastAccepted, Whole
<1>4. Genuine' /\ Accepted' /\ EapRoundTrip'
  BY <1>1 DEF IInv, Genuine, Accepted, EapRoundTrip
<1> QED BY <1>2, <1>3, <1>4 DEF IInv
\* AsSent of a packet is its header with the type data as sent.
LEMMA AsSentParts ==
  ASSUME NEW c, NEW i, NEW t \in TypeData
  PROVE  AsSent(EAP(c, i, t)) = EAP(c, i, DataAsSent(t))
<1> DEFINE p == EAP(c, i, t)
<1>1. p = [code |-> c, identifier |-> i, typeData |-> t]
  BY DEF EAP
<1>2. p.typeData = t
  BY <1>1
<1>3. CASE t.type # EapTypeExpanded
  BY <1>2, <1>3 DEF AsSent, DataAsSent
<1>4. CASE t.type = EapTypeExpanded
  BY <1>1, <1>2, <1>4, Zenon DEF AsSent, DataAsSent, EAP
<1> QED BY <1>3, <1>4

\* Unmarshal is called with octets that arrived as sent.
LEMMA ArrivedIntact ==
  ASSUME Genuine, pc = "unmarshal", intact
  PROVE  /\ packet.typeData \in TypeData /\ ~ TypeDataFails(packet.typeData)
         /\ packet = EAP(packet.code, packet.identifier, packet.typeData)
         /\ Unframed(b, packet.code, packet.identifier, MarshalTypeData(packet.typeData))
BY Sent DEF Genuine

\* A call that leaves the object as it was: it has no octets or the wrong length.
LEMMA UntouchedIInv ==
  ASSUME IInv, pc = "unmarshal", (b = <<>> /\ pc' = "ok") \/ (PacketRefused /\ pc' = "error"),
         UNCHANGED <<eap, header, taken>>, reads' = reads + 1, UNCHANGED <<packet, b, intact, sent>>
  PROVE  IInv'
<1>1. ~ intact
  <2> SUFFICES ASSUME intact PROVE FALSE
    OBVIOUS
  <2> DEFINE d == MarshalTypeData(packet.typeData)
  <2>1. d \in Seq(Octets)
    <3>1. packet.typeData \in TypeData /\ ~ TypeDataFails(packet.typeData)
      BY ArrivedIntact DEF IInv
    <3>2. CASE packet.typeData = NoData
      BY <3>2, NothingSent
    <3>3. CASE packet.typeData # NoData
      BY <3>1, <3>3, Read
    <3> QED BY <3>2, <3>3
  <2>2. Unframed(b, packet.code, packet.identifier, d)
    BY ArrivedIntact DEF IInv
  <2> HIDE DEF d
  <2>3. Len(d) \in Nat /\ Len(b) = 4 + Len(d) /\ Uint16(b, 2) = 4 + Len(d)
    BY <2>1, <2>2 DEF Unframed
  <2>4. ~ PacketRefused /\ b # <<>>
    BY <2>3 DEF PacketRefused
  <2> QED BY <2>4
<1>2. Shape'
  BY DEF IInv, Shape
<1>3. Whole(eap.typeData)' /\ Fresh' /\ KeepsLastAccepted'
  <2>1. reads' # 0
    BY DEF IInv, Shape
  <2> QED BY <2>1 DEF IInv, Whole, Fresh, KeepsLastAccepted
<1>4. Genuine' /\ EapRoundTrip'
  BY <1>1 DEF Genuine, EapRoundTrip
<1>5. Accepted'
  BY DEF Accepted
<1> QED BY <1>2, <1>3, <1>4, <1>5 DEF IInv

\* A call with a packet of the right length; the code and the identifier are taken over.
LEMMA TakenIInv ==
  ASSUME IInv, pc = "unmarshal", ~ PacketRefused,
         header' = Slice(b, 0, 2), UnmarshalHeaderOnly \/ UnmarshalMethod,
         reads' = reads + 1, UNCHANGED <<packet, b, intact, sent>>
  PROVE  IInv'
<1> DEFINE d == From(b, 4)
<1>1. b \in Seq(Octets) /\ taken \in Seq(Octets) /\ reads \in Nat
  BY DEF IInv, Shape
<1>2. Len(b) >= 4 /\ Uint16(b, 2) = Len(b)
  BY <1>1 DEF PacketRefused
<1>3. /\ d \in Seq(Octets) /\ 4 + Len(d) = Len(b) /\ b[1] \in Octets /\ b[2] \in Octets
      /\ Slice(b, 0, 2) = <<b[1], b[2]>>
  BY <1>1, <1>2, FrameReread
<1>4. reads' \in Nat /\ reads' # 0 /\ (reads' = 1 => reads = 0)
  BY <1>1
<1>5. ASSUME intact
      PROVE  /\ packet.typeData \in TypeData /\ ~ TypeDataFails(packet.typeData)
             /\ packet = EAP(b[1], b[2], packet.typeData) /\ packet.code = b[1]
             /\ MarshalTypeData(packet.typeData) = d
  BY <1>5, ArrivedIntact, SMTT(60) DEF IInv, Unframed
<1> HIDE DEF d
<1>6. CASE UnmarshalHeaderOnly
  <2>1. /\ Len(d) = 0 /\ pc' = IF TooShort THEN "error" ELSE "ok"
        /\ eap' = EAP(b[1], b[2], eap.typeData) /\ taken' = taken
    BY <1>2, <1>3, <1>6 DEF UnmarshalHeaderOnly
  <2>2. eap'.code = b[1] /\ eap'.identifier = b[2] /\ eap'.typeData = eap.typeData
    BY <2>1 DEF EAP
  <2>3. Shape'
    BY <1>1, <1>4, <2>1 DEF IInv, Shape
  <2>4. Whole(eap.typeData)' /\ Fresh' /\ KeepsLastAccepted'
    BY <1>3, <1>4, <2>1, <2>2 DEF IInv, Whole, Fresh, KeepsLastAccepted
  <2>5. Genuine'
    BY <2>1 DEF IInv, Genuine
  <2>6. Accepted'
    <3>1. reads' = 1 => taken' = d
      BY <1>3, <1>4, <2>1 DEF IInv, Fresh
    <3> QED BY <1>2, <3>1 DEF Accepted, d
  <2>7. EapRoundTrip'
    <3> SUFFICES ASSUME intact, reads' = 1
                 PROVE  IF packet.typeData = NoData /\ packet.code \in {EapCodeRequest, EapCodeResponse}
                        THEN pc' = "error" ELSE pc' = "ok" /\ eap' = AsSent(packet)
      BY DEF EapRoundTrip
    <3>1. packet.typeData = NoData
      BY <1>5, <2>1, Read
    <3>2. TooShort <=> packet.code \in {EapCodeRequest, EapCodeResponse}
      <4>1. Uint16(b, 2) = 4
        BY <1>6 DEF UnmarshalHeaderOnly
      <4>2. Uint16(b, 2) < 5
        BY <4>1
      <4> QED BY <1>5, <4>2 DEF TooShort
    <3>3. eap.typeData = NoData
      BY <1>4, NewIsEmpty DEF IInv, Fresh
    <3>4. AsSent(packet) = EAP(b[1], b[2], NoData)
      BY <1>5, <3>1, AsSentParts, NothingSent, Types, ZenonT(60) DEF DataAsSent
    <3> QED BY <2>1, <3>1, <3>2, <3>3, <3>4
  <2> QED BY <2>3, <2>4, <2>5, <2>6, <2>7 DEF IInv
<1>7. CASE UnmarshalMethod
  <2>1. PICK refused \in MethodRefuses(d) :
          IF refused
          THEN eap' = EAP(b[1], b[2], eap.typeData) /\ pc' = "error" /\ taken' = taken
          ELSE eap' = EAP(b[1], b[2], UnmarshalTypeData(d)) /\ pc' = "ok" /\ taken' = d
    BY <1>7 DEF UnmarshalMethod, d
  <2>2. Len(d) > 0
    BY <1>2, <1>3, <1>7 DEF UnmarshalMethod
  <2>3. ASSUME intact
        PROVE  /\ packet.typeData # NoData /\ refused = FALSE
               /\ UnmarshalTypeData(d) = DataAsSent(packet.typeData)
    <3>1. packet.typeData # NoData
      BY <1>5, <2>2, <2>3, NothingSent, SMTT(60)
    <3>2. d[1] # EapTypeAkaPrime /\ ~ TypeDataRefused(d) /\ UnmarshalTypeData(d) = DataAsSent(packet.typeData)
      BY <1>5, <2>3, <3>1, Read
    <3> QED BY <2>1, <3>1, <3>2 DEF MethodRefuses
  <2>4. Genuine'
    BY <2>1, SMTT(60) DEF IInv, Genuine
  <2>5. CASE refused
    <3>1. eap' = EAP(b[1], b[2], eap.typeData) /\ pc' = "error" /\ taken' = taken
      BY <2>1, <2>5
    <3>2. eap'.code = b[1] /\ eap'.identifier = b[2] /\ eap'.typeData = eap.typeData
      BY <3>1 DEF EAP
    <3>3. Shape'
      BY <1>1, <1>4, <3>1 DEF IInv, Shape
    <3>4. Whole(eap.typeData)' /\ Fresh' /\ KeepsLastAccepted'
      BY <1>3, <1>4, <3>1, <3>2 DEF IInv, Whole, Fresh, KeepsLastAccepted
    <3>5. Accepted' /\ EapRoundTrip'
      BY <2>3, <2>5, <3>1 DEF Accepted, EapRoundTrip
    <3> QED BY <2>4, <3>3, <3>4, <3>5 DEF IInv
  <2>6. CASE ~ refused
    <3>1. eap' = EAP(b[1], b[2], UnmarshalTypeData(d)) /\ pc' = "ok" /\ taken' = d
      BY <2>1, <2>6
    <3>2. eap'.code = b[1] /\ eap'.identifier = b[2] /\ eap'.typeData = UnmarshalTypeData(d)
      BY <3>1 DEF EAP
    <3>3. d[1] = EapTypeAkaPrime \/ ~ TypeDataRefused(d)
      BY <2>1, <2>6 DEF MethodRefuses
    <3>4. MarshalTypeData(UnmarshalTypeData(d)) = d /\ Whole(UnmarshalTypeData(d))
      BY <1>3, <2>2, <3>3, Reread
    <3>5. Shape'
      BY <1>1, <1>3, <1>4, <3>1, SMTT(60) DEF IInv, Shape
    <3>6. Whole(eap.typeData)' /\ Fresh' /\ KeepsLastAccepted'
      BY <1>3, <1>4, <3>1, <3>2, <3>4 DEF IInv, Whole, Fresh, KeepsLastAccepted
    <3>7. Accepted'
      BY <1>2, <3>1 DEF Accepted, d
    <3>8. EapRoundTrip'
      <4> SUFFICES ASSUME intact PROVE packet.typeData # NoData /\ eap' = AsSent(packet)
        BY <3>1, SMTT(60) DEF EapRoundTrip
      <4>1. AsSent(packet) = EAP(b[1], b[2], DataAsSent(packet.typeData))
        BY <1>5, AsSentParts
      <4> QED BY <2>3, <3>1, <4>1
    <3> QED BY <2>4, <3>5, <3>6, <3>7, <3>8 DEF IInv
  <2> QED BY <2>1, <2>5, <2>6
<1> QED BY <1>6, <1>7
\* Unmarshal.
LEMMA UnmarshalIInv == IInv /\ Unmarshal => IInv'
<1> SUFFICES ASSUME IInv, Unmarshal PROVE IInv'
  OBVIOUS
<1>1. /\ pc = "unmarshal" /\ reads' = reads + 1 /\ UNCHANGED <<packet, b, intact, sent>>
      /\ \/ ((b = <<>> /\ pc' = "ok") \/ (PacketRefused /\ pc' = "error")) /\ UNCHANGED <<eap, header, taken>>
         \/ ~ PacketRefused /\ header' = Slice(b, 0, 2) /\ (UnmarshalHeaderOnly \/ UnmarshalMethod)
  <2>1. CASE b = <<>>
    BY <2>1, Zenon DEF Unmarshal
  <2>2. CASE b # <<>> /\ PacketRefused
    BY <2>2, Zenon DEF Unmarshal
  <2>3. CASE b # <<>> /\ ~ PacketRefused
    BY <2>3, Zenon DEF Unmarshal
  <2> QED BY <2>1, <2>2, <2>3
<1> QED BY <1>1, UntouchedIInv, TakenIInv

\* The invariant holds in every state.
THEOREM Invariance == Spec => []IInv
<1>1. IInv /\ [Next]_vars => IInv'
  <2> SUFFICES ASSUME IInv, [Next]_vars PROVE IInv'
    BY SMTT(60)
  <2>1. CASE UNCHANGED vars
    BY <2>1 DEF vars, IInv, Shape, Whole, Fresh, Genuine, Accepted, KeepsLastAccepted, EapRoundTrip
  <2>2. CASE Next
    BY <2>2, SendIInv, ArriveIInv, RenewIInv, UnmarshalIInv DEF Next
  <2> QED BY <2>1, <2>2
<1> QED BY InitIInv, <1>1, PTL DEF Spec

\* An object that reads one packet after the other has the header of the last packet
\* of the right length and, as a whole, the type data of the last whose type data were
\* accepted, never a part of a refused packet (eap.go:141, 150, 174, 178).
THEOREM KeepsLastAcceptedHolds == Spec => []KeepsLastAccepted
<1>1. IInv => KeepsLastAccepted
  BY DEF IInv
<1> QED BY <1>1, Invariance, PTL

\* A packet that Marshal accepts and that arrives as sent reads, in a new object, to the
\* same code, identifier and type data, the vendor ID of an expanded type cut to three
\* octets; a Request or Response without type data is refused (eap.go:109, 145).
THEOREM EapRoundTripHolds == Spec => []EapRoundTrip
<1>1. IInv => EapRoundTrip
  BY DEF IInv
<1> QED BY <1>1, Invariance, PTL

\* Octets that Unmarshal accepts in a new object are what Marshal of the object gives,
\* or an Identity, Notification or Nak without data, which Marshal refuses
\* (eap.go:137, eap_identity.go:14, 24, eap_md5.go:64, 74).
THEOREM AcceptedIsAccountedHolds == Spec => []AcceptedIsAccounted
<1>1. IInv => AcceptedIsAccounted
  <2> DEFINE t == eap.typeData
  <2> SUFFICES ASSUME IInv, pc = "ok", reads = 1, b # <<>>
               PROVE  IF MarshalFails(eap)
                      THEN Len(b) = 5 /\ t.type \in DataTypes
                      ELSE Marshal(eap) = b
    BY DEF AcceptedIsAccounted
  <2>1. /\ b \in Seq(Octets) /\ Len(b) >= 4 /\ Uint16(b, 2) = Len(b)
        /\ header = Slice(b, 0, 2) /\ taken = From(b, 4)
    BY DEF IInv, Shape, Accepted
  <2>2. /\ taken \in Seq(Octets) /\ 4 + Len(taken) = Len(b) /\ Len(b) <= Max16
        /\ header = <<b[1], b[2]>> /\ Frame(b[1], b[2], taken) = b
    BY <2>1, FrameReread
  <2>3. <<eap.code, eap.identifier>> = header /\ MarshalTypeData(t) = taken /\ Whole(t)
    BY DEF IInv, KeepsLastAccepted
  <2>4. PacketLength(eap) = Len(b)
    BY <2>2, <2>3 DEF PacketLength
  <2>5. Marshal(eap) = b
    BY <2>2, <2>3 DEF Marshal, Frame, PacketLength
  <2>6. ~ (PacketLength(eap) > Max16)
    BY <2>2, <2>4, Widths DEF Max16
  <2>7. ASSUME MarshalFails(eap) PROVE Len(b) = 5 /\ t.type \in DataTypes
    <3>1. t.type \in DataTypes /\ t.data = <<>>
      BY <2>3, <2>6, <2>7 DEF MarshalFails, TypeDataFails, Whole
    <3>2. taken = <<t.type>> \o <<>>
      BY <2>3, <3>1, Types DEF MarshalTypeData
    <3>3. Len(<<t.type>> \o <<>>) = 1
      OBVIOUS
    <3> QED BY <2>2, <3>1, <3>2, <3>3
  <2> QED BY <2>5, <2>7
<1> QED BY <1>1, Invariance, PTL
==============================================================================

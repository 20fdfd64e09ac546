----------------------- MODULE SecurityAssociationProofs -----------------------
(***************************************************************************)
(* Proofs about SecurityAssociation for every width of an octet, all       *)
(* proposals and any damage on the way: Unmarshal is the inverse of        *)
(* Marshal, up to what Received says, as far as the octets arrive as sent. *)
(***************************************************************************)
EXTENDS SecurityAssociation, RecursionLemmas, OctetLemmas

------------------------------------------------------------------------------
(* AppendAll: what a loop leaves that appends part after part.                *)

\* The function that AppendAll builds.
IsAppended(f, e, n) == f = [i \in 0 .. n |-> IF i = 0 THEN <<>> ELSE f[i - 1] \o e[i]]

\* It exists.
LEMMA AppendedExists ==
  ASSUME NEW S, NEW e \in Seq(Seq(S)), NEW n \in 0 .. Len(e)
  PROVE  \E f \in [0 .. n -> Seq(S)] : IsAppended(f, e, n)
<1> DEFINE g == [i \in 1 .. n + 1 |-> [x \in Seq(S) |-> IF i = 1 THEN x ELSE x \o e[i - 1]]]
<1>1. n \in Nat /\ n + 1 \in Nat /\ <<>> \in Seq(S) /\ \A i \in 1 .. Len(e) : e[i] \in Seq(S)
  OBVIOUS
<1>2. g \in [1 .. n + 1 -> [Seq(S) -> Seq(S)]]
  <2>1. ASSUME NEW i \in 1 .. n + 1, NEW x \in Seq(S)
        PROVE  (IF i = 1 THEN x ELSE x \o e[i - 1]) \in Seq(S)
    <3>1. i # 1 => i - 1 \in 1 .. Len(e)
      BY <1>1
    <3> QED BY <1>1, <3>1
  <2> QED BY <2>1, Zenon
<1>3. \A i \in 1 .. n + 1 : \A x \in Seq(S) : g[i][x] = IF i = 1 THEN x ELSE x \o e[i - 1]
  OBVIOUS
<1> HIDE DEF g
<1>4. PICK h \in [1 .. n + 1 -> Seq(S)] : Loop(h, n + 1, <<>>, g)
  BY <1>1, <1>2, LoopExists, Zenon
<1> DEFINE f == [i \in 0 .. n |-> h[i + 1]]
<1>5. \A i \in 0 .. n : i + 1 \in 1 .. n + 1
  BY <1>1
<1>6. f \in [0 .. n -> Seq(S)]
  BY <1>5, Zenon
<1>7. ASSUME NEW i \in 0 .. n
      PROVE  f[i] = IF i = 0 THEN <<>> ELSE f[i - 1] \o e[i]
  <2>1. /\ i + 1 \in 1 .. n + 1 /\ (i + 1 = 1 <=> i = 0) /\ (i + 1) - 1 = i
        /\ i # 0 => i \in 1 .. n + 1 /\ i - 1 \in 0 .. n /\ (i - 1) + 1 = i
    BY <1>1
  <2>2. f[i] = h[i + 1] /\ (i # 0 => f[i - 1] = h[i])
    BY <2>1
  <2>3. h[i + 1] = IF i + 1 = 1 THEN <<>> ELSE g[i + 1][h[(i + 1) - 1]]
    BY <1>4, <2>1, Zenon DEF Loop
  <2>4. i # 0 => h[i] \in Seq(S)
    BY <2>1, Zenon
  <2> HIDE DEF f
  <2> QED BY <1>3, <2>1, <2>2, <2>3, <2>4, Zenon
<1>8. f = [i \in 0 .. n |-> f[i]]
  OBVIOUS
<1> HIDE DEF f
<1>9. f = [i \in 0 .. n |-> IF i = 0 THEN <<>> ELSE f[i - 1] \o e[i]]
  BY <1>7, <1>8, Zenon
<1> QED BY <1>6, <1>9, Zenon DEF IsAppended

\* f is the function for n parts, h the one for m.
BothAppended(e, n, m, f, h) ==
  n \in Nat /\ m \in Nat /\ n <= m /\ IsAppended(f, e, n) /\ IsAppended(h, e, m)

\* They are the same up to n.
SameUpTo(f, h, n) == \A i \in 0 .. n : f[i] = h[i]

\* There is only one such function, and it is the same for more parts.
LEMMA AppendedUnique ==
  ASSUME NEW e, NEW n, NEW m, NEW f, NEW h, BothAppended(e, n, m, f, h)
  PROVE  SameUpTo(f, h, n)
<1>0. n \in Nat /\ m \in Nat /\ n <= m
  BY DEF BothAppended
<1> DEFINE P == {k \in Nat : f[k] = h[k]}
<1>1. /\ \A k \in 0 .. n : f[k] = IF k = 0 THEN <<>> ELSE f[k - 1] \o e[k]
      /\ \A k \in 0 .. m : h[k] = IF k = 0 THEN <<>> ELSE h[k - 1] \o e[k]
  BY Zenon DEF IsAppended, BothAppended
<1>2. 0 \in P
  BY <1>0, <1>1
<1>3. ASSUME NEW k \in 0 .. n - 1, k \in P
      PROVE  k + 1 \in P
  <2>1. k + 1 \in 0 .. n /\ k + 1 \in 0 .. m /\ k + 1 \in Nat /\ (k + 1) - 1 = k /\ k + 1 # 0
    BY <1>0
  <2>2. f[k] = h[k]
    BY <1>3
  <2>3. f[k + 1] = f[(k + 1) - 1] \o e[k + 1] /\ h[k + 1] = h[(k + 1) - 1] \o e[k + 1]
    BY <1>1, <2>1, Zenon
  <2>4. f[k + 1] = h[k + 1]
    BY <2>1, <2>2, <2>3, Zenon
  <2> QED BY <2>1, <2>4
<1> HIDE DEF P
<1>4. \A k \in 0 .. n : k \in P
  BY <1>0, <1>2, <1>3, InductionUpTo, Zenon
<1> QED BY <1>4 DEF P, SameUpTo

\* AppendAll is its last value.
LEMMA AppendAllIsLast ==
  ASSUME NEW S, NEW e \in Seq(Seq(S)), NEW n \in 0 .. Len(e)
  PROVE  \E f \in [0 .. n -> Seq(S)] : IsAppended(f, e, n) /\ AppendAll(e, n) = f[n]
<1>1. PICK f \in [0 .. n -> Seq(S)] : IsAppended(f, e, n)
  BY AppendedExists
<1> DEFINE F == CHOOSE h : IsAppended(h, e, n)
<1>2. IsAppended(F, e, n)
  BY <1>1, Zenon
<1>3. AppendAll(e, n) = F[n]
  BY Zenon DEF AppendAll, IsAppended
<1> HIDE DEF F
<1>4. n \in Nat /\ n \in 0 .. n /\ n <= n
  OBVIOUS
<1>5. F[n] = f[n]
  <2>1. BothAppended(e, n, n, F, f)
    BY <1>1, <1>2, <1>4, Zenon DEF BothAppended
  <2>2. SameUpTo(F, f, n)
    BY <2>1, AppendedUnique
  <2> QED BY <1>4, <2>2, Zenon DEF SameUpTo
<1> QED BY <1>1, <1>3, <1>5, Zenon

------------------------------------------------------------------------------
(* Where the parts stand in what was put together from them.                  *)

\* f stands in w from index u on.
Stands(w, u, f) == u + Len(f) <= Len(w) /\ \A k \in 1 .. Len(f) : w[u + k] = f[k]

\* Any number of parts.
LEMMA PartsType ==
  ASSUME NEW S, NEW e \in Seq(Seq(S)), NEW n \in 0 .. Len(e)
  PROVE  AppendAll(e, n) \in Seq(S)
<1>1. PICK f \in [0 .. n -> Seq(S)] : IsAppended(f, e, n) /\ AppendAll(e, n) = f[n]
  BY AppendAllIsLast
<1>2. n \in 0 .. n
  OBVIOUS
<1> QED BY <1>1, <1>2, Zenon

\* A further part comes behind the others.
LEMMA PartsNext ==
  ASSUME NEW S, NEW e \in Seq(Seq(S)), NEW n \in 0 .. Len(e) - 1
  PROVE  AppendAll(e, n) \in Seq(S) /\ AppendAll(e, n + 1) = AppendAll(e, n) \o e[n + 1]
<1>1. /\ n \in Nat /\ n + 1 \in Nat /\ n <= n + 1 /\ n \in 0 .. n /\ n \in 0 .. Len(e)
      /\ n + 1 \in 0 .. Len(e) /\ n + 1 \in 0 .. n + 1 /\ n + 1 # 0 /\ (n + 1) - 1 = n
  OBVIOUS
<1>2. PICK f \in [0 .. n -> Seq(S)] : IsAppended(f, e, n) /\ AppendAll(e, n) = f[n]
  BY <1>1, AppendAllIsLast
<1> DEFINE m == n + 1
<1>3. PICK h \in [0 .. m -> Seq(S)] : IsAppended(h, e, m) /\ AppendAll(e, m) = h[m]
  BY <1>1, AppendAllIsLast, Zenon
<1>4. f[n] = h[n]
  <2>1. m \in Nat /\ n <= m
    BY <1>1
  <2>2. BothAppended(e, n, m, f, h)
    BY <1>1, <1>2, <1>3, <2>1, Zenon DEF BothAppended
  <2>3. SameUpTo(f, h, n)
    BY <2>2, AppendedUnique
  <2> QED BY <1>1, <2>3, Zenon DEF SameUpTo
<1>5. h[m] = IF m = 0 THEN <<>> ELSE h[m - 1] \o e[m]
  BY <1>1, <1>3, Zenon DEF IsAppended
<1>6. h[m] = h[n] \o e[m]
  BY <1>1, <1>5, Zenon
<1>7. AppendAll(e, n) \in Seq(S)
  BY <1>1, PartsType, Zenon
<1> QED BY <1>2, <1>3, <1>4, <1>6, <1>7, Zenon

\* No part.
LEMMA PartsNone ==
  ASSUME NEW e
  PROVE  AppendAll(e, 0) = <<>>
<1> DEFINE f == [i \in 0 .. 0 |-> <<>>]
           F == CHOOSE h : IsAppended(h, e, 0)
<1>1. \A i \in 0 .. 0 : i = 0
  OBVIOUS
<1>2. f = [i \in 0 .. 0 |-> IF i = 0 THEN <<>> ELSE f[i - 1] \o e[i]]
  BY <1>1, Zenon
<1> HIDE DEF f
<1>3. IsAppended(f, e, 0)
  BY <1>2, Zenon DEF IsAppended
<1>4. IsAppended(F, e, 0)
  BY <1>3, Zenon
<1>5. AppendAll(e, 0) = F[0]
  BY Zenon DEF AppendAll, IsAppended
<1> HIDE DEF F
<1>6. 0 \in 0 .. 0
  OBVIOUS
<1>7. F[0] = IF 0 = 0 THEN <<>> ELSE F[0 - 1] \o e[0]
  BY <1>4, <1>6, Zenon DEF IsAppended
<1> QED BY <1>5, <1>7, Zenon

\* A frame of two parts.
TwoStand(S, f, s, u) ==
  f \in Seq(S) /\ Stands(f, 0, s) /\ Stands(f, Len(s), u) /\ Len(f) = Len(s) + Len(u)

\* The first part of a concatenation stands at its beginning, the second behind it.
LEMMA ConcatStands ==
  ASSUME NEW S, NEW s \in Seq(S), NEW u \in Seq(S)
  PROVE  TwoStand(S, s \o u, s, u)
<1>1. Joined(S, s \o u, s, u)
  BY Concat
<1> DEFINE f == s \o u
<1> HIDE DEF f
<1>2. Joined(S, f, s, u)
  BY <1>1 DEF f
<1>3. Len(s) \in Nat /\ Len(u) \in Nat
  OBVIOUS
<1>4. Stands(f, 0, s)
  BY <1>2, <1>3 DEF Joined, Stands
<1>5. Stands(f, Len(s), u)
  BY <1>2, <1>3 DEF Joined, Stands
<1> QED BY <1>2, <1>4, <1>5 DEF f, Joined, TwoStand

\* What stands in s stands in w if s stands in w.
LEMMA StandsWithin ==
  ASSUME NEW S, NEW w \in Seq(S), NEW s \in Seq(S), NEW f \in Seq(S),
         NEW u \in Nat, NEW v \in Nat, Stands(w, u, s), Stands(s, v, f)
  PROVE  Stands(w, u + v, f)
<1>1. Len(w) \in Nat /\ Len(s) \in Nat /\ Len(f) \in Nat
  OBVIOUS
<1>2. u + v + Len(f) <= Len(w)
  BY <1>1 DEF Stands
<1>3. ASSUME NEW k \in 1 .. Len(f) PROVE w[u + v + k] = f[k]
  <2>1. v + k \in 1 .. Len(s) /\ u + (v + k) = u + v + k
    BY <1>1 DEF Stands
  <2> QED BY <2>1 DEF Stands
<1> QED BY <1>2, <1>3 DEF Stands

\* What n parts are put together to stands at the beginning of what m parts are.
LEMMA PartsStand ==
  ASSUME NEW S, NEW e \in Seq(Seq(S)), NEW n \in 0 .. Len(e), NEW m \in 0 .. Len(e), n <= m
  PROVE  Stands(AppendAll(e, m), 0, AppendAll(e, n))
<1> DEFINE P == {k \in Nat : n + k <= Len(e) => Stands(AppendAll(e, n + k), 0, AppendAll(e, n))}
<1>0. Len(e) \in Nat
  OBVIOUS
<1>1. 0 \in P
  <2>1. AppendAll(e, n) \in Seq(S) /\ n + 0 = n
    BY PartsType
  <2>2. Stands(AppendAll(e, n), 0, AppendAll(e, n))
    BY <2>1 DEF Stands
  <2> QED BY <2>1, <2>2
<1>2. ASSUME NEW k \in 0 .. (m - n) - 1, k \in P PROVE k + 1 \in P
  <2> SUFFICES ASSUME n + (k + 1) <= Len(e)
               PROVE  Stands(AppendAll(e, n + (k + 1)), 0, AppendAll(e, n))
    OBVIOUS
  <2> DEFINE j == n + k
  <2>1. j \in 0 .. Len(e) - 1 /\ j + 1 = n + (k + 1) /\ j + 1 \in 1 .. Len(e) /\ j + 1 \in 0 .. Len(e)
    BY <1>0
  <2>2. Stands(AppendAll(e, j), 0, AppendAll(e, n))
    BY <1>2, <2>1
  <2> HIDE DEF j
  <2>3. AppendAll(e, j) \in Seq(S) /\ AppendAll(e, j + 1) = AppendAll(e, j) \o e[j + 1] /\ AppendAll(e, j + 1) \in Seq(S)
    BY <2>1, PartsNext, PartsType, SMTT(60)
  <2>4. e[j + 1] \in Seq(S)
    BY <2>1
  <2>5. Stands(AppendAll(e, j + 1), 0, AppendAll(e, j))
    <3>1. TwoStand(S, AppendAll(e, j) \o e[j + 1], AppendAll(e, j), e[j + 1])
      BY <2>3, <2>4, ConcatStands
    <3> QED BY <2>3, <3>1, Zenon DEF TwoStand
  <2>6. Stands(AppendAll(e, j + 1), 0 + 0, AppendAll(e, n))
    BY <2>2, <2>3, <2>5, PartsType, StandsWithin
  <2> QED BY <2>1, <2>6
<1> HIDE DEF P
<1>3. m - n \in Nat /\ m - n \in 0 .. m - n
  OBVIOUS
<1>4. m - n \in P
  BY <1>1, <1>2, <1>3, InductionUpTo, Zenon
<1> QED BY <1>4 DEF P

\* Part n + 1 stands behind the first n.
LEMMA PartStands ==
  ASSUME NEW S, NEW e \in Seq(Seq(S)), NEW n \in 0 .. Len(e) - 1
  PROVE  /\ Stands(AppendAll(e, Len(e)), Len(AppendAll(e, n)), e[n + 1])
         /\ Len(AppendAll(e, n + 1)) = Len(AppendAll(e, n)) + Len(e[n + 1])
<1>1. n \in 0 .. Len(e) /\ n + 1 \in 0 .. Len(e) /\ n + 1 \in 1 .. Len(e) /\ n + 1 <= Len(e) /\ Len(e) \in 0 .. Len(e)
  OBVIOUS
<1>2. /\ AppendAll(e, n) \in Seq(S) /\ AppendAll(e, n + 1) \in Seq(S) /\ AppendAll(e, Len(e)) \in Seq(S)
      /\ e[n + 1] \in Seq(S)
  BY <1>1, PartsType
<1>3. AppendAll(e, n + 1) = AppendAll(e, n) \o e[n + 1]
  BY PartsNext
<1>4. Stands(AppendAll(e, n + 1), Len(AppendAll(e, n)), e[n + 1]) /\ Len(AppendAll(e, n + 1)) = Len(AppendAll(e, n)) + Len(e[n + 1])
  <2>1. TwoStand(S, AppendAll(e, n) \o e[n + 1], AppendAll(e, n), e[n + 1])
    BY <1>2, ConcatStands
  <2> QED BY <1>3, <2>1, ZenonT(60) DEF TwoStand
<1>5. Stands(AppendAll(e, Len(e)), 0, AppendAll(e, n + 1))
  BY <1>1, PartsStand
<1>6. Len(AppendAll(e, n)) \in Nat /\ 0 + Len(AppendAll(e, n)) = Len(AppendAll(e, n))
  BY <1>2
<1>7. Stands(AppendAll(e, Len(e)), 0 + Len(AppendAll(e, n)), e[n + 1])
  BY <1>2, <1>4, <1>5, <1>6, StandsWithin
<1> QED BY <1>4, <1>6, <1>7

\* A frame of five parts.
FiveStand(f, p, q, r, s, u) ==
  /\ Len(f) = Len(p) + Len(q) + Len(r) + Len(s) + Len(u)
  /\ Stands(f, 0, p) /\ Stands(f, Len(p), q) /\ Stands(f, Len(p) + Len(q), r)
  /\ Stands(f, Len(p) + Len(q) + Len(r), s) /\ Stands(f, Len(p) + Len(q) + Len(r) + Len(s), u)

\* One behind the other.
LEMMA FiveParts ==
  ASSUME NEW S, NEW p \in Seq(S), NEW q \in Seq(S), NEW r \in Seq(S), NEW s \in Seq(S), NEW u \in Seq(S)
  PROVE  p \o q \o r \o s \o u \in Seq(S) /\ FiveStand(p \o q \o r \o s \o u, p, q, r, s, u)
<1> DEFINE a == p \o q
           b2 == a \o r
           c == b2 \o s
           f == c \o u
<1>1. a \in Seq(S) /\ Stands(a, 0, p) /\ Stands(a, Len(p), q) /\ Len(a) = Len(p) + Len(q)
  BY ConcatStands DEF TwoStand
<1> HIDE DEF a
<1>2. b2 \in Seq(S) /\ Stands(b2, 0, a) /\ Stands(b2, Len(a), r) /\ Len(b2) = Len(a) + Len(r)
  <2>1. TwoStand(S, a \o r, a, r)
    BY <1>1, ConcatStands, SMTT(60)
  <2> QED BY <2>1 DEF TwoStand
<1> HIDE DEF b2
<1>3. c \in Seq(S) /\ Stands(c, 0, b2) /\ Stands(c, Len(b2), s) /\ Len(c) = Len(b2) + Len(s)
  <2>1. TwoStand(S, b2 \o s, b2, s)
    BY <1>2, ConcatStands
  <2> QED BY <2>1 DEF TwoStand
<1> HIDE DEF c
<1>4. f \in Seq(S) /\ Stands(f, 0, c) /\ Stands(f, Len(c), u) /\ Len(f) = Len(c) + Len(u)
  <2>1. TwoStand(S, c \o u, c, u)
    BY <1>3, ConcatStands
  <2> QED BY <2>1 DEF TwoStand
<1> HIDE DEF f
<1>5. \A n \in Nat : 0 + n = n
  OBVIOUS
<1>6. Len(p) \in Nat /\ Len(q) \in Nat /\ Len(r) \in Nat /\ Len(s) \in Nat /\ Len(u) \in Nat
      /\ Len(a) \in Nat /\ Len(b2) \in Nat /\ Len(c) \in Nat /\ 0 \in Nat
  BY <1>1, <1>2, <1>3, SMTT(60)
<1>7. Stands(f, 0, b2) /\ Stands(f, Len(b2), s)
  BY <1>2, <1>3, <1>4, <1>5, <1>6, StandsWithin, SMTT(60)
<1>8. Stands(f, 0, a) /\ Stands(f, Len(a), r)
  BY <1>1, <1>2, <1>4, <1>5, <1>6, <1>7, StandsWithin, SMTT(60)
<1>9. Stands(f, 0, p) /\ Stands(f, Len(p), q)
  BY <1>1, <1>4, <1>5, <1>6, <1>8, StandsWithin, SMTT(60)
<1>10. FiveStand(f, p, q, r, s, u)
  BY <1>1, <1>2, <1>3, <1>4, <1>7, <1>8, <1>9, SMTT(60) DEF FiveStand
<1> QED BY <1>4, <1>10 DEF f, c, b2, a

------------------------------------------------------------------------------
(* Integers and bits.                                                         *)

\* The width of an octet is even.
LEMMA Widths ==
  /\ Octet \in Nat /\ Octet > 12 /\ TopBit \in Nat /\ TopBit > 0 /\ Octet = 2 * TopBit
  /\ Word \in Nat /\ Word = Octet * Octet /\ Max16 = Word - 1 /\ Max8 = Octet - 1
<1>1. Octet \in Nat /\ Octet > 12 /\ Octet % 2 = 0
  BY SAAssumption
<1>2. TopBit \in Nat /\ TopBit > 0 /\ Octet = 2 * TopBit
  BY <1>1 DEF TopBit
<1>3. Word \in Nat /\ Word = Octet * Octet
  BY <1>1 DEF Word
<1> QED BY <1>1, <1>2, <1>3, SMTT(60) DEF Max16, Max8, Word

\* A number below m is its own remainder.
LEMMA Remains ==
  ASSUME NEW m \in Nat, NEW k \in Nat, k < m
  PROVE  k % m = k
OBVIOUS

\* What a 16-bit integer that stands in w reads as.
LEMMA Uint16Stands ==
  ASSUME NEW n \in Nat, n < Word, NEW w \in Seq(Octets), NEW u \in Nat, Stands(w, u, PutUint16(n))
  PROVE  /\ PutUint16(n) \in Seq(Octets) /\ Len(PutUint16(n)) = 2 /\ u + 2 <= Len(w)
         /\ Uint16(w, u) = n /\ w[u + 1] = PutUint16(n)[1]
<1> DEFINE p == PutUint16(n)
<1>1. p \in Seq(Octets) /\ Len(p) = 2 /\ p[1] * Octet + p[2] = n
  BY Widths, Put16
<1> HIDE DEF p
<1>2. u + 2 <= Len(w) /\ w[u + 1] = p[1] /\ w[u + 2] = p[2]
  BY <1>1 DEF Stands, p
<1> QED BY <1>1, <1>2 DEF Uint16, p

\* The format and the type of an attribute in 16 bits
\* (payload_securityassociation.go:112, 206, 207).
LEMMA FormatBits ==
  ASSUME NEW f \in {UseTLV, UseTV}, NEW a \in 0 .. Octet * TopBit - 1
  PROVE  LET n == f * Octet * TopBit + a
         IN  n \in Nat /\ n < Word /\ PutUint16(n)[1] \div TopBit = f /\ n % TopBit = a % TopBit
<1> DEFINE n == f * Octet * TopBit + a
           q == a \div Octet
           r == a % Octet
           h == f * TopBit + q
<1>1. f \in Nat /\ f < 2
  BY DEF UseTLV, UseTV
<1>2. a \in Nat /\ a < TopBit * Octet
  BY Widths
<1>3. q \in Nat /\ q < TopBit /\ r \in Nat /\ r < Octet /\ a = q * Octet + r
  BY <1>2, Widths, DivBelow, SMTT(60)
<1> HIDE DEF q, r
<1>4. h \in Nat /\ h < 2 * TopBit
  BY <1>1, <1>3, Widths, SumBelow, SMTT(60)
<1>5. n = h * Octet + r
  BY <1>1, <1>3, Widths, SMTT(60)
<1>6. h \div TopBit = f
  BY <1>1, <1>3, Widths, DivMod, SMTT(60)
<1> HIDE DEF h
<1>7. n \in Nat /\ n < Word
  BY <1>3, <1>4, <1>5, Widths, SumBelow, SMTT(60)
<1>8. n \div Octet = h
  BY <1>3, <1>4, <1>5, Widths, DivMod, SMTT(60)
<1>9. n % TopBit = a % TopBit
  <2> DEFINE c == a \div TopBit
             m == a % TopBit
             k == f * Octet + c
  <2>1. c \in Nat /\ m \in Nat /\ m < TopBit /\ a = c * TopBit + m
    BY <1>2, Widths, DivBelow, SMTT(60)
  <2> HIDE DEF c, m
  <2>2. k \in Nat /\ n = k * TopBit + m
    BY <1>1, <2>1, Widths, SMTT(60)
  <2> HIDE DEF k, n
  <2>3. (k * TopBit + m) % TopBit = m
    BY <2>1, <2>2, Widths, DivMod, SMTT(60)
  <2> QED BY <2>2, <2>3, SMTT(60) DEF m
<1> HIDE DEF n
<1>10. PutUint16(n)[1] = h
  <2> DEFINE p == PutUint16(n)
             x == p[1]
             y == p[2]
  <2>1. x \in Octets /\ y \in Octets /\ x * Octet + y = n
    BY <1>7, Widths, Put16, SMTT(60)
  <2> HIDE DEF x, y
  <2>2. x \in Nat /\ y \in Nat /\ y < Octet
    BY <2>1, Widths DEF Octets
  <2>3. (x * Octet + y) \div Octet = x
    BY <2>2, Widths, DivMod, SMTT(60)
  <2> QED BY <1>8, <2>1, <2>3, SMTT(60) DEF x
<1> QED BY <1>6, <1>7, <1>9, <1>10, SMTT(60) DEF n

------------------------------------------------------------------------------
(* A transform, encoded and read again.                                       *)

\* The two words of an attribute.
TypeWord(t) == t.format * Octet * TopBit + t.attr
ValueWord(t) == IF t.format = UseTLV THEN Len(t.variable) ELSE t.value

\* The octets of an attribute.
AttributeStands(a, t) ==
  /\ Len(a) = 4 + IF t.format = UseTLV THEN Len(t.variable) ELSE 0
  /\ Stands(a, 0, PutUint16(TypeWord(t))) /\ Stands(a, 2, PutUint16(ValueWord(t)))

\* The fields of a transform that can be encoded have the widths of the code's.
LEMMA TransformFields ==
  ASSUME NEW t \in Transform, ~ TransformFails(t)
  PROVE  /\ t.type \in Octets /\ t.id \in Nat /\ t.id < Word /\ t.present \in BOOLEAN
         /\ t.format \in {UseTLV, UseTV} /\ t.attr \in 0 .. Octet * TopBit - 1
         /\ t.value \in Nat /\ t.value < Word /\ t.variable \in Seq(Octets)
         /\ TypeWord(t) \in Nat /\ TypeWord(t) < Word
         /\ t.present => ValueWord(t) \in Nat /\ ValueWord(t) < Word
<1>1. /\ t.type \in Octets /\ t.id \in 0 .. Max16 /\ t.present \in BOOLEAN
      /\ t.format \in {UseTLV, UseTV} /\ t.attr \in 0 .. Octet * TopBit - 1
      /\ t.value \in 0 .. Max16 /\ t.variable \in Seq(Octets)
  BY DEF Transform
<1>2. /\ t.id \in Nat /\ t.id < Word /\ t.value \in Nat /\ t.value < Word
  BY <1>1, Widths, SMTT(60)
<1>3. TypeWord(t) \in Nat /\ TypeWord(t) < Word
  BY <1>1, FormatBits DEF TypeWord
<1>4. ASSUME t.present PROVE ValueWord(t) \in Nat /\ ValueWord(t) < Word
  <2>1. t.format = UseTLV => Len(t.variable) \in 1 .. Max16
    BY <1>4 DEF TransformFails
  <2> QED BY <1>2, <2>1, Widths, SMTT(60) DEF ValueWord
<1> QED BY <1>1, <1>2, <1>3, <1>4, SMTT(60)

\* The attribute of a transform (payload_securityassociation.go:106-130).
LEMMA AttributeOctets ==
  ASSUME NEW t \in Transform, ~ TransformFails(t)
  PROVE  /\ attributeData(t) \in Seq(Octets)
         /\ t.present => AttributeStands(attributeData(t), t)
         /\ ~ t.present => attributeData(t) = <<>>
<1>1. CASE ~ t.present
  <2>1. attributeData(t) = <<>>
    BY <1>1 DEF attributeData
  <2>2. <<>> \in Seq(Octets)
    OBVIOUS
  <2> QED BY <1>1, <2>1, <2>2, SMTT(60)
<1>2. CASE t.present
  <2> DEFINE x == PutUint16(TypeWord(t))
             y == PutUint16(ValueWord(t))
             z == IF t.format = UseTLV THEN t.variable ELSE <<>>
  <2>1. x \in Seq(Octets) /\ Len(x) = 2 /\ y \in Seq(Octets) /\ Len(y) = 2
    BY <1>2, TransformFields, Widths, Put16, SMTT(60)
  <2>2. z \in Seq(Octets) /\ Len(z) = IF t.format = UseTLV THEN Len(t.variable) ELSE 0
    <3>1. <<>> \in Seq(Octets) /\ Len(<<>>) = 0
      OBVIOUS
    <3> QED BY <3>1, TransformFields
  <2>3. attributeData(t) = x \o (y \o z)
    <3>1. CASE t.format = UseTLV
      BY <1>2, <3>1, Zenon DEF attributeData, TypeWord, ValueWord
    <3>2. CASE t.format # UseTLV
      <4>1. attributeData(t) = x \o y
        BY <1>2, <3>2 DEF attributeData, TypeWord, ValueWord
      <4> HIDE DEF y
      <4>2. y \o z = y
        BY <2>1, <3>2
      <4> QED BY <4>1, <4>2, Zenon
    <3> QED BY <3>1, <3>2, SMTT(60)
  <2> HIDE DEF x, y, z
  <2> DEFINE v == y \o z
  <2>4. v \in Seq(Octets) /\ Stands(v, 0, y) /\ Len(v) = 2 + Len(z)
    <3>1. TwoStand(Octets, v, y, z)
      BY <2>1, <2>2, ConcatStands, SMTT(60)
    <3> QED BY <2>1, <3>1 DEF TwoStand
  <2> HIDE DEF v
  <2> DEFINE a == x \o v
  <2>5. a \in Seq(Octets) /\ Stands(a, 0, x) /\ Stands(a, 2, v) /\ Len(a) = 2 + Len(v)
    <3>1. TwoStand(Octets, a, x, v)
      BY <2>1, <2>4, ConcatStands, SMTT(60)
    <3> QED BY <2>1, <3>1 DEF TwoStand
  <2> HIDE DEF a
  <2>6. Stands(a, 2, y)
    <3>1. Stands(a, 2 + 0, y)
      BY <2>1, <2>4, <2>5, StandsWithin, SMTT(60)
    <3>2. 2 + 0 = 2
      OBVIOUS
    <3> QED BY <3>1, <3>2, Zenon
  <2>7. Len(a) = 4 + IF t.format = UseTLV THEN Len(t.variable) ELSE 0
    <3>1. Len(z) \in Nat
      BY <2>2
    <3> HIDE DEF z
    <3>2. Len(a) = 4 + Len(z)
      BY <2>4, <2>5, <3>1, SMTT(60)
    <3> QED BY <2>2, <3>2
  <2>8. AttributeStands(a, t)
    BY <2>5, <2>6, <2>7, Zenon DEF AttributeStands, x, y
  <2> QED BY <1>2, <2>3, <2>5, <2>8, SMTT(60) DEF a, v
<1> QED BY <1>1, <1>2

\* What Unmarshal finds in octets that begin with those of a transform.
TransformHeader(b, t) ==
  /\ Len(b) >= 8 /\ transformLength(b) = 8 + Len(attributeData(t)) /\ transformLength(b) <= Len(b)
  /\ b[5] = t.type /\ Uint16(b, 6) = t.id
AttributeHeader(b, t) ==
  /\ Len(b) >= 12 /\ Format(b) = t.format /\ Uint16(b, 8) % TopBit = t.attr % TopBit
  /\ Uint16(b, 10) = ValueWord(t)

\* The octets of a transform, and what stands where
\* (payload_securityassociation.go:132-145, 185-196).
LEMMA TransformStands ==
  ASSUME NEW t \in Transform, ~ TransformFails(t), NEW last \in BOOLEAN
  PROVE  /\ MarshalTransform(t, last) \in Seq(Octets)
         /\ Len(MarshalTransform(t, last)) = 8 + Len(attributeData(t))
         /\ \A b \in Seq(Octets) : Stands(b, 0, MarshalTransform(t, last)) =>
              TransformHeader(b, t) /\ Stands(b, 8, attributeData(t))
<1> DEFINE p == <<IF last THEN 0 ELSE 3, 0>>
           n == 8 + Len(attributeData(t))
           q == PutUint16(n)
           r == <<t.type, 0>>
           s == PutUint16(t.id)
           u == attributeData(t)
           f == MarshalTransform(t, last)
<1>1. f = p \o q \o r \o s \o u
  BY DEF MarshalTransform
<1>2. u \in Seq(Octets) /\ Len(u) \in Nat
  BY AttributeOctets
<1>3. n \in Nat /\ n < Word /\ n >= 8
  <2>1. ~ (8 + Len(attributeData(t)) > Max16)
    BY DEF TransformFails
  <2> QED BY <1>2, <2>1, Widths, SMTT(60)
<1>4. t.type \in Octets /\ t.id \in Nat /\ t.id < Word
  BY TransformFields
<1> HIDE DEF f, n
<1>5. q \in Seq(Octets) /\ Len(q) = 2 /\ s \in Seq(Octets) /\ Len(s) = 2
  BY <1>3, <1>4, Widths, Put16, SMTT(60)
<1>6. p \in Seq(Octets) /\ Len(p) = 2 /\ r \in Seq(Octets) /\ Len(r) = 2 /\ r[1] = t.type
  <2>1. 0 \in Octets /\ 3 \in Octets
    BY Widths DEF Octets
  <2> QED BY <1>4, <2>1
<1> HIDE DEF p, q, r, s, u
<1>7. f \in Seq(Octets) /\ FiveStand(f, p, q, r, s, u)
  BY <1>1, <1>2, <1>5, <1>6, FiveParts, SMTT(60)
<1>8. Len(f) = 8 + Len(u) /\ Stands(f, 2, q) /\ Stands(f, 4, r) /\ Stands(f, 6, s) /\ Stands(f, 8, u)
  <2>1. 2 + 2 = 4 /\ 2 + 2 + 2 = 6 /\ 2 + 2 + 2 + 2 = 8
    OBVIOUS
  <2> QED BY <1>2, <1>5, <1>6, <1>7, <2>1, SMTT(60) DEF FiveStand
<1>9. ASSUME NEW b \in Seq(Octets), Stands(b, 0, f)
      PROVE  TransformHeader(b, t) /\ Stands(b, 8, u)
  <2>1. Stands(b, 0 + 2, q) /\ Stands(b, 0 + 4, r) /\ Stands(b, 0 + 6, s) /\ Stands(b, 0 + 8, u)
    BY <1>2, <1>5, <1>6, <1>7, <1>8, <1>9, StandsWithin, Zenon
  <2>2. Stands(b, 2, q) /\ Stands(b, 4, r) /\ Stands(b, 6, s) /\ Stands(b, 8, u)
    <3>1. 0 + 2 = 2 /\ 0 + 4 = 4 /\ 0 + 6 = 6 /\ 0 + 8 = 8
      OBVIOUS
    <3> QED BY <2>1, <3>1, Zenon
  <2>3. Uint16(b, 2) = n
    BY <1>3, <2>2, Uint16Stands, SMTT(60) DEF q
  <2>4. Uint16(b, 6) = t.id
    BY <1>4, <2>2, Uint16Stands, SMTT(60) DEF s
  <2>5. b[5] = t.type
    <3>1. 1 \in 1 .. Len(r) /\ 4 + 1 = 5
      BY <1>6
    <3> QED BY <1>6, <2>2, <3>1, SMTT(60) DEF Stands
  <2>6. Len(f) <= Len(b) /\ n = Len(f)
    <3>1. n = Len(f)
      BY <1>8 DEF n, u
    <3>2. 0 + Len(f) <= Len(b) /\ Len(f) \in Nat
      BY <1>7, <1>9 DEF Stands
    <3> QED BY <3>1, <3>2
  <2>7. n = 8 + Len(attributeData(t))
    BY DEF n
  <2> QED BY <1>3, <2>2, <2>3, <2>4, <2>5, <2>6, <2>7, SMTT(60) DEF TransformHeader, transformLength
<1> QED BY <1>7, <1>8, <1>9, SMTT(60) DEF f, u

\* Of the attribute (payload_securityassociation.go:198-222).
LEMMA AttributeRead ==
  ASSUME NEW t \in Transform, ~ TransformFails(t), t.present,
         NEW b \in Seq(Octets), Stands(b, 8, attributeData(t))
  PROVE  AttributeHeader(b, t)
<1> DEFINE a == attributeData(t)
           x == PutUint16(TypeWord(t))
           y == PutUint16(ValueWord(t))
<1>1. a \in Seq(Octets) /\ Len(a) >= 4 /\ Stands(a, 0, x) /\ Stands(a, 2, y)
  <2>1. a \in Seq(Octets) /\ AttributeStands(a, t)
    BY AttributeOctets
  <2>2. Len(t.variable) \in Nat
    BY TransformFields
  <2> QED BY <2>1, <2>2, SMTT(60) DEF AttributeStands
<1>2. x \in Seq(Octets) /\ y \in Seq(Octets)
  BY TransformFields, Widths, Put16, SMTT(60)
<1> HIDE DEF a
<1>3. Stands(b, 8, a)
  BY DEF a
<1>4. Stands(b, 8, x) /\ Stands(b, 10, y) /\ Len(b) >= 12
  <2> HIDE DEF x, y
  <2>1. Stands(b, 8 + 0, x) /\ Stands(b, 8 + 2, y)
    BY <1>1, <1>2, <1>3, StandsWithin, SMTT(60)
  <2>2. 8 + 0 = 8 /\ 8 + 2 = 10
    OBVIOUS
  <2>3. Len(b) >= 12
    BY <1>1, <1>3 DEF Stands
  <2> QED BY <2>1, <2>2, <2>3, Zenon
<1>5. Uint16(b, 8) = TypeWord(t) /\ b[9] = x[1]
  <2>1. TypeWord(t) \in Nat /\ TypeWord(t) < Word
    BY TransformFields
  <2>2. Uint16(b, 8) = TypeWord(t) /\ b[8 + 1] = x[1]
    BY <1>4, <2>1, Uint16Stands, SMTT(60)
  <2> QED BY <2>2
<1>6. Uint16(b, 10) = ValueWord(t)
  BY <1>4, TransformFields, Uint16Stands, SMTT(60)
<1>7. x[1] \div TopBit = t.format /\ TypeWord(t) % TopBit = t.attr % TopBit
  BY TransformFields, FormatBits, SMTT(60) DEF TypeWord
<1> QED BY <1>4, <1>5, <1>6, <1>7, SMTT(60) DEF AttributeHeader, Format

\* What Unmarshal makes of octets that begin with those of a transform.
TransformIsRead(b, t, f) ==
  /\ GoodTransform(b) /\ transformLength(b) = Len(f)
  /\ HasAttribute(b) => GoodAttribute(b) /\ ~ AttributePanics(b)
  /\ NewTransform(b) = Kept(t)

\* It accepts them and returns the transform, up to what is not kept.
LEMMA TransformRead ==
  ASSUME NEW t \in Transform, ~ TransformFails(t), NEW last \in BOOLEAN,
         NEW b \in Seq(Octets), Stands(b, 0, MarshalTransform(t, last))
  PROVE  TransformIsRead(b, t, MarshalTransform(t, last))
<1> DEFINE a == attributeData(t)
<1>1. Len(MarshalTransform(t, last)) = 8 + Len(a) /\ TransformHeader(b, t) /\ Stands(b, 8, a)
  BY TransformStands
<1>2. a \in Seq(Octets) /\ Len(a) \in Nat
  BY AttributeOctets
<1>3. 8 + Len(a) < Word
  <2>1. ~ (8 + Len(a) > Max16)
    BY DEF TransformFails
  <2> QED BY <1>2, <2>1, Widths, SMTT(60)
<1>4. GoodTransform(b) /\ transformLength(b) = 8 + Len(a)
  BY <1>1, <1>2 DEF TransformHeader, GoodTransform
<1>5. /\ t.present \in BOOLEAN /\ t.format \in {UseTLV, UseTV} /\ Len(t.variable) \in Nat
  BY TransformFields
<1>6. t.present => Len(a) = 4 + IF t.format = UseTLV THEN Len(t.variable) ELSE 0
  BY AttributeOctets DEF AttributeStands
<1>7. ~ t.present => Len(a) = 0
  BY AttributeOctets
<1> HIDE DEF a
<1>8. HasAttribute(b) <=> t.present
  <2>1. CASE t.present
    <3>1. (IF t.format = UseTLV THEN Len(t.variable) ELSE 0) \in Nat
      BY <1>5
    <3>2. Len(a) = 4 + IF t.format = UseTLV THEN Len(t.variable) ELSE 0
      BY <1>6, <2>1, Zenon
    <3>3. Len(a) >= 4
      BY <3>1, <3>2, SMTT(60)
    <3> QED BY <1>2, <1>4, <2>1, <3>3, SMTT(60) DEF HasAttribute
  <2>2. CASE ~ t.present
    BY <1>4, <1>7, <2>2, SMTT(60) DEF HasAttribute
  <2> QED BY <2>1, <2>2, SMTT(60)
<1>9. t.present => AttributeHeader(b, t)
  BY <1>1, AttributeRead, SMTT(60) DEF a
<1>10. ASSUME HasAttribute(b) PROVE GoodAttribute(b) /\ ~ AttributePanics(b)
  <2>1. t.present /\ AttributeHeader(b, t)
    BY <1>8, <1>9, <1>10, SMTT(60)
  <2>2. ASSUME t.format = UseTLV
        PROVE  Add16(12, Uint16(b, 10)) = transformLength(b) /\ transformLength(b) >= 12
    <3>1. Uint16(b, 10) = Len(t.variable)
      BY <2>1, <2>2, SMTT(60) DEF AttributeHeader, ValueWord
    <3>2. transformLength(b) = 12 + Len(t.variable) /\ 12 + Len(t.variable) < Word
      BY <1>3, <1>4, <1>5, <1>6, <2>1, <2>2, SMTT(60)
    <3>3. (12 + Len(t.variable)) % Word = 12 + Len(t.variable)
      <4>1. Word \in Nat /\ 12 + Len(t.variable) \in Nat
        BY <1>5, Widths
      <4> QED BY <3>2, <4>1, Remains, ZenonT(60)
    <3> QED BY <1>5, <3>1, <3>2, <3>3, SMTT(60) DEF Add16, Word
  <2>3. Format(b) = t.format /\ Len(b) >= 12
    BY <2>1 DEF AttributeHeader
  <2>4. transformLength(b) \in Nat
    BY <1>2, <1>4
  <2> QED BY <2>2, <2>3, <2>4, SMTT(60) DEF GoodAttribute, AttributePanics
<1>11. NewTransform(b) = Kept(t)
  <2>1. b[5] = t.type /\ Uint16(b, 6) = t.id
    BY <1>1, SMTT(60) DEF TransformHeader
  <2>2. t.present => Format(b) = t.format /\ Uint16(b, 8) % TopBit = t.attr % TopBit /\ Uint16(b, 10) = ValueWord(t)
    BY <1>9 DEF AttributeHeader
  <2>3. t.present /\ t.format = UseTV => ValueWord(t) = t.value
    BY DEF ValueWord, UseTLV, UseTV
  <2>4. /\ (IF HasAttribute(b) THEN Format(b) ELSE 0) = IF t.present THEN t.format ELSE 0
        /\ (IF HasAttribute(b) THEN Uint16(b, 8) % TopBit ELSE 0) = IF t.present THEN t.attr % TopBit ELSE 0
        /\ (IF HasAttribute(b) /\ Format(b) = UseTV THEN Uint16(b, 10) ELSE 0)
             = IF t.present /\ t.format = UseTV THEN t.value ELSE 0
    BY <1>8, <2>2, <2>3, Zenon
  <2>5. HasAttribute(b) = t.present
    BY <1>5, <1>8 DEF HasAttribute
  <2> QED BY <2>1, <2>4, <2>5, Zenon DEF NewTransform, Kept
<1> QED BY <1>1, <1>4, <1>10, <1>11, SMTT(60) DEF TransformIsRead

------------------------------------------------------------------------------
(* A proposal, encoded and read again.                                        *)

\* The frames of the transforms.
TransformFrames(l) == [i \in 1 .. Len(l) |-> MarshalTransform(l[i], i = Len(l))]

\* SPIs whose end fits in an octet.
ShortSPI(p) == 8 + Len(p.spi) <= Max8

\* The transforms of a proposal are in one list (payload_securityassociation.go:71-77).
LEMMA ListType ==
  ASSUME NEW p \in Proposal
  PROVE  transformList(p) \in Seq(Transform)
<1> DEFINE s == p.list
<1>1. p.list \in [TransformTypes -> Seq(Transform)]
  BY DEF Proposal
<1>2. s \in Seq(Seq(Transform)) /\ 5 \in 0 .. Len(s)
  <2> DEFINE D == Seq(Transform)
  <2>1. s \in [1 .. 5 -> D]
    BY <1>1 DEF TransformTypes
  <2> HIDE DEF s, D
  <2>2. PICK n \in Nat : n = 5
    OBVIOUS
  <2>3. s \in [1 .. n -> D]
    BY <2>1, <2>2, Zenon
  <2>4. s \in Seq(D) /\ Len(s) = n
    BY <2>3
  <2>5. n \in 0 .. Len(s)
    BY <2>4
  <2> QED BY <2>2, <2>4, <2>5, Zenon DEF D
<1> HIDE DEF s
<1>3. AppendAll(s, 5) \in Seq(Transform)
  BY <1>2, PartsType, SMTT(60)
<1> QED BY <1>3 DEF transformList, s

\* What is known of the transforms of a proposal that can be encoded.
FramesAre(p) ==
  LET l == transformList(p)
      e == TransformFrames(l)
  IN  /\ l \in Seq(Transform) /\ Len(l) \in 1 .. Max8
      /\ \A i \in 1 .. Len(l) : l[i] \in Transform /\ ~ TransformFails(l[i])
      /\ e \in Seq(Seq(Octets)) /\ Len(e) = Len(l)
      /\ \A i \in 1 .. Len(l) : e[i] = MarshalTransform(l[i], i = Len(l)) /\ Len(e[i]) >= 8
      /\ proposalTransformData(p) = AppendAll(e, Len(l))

\* The transform data is put together from them.
LEMMA FramesType ==
  ASSUME NEW p \in Proposal, ~ MarshalFails(p)
  PROVE  FramesAre(p) /\ proposalTransformData(p) \in Seq(Octets)
<1> DEFINE l == transformList(p)
           e == TransformFrames(l)
<1>1. l \in Seq(Transform)
  BY ListType
<1>2. Len(l) \in 1 .. Max8 /\ \A i \in 1 .. Len(l) : ~ TransformFails(l[i])
  BY DEF MarshalFails
<1> HIDE DEF l
<1>3. \A i \in 1 .. Len(l) : l[i] \in Transform
  BY <1>1
<1>4. Len(l) \in Nat
  BY <1>1
<1>5. ASSUME NEW i \in 1 .. Len(l)
      PROVE  MarshalTransform(l[i], i = Len(l)) \in Seq(Octets) /\ Len(MarshalTransform(l[i], i = Len(l))) >= 8
  <2> DEFINE last == i = Len(l)
  <2>1. last \in BOOLEAN
    OBVIOUS
  <2> HIDE DEF last
  <2>2. attributeData(l[i]) \in Seq(Octets) /\ MarshalTransform(l[i], last) \in Seq(Octets)
        /\ Len(MarshalTransform(l[i], last)) = 8 + Len(attributeData(l[i]))
    BY <1>2, <1>3, <2>1, TransformStands, AttributeOctets, SMTT(60)
  <2>3. Len(MarshalTransform(l[i], last)) >= 8
    BY <2>2
  <2> QED BY <2>2, <2>3 DEF last
<1>6. e = [i \in 1 .. Len(l) |-> MarshalTransform(l[i], i = Len(l))]
  BY DEF TransformFrames
<1>7. e \in [1 .. Len(l) -> Seq(Octets)]
  BY <1>5, <1>6, SMTT(60)
<1>8. \A i \in 1 .. Len(l) : e[i] = MarshalTransform(l[i], i = Len(l)) /\ Len(e[i]) >= 8
  BY <1>5, <1>6, SMTT(60)
<1>9. proposalTransformData(p) = AppendAll(e, Len(l))
  BY <1>6, Zenon DEF proposalTransformData, l
<1> HIDE DEF e
<1>10. e \in Seq(Seq(Octets)) /\ Len(e) = Len(l)
  BY <1>4, <1>7, SMTT(60)
<1>11. FramesAre(p)
  BY <1>1, <1>2, <1>3, <1>8, <1>9, <1>10, Zenon DEF FramesAre, e, l
<1>12. AppendAll(e, Len(l)) \in Seq(Octets)
  <2>1. Len(l) \in 0 .. Len(e)
    BY <1>4, <1>10, SMTT(60)
  <2> QED BY <1>10, <2>1, PartsType, SMTT(60)
<1> QED BY <1>9, <1>11, <1>12, SMTT(60)

\* What Unmarshal finds in octets that begin with those of a proposal.
ProposalHeader(b, p) ==
  /\ Len(b) >= 8 /\ proposalLength(b) = ProposalLength(p) /\ proposalLength(b) <= Len(b)
  /\ b[5] = p.number /\ b[6] = p.protocol /\ b[7] = Len(p.spi)

\* The octets of a proposal, and what stands where
\* (payload_securityassociation.go:49-101, 156-178).
LEMMA ProposalStands ==
  ASSUME NEW p \in Proposal, ~ MarshalFails(p), NEW last \in BOOLEAN
  PROVE  LET f == MarshalProposal(p, last)
         IN  /\ f \in Seq(Octets) /\ Len(f) = ProposalLength(p)
             /\ \A b \in Seq(Octets) : Stands(b, 0, f) =>
                  /\ ProposalHeader(b, p) /\ Stands(b, 8, p.spi)
                  /\ Stands(b, 8 + Len(p.spi), proposalTransformData(p))
<1> DEFINE h == <<IF last THEN 0 ELSE 2, 0>>
           n == ProposalLength(p)
           m == Len(transformList(p))
           q == PutUint16(n)
           r == <<p.number, p.protocol, Len(p.spi), m>>
           s == p.spi
           u == proposalTransformData(p)
           f == MarshalProposal(p, last)
<1>1. f = h \o q \o r \o s \o u
  BY DEF MarshalProposal
<1>2. p.number \in Octets /\ p.protocol \in Octets /\ s \in Seq(Octets) /\ Len(s) \in Nat
  BY DEF Proposal
<1>3. u \in Seq(Octets) /\ Len(u) \in Nat
  BY FramesType
<1>4. Len(s) \in Octets /\ m \in Octets /\ n \in Nat /\ n < Word /\ n = 8 + Len(s) + Len(u)
  <2>1. ~ (Len(s) > Max8) /\ m \in 1 .. Max8 /\ ~ (n > Max16)
    BY DEF MarshalFails
  <2>2. n = 8 + Len(s) + Len(u)
    BY DEF ProposalLength
  <2> HIDE DEF s, m, n, u
  <2> QED BY <1>2, <1>3, <2>1, <2>2, Widths, SMTT(60) DEF Octets
<1> HIDE DEF f, n, m
<1>5. q \in Seq(Octets) /\ Len(q) = 2
  BY <1>4, Widths, Put16, SMTT(60)
<1>6. h \in Seq(Octets) /\ Len(h) = 2
  <2>1. 0 \in Octets /\ 2 \in Octets
    BY Widths DEF Octets
  <2> QED BY <2>1
<1>7. r \in Seq(Octets) /\ Len(r) = 4 /\ r[1] = p.number /\ r[2] = p.protocol /\ r[3] = Len(s)
  BY <1>2, <1>4, SMTT(60)
<1> HIDE DEF h, q, r, s, u
<1>8. f \in Seq(Octets) /\ FiveStand(f, h, q, r, s, u)
  BY <1>1, <1>2, <1>3, <1>5, <1>6, <1>7, FiveParts, SMTT(60)
<1>9. Len(f) = n /\ Stands(f, 2, q) /\ Stands(f, 4, r) /\ Stands(f, 8, s) /\ Stands(f, 8 + Len(s), u)
  <2>1. 2 + 2 = 4 /\ 2 + 2 + 4 = 8
    OBVIOUS
  <2> QED BY <1>2, <1>3, <1>4, <1>5, <1>6, <1>7, <1>8, <2>1, SMTT(60) DEF FiveStand
<1>10. ASSUME NEW b \in Seq(Octets), Stands(b, 0, f)
       PROVE  ProposalHeader(b, p) /\ Stands(b, 8, s) /\ Stands(b, 8 + Len(s), u)
  <2>1. \A k \in Nat : 0 + k = k
    OBVIOUS
  <2>2. 8 + Len(s) \in Nat
    BY <1>2
  <2>3. Stands(b, 2, q) /\ Stands(b, 4, r) /\ Stands(b, 8, s)
    <3>1. Stands(b, 0 + 2, q) /\ Stands(b, 0 + 4, r) /\ Stands(b, 0 + 8, s)
      BY <1>2, <1>5, <1>7, <1>8, <1>9, <1>10, StandsWithin, SMTT(60)
    <3>2. 0 + 2 = 2 /\ 0 + 4 = 4 /\ 0 + 8 = 8
      OBVIOUS
    <3> QED BY <3>1, <3>2, Zenon
  <2>4. Stands(b, 8 + Len(s), u)
    <3>1. Stands(b, 0 + (8 + Len(s)), u)
      BY <1>3, <1>8, <1>9, <1>10, <2>2, StandsWithin, SMTT(60)
    <3>2. 0 + (8 + Len(s)) = 8 + Len(s)
      BY <1>2, SMTT(60)
    <3> QED BY <3>1, <3>2, Zenon
  <2>5. Uint16(b, 2) = n
    BY <1>4, <2>3, Uint16Stands, SMTT(60) DEF q
  <2>6. b[5] = p.number /\ b[6] = p.protocol /\ b[7] = Len(s)
    <3>1. \A k \in 1 .. 4 : b[4 + k] = r[k]
      BY <1>7, <2>3, SMTT(60) DEF Stands
    <3>2. b[4 + 1] = r[1] /\ b[4 + 2] = r[2] /\ b[4 + 3] = r[3]
      BY <3>1
    <3> QED BY <1>7, <3>2, SMTT(60)
  <2>7. n <= Len(b) /\ Len(b) >= 8
    <3>1. 0 + Len(f) <= Len(b)
      BY <1>10, SMTT(60) DEF Stands
    <3> QED BY <1>2, <1>3, <1>4, <1>9, <3>1, SMTT(60)
  <2> QED BY <2>3, <2>4, <2>5, <2>6, <2>7, SMTT(60) DEF ProposalHeader, proposalLength, n, s
<1> QED BY <1>8, <1>9, <1>10, SMTT(60) DEF f, n, s, u

\* A slice is what stands there.
LEMMA StandsIsSlice ==
  ASSUME NEW S, NEW w \in Seq(S), NEW f \in Seq(S), NEW u \in Nat, Stands(w, u, f)
  PROVE  SubSeq(w, u + 1, u + Len(f)) = f
<1> DEFINE n == Len(f)
           x == SubSeq(w, u + 1, u + n)
<1>1. n \in Nat /\ u + n <= Len(w) /\ \A k \in 1 .. n : w[u + k] = f[k]
  BY DEF Stands
<1>2. Len(f) = n
  OBVIOUS
<1> HIDE DEF n
<1>3. IsSlice(S, x, w, u, n)
  BY <1>1, SliceOf, SMTT(60)
<1> HIDE DEF x
<1>4. x \in Seq(S) /\ Len(x) = n /\ \A k \in 1 .. n : x[k] = f[k]
  BY <1>1, <1>3, SMTT(60) DEF IsSlice
<1>5. x = f
  BY <1>2, <1>4, SameElements, SMTT(60)
<1> QED BY <1>5, SMTT(60) DEF x, n

\* What stands in w at u stands at the beginning of w[u:].
LEMMA StandsInFrom ==
  ASSUME NEW S, NEW w \in Seq(S), NEW f \in Seq(S), NEW u \in Nat, Stands(w, u, f),
         NEW b \in Seq(S), IsFrom(b, w, u)
  PROVE  Stands(b, 0, f)
<1>1. Len(f) \in Nat /\ Len(w) \in Nat /\ Len(b) \in Nat /\ u + Len(b) = Len(w) /\ u + Len(f) <= Len(w)
  BY DEF IsFrom, Stands
<1>2. \A k \in 1 .. Len(b) : b[k] = w[u + k]
  BY <1>1, SMTT(60) DEF IsFrom
<1>3. ASSUME NEW k \in 1 .. Len(f) PROVE b[0 + k] = f[k]
  <2>1. k \in 1 .. Len(b) /\ 0 + k = k
    BY <1>1, SMTT(60)
  <2>2. w[u + k] = f[k]
    BY DEF Stands
  <2> QED BY <1>2, <2>1, <2>2, SMTT(60)
<1>4. 0 + Len(f) <= Len(b)
  BY <1>1
<1> QED BY <1>3, <1>4, SMTT(60) DEF Stands

\* What Unmarshal makes of octets that begin with those of a proposal.
ProposalIsRead(b, p, f) ==
  /\ GoodProposal(b) /\ SPIFits(b) /\ (InOrder(b) <=> ShortSPI(p))
  /\ proposalLength(b) = Len(f) /\ b[5] = p.number /\ b[6] = p.protocol
  /\ ShortSPI(p) => Slice(b, 8, EndOfSPI(b)) = p.spi /\ TransformOctets(b) = proposalTransformData(p)

\* It accepts them and finds the SPI and the transforms, unless the end of the SPI
\* does not fit in an octet (payload_securityassociation.go:175, 178, 181).
LEMMA ProposalRead ==
  ASSUME NEW p \in Proposal, ~ MarshalFails(p), NEW last \in BOOLEAN,
         NEW b \in Seq(Octets), Stands(b, 0, MarshalProposal(p, last))
  PROVE  ProposalIsRead(b, p, MarshalProposal(p, last))
<1> DEFINE s == p.spi
           u == proposalTransformData(p)
           l == Len(s)
           n == ProposalLength(p)
<1>1. /\ Len(MarshalProposal(p, last)) = n /\ ProposalHeader(b, p)
      /\ Stands(b, 8, s) /\ Stands(b, 8 + l, u)
  BY ProposalStands, SMTT(60)
<1>2. s \in Seq(Octets) /\ l \in Nat /\ u \in Seq(Octets) /\ Len(u) \in Nat
  BY FramesType, SMTT(60) DEF Proposal
<1>3. l < Octet /\ n = 8 + l + Len(u)
  <2>1. ~ (l > Max8)
    BY DEF MarshalFails
  <2>2. n = 8 + l + Len(u)
    BY DEF ProposalLength
  <2> HIDE DEF l
  <2> QED BY <1>2, <2>1, <2>2, Widths, SMTT(60)
<1>4. /\ Len(b) >= 8 /\ proposalLength(b) = n /\ n <= Len(b)
      /\ b[5] = p.number /\ b[6] = p.protocol /\ b[7] = l
  BY <1>1, SMTT(60) DEF ProposalHeader
<1>5. ShortSPI(p) <=> 8 + l < Octet
  <2> HIDE DEF l
  <2>1. 8 + l <= Max8 <=> 8 + l < Octet
    BY <1>2, Widths, SMTT(60)
  <2> QED BY <2>1, SMTT(60) DEF ShortSPI, l
<1> DEFINE e == EndOfSPI(b)
<1>6. e = (8 + l) % Octet
  BY <1>4, Zenon DEF EndOfSPI, Add8
<1> HIDE DEF e, s, u, l, n
<1>7. GoodProposal(b)
  BY <1>2, <1>3, <1>4, SMTT(60) DEF GoodProposal
<1>8. CASE 8 + l < Octet
  <2>1. e = 8 + l
    <3>1. 8 + l \in Nat /\ Octet \in Nat
      BY <1>2, Widths, SMTT(60)
    <3> QED BY <1>6, <1>8, <3>1, Remains, SMTT(60)
  <2>2. SPIFits(b)
    BY <1>2, <1>3, <1>4, <2>1, SMTT(60) DEF SPIFits, e
  <2>3. InOrder(b)
    BY <1>2, <1>3, <1>4, <2>1, SMTT(60) DEF InOrder, e
  <2>4. Slice(b, 8, e) = s
    <3>1. SubSeq(b, 8 + 1, 8 + Len(s)) = s
      BY <1>1, <1>2, StandsIsSlice, SMTT(60)
    <3> QED BY <2>1, <3>1, Zenon DEF Slice, l
  <2>5. Slice(b, e, n) = u
    <3>1. 8 + l \in Nat
      BY <1>2, SMTT(60)
    <3>2. SubSeq(b, 8 + l + 1, 8 + l + Len(u)) = u
      BY <1>1, <1>2, <3>1, StandsIsSlice, SMTT(60)
    <3> QED BY <1>3, <2>1, <3>2, Zenon DEF Slice
  <2> QED BY <1>1, <1>4, <1>5, <1>7, <1>8, <2>2, <2>3, <2>4, <2>5, Zenon
      DEF ProposalIsRead, TransformOctets, e, s, u, n
<1>9. CASE ~ (8 + l < Octet)
  <2> DEFINE d == 8 + l - Octet
  <2>1. d \in Nat /\ d < 8 /\ d < Octet /\ 8 + l = 1 * Octet + d
    BY <1>2, <1>3, <1>9, Widths, SMTT(60)
  <2> HIDE DEF d
  <2>2. (1 * Octet + d) % Octet = d
    BY <2>1, Widths, DivMod, SMTT(60)
  <2>3. e = d
    BY <1>6, <2>1, <2>2, Zenon
  <2>4. SPIFits(b) /\ ~ InOrder(b)
    BY <1>4, <2>1, <2>3, SMTT(60) DEF SPIFits, InOrder, e
  <2> QED BY <1>1, <1>4, <1>5, <1>7, <1>9, <2>4, Zenon DEF ProposalIsRead, n
<1> QED BY <1>8, <1>9, SMTT(60)

------------------------------------------------------------------------------
(* The payload.                                                               *)

Encodable(s) == \A i \in 1 .. Len(s) : ~ MarshalFails(s[i])

\* The frames of the proposals.
Frame(s, i) == MarshalProposal(s[i], i = Len(s))
Frames(s) == [i \in 1 .. Len(s) |-> Frame(s, i)]

\* A frame holds at least the header of a proposal.
LEMMA FrameType ==
  ASSUME NEW s \in Seq(Proposal), Encodable(s), NEW i \in 1 .. Len(s)
  PROVE  s[i] \in Proposal /\ ~ MarshalFails(s[i]) /\ Frame(s, i) \in Seq(Octets) /\ Len(Frame(s, i)) >= 8
<1> DEFINE p == s[i]
           last == i = Len(s)
<1>1. p \in Proposal /\ ~ MarshalFails(p) /\ last \in BOOLEAN
  BY DEF Encodable
<1>2. Frame(s, i) = MarshalProposal(p, last)
  BY DEF Frame
<1> HIDE DEF p, last
<1>3. MarshalProposal(p, last) \in Seq(Octets) /\ Len(MarshalProposal(p, last)) = ProposalLength(p)
  BY <1>1, ProposalStands, SMTT(60)
<1>4. Len(p.spi) \in Nat /\ Len(proposalTransformData(p)) \in Nat
  BY <1>1, FramesType, SMTT(60) DEF Proposal
<1>5. ProposalLength(p) >= 8
  BY <1>4 DEF ProposalLength
<1> QED BY <1>1, <1>2, <1>3, <1>5, SMTT(60) DEF p

\* What stands where in the octets of the payload (payload_securityassociation.go:43-101).
EncodedStands(s) ==
  /\ Encoded(s, 0) = <<>>
  /\ \A n \in 0 .. Len(s) : Encoded(s, n) \in Seq(Octets)
  /\ \A m, n \in 0 .. Len(s) : m <= n => Len(Encoded(s, m)) <= Len(Encoded(s, n))
  /\ \A n \in 0 .. Len(s) - 1 :
       /\ Stands(Encoded(s, Len(s)), Len(Encoded(s, n)), Frame(s, n + 1))
       /\ Len(Encoded(s, n + 1)) = Len(Encoded(s, n)) + Len(Frame(s, n + 1))

\* Frame after frame.
LEMMA PayloadStands ==
  ASSUME NEW s \in Seq(Proposal), Encodable(s)
  PROVE  EncodedStands(s)
<1> DEFINE e == Frames(s)
<1>1. Len(s) \in Nat
  OBVIOUS
<1>2. e \in Seq(Seq(Octets)) /\ Len(e) = Len(s) /\ \A i \in 1 .. Len(s) : e[i] = Frame(s, i)
  <2>1. e \in [1 .. Len(s) -> Seq(Octets)]
    BY FrameType, SMTT(60) DEF Frames
  <2>2. \A i \in 1 .. Len(s) : e[i] = Frame(s, i)
    BY DEF Frames
  <2> HIDE DEF e
  <2>3. e \in Seq(Seq(Octets)) /\ Len(e) = Len(s)
    BY <1>1, <2>1, SMTT(60)
  <2> QED BY <2>2, <2>3, SMTT(60)
<1> HIDE DEF e
<1>3. ASSUME NEW n \in 0 .. Len(s) PROVE Encoded(s, n) = AppendAll(e, n)
  BY Zenon DEF Encoded, e, Frames, Frame
<1>4. Encoded(s, 0) = <<>>
  BY <1>1, <1>3, PartsNone, SMTT(60)
<1>5. \A n \in 0 .. Len(s) : Encoded(s, n) \in Seq(Octets)
  BY <1>2, <1>3, PartsType, SMTT(60)
<1>6. ASSUME NEW m \in 0 .. Len(s), NEW n \in 0 .. Len(s), m <= n
      PROVE  Len(Encoded(s, m)) <= Len(Encoded(s, n))
  <2>1. Stands(AppendAll(e, n), 0, AppendAll(e, m))
    BY <1>2, <1>6, PartsStand, SMTT(60)
  <2>2. Stands(Encoded(s, n), 0, Encoded(s, m))
    BY <1>3, <2>1, SMTT(60)
  <2>3. Len(Encoded(s, n)) \in Nat /\ Len(Encoded(s, m)) \in Nat
    BY <1>5, SMTT(60)
  <2> QED BY <2>2, <2>3, SMTT(60) DEF Stands
<1>7. ASSUME NEW n \in 0 .. Len(s) - 1
      PROVE  /\ Stands(Encoded(s, Len(s)), Len(Encoded(s, n)), Frame(s, n + 1))
             /\ Len(Encoded(s, n + 1)) = Len(Encoded(s, n)) + Len(Frame(s, n + 1))
  <2>1. n \in 0 .. Len(s) /\ n + 1 \in 0 .. Len(s) /\ Len(s) \in 0 .. Len(s) /\ n + 1 \in 1 .. Len(s)
    BY <1>1, SMTT(60)
  <2>2. n \in 0 .. Len(e) - 1
    BY <1>2, SMTT(60)
  <2>3. /\ Stands(AppendAll(e, Len(e)), Len(AppendAll(e, n)), e[n + 1])
        /\ Len(AppendAll(e, n + 1)) = Len(AppendAll(e, n)) + Len(e[n + 1])
    BY <1>2, <2>2, PartStands, SMTT(60)
  <2>4. e[n + 1] = Frame(s, n + 1) /\ Len(e) = Len(s)
    BY <1>2, <2>1, SMTT(60)
  <2>5. Encoded(s, n) = AppendAll(e, n) /\ Encoded(s, n + 1) = AppendAll(e, n + 1) /\ Encoded(s, Len(s)) = AppendAll(e, Len(e))
    BY <1>2, <1>3, <2>1, SMTT(60)
  <2> QED BY <2>3, <2>4, <2>5, Zenon
<1> QED BY <1>4, <1>5, <1>6, <1>7, SMTT(60) DEF EncodedStands

------------------------------------------------------------------------------
(* The lists of a proposal as they grow.                                      *)

\* The transforms of a type, each in a list of its own.
OfType(l, type) == [i \in 1 .. Len(l) |-> IF l[i].type = type THEN <<Kept(l[i])>> ELSE <<>>]

\* p as it comes back, with its first j transforms.
SofarList(p, j) == [t \in TransformTypes |-> AppendAll(OfType(transformList(p), t), j)]
Sofar(p, j) == [number |-> p.number, protocol |-> p.protocol, spi |-> p.spi, list |-> SofarList(p, j)]

\* A proposal begins with empty lists (payload_securityassociation.go:168-180).
LEMMA SofarNone ==
  ASSUME NEW p
  PROVE  SofarList(p, 0) = [t \in TransformTypes |-> <<>>]
<1>1. \A t \in TransformTypes : AppendAll(OfType(transformList(p), t), 0) = <<>>
  BY PartsNone
<1> QED BY <1>1, Zenon DEF SofarList

\* One more transform is appended to the list of its type, or dropped
\* (payload_securityassociation.go:226-241).
LEMMA OfTypeNext ==
  ASSUME NEW l, Len(l) \in Nat, NEW j \in 0 .. Len(l) - 1, NEW t
  PROVE  AppendAll(OfType(l, t), j + 1) = IF l[j + 1].type = t THEN Append(AppendAll(OfType(l, t), j), Kept(l[j + 1]))
                                      ELSE AppendAll(OfType(l, t), j)
<1> DEFINE S == {Kept(l[i]) : i \in 1 .. Len(l)}
           e == OfType(l, t)
<1>1. \A i \in 1 .. Len(l) : e[i] = IF l[i].type = t THEN <<Kept(l[i])>> ELSE <<>>
  BY DEF OfType
<1>2. DOMAIN e = 1 .. Len(l) /\ e = [i \in 1 .. Len(l) |-> e[i]]
  BY DEF OfType
<1>3. \A i \in 1 .. Len(l) : Kept(l[i]) \in S
  OBVIOUS
<1> HIDE DEF e, S
<1>4. ASSUME NEW i \in 1 .. Len(l) PROVE e[i] \in Seq(S)
  <2>1. <<Kept(l[i])>> \in Seq(S)
    <3> DEFINE x == Kept(l[i])
    <3>1. x \in S
      BY <1>3, SMTT(60)
    <3> HIDE DEF x
    <3>2. <<x>> \in Seq(S)
      BY <3>1, SMTT(60)
    <3> QED BY <3>2, SMTT(60) DEF x
  <2>2. <<>> \in Seq(S)
    OBVIOUS
  <2> QED BY <1>1, <2>1, <2>2, Zenon
<1>5. e \in Seq(Seq(S)) /\ Len(e) = Len(l)
  <2> DEFINE D == Seq(S)
  <2>1. e \in [1 .. Len(l) -> D]
    BY <1>2, <1>4, Zenon
  <2> HIDE DEF D
  <2>2. e \in Seq(D) /\ Len(e) = Len(l)
    BY <2>1
  <2> QED BY <2>2 DEF D
<1>6. AppendAll(e, j) \in Seq(S) /\ AppendAll(e, j + 1) = AppendAll(e, j) \o e[j + 1]
  BY <1>5, PartsNext, SMTT(60)
<1>7. j + 1 \in 1 .. Len(l)
  OBVIOUS
<1> DEFINE a == AppendAll(e, j)
           x == Kept(l[j + 1])
<1>8. a \in Seq(S) /\ x \in S
  BY <1>3, <1>6, <1>7, SMTT(60)
<1> HIDE DEF a, x
<1>9. a \o <<x>> = Append(a, x) /\ a \o <<>> = a
  BY <1>8, SMTT(60)
<1>10. e[j + 1] = IF l[j + 1].type = t THEN <<x>> ELSE <<>>
  BY <1>1, <1>7, Zenon DEF x
<1>11. AppendAll(e, j + 1) = IF l[j + 1].type = t THEN Append(a, x) ELSE a
  BY <1>6, <1>9, <1>10, Zenon DEF a
<1> QED BY <1>11, Zenon DEF a, x, e

\* What appending does to a proposal.
LEMMA ListGrows ==
  ASSUME NEW n, NEW q, NEW s, NEW a, NEW x, x.type \in TransformTypes, DOMAIN a = TransformTypes
  PROVE  AppendTransform([number |-> n, protocol |-> q, spi |-> s, list |-> a], x) =
           [number |-> n, protocol |-> q, spi |-> s, list |-> [a EXCEPT ![x.type] = Append(a[x.type], x)]]
BY ZenonT(60) DEF AppendTransform

\* So one more transform of the encoded ones makes one more of Sofar.
LEMMA SofarNext ==
  ASSUME NEW p, Len(transformList(p)) \in Nat, NEW j \in 0 .. Len(transformList(p)) - 1
  PROVE  AppendTransform(Sofar(p, j), Kept(transformList(p)[j + 1])) = Sofar(p, j + 1)
<1> DEFINE l == transformList(p)
           x == Kept(l[j + 1])
           y == x.type
           a == SofarList(p, j)
           c == SofarList(p, j + 1)
<1>1. y = l[j + 1].type
  BY DEF Kept
<1>2. \A t \in TransformTypes : c[t] = IF y = t THEN Append(a[t], x) ELSE a[t]
  <2>1. ASSUME NEW t \in TransformTypes PROVE c[t] = IF y = t THEN Append(a[t], x) ELSE a[t]
    <3>1. AppendAll(OfType(l, t), j + 1) = IF l[j + 1].type = t THEN Append(AppendAll(OfType(l, t), j), x)
                                       ELSE AppendAll(OfType(l, t), j)
      BY OfTypeNext, SMTT(60)
    <3>2. c[t] = AppendAll(OfType(l, t), j + 1) /\ a[t] = AppendAll(OfType(l, t), j)
      BY Zenon DEF SofarList
    <3> QED BY <1>1, <3>1, <3>2, Zenon
  <2> QED BY <2>1
<1>3. /\ DOMAIN a = TransformTypes /\ DOMAIN c = TransformTypes
      /\ a = [t \in TransformTypes |-> a[t]] /\ c = [t \in TransformTypes |-> c[t]]
  BY DEF SofarList
<1>4. Sofar(p, j) = [number |-> p.number, protocol |-> p.protocol, spi |-> p.spi, list |-> a]
  BY DEF Sofar
<1>5. Sofar(p, j + 1) = [number |-> p.number, protocol |-> p.protocol, spi |-> p.spi, list |-> c]
  BY DEF Sofar
<1> HIDE DEF a, c, y
<1>6. CASE y \in TransformTypes
  <2>1. [a EXCEPT ![y] = Append(a[y], x)] = c
    <3>1. [a EXCEPT ![y] = Append(a[y], x)] = [t \in TransformTypes |-> IF t = y THEN Append(a[y], x) ELSE a[t]]
      BY <1>3, <1>6, Zenon
    <3>2. \A t \in TransformTypes : c[t] = IF t = y THEN Append(a[y], x) ELSE a[t]
      BY <1>2, SMTT(60)
    <3> QED BY <1>3, <3>1, <3>2, Zenon
  <2>2. AppendTransform(Sofar(p, j), x) =
          [number |-> p.number, protocol |-> p.protocol, spi |-> p.spi, list |-> [a EXCEPT ![y] = Append(a[y], x)]]
    BY <1>3, <1>4, <1>6, ListGrows, SMTT(60) DEF y
  <2> QED BY <1>5, <2>1, <2>2, Zenon
<1>7. CASE y \notin TransformTypes
  <2>1. a = c
    BY <1>2, <1>3, <1>7, Zenon
  <2>2. AppendTransform(Sofar(p, j), x) = Sofar(p, j)
    BY <1>7, Zenon DEF AppendTransform, y
  <2> QED BY <1>4, <1>5, <2>1, <2>2, Zenon
<1> QED BY <1>6, <1>7

\* With all transforms it is the proposal as it comes back.
LEMMA SofarAll ==
  ASSUME NEW p \in Proposal
  PROVE  Sofar(p, Len(transformList(p))) = Received(p)
<1> DEFINE l == transformList(p)
           c == SofarList(p, Len(l))
<1>1. ASSUME NEW t PROVE AppendAll(OfType(l, t), Len(l)) = Sorted(l, t)
  BY Zenon DEF Sorted, OfType
<1>2. c = [t \in TransformTypes |-> Sorted(l, t)]
  BY <1>1, Zenon DEF SofarList
<1> DEFINE d == [t \in TransformTypes |-> Sorted(l, t)]
<1>3. Received(p) = [p EXCEPT !.list = d]
  BY DEF Received
<1> HIDE DEF c, d
<1>4. [p EXCEPT !.list = d] = [number |-> p.number, protocol |-> p.protocol, spi |-> p.spi, list |-> d]
  BY DEF Proposal
<1> QED BY <1>2, <1>3, <1>4, Zenon DEF Sofar, c, d

------------------------------------------------------------------------------
(* What is read from any octets.                                              *)

\* The length in a header.
LEMMA LengthType ==
  ASSUME NEW b \in Seq(Octets), Len(b) >= 8
  PROVE  Uint16(b, 2) \in Nat
<1> DEFINE x == b[3]
           y == b[4]
<1>1. x \in Octets /\ y \in Octets
  OBVIOUS
<1>2. Uint16(b, 2) = x * Octet + y
  <2>1. 2 + 1 = 3 /\ 2 + 2 = 4
    OBVIOUS
  <2> QED BY <2>1, Zenon DEF Uint16
<1> HIDE DEF x, y
<1>3. x * Octet + y \in Nat
  BY <1>1, Widths, Join16, SMTT(60)
<1> QED BY <1>2, <1>3, Zenon

\* A transform (payload_securityassociation.go:185-224).
LEMMA NewTransformType ==
  ASSUME NEW b \in Seq(Octets), Len(b) >= 8, HasAttribute(b) => Len(b) >= 12
  PROVE  NewTransform(b) \in Transform
<1>1. \A k \in 1 .. Len(b) : b[k] \in Octets /\ b[k] \in Nat /\ b[k] < Octet
  BY Widths, SMTT(60) DEF Octets
<1>2. ASSUME NEW i \in Nat, i + 2 <= Len(b) PROVE Uint16(b, i) \in Nat /\ Uint16(b, i) \in 0 .. Max16
  <2> DEFINE x == b[i + 1]
             y == b[i + 2]
  <2>1. i + 1 \in 1 .. Len(b) /\ i + 2 \in 1 .. Len(b)
    BY <1>2, SMTT(60)
  <2>2. x \in Octets /\ y \in Octets
    BY <1>1, <2>1, SMTT(60)
  <2> HIDE DEF x, y
  <2>3. x * Octet + y \in Nat /\ x * Octet + y < Word
    BY <2>2, Widths, Join16, SMTT(60)
  <2>4. Uint16(b, i) = x * Octet + y
    BY DEF Uint16, x, y
  <2>5. Uint16(b, i) \in Nat /\ Uint16(b, i) < Word
    BY <2>3, <2>4, SMTT(60)
  <2> HIDE DEF Uint16
  <2> QED BY <2>5, Widths, SMTT(60)
<1>3. b[5] \in Octets /\ Uint16(b, 6) \in 0 .. Max16
  BY <1>1, <1>2, SMTT(60)
<1>4. ASSUME HasAttribute(b)
      PROVE  /\ Format(b) \in {UseTLV, UseTV} /\ Uint16(b, 10) \in 0 .. Max16
             /\ Uint16(b, 8) % TopBit \in 0 .. Octet * TopBit - 1
  <2>1. b[9] \in Nat /\ b[9] < 2 * TopBit /\ Uint16(b, 8) \in Nat /\ Uint16(b, 10) \in 0 .. Max16
    BY <1>1, <1>2, <1>4, Widths, SMTT(60)
  <2>2. b[9] \div TopBit \in Nat /\ b[9] \div TopBit < 2
    BY <2>1, Widths, DivBelow, SMTT(60)
  <2>3. Format(b) \in {UseTLV, UseTV}
    BY <2>2 DEF Format, UseTLV, UseTV
  <2>4. \A x \in Nat : x % TopBit \in Nat /\ x % TopBit < TopBit
    BY Widths
  <2>5. TopBit <= Octet * TopBit /\ Octet * TopBit \in Nat
    <3>1. PICK z \in Nat : Octet = 1 + z
      BY Widths, SMTT(60)
    <3>2. Octet * TopBit = TopBit + z * TopBit /\ z * TopBit \in Nat
      BY <3>1, Widths, SMTT(60)
    <3> QED BY <3>2, Widths, SMTT(60)
  <2>6. Uint16(b, 8) % TopBit \in 0 .. Octet * TopBit - 1
    <3> DEFINE x == Uint16(b, 8) % TopBit
               y == Octet * TopBit
    <3>1. x \in Nat /\ x < TopBit /\ TopBit <= y /\ y \in Nat
      BY <2>1, <2>4, <2>5, SMTT(60)
    <3> HIDE DEF x, y
    <3>2. x \in 0 .. y - 1
      BY <3>1, Widths, SMTT(60)
    <3> QED BY <3>2, SMTT(60) DEF x, y
  <2> QED BY <2>1, <2>3, <2>6, SMTT(60)
<1>5. 0 \in {UseTLV, UseTV} /\ 0 \in 0 .. Max16 /\ 0 \in 0 .. Octet * TopBit - 1
  <2>1. Octet * TopBit \in Nat /\ Octet * TopBit > 0
    BY Widths, SMTT(60)
  <2> QED BY <2>1, Widths, SMTT(60) DEF UseTLV, UseTV
<1>6. <<>> \in Seq(Octets) /\ HasAttribute(b) \in BOOLEAN
  BY DEF HasAttribute
<1> QED BY <1>3, <1>4, <1>5, <1>6, Zenon DEF NewTransform, Transform

\* A proposal with one more transform.
LEMMA AppendType ==
  ASSUME NEW p \in Proposal, NEW t \in Transform
  PROVE  AppendTransform(p, t) \in Proposal /\ AppendTransform(p, t).spi = p.spi
<1> DEFINE a == p.list
<1>1. /\ p.number \in Octets /\ p.protocol \in Octets /\ p.spi \in Seq(Octets)
      /\ a \in [TransformTypes -> Seq(Transform)]
  BY DEF Proposal
<1>2. CASE t.type \notin TransformTypes
  BY <1>2, Zenon DEF AppendTransform
<1>3. CASE t.type \in TransformTypes
  <2> DEFINE c == [a EXCEPT ![t.type] = Append(a[t.type], t)]
  <2>1. p = [number |-> p.number, protocol |-> p.protocol, spi |-> p.spi, list |-> a]
    BY DEF Proposal
  <2>2. Append(a[t.type], t) \in Seq(Transform)
    BY <1>1, <1>3, SMTT(60)
  <2>3. c \in [TransformTypes -> Seq(Transform)]
    BY <1>1, <1>3, <2>2, Zenon
  <2>4. DOMAIN a = TransformTypes
    BY <1>1, SMTT(60)
  <2> HIDE DEF a
  <2>5. AppendTransform([number |-> p.number, protocol |-> p.protocol, spi |-> p.spi, list |-> a], t) =
          [number |-> p.number, protocol |-> p.protocol, spi |-> p.spi, list |-> c]
    BY <1>3, <2>4, ListGrows, SMTT(60)
  <2> HIDE DEF c
  <2>6. AppendTransform(p, t) = [number |-> p.number, protocol |-> p.protocol, spi |-> p.spi, list |-> c]
    BY <2>1, <2>5, Zenon
  <2> QED BY <1>1, <2>3, <2>6, SMTT(60) DEF Proposal
<1> QED BY <1>2, <1>3, SMTT(60)

\* A proposal is there or not.
LEMMA ProposalIsThere ==
  ASSUME NEW p \in Proposal
  PROVE  p # NoProposal
<1>1. DOMAIN p = {"number", "protocol", "spi", "list"}
  BY DEF Proposal
<1>2. DOMAIN NoProposal = {}
  BY DEF NoProposal
<1> QED BY <1>1, <1>2, SMTT(60)

\* A proposal header: the SPI and the transforms fill what it announces
\* (payload_securityassociation.go:159-181).
LEMMA HeaderTaken ==
  ASSUME NEW b \in Seq(Octets), GoodProposal(b), InOrder(b)
  PROVE  /\ Slice(b, 8, EndOfSPI(b)) \in Seq(Octets) /\ TransformOctets(b) \in Seq(Octets)
         /\ b[5] \in Octets /\ b[6] \in Octets /\ proposalLength(b) \in Nat
         /\ 8 + Len(Slice(b, 8, EndOfSPI(b))) + Len(TransformOctets(b)) = proposalLength(b)
<1> DEFINE e == EndOfSPI(b)
           n == proposalLength(b)
<1>1. Len(b) \in Nat /\ Len(b) >= 8 /\ n <= Len(b) /\ 8 <= e /\ e <= n
  BY DEF GoodProposal, InOrder
<1>2. \A k \in 1 .. Len(b) : b[k] \in Octets /\ b[k] \in Nat
  BY Widths, SMTT(60) DEF Octets
<1>3. b[3] \in Octets /\ b[4] \in Octets /\ b[5] \in Octets /\ b[6] \in Octets /\ b[7] \in Nat
  BY <1>1, <1>2, SMTT(60)
<1>4. n \in Nat
  BY <1>1, LengthType, SMTT(60) DEF proposalLength
<1>5. e \in Nat
  <2>1. 8 + b[7] \in Nat
    BY <1>3, SMTT(60)
  <2>2. \A x \in Nat : x % Octet \in Nat
    BY Widths, SMTT(60)
  <2> QED BY <2>1, <2>2, Zenon DEF EndOfSPI, Add8
<1> HIDE DEF e, n
<1>6. IsSlice(Octets, SubSeq(b, 8 + 1, 8 + (e - 8)), b, 8, e - 8)
  <2>1. e - 8 \in Nat /\ 8 + (e - 8) <= Len(b)
    BY <1>1, <1>4, <1>5, SMTT(60)
  <2> QED BY <2>1, SliceOf, SMTT(60)
<1>7. IsSlice(Octets, SubSeq(b, e + 1, e + (n - e)), b, e, n - e)
  <2>1. n - e \in Nat /\ e + (n - e) <= Len(b)
    BY <1>1, <1>4, <1>5, SMTT(60)
  <2> QED BY <1>5, <2>1, SliceOf, SMTT(60)
<1>8. 8 + (e - 8) = e /\ e + (n - e) = n
  BY <1>4, <1>5, SMTT(60)
<1>9. /\ Slice(b, 8, e) \in Seq(Octets) /\ Len(Slice(b, 8, e)) = e - 8
      /\ Slice(b, e, n) \in Seq(Octets) /\ Len(Slice(b, e, n)) = n - e
  BY <1>6, <1>7, <1>8, Zenon DEF IsSlice, Slice
<1>10. 8 + (e - 8) + (n - e) = n
  BY <1>4, <1>5, SMTT(60)
<1> QED BY <1>3, <1>4, <1>9, <1>10, Zenon DEF TransformOctets, e, n

------------------------------------------------------------------------------
(* The inductive invariant.                                                   *)

Sent == Encoded(sa, Len(sa))
Started == pc \in {"decode", "ok", "error", "panic"}

\* The first k proposals arrived as they were sent.
Undamaged(k) == damage = 0 \/ EndOf(k) < damage

Typed ==
  /\ sa \in Seq(Proposal) /\ wire \in Seq(Octets) /\ damage \in Nat
  /\ rest \in Seq(Octets) /\ transformData \in Seq(Octets) /\ used \in Nat
  /\ got \in Seq(Proposal) /\ (proposal = NoProposal \/ proposal \in Proposal)

\* Nothing is read before the octets arrive.
Before ==
  ~ Started => damage = 0 /\ proposal = NoProposal /\ got = <<>> /\ used = 0

\* Only what can be encoded is sent.
Written ==
  /\ pc = "wire" => wire = Sent
  /\ pc = "wire" \/ Started => Encodable(sa)

\* The octets before the damage are those that were sent.
Arrived ==
  /\ damage = 0 => wire = Sent
  /\ \A k \in 1 .. Len(Sent) : damage = 0 \/ k < damage => k <= Len(wire) /\ wire[k] = Sent[k]

\* b is the end of the payload, and what is left of the transforms is in its first
\* proposal.
Reading ==
  /\ IsFrom(rest, wire, used)
  /\ proposal # NoProposal =>
       GoodProposal(rest) /\ 8 + Len(proposal.spi) + Len(transformData) <= proposalLength(rest)

\* Before the damage, b begins where a proposal that was sent begins.
Between == Len(got) <= Len(sa) /\ Undamaged(Len(got)) => used = EndOf(Len(got))

\* And within a proposal transformData begins where a transform begins, with the
\* transforms before it in their lists.
PartRead(p, j) ==
  /\ ShortSPI(p) /\ proposal = Sofar(p, j)
  /\ transformData = From(proposalTransformData(p), Len(AppendAll(TransformFrames(transformList(p)), j)))
Within ==
  proposal # NoProposal /\ Len(got) < Len(sa) /\ Undamaged(Len(got) + 1) =>
    \E j \in 0 .. Len(transformList(sa[Len(got) + 1])) : PartRead(sa[Len(got) + 1], j)

\* From an undamaged payload no more is read than was sent.
WholeRead ==
  damage = 0 =>
    /\ Len(got) <= Len(sa) /\ (proposal # NoProposal => Len(got) < Len(sa))
    /\ \A i \in 1 .. Len(got) : ShortSPI(sa[i])

Decoding == Arrived /\ Reading /\ Between /\ Within /\ WholeRead

IInv ==
  /\ Typed /\ Before /\ Written /\ (Started => Decoding)
  /\ DamageStaysBehind /\ SARoundTrip

\* What was sent before the damage stands where it stood.
LEMMA StandsAsSent ==
  ASSUME Arrived, Sent \in Seq(Octets), wire \in Seq(Octets), damage \in Nat,
         NEW f \in Seq(Octets), NEW u \in Nat, Stands(Sent, u, f), damage = 0 \/ u + Len(f) < damage
  PROVE  Stands(wire, u, f)
<1> DEFINE n == Len(f)
           m == Len(Sent)
<1>1. n \in Nat /\ m \in Nat /\ Len(wire) \in Nat /\ u + n <= m /\ \A k \in 1 .. n : Sent[u + k] = f[k]
  BY DEF Stands
<1>2. \A k \in 1 .. m : damage = 0 \/ k < damage => k <= Len(wire) /\ wire[k] = Sent[k]
  BY DEF Arrived
<1>3. damage = 0 \/ u + n < damage
  OBVIOUS
<1> HIDE DEF n, m
<1>4. ASSUME NEW k \in 1 .. n PROVE wire[u + k] = f[k]
  <2>1. u + k \in 1 .. m /\ (damage = 0 \/ u + k < damage)
    BY <1>1, <1>3, SMTT(60)
  <2> QED BY <1>1, <1>2, <2>1, SMTT(60)
<1>5. u + n <= Len(wire)
  <2>1. CASE u + n = 0
    BY <1>1, <2>1, SMTT(60)
  <2>2. CASE u + n # 0
    <3>1. u + n \in 1 .. m
      BY <1>1, <2>2, SMTT(60)
    <3> QED BY <1>2, <1>3, <3>1, SMTT(60)
  <2> QED BY <2>1, <2>2, SMTT(60)
<1> QED BY <1>4, <1>5, SMTT(60) DEF Stands, n

\* Where decoding stands before proposal number k + 1.
AtProposal(k, p, f) ==
  /\ p \in Proposal /\ ~ MarshalFails(p) /\ Undamaged(k) /\ used = EndOf(k)
  /\ ProposalIsRead(rest, p, f) /\ EndOf(k + 1) = EndOf(k) + Len(f) /\ EndOf(k) \in Nat /\ Len(f) \in Nat

\* A proposal before the damage is at the beginning of b.
LEMMA NextProposal ==
  ASSUME IInv, Started, Len(got) < Len(sa), Undamaged(Len(got) + 1)
  PROVE  AtProposal(Len(got), sa[Len(got) + 1], Frame(sa, Len(got) + 1))
<1> DEFINE k == Len(got)
           p == sa[k + 1]
           f == Frame(sa, k + 1)
<1>1. /\ sa \in Seq(Proposal) /\ wire \in Seq(Octets) /\ damage \in Nat /\ rest \in Seq(Octets)
      /\ used \in Nat /\ got \in Seq(Proposal)
  BY DEF IInv, Typed
<1>2. Encodable(sa) /\ Arrived /\ IsFrom(rest, wire, used) /\ Between
  BY DEF IInv, Written, Decoding, Reading
<1>3. k \in Nat /\ Len(sa) \in Nat /\ k < Len(sa)
  BY <1>1, SMTT(60)
<1>4. Undamaged(k + 1)
  OBVIOUS
<1> HIDE DEF k
<1>5. /\ k + 1 \in 1 .. Len(sa) /\ k \in 0 .. Len(sa) - 1 /\ k \in 0 .. Len(sa) /\ k + 1 \in 0 .. Len(sa)
      /\ Len(sa) \in 0 .. Len(sa) /\ k <= Len(sa)
  BY <1>3, SMTT(60)
<1>6. p \in Proposal /\ ~ MarshalFails(p) /\ f \in Seq(Octets) /\ Len(f) \in Nat
  BY <1>1, <1>2, <1>5, FrameType, SMTT(60)
<1>7. EncodedStands(sa)
  BY <1>1, <1>2, PayloadStands, SMTT(60)
<1>8. /\ Sent \in Seq(Octets) /\ EndOf(k) \in Nat /\ EndOf(k + 1) \in Nat
      /\ EndOf(k + 1) = EndOf(k) + Len(f) /\ Stands(Sent, EndOf(k), f)
  BY <1>5, <1>7, SMTT(60) DEF EncodedStands, EndOf, Sent
<1> HIDE DEF f, p
<1>9. Undamaged(k) /\ (damage = 0 \/ EndOf(k) + Len(f) < damage)
  BY <1>1, <1>4, <1>6, <1>8, SMTT(60) DEF Undamaged
<1>10. used = EndOf(k)
  BY <1>2, <1>5, <1>9, SMTT(60) DEF Between, k
<1>11. Stands(wire, EndOf(k), f)
  BY <1>1, <1>2, <1>6, <1>8, <1>9, StandsAsSent, SMTT(60)
<1>12. Stands(rest, 0, f)
  BY <1>1, <1>2, <1>6, <1>10, <1>11, StandsInFrom, SMTT(60)
<1>13. ProposalIsRead(rest, p, f)
  <2> DEFINE last == k + 1 = Len(sa)
  <2>1. last \in BOOLEAN
    OBVIOUS
  <2>2. f = MarshalProposal(p, last)
    BY DEF f, p, Frame
  <2> HIDE DEF last
  <2> QED BY <1>1, <1>6, <1>12, <2>1, <2>2, ProposalRead, SMTT(60)
<1> QED BY <1>6, <1>8, <1>9, <1>10, <1>13, SMTT(60) DEF AtProposal, f, p, k

------------------------------------------------------------------------------
(* The steps.                                                                 *)

\* The invariant holds at first.
LEMMA InitIInv == Init => IInv
<1> SUFFICES ASSUME Init PROVE IInv
  OBVIOUS
<1>1. /\ sa \in SAs /\ wire = <<>> /\ damage = 0 /\ rest = <<>> /\ proposal = NoProposal
      /\ transformData = <<>> /\ got = <<>> /\ used = 0 /\ pc = "encode"
  BY DEF Init
<1>2. <<>> \in Seq(Octets) /\ <<>> \in Seq(Proposal) /\ 0 \in Nat
  OBVIOUS
<1>3. Typed
  BY <1>1, <1>2, SAAssumption, Zenon DEF Typed
<1>4. ~ Started
  BY <1>1, SMTT(60) DEF Started
<1>5. Before /\ Written
  BY <1>1, <1>4, SMTT(60) DEF Before, Written
<1>6. DamageStaysBehind
  BY <1>1 DEF DamageStaysBehind
<1>7. SARoundTrip
  BY <1>1, SMTT(60) DEF SARoundTrip
<1> QED BY <1>3, <1>4, <1>5, <1>6, <1>7, SMTT(60) DEF IInv

\* Encoding (payload_securityassociation.go:43-101).
LEMMA MarshalIInv ==
  ASSUME IInv, Marshal
  PROVE  IInv'
<1>1. /\ pc = "encode" /\ sa' = sa /\ damage' = damage /\ rest' = rest /\ proposal' = proposal
      /\ transformData' = transformData /\ got' = got /\ used' = used
  BY DEF Marshal, decoding
<1>2. \/ pc' = "unsent" /\ wire' = wire
      \/ wire' = Sent /\ pc' = "wire" /\ Encodable(sa)
  BY DEF Marshal, Encodable, Sent
<1>3. Typed /\ Before
  BY DEF IInv
<1>4. ~ Started /\ ~ Started'
  BY <1>1, <1>2, SMTT(60) DEF Started
<1>5. Typed'
  <2>1. Encodable(sa) => Sent \in Seq(Octets)
    <3> SUFFICES ASSUME Encodable(sa) PROVE Sent \in Seq(Octets)
      OBVIOUS
    <3>1. sa \in Seq(Proposal) /\ Len(sa) \in 0 .. Len(sa)
      BY <1>3, SMTT(60) DEF Typed
    <3>2. EncodedStands(sa)
      BY <3>1, PayloadStands, SMTT(60)
    <3> QED BY <3>1, <3>2, SMTT(60) DEF EncodedStands, Sent
  <2>2. wire' \in Seq(Octets)
    BY <1>2, <1>3, <2>1, SMTT(60) DEF Typed
  <2> QED BY <1>1, <1>3, <2>2, SMTT(60) DEF Typed
<1>6. Before'
  BY <1>1, <1>3, <1>4, SMTT(60) DEF Before
<1>7. Written'
  <2>1. Sent' = Sent /\ (Encodable(sa))' = Encodable(sa)
    BY <1>1, SMTT(60) DEF Sent
  <2> QED BY <1>2, <1>4, <2>1, SMTT(60) DEF Written
<1>8. got = <<>>
  BY <1>3, <1>4, SMTT(60) DEF Before
<1>9. DamageStaysBehind'
  BY <1>1, <1>8, SMTT(60) DEF DamageStaysBehind
<1>10. SARoundTrip'
  BY <1>2, SMTT(60) DEF SARoundTrip
<1> QED BY <1>4, <1>5, <1>6, <1>7, <1>9, <1>10, SMTT(60) DEF IInv

\* The network.
LEMMA ReceiveIInv ==
  ASSUME IInv, NEW w \in Seq(Octets), NEW d \in Nat, Receive(w, d), d = 0 => w = wire,
         \A k \in 1 .. Len(wire) : d = 0 \/ k < d => k <= Len(w) /\ w[k] = wire[k]
  PROVE  IInv'
<1>1. /\ pc = "wire" /\ wire' = w /\ rest' = w /\ damage' = d /\ pc' = "decode" /\ sa' = sa
      /\ proposal' = proposal /\ transformData' = transformData /\ got' = got /\ used' = used
  BY DEF Receive
<1>2. Typed /\ Before /\ Written
  BY DEF IInv
<1>3. ~ Started /\ Started'
  BY <1>1, SMTT(60) DEF Started
<1>4. wire = Sent /\ Encodable(sa) /\ proposal = NoProposal /\ got = <<>> /\ used = 0
  BY <1>1, <1>2, <1>3, SMTT(60) DEF Before, Written
<1>5. Typed'
  BY <1>1, <1>2, SMTT(60) DEF Typed
<1>6. Before'
  BY <1>3, SMTT(60) DEF Before
<1>7. Sent' = Sent /\ (Encodable(sa))' = Encodable(sa)
  BY <1>1, SMTT(60) DEF Sent
<1>8. Written'
  BY <1>1, <1>4, <1>7, SMTT(60) DEF Written
<1>9. Arrived'
  BY <1>1, <1>4, <1>7, SMTT(60) DEF Arrived
<1>10. Reading'
  <2>1. SubSeq(w, 0 + 1, Len(w)) = w /\ 0 + Len(w) = Len(w)
    OBVIOUS
  <2> QED BY <1>1, <1>4, <2>1, SMTT(60) DEF Reading, IsFrom
<1>11. Between'
  <2>1. sa \in Seq(Proposal)
    BY <1>2, SMTT(60) DEF Typed
  <2>2. Encoded(sa, 0) = <<>>
    BY <1>4, <2>1, PayloadStands, SMTT(60) DEF EncodedStands
  <2>3. Len(got) = 0
    BY <1>4, SMTT(60)
  <2>4. EndOf(Len(got))' = 0
    BY <1>1, <2>2, <2>3, SMTT(60) DEF EndOf
  <2> QED BY <1>1, <1>4, <2>4, SMTT(60) DEF Between
<1>12. Within'
  BY <1>1, <1>4, SMTT(60) DEF Within
<1>13. WholeRead'
  <2>1. sa \in Seq(Proposal)
    BY <1>2 DEF Typed
  <2> QED BY <1>1, <1>4, <2>1, SMTT(60) DEF WholeRead
<1>14. DamageStaysBehind'
  BY <1>1, <1>4, SMTT(60) DEF DamageStaysBehind
<1>15. SARoundTrip'
  BY <1>1, SMTT(60) DEF SARoundTrip
<1> QED BY <1>5, <1>6, <1>8, <1>9, <1>10, <1>11, <1>12, <1>13, <1>14, <1>15, SMTT(60) DEF IInv, Decoding

\* Octets arrive as sent, cut, or with one of them changed.
LEMMA NetworkIInv ==
  ASSUME IInv, Intact \/ Truncated \/ Changed
  PROVE  IInv'
<1>1. wire \in Seq(Octets) /\ Len(wire) \in Nat
  BY DEF IInv, Typed
<1>2. CASE Intact
  <2>1. Receive(wire, 0)
    BY <1>2, SMTT(60) DEF Intact
  <2>2. \A k \in 1 .. Len(wire) : 0 = 0 \/ k < 0 => k <= Len(wire) /\ wire[k] = wire[k]
    BY <1>1, SMTT(60)
  <2> QED BY <1>1, <2>1, <2>2, ReceiveIInv, SMTT(60)
<1>3. CASE Truncated
  <2>1. PICK n \in 0 .. Len(wire) - 1 : Receive(SubSeq(wire, 1, n), n + 1)
    BY <1>3, SMTT(60) DEF Truncated
  <2> DEFINE w == SubSeq(wire, 1, n)
  <2>2. w \in Seq(Octets) /\ Len(w) = n /\ \A k \in 1 .. n : w[k] = wire[k]
    BY <1>1, SMTT(60)
  <2> HIDE DEF w
  <2>3. n + 1 \in Nat /\ n + 1 # 0 /\ \A k \in 1 .. Len(wire) : k < n + 1 => k \in 1 .. n /\ k <= n
    BY <1>1, SMTT(60)
  <2>4. \A k \in 1 .. Len(wire) : n + 1 = 0 \/ k < n + 1 => k <= Len(w) /\ w[k] = wire[k]
    BY <2>2, <2>3, SMTT(60)
  <2>5. Receive(w, n + 1)
    BY <2>1, SMTT(60) DEF w
  <2> QED BY <2>2, <2>3, <2>4, <2>5, ReceiveIInv, SMTT(60)
<1>4. CASE Changed
  <2>1. PICK i \in 1 .. Len(wire), o \in ChangedTo : Receive([wire EXCEPT ![i] = o], i)
    BY <1>4, SMTT(60) DEF Changed
  <2> DEFINE w == [wire EXCEPT ![i] = o]
  <2>2. o \in Octets
    BY SAAssumption, SMTT(60)
  <2>3. w \in Seq(Octets) /\ Len(w) = Len(wire) /\ \A k \in 1 .. Len(wire) : k # i => w[k] = wire[k]
    BY <1>1, <2>2, SMTT(60)
  <2> HIDE DEF w
  <2>4. i \in Nat /\ i # 0
    BY <1>1, SMTT(60)
  <2>5. \A k \in 1 .. Len(wire) : i = 0 \/ k < i => k <= Len(w) /\ w[k] = wire[k]
    BY <1>1, <2>3, <2>4, SMTT(60)
  <2>6. Receive(w, i)
    BY <2>1, SMTT(60) DEF w
  <2> QED BY <2>3, <2>4, <2>5, <2>6, ReceiveIInv, SMTT(60)
<1> QED BY <1>2, <1>3, <1>4, SMTT(60)

\* The end of Unmarshal changes nothing else.
LEMMA EndIInv ==
  ASSUME IInv, pc = "decode", NEW r \in {"ok", "error", "panic"}, End(r), SARoundTrip'
  PROVE  IInv'
<1>1. /\ sa' = sa /\ wire' = wire /\ damage' = damage /\ rest' = rest /\ proposal' = proposal
      /\ transformData' = transformData /\ got' = got /\ used' = used /\ pc' = r
  BY DEF End, decoding
<1>2. Started /\ Started'
  BY <1>1, SMTT(60) DEF Started
<1>3. Typed /\ Written /\ Arrived /\ Reading /\ Between /\ Within /\ WholeRead /\ DamageStaysBehind
  BY <1>2, SMTT(60) DEF IInv, Decoding
<1>4. Sent' = Sent /\ (\A k : EndOf(k)' = EndOf(k)) /\ (\A k : Undamaged(k)' <=> Undamaged(k))
  BY <1>1, SMTT(60) DEF Sent, EndOf, Undamaged
<1>5. Typed'
  BY <1>1, <1>3, SMTT(60) DEF Typed
<1>6. Before'
  BY <1>2, SMTT(60) DEF Before
<1>7. Written'
  BY <1>1, <1>2, <1>3, SMTT(60) DEF Written
<1>8. Arrived'
  BY <1>1, <1>3, <1>4, SMTT(60) DEF Arrived
<1>9. Reading'
  BY <1>1, <1>3, SMTT(60) DEF Reading
<1>10. Between'
  BY <1>1, <1>3, <1>4, SMTT(60) DEF Between
<1>11. Within'
  BY <1>1, <1>3, <1>4, SMTT(60) DEF Within, PartRead
<1>12. WholeRead'
  BY <1>1, <1>3, SMTT(60) DEF WholeRead
<1>13. DamageStaysBehind'
  BY <1>1, <1>3, <1>4, SMTT(60) DEF DamageStaysBehind
<1> QED BY <1>5, <1>6, <1>7, <1>8, <1>9, <1>10, <1>11, <1>12, <1>13, SMTT(60) DEF IInv, Decoding

\* Where Unmarshal returns without an error, every proposal of an undamaged payload
\* was read.
LEMMA DoneIInv ==
  ASSUME IInv, UnmarshalDone
  PROVE  IInv'
<1>1. pc = "decode" /\ rest = <<>> /\ End("ok") /\ sa' = sa /\ damage' = damage /\ got' = got /\ pc' = "ok"
  BY DEF UnmarshalDone, End, decoding
<1>2. Started
  BY <1>1, SMTT(60) DEF Started
<1>3. SARoundTrip'
  <2> SUFFICES ASSUME damage = 0
               PROVE  /\ \A i \in 1 .. Len(sa) : 8 + Len(sa[i].spi) <= Max8
                      /\ got = [i \in 1 .. Len(sa) |-> Received(sa[i])]
    BY <1>1, SMTT(60) DEF SARoundTrip
  <2>1. got \in Seq(Proposal) /\ sa \in Seq(Proposal) /\ WholeRead /\ DamageStaysBehind
    BY <1>2, SMTT(60) DEF IInv, Typed, Decoding
  <2>2. Len(got) \in Nat /\ Len(sa) \in Nat /\ Len(got) <= Len(sa)
    BY <2>1, SMTT(60) DEF WholeRead
  <2>3. Len(got) = Len(sa)
    <3> SUFFICES ASSUME Len(got) < Len(sa) PROVE FALSE
      BY <2>2, SMTT(60)
    <3>1. Undamaged(Len(got) + 1)
      BY DEF Undamaged
    <3>2. AtProposal(Len(got), sa[Len(got) + 1], Frame(sa, Len(got) + 1))
      BY <1>2, <3>1, NextProposal, SMTT(60)
    <3>3. GoodProposal(rest)
      BY <3>2, SMTT(60) DEF AtProposal, ProposalIsRead
    <3> QED BY <1>1, <3>3, SMTT(60) DEF GoodProposal
  <2>4. \A i \in 1 .. Len(sa) : 8 + Len(sa[i].spi) <= Max8
    BY <2>1, <2>3, SMTT(60) DEF WholeRead, ShortSPI
  <2>5. \A i \in 1 .. Len(sa) : got[i] = Received(sa[i])
    BY <2>1, <2>2, <2>3, SMTT(60) DEF DamageStaysBehind
  <2>6. got = [i \in 1 .. Len(sa) |-> got[i]]
    BY <2>1, <2>3, SMTT(60)
  <2>7. got = [i \in 1 .. Len(sa) |-> Received(sa[i])]
    BY <2>5, <2>6, Zenon
  <2> QED BY <2>4, <2>7, SMTT(60)
<1> QED BY <1>1, <1>3, EndIInv, SMTT(60)

\* A proposal header (payload_securityassociation.go:151-181).
LEMMA ProposalIInv ==
  ASSUME IInv, UnmarshalProposal
  PROVE  IInv'
<1>1. pc = "decode" /\ rest # <<>> /\ proposal = NoProposal
  BY DEF UnmarshalProposal
<1>2. Started
  BY <1>1, SMTT(60) DEF Started
<1>3. /\ Typed /\ Written /\ Arrived /\ Reading /\ Between /\ WholeRead
      /\ DamageStaysBehind
  BY <1>2, SMTT(60) DEF IInv, Decoding
<1>4. ASSUME damage = 0
      PROVE  /\ Len(got) < Len(sa) /\ Undamaged(Len(got) + 1)
             /\ AtProposal(Len(got), sa[Len(got) + 1], Frame(sa, Len(got) + 1))
  <2>1. /\ got \in Seq(Proposal) /\ sa \in Seq(Proposal) /\ rest \in Seq(Octets) /\ used \in Nat
        /\ Encodable(sa)
    BY <1>2, <1>3, SMTT(60) DEF Typed, Written
  <2>2. Len(got) \in Nat /\ Len(sa) \in Nat /\ Len(got) <= Len(sa)
    BY <1>3, <1>4, <2>1, SMTT(60) DEF WholeRead
  <2>3. Len(got) # Len(sa)
    <3> SUFFICES ASSUME Len(got) = Len(sa) PROVE FALSE
      OBVIOUS
    <3>1. used = EndOf(Len(sa))
      BY <1>3, <1>4, <2>2, SMTT(60) DEF Between, Undamaged
    <3>2. used + Len(rest) = Len(wire) /\ wire = Sent
      BY <1>3, <1>4, ZenonT(60) DEF Reading, IsFrom, Arrived
    <3>3. EndOf(Len(sa)) = Len(wire)
      BY <3>2 DEF EndOf, Sent
    <3>4. Len(rest) = 0
      BY <2>1, <3>1, <3>2, <3>3
    <3> QED BY <1>1, <2>1, <3>4, SMTT(60)
  <2>4. Len(got) < Len(sa) /\ Undamaged(Len(got) + 1)
    BY <1>4, <2>2, <2>3, SMTT(60) DEF Undamaged
  <2> QED BY <1>2, <2>4, NextProposal, SMTT(60)
<1>5. CASE ~ GoodProposal(rest) \/ ~ SPIFits(rest)
  <2>1. End("error") /\ damage' = damage /\ pc' = "error"
    BY <1>5, SMTT(60) DEF UnmarshalProposal, End
  <2>2. damage # 0
    BY <1>4, <1>5, SMTT(60) DEF AtProposal, ProposalIsRead
  <2>3. SARoundTrip'
    BY <2>1, <2>2, SMTT(60) DEF SARoundTrip
  <2> QED BY <1>1, <2>1, <2>3, EndIInv, SMTT(60)
<1>6. CASE GoodProposal(rest) /\ SPIFits(rest) /\ ~ InOrder(rest)
  <2>1. End("panic") /\ damage' = damage /\ pc' = "panic" /\ sa' = sa
    BY <1>6, SMTT(60) DEF UnmarshalProposal, End
  <2>2. damage = 0 => \E i \in 1 .. Len(sa) : ~ (8 + Len(sa[i].spi) <= Max8)
    <3> SUFFICES ASSUME damage = 0 PROVE \E i \in 1 .. Len(sa) : ~ (8 + Len(sa[i].spi) <= Max8)
      BY SMTT(60)
    <3>1. ~ ShortSPI(sa[Len(got) + 1])
      BY <1>4, <1>6, SMTT(60) DEF AtProposal, ProposalIsRead
    <3>2. Len(got) + 1 \in 1 .. Len(sa)
      BY <1>3, <1>4, SMTT(60) DEF Typed
    <3> QED BY <3>1, <3>2, Zenon DEF ShortSPI
  <2>3. SARoundTrip'
    BY <2>1, <2>2, SMTT(60) DEF SARoundTrip
  <2> QED BY <1>1, <2>1, <2>3, EndIInv, SMTT(60)
<1>7. CASE GoodProposal(rest) /\ SPIFits(rest) /\ InOrder(rest)
  <2> DEFINE r == [number |-> rest[5], protocol |-> rest[6], spi |-> Slice(rest, 8, EndOfSPI(rest)),
                   list |-> [t \in TransformTypes |-> <<>>]]
  <2>1. /\ proposal' = r /\ transformData' = TransformOctets(rest) /\ sa' = sa /\ wire' = wire
        /\ damage' = damage /\ rest' = rest /\ got' = got /\ used' = used /\ pc' = pc
    BY <1>7, SMTT(60) DEF UnmarshalProposal
  <2>2. /\ Slice(rest, 8, EndOfSPI(rest)) \in Seq(Octets) /\ TransformOctets(rest) \in Seq(Octets)
        /\ rest[5] \in Octets /\ rest[6] \in Octets /\ proposalLength(rest) \in Nat
        /\ 8 + Len(Slice(rest, 8, EndOfSPI(rest))) + Len(TransformOctets(rest)) = proposalLength(rest)
    BY <1>3, <1>7, HeaderTaken, SMTT(60) DEF Typed
  <2>3. r \in Proposal
    <3>1. <<>> \in Seq(Transform)
      OBVIOUS
    <3>2. [t \in TransformTypes |-> <<>>] \in [TransformTypes -> Seq(Transform)]
      BY <3>1, Zenon
    <3> QED BY <2>2, <3>2, Zenon DEF Proposal
  <2>4. r.spi = Slice(rest, 8, EndOfSPI(rest))
    OBVIOUS
  <2>5. Sent' = Sent /\ (\A k : EndOf(k)' = EndOf(k)) /\ (\A k : Undamaged(k)' <=> Undamaged(k))
    BY <2>1, SMTT(60) DEF Sent, EndOf, Undamaged
  <2>6. Started'
    BY <1>2, <2>1, SMTT(60) DEF Started
  <2>7. Typed'
    <3> HIDE DEF r
    <3> QED BY <1>3, <2>1, <2>2, <2>3, SMTT(60) DEF Typed
  <2>8. Before' /\ Written'
    BY <1>1, <1>2, <1>3, <2>1, <2>6, SMTT(60) DEF Before, Written
  <2>9. Arrived'
    BY <1>3, <2>1, <2>5, SMTT(60) DEF Arrived
  <2>10. Reading'
    <3> HIDE DEF r
    <3>1. 8 + Len(r.spi) + Len(TransformOctets(rest)) <= proposalLength(rest)
      BY <2>2, <2>4, SMTT(60)
    <3> QED BY <1>3, <1>7, <2>1, <3>1, SMTT(60) DEF Reading
  <2>11. Between'
    BY <1>3, <2>1, <2>5, SMTT(60) DEF Between
  <2>12. Within'
    <3> SUFFICES ASSUME Len(got) < Len(sa), Undamaged(Len(got) + 1)
                 PROVE  \E j \in 0 .. Len(transformList(sa[Len(got) + 1])) : PartRead(sa[Len(got) + 1], j)'
      BY <2>1, <2>5, SMTT(60) DEF Within
    <3> DEFINE p == sa[Len(got) + 1]
               D == proposalTransformData(p)
    <3>1. AtProposal(Len(got), p, Frame(sa, Len(got) + 1))
      BY <1>2, NextProposal, SMTT(60)
    <3> HIDE DEF p
    <3>2. p \in Proposal /\ ~ MarshalFails(p) /\ ProposalIsRead(rest, p, Frame(sa, Len(got) + 1))
      BY <3>1, SMTT(60) DEF AtProposal
    <3>3. /\ ShortSPI(p) /\ rest[5] = p.number /\ rest[6] = p.protocol
          /\ Slice(rest, 8, EndOfSPI(rest)) = p.spi /\ TransformOctets(rest) = D
      BY <1>7, <3>2, SMTT(60) DEF ProposalIsRead
    <3>4. r = Sofar(p, 0)
      BY <3>3, SofarNone, Zenon DEF Sofar
    <3>5. From(D, Len(AppendAll(TransformFrames(transformList(p)), 0))) = D
      <4>1. D \in Seq(Octets)
        BY <3>2, FramesType, SMTT(60)
      <4>2. Len(AppendAll(TransformFrames(transformList(p)), 0)) = 0
        BY PartsNone, SMTT(60)
      <4> HIDE DEF D
      <4>3. From(D, 0) = D
        BY <4>1, SMTT(60) DEF From
      <4> QED BY <4>2, <4>3, SMTT(60)
    <3>6. Len(transformList(p)) \in Nat
      BY <3>2, ListType, SMTT(60)
    <3> HIDE DEF r, D
    <3>7. p' = p
      BY <2>1, SMTT(60) DEF p
    <3>8. PartRead(p, 0)'
      BY <2>1, <3>3, <3>4, <3>5, <3>7, Zenon DEF PartRead, D
    <3>9. 0 \in 0 .. Len(transformList(p))
      BY <3>6, SMTT(60)
    <3> QED BY <3>8, <3>9, Zenon DEF p
  <2>13. WholeRead'
    BY <1>3, <1>4, <2>1, SMTT(60) DEF WholeRead
  <2>14. DamageStaysBehind'
    BY <1>3, <2>1, <2>5, SMTT(60) DEF DamageStaysBehind
  <2>15. SARoundTrip'
    BY <1>1, <2>1, SMTT(60) DEF SARoundTrip
  <2> QED BY <2>7, <2>8, <2>9, <2>10, <2>11, <2>12, <2>13, <2>14, <2>15, SMTT(60) DEF IInv, Decoding
<1> QED BY <1>5, <1>6, <1>7, SMTT(60)

\* Where decoding stands before transform number j + 1.
AtTransform(b, p, j) ==
  LET l == transformList(p)
      e == TransformFrames(l)
  IN  /\ j = Len(l) => b = <<>>
      /\ j < Len(l) =>
           /\ TransformIsRead(b, l[j + 1], e[j + 1])
           /\ From(b, transformLength(b)) = From(proposalTransformData(p), Len(AppendAll(e, j + 1)))

\* The transforms of a proposal that arrived as sent are read one after the other.
LEMMA NextTransform ==
  ASSUME NEW p \in Proposal, ~ MarshalFails(p), NEW j \in 0 .. Len(transformList(p)), NEW b,
         b = From(proposalTransformData(p), Len(AppendAll(TransformFrames(transformList(p)), j)))
  PROVE  AtTransform(b, p, j)
<1> DEFINE l == transformList(p)
           e == TransformFrames(l)
           D == proposalTransformData(p)
           u == Len(AppendAll(e, j))
<1>1. FramesAre(p) /\ D \in Seq(Octets)
  BY FramesType, SMTT(60)
<1>2. /\ l \in Seq(Transform) /\ e \in Seq(Seq(Octets)) /\ Len(e) = Len(l) /\ D = AppendAll(e, Len(l))
      /\ \A i \in 1 .. Len(l) : l[i] \in Transform /\ ~ TransformFails(l[i])
      /\ \A i \in 1 .. Len(l) : e[i] = MarshalTransform(l[i], i = Len(l))
  BY <1>1, Zenon DEF FramesAre
<1>3. b = From(D, u) /\ j \in 0 .. Len(l)
  OBVIOUS
<1> HIDE DEF l, e, D
<1>4. Len(l) \in Nat /\ j \in Nat
  BY <1>2, <1>3, SMTT(60)
<1>5. u \in Nat /\ u <= Len(D) /\ Len(D) \in Nat
  <2>1. j \in 0 .. Len(e) /\ Len(l) \in 0 .. Len(e) /\ j <= Len(l)
    BY <1>2, <1>3, <1>4, SMTT(60)
  <2>2. AppendAll(e, j) \in Seq(Octets)
    BY <1>2, <2>1, PartsType, SMTT(60)
  <2>3. Stands(D, 0, AppendAll(e, j))
    BY <1>2, <2>1, PartsStand, SMTT(60)
  <2>4. 0 + u <= Len(D)
    BY <2>3, SMTT(60) DEF Stands
  <2> QED BY <1>1, <2>2, <2>4, SMTT(60)
<1>6. CASE j = Len(l)
  <2>1. u = Len(D)
    BY <1>2, <1>6, SMTT(60)
  <2>2. b = <<>>
    BY <1>1, <1>3, <2>1, SMTT(60) DEF From
  <2> QED BY <1>4, <1>6, <2>2, SMTT(60) DEF AtTransform, l
<1>7. CASE j # Len(l)
  <2> HIDE DEF u
  <2>1. j \in 0 .. Len(e) - 1 /\ j + 1 \in 1 .. Len(l) /\ j + 1 \in 1 .. Len(e) /\ j + 1 \in 0 .. Len(e)
    BY <1>2, <1>3, <1>4, <1>7, SMTT(60)
  <2> DEFINE f == e[j + 1]
             t == l[j + 1]
             last == j + 1 = Len(l)
  <2>2. Stands(D, u, f) /\ Len(AppendAll(e, j + 1)) = u + Len(f)
    BY <1>2, <2>1, PartStands, SMTT(60) DEF u
  <2>3. t \in Transform /\ ~ TransformFails(t) /\ f = MarshalTransform(t, last) /\ f \in Seq(Octets) /\ last \in BOOLEAN
    BY <1>2, <2>1, SMTT(60)
  <2> HIDE DEF f, t, last
  <2>4. b \in Seq(Octets) /\ IsFrom(b, D, u)
    <3>1. u \in 0 .. Len(D)
      BY <1>5, SMTT(60)
    <3>2. b = SubSeq(D, u + 1, Len(D))
      BY <1>3, Zenon DEF From
    <3>3. b \in Seq(Octets) /\ Len(b) = Len(D) - u
      BY <1>1, <3>1, <3>2, SplitAt, Zenon
    <3>4. u + Len(b) = Len(D)
      BY <1>5, <3>3, SMTT(60)
    <3> QED BY <3>2, <3>3, <3>4, Zenon DEF IsFrom
  <2>5. Stands(b, 0, f)
    BY <1>1, <1>5, <2>2, <2>3, <2>4, StandsInFrom, SMTT(60)
  <2>6. TransformIsRead(b, t, f)
    BY <2>3, <2>4, <2>5, TransformRead, SMTT(60)
  <2>7. Len(f) \in Nat /\ Len(f) <= Len(b)
    <3>1. Len(f) \in Nat /\ 0 + Len(f) <= Len(b) /\ Len(b) \in Nat
      BY <2>3, <2>4, <2>5, SMTT(60) DEF Stands
    <3> QED BY <3>1, SMTT(60)
  <2>8. LeavesFrom(b, Len(f), D, u)
    BY <1>1, <1>5, <2>4, <2>7, SuffixOfSuffix, SMTT(60)
  <2>9. From(b, Len(f)) = From(D, u + Len(f))
    BY <2>8, Zenon DEF LeavesFrom, From
  <2>10. transformLength(b) = Len(f)
    BY <2>6, SMTT(60) DEF TransformIsRead
  <2>11. From(b, transformLength(b)) = From(D, Len(AppendAll(e, j + 1)))
    BY <2>2, <2>9, <2>10, Zenon
  <2> QED BY <1>7, <2>6, <2>11, Zenon DEF AtTransform, f, t, e, l, D
<1> QED BY <1>6, <1>7, SMTT(60)

\* A transform (payload_securityassociation.go:183-244).
LEMMA TransformIInv ==
  ASSUME IInv, UnmarshalTransform
  PROVE  IInv'
<1> DEFINE b == transformData
           p == sa[Len(got) + 1]
           l == transformList(p)
<1>1. pc = "decode" /\ proposal # NoProposal /\ b # <<>>
  BY DEF UnmarshalTransform
<1>2. Started
  BY <1>1, SMTT(60) DEF Started
<1>3. /\ Typed /\ Written /\ Arrived /\ Reading /\ Between /\ Within /\ WholeRead
      /\ DamageStaysBehind
  BY <1>2, SMTT(60) DEF IInv, Decoding
<1>4. proposal \in Proposal /\ b \in Seq(Octets) /\ got \in Seq(Proposal) /\ sa \in Seq(Proposal)
  BY <1>1, <1>3, SMTT(60) DEF Typed
<1>5. ASSUME Len(got) < Len(sa), Undamaged(Len(got) + 1)
      PROVE  /\ p \in Proposal /\ Len(l) \in Nat
             /\ \E j \in 0 .. Len(l) : j < Len(l) /\ PartRead(p, j) /\ AtTransform(b, p, j)
  <2>1. AtProposal(Len(got), p, Frame(sa, Len(got) + 1))
    BY <1>2, <1>5, NextProposal, SMTT(60)
  <2>2. PICK j \in 0 .. Len(l) : PartRead(p, j)
    BY <1>1, <1>3, <1>5, SMTT(60) DEF Within
  <2> HIDE DEF p
  <2>3. p \in Proposal /\ ~ MarshalFails(p)
    BY <2>1, SMTT(60) DEF AtProposal
  <2>4. Len(l) \in Nat
    BY <2>3, ListType, SMTT(60)
  <2>5. AtTransform(b, p, j)
    BY <2>2, <2>3, NextTransform, ZenonT(60) DEF PartRead
  <2>6. j # Len(l)
    BY <1>1, <2>5 DEF AtTransform
  <2> HIDE DEF l
  <2>7. j < Len(l)
    BY <2>2, <2>4, <2>6
  <2> QED BY <2>2, <2>3, <2>4, <2>5, <2>7, SMTT(60)
<1>6. damage = 0 => Len(got) < Len(sa) /\ Undamaged(Len(got) + 1)
  BY <1>1, <1>3, SMTT(60) DEF WholeRead, Undamaged
<1>7. ASSUME Len(got) < Len(sa), Undamaged(Len(got) + 1)
      PROVE  GoodTransform(b) /\ (HasAttribute(b) => GoodAttribute(b) /\ ~ AttributePanics(b))
  <2> HIDE DEF b, p, l
  <2>1. PICK j \in 0 .. Len(l) : j < Len(l) /\ AtTransform(b, p, j)
    BY <1>5, <1>7, SMTT(60)
  <2> QED BY <2>1, SMTT(60) DEF AtTransform, TransformIsRead, l
<1>8. CASE ~ GoodTransform(b) \/ (HasAttribute(b) /\ ~ GoodAttribute(b))
  <2>1. End("error") /\ damage' = damage /\ pc' = "error"
    BY <1>8, SMTT(60) DEF UnmarshalTransform, End
  <2>2. damage # 0
    BY <1>6, <1>7, <1>8, SMTT(60)
  <2>3. SARoundTrip'
    BY <2>1, <2>2 DEF SARoundTrip
  <2> QED BY <1>1, <2>1, <2>3, EndIInv, SMTT(60)
<1>9. CASE GoodTransform(b) /\ HasAttribute(b) /\ GoodAttribute(b) /\ AttributePanics(b)
  <2>1. End("panic") /\ damage' = damage /\ pc' = "panic"
    BY <1>9, SMTT(60) DEF UnmarshalTransform, End
  <2>2. damage # 0
    BY <1>6, <1>7, <1>9, SMTT(60)
  <2>3. SARoundTrip'
    BY <2>1, <2>2, SMTT(60) DEF SARoundTrip
  <2> QED BY <1>1, <2>1, <2>3, EndIInv, SMTT(60)
<1>10. CASE GoodTransform(b) /\ (HasAttribute(b) => GoodAttribute(b) /\ ~ AttributePanics(b))
  <2>1. /\ proposal' = AppendTransform(proposal, NewTransform(b)) /\ transformData' = From(b, transformLength(b))
        /\ sa' = sa /\ wire' = wire /\ damage' = damage /\ rest' = rest /\ got' = got /\ used' = used /\ pc' = pc
    BY <1>10, SMTT(60) DEF UnmarshalTransform
  <2>2. NewTransform(b) \in Transform
    BY <1>4, <1>10, NewTransformType, SMTT(60) DEF GoodTransform, GoodAttribute
  <2>3. proposal' \in Proposal /\ proposal'.spi = proposal.spi /\ proposal' # NoProposal
    BY <1>4, <2>1, <2>2, AppendType, ProposalIsThere, SMTT(60)
  <2>4. transformData' \in Seq(Octets) /\ Len(transformData') <= Len(b)
    <3> DEFINE n == transformLength(b)
    <3>1. n >= 8 /\ n <= Len(b) /\ n \in Int
      <4>1. n \in Nat
        BY <1>4, <1>10, LengthType, SMTT(60) DEF GoodTransform, transformLength
      <4> QED BY <1>10, <4>1, SMTT(60) DEF GoodTransform
    <3> HIDE DEF n, b
    <3>2. n \in Nat /\ Len(b) - n \in Nat /\ n + (Len(b) - n) = Len(b) /\ n + (Len(b) - n) <= Len(b) /\ Len(b) \in Nat
      BY <1>4, <3>1, SMTT(60)
    <3>3. IsSlice(Octets, SubSeq(b, n + 1, n + (Len(b) - n)), b, n, Len(b) - n)
      BY <1>4, <3>2, SliceOf, SMTT(60)
    <3>4. From(b, n) \in Seq(Octets) /\ Len(From(b, n)) = Len(b) - n
      BY <3>2, <3>3, Zenon DEF IsSlice, From
    <3>5. Len(From(b, n)) <= Len(b)
      BY <3>2, <3>4, SMTT(60)
    <3> QED BY <2>1, <3>4, <3>5, SMTT(60) DEF n
  <2>5. Sent' = Sent /\ (\A k : EndOf(k)' = EndOf(k)) /\ (\A k : Undamaged(k)' <=> Undamaged(k))
    BY <2>1, SMTT(60) DEF Sent, EndOf, Undamaged
  <2>6. Started'
    BY <1>2, <2>1, SMTT(60) DEF Started
  <2>7. Typed'
    BY <1>3, <2>1, <2>3, <2>4, SMTT(60) DEF Typed
  <2>8. Before' /\ Written'
    BY <1>1, <1>2, <1>3, <2>1, <2>6, SMTT(60) DEF Before, Written
  <2>9. Arrived'
    BY <1>3, <2>1, <2>5, SMTT(60) DEF Arrived
  <2>10. Reading'
    <3>1. 8 + Len(proposal.spi) + Len(b) <= proposalLength(rest) /\ GoodProposal(rest)
      BY <1>1, <1>3, SMTT(60) DEF Reading
    <3>2. Len(proposal.spi) \in Nat /\ Len(b) \in Nat /\ Len(transformData') \in Nat /\ proposalLength(rest) \in Nat
      <4>1. proposal.spi \in Seq(Octets) /\ rest \in Seq(Octets)
        BY <1>3, <1>4, SMTT(60) DEF Proposal, Typed
      <4>2. proposalLength(rest) \in Nat
        BY <3>1, <4>1, LengthType, SMTT(60) DEF GoodProposal, proposalLength
      <4> QED BY <1>4, <2>4, <4>1, <4>2, SMTT(60)
    <3>3. 8 + Len(proposal'.spi) + Len(transformData') <= proposalLength(rest)
      BY <2>3, <2>4, <3>1, <3>2, SMTT(60)
    <3> QED BY <1>3, <2>1, <3>1, <3>3, SMTT(60) DEF Reading
  <2>11. Between'
    BY <1>3, <2>1, <2>5, SMTT(60) DEF Between
  <2>12. Within'
    <3> SUFFICES ASSUME Len(got) < Len(sa), Undamaged(Len(got) + 1)
                 PROVE  \E j \in 0 .. Len(transformList(sa[Len(got) + 1])) : PartRead(sa[Len(got) + 1], j)'
      BY <2>1, <2>5, SMTT(60) DEF Within
    <3>1. /\ p \in Proposal /\ Len(l) \in Nat
          /\ \E j \in 0 .. Len(l) : j < Len(l) /\ PartRead(p, j) /\ AtTransform(b, p, j)
      BY <1>5, SMTT(60)
    <3>2. PICK j \in 0 .. Len(l) : j < Len(l) /\ PartRead(p, j) /\ AtTransform(b, p, j)
      BY <3>1, SMTT(60)
    <3> HIDE DEF b, p, l
    <3>3. j \in 0 .. Len(l) - 1 /\ j + 1 \in 0 .. Len(l)
      BY <3>1, <3>2, SMTT(60)
    <3>4. ShortSPI(p) /\ proposal = Sofar(p, j)
      BY <3>2, Zenon DEF PartRead
    <3>5. /\ NewTransform(b) = Kept(l[j + 1])
          /\ From(b, transformLength(b)) = From(proposalTransformData(p), Len(AppendAll(TransformFrames(l), j + 1)))
      BY <3>2, SMTT(60) DEF AtTransform, TransformIsRead, l
    <3>6. proposal' = Sofar(p, j + 1)
      <4>1. AppendTransform(Sofar(p, j), Kept(l[j + 1])) = Sofar(p, j + 1)
        BY <3>1, <3>3, SofarNext, SMTT(60) DEF l
      <4> QED BY <2>1, <3>4, <3>5, <4>1, Zenon
    <3>7. p' = p /\ l' = l
      BY <2>1, SMTT(60) DEF p, l
    <3>8. PartRead(p, j + 1)'
      BY <2>1, <3>4, <3>5, <3>6, <3>7, Zenon DEF PartRead, l
    <3> QED BY <3>3, <3>8, Zenon DEF p, l
  <2>13. WholeRead'
    BY <1>1, <1>3, <2>1, SMTT(60) DEF WholeRead
  <2>14. DamageStaysBehind'
    BY <1>3, <2>1, <2>5, SMTT(60) DEF DamageStaysBehind
  <2>15. SARoundTrip'
    BY <1>1, <2>1, SMTT(60) DEF SARoundTrip
  <2> QED BY <2>7, <2>8, <2>9, <2>10, <2>11, <2>12, <2>13, <2>14, <2>15 DEF IInv, Decoding
<1> QED BY <1>8, <1>9, <1>10, SMTT(60)

\* The next proposal (payload_securityassociation.go:246-248).
LEMMA NextIInv ==
  ASSUME IInv, UnmarshalNext
  PROVE  IInv'
<1> DEFINE k == Len(got)
           p == sa[k + 1]
           n == proposalLength(rest)
<1>1. pc = "decode" /\ proposal # NoProposal /\ transformData = <<>>
  BY DEF UnmarshalNext
<1>2. Started
  BY <1>1, SMTT(60) DEF Started
<1>3. /\ Typed /\ Written /\ Arrived /\ Reading /\ Between /\ Within /\ WholeRead
      /\ DamageStaysBehind
  BY <1>2 DEF IInv, Decoding
<1>4. /\ proposal \in Proposal /\ got \in Seq(Proposal) /\ sa \in Seq(Proposal) /\ rest \in Seq(Octets)
      /\ wire \in Seq(Octets) /\ used \in Nat /\ damage \in Nat
  BY <1>1, <1>3, SMTT(60) DEF Typed
<1>5. /\ got' = Append(got, proposal) /\ used' = used + n /\ rest' = From(rest, n) /\ proposal' = NoProposal
      /\ sa' = sa /\ wire' = wire /\ damage' = damage /\ transformData' = transformData /\ pc' = pc
  BY DEF UnmarshalNext
<1>6. k \in Nat /\ Len(sa) \in Nat
  BY <1>4, SMTT(60)
<1>7. /\ got' \in Seq(Proposal) /\ Len(got') = k + 1 /\ got'[k + 1] = proposal
      /\ \A i \in 1 .. k : got'[i] = got[i]
  BY <1>4, <1>5, SMTT(60)
<1>8. ASSUME k < Len(sa), Undamaged(k + 1)
      PROVE  /\ proposal = Received(p) /\ ShortSPI(p) /\ used + n = EndOf(k + 1) /\ Undamaged(k)
  <2>1. AtProposal(k, p, Frame(sa, k + 1))
    BY <1>2, <1>8, NextProposal, SMTT(60)
  <2>2. PICK j \in 0 .. Len(transformList(p)) : PartRead(p, j)
    BY <1>1, <1>3, <1>8, SMTT(60) DEF Within
  <2> HIDE DEF p
  <2>3. p \in Proposal /\ ~ MarshalFails(p) /\ ProposalIsRead(rest, p, Frame(sa, k + 1))
        /\ used = EndOf(k) /\ EndOf(k + 1) = EndOf(k) + Len(Frame(sa, k + 1)) /\ Undamaged(k)
    BY <2>1, SMTT(60) DEF AtProposal
  <2>4. n = Len(Frame(sa, k + 1))
    BY <2>3, SMTT(60) DEF ProposalIsRead
  <2>5. AtTransform(<<>>, p, j)
    BY <1>1, <2>2, <2>3, NextTransform, SMTT(60) DEF PartRead
  <2>6. ~ (j < Len(transformList(p)))
    <3> SUFFICES ASSUME j < Len(transformList(p)) PROVE FALSE
      OBVIOUS
    <3>1. GoodTransform(<<>>)
      BY <2>5, SMTT(60) DEF AtTransform, TransformIsRead
    <3>2. Len(<<>>) = 0
      OBVIOUS
    <3>3. Len(<<>>) >= 8
      BY <3>1, SMTT(60) DEF GoodTransform
    <3> QED BY <3>2, <3>3, SMTT(60)
  <2>7. j = Len(transformList(p))
    <3>1. Len(transformList(p)) \in Nat
      BY <2>3, ListType, SMTT(60)
    <3> QED BY <2>2, <2>6, <3>1, SMTT(60)
  <2>8. proposal = Received(p) /\ ShortSPI(p)
    BY <2>2, <2>3, <2>7, SofarAll, Zenon DEF PartRead
  <2> QED BY <2>3, <2>4, <2>8, SMTT(60)
<1>9. n \in Nat /\ n <= Len(rest) /\ Len(rest) \in Nat /\ GoodProposal(rest)
  <2>1. GoodProposal(rest)
    BY <1>1, <1>3, SMTT(60) DEF Reading
  <2>2. n \in Nat
    BY <1>4, <2>1, LengthType, SMTT(60) DEF GoodProposal, proposalLength
  <2> QED BY <1>4, <2>1, <2>2, SMTT(60) DEF GoodProposal
<1> HIDE DEF n, p
<1>10. Sent' = Sent /\ (\A i : EndOf(i)' = EndOf(i)) /\ (\A i : Undamaged(i)' <=> Undamaged(i))
  BY <1>5, SMTT(60) DEF Sent, EndOf, Undamaged
<1>11. Started'
  BY <1>2, <1>5, SMTT(60) DEF Started
<1>12. rest' \in Seq(Octets) /\ Len(rest') = Len(rest) - n
  <2>1. n \in 0 .. Len(rest)
    BY <1>9, SMTT(60)
  <2>2. rest' = SubSeq(rest, n + 1, Len(rest))
    BY <1>5, Zenon DEF From
  <2> QED BY <1>4, <2>1, <2>2, SplitAt, Zenon
<1>13. Typed'
  <2>1. used' \in Nat
    BY <1>4, <1>5, <1>9, SMTT(60)
  <2> QED BY <1>3, <1>5, <1>7, <1>12, <2>1, Zenon DEF Typed
<1>14. Before' /\ Written'
  BY <1>2, <1>3, <1>5, <1>10, <1>11, SMTT(60) DEF Before, Written
<1>15. Arrived'
  BY <1>3, <1>5, <1>10, SMTT(60) DEF Arrived
<1>16. Reading'
  <2>1. IsFrom(rest, wire, used)
    BY <1>3, SMTT(60) DEF Reading
  <2>2. LeavesFrom(rest, n, wire, used)
    BY <1>4, <1>9, <2>1, SuffixOfSuffix, SMTT(60)
  <2>3. rest' = SubSeq(wire, used + n + 1, Len(wire))
    BY <1>5, <2>2, Zenon DEF LeavesFrom, From
  <2>4. used + Len(rest) = Len(wire)
    BY <2>1, ZenonT(60) DEF IsFrom
  <2>5. (used + n) + Len(rest') = Len(wire)
    <3>1. \A x, y, z \in Nat : (x + y) + (z - y) = x + z
      OBVIOUS
    <3>2. (used + n) + (Len(rest) - n) = used + Len(rest)
      BY <1>4, <1>9, <3>1, Zenon
    <3> QED BY <1>12, <2>4, <3>2, Zenon
  <2>6. IsFrom(rest, wire, used)'
    BY <1>5, <2>3, <2>5, Zenon DEF IsFrom
  <2> QED BY <1>5, <2>6, Zenon DEF Reading
<1>17. Between'
  <2> SUFFICES ASSUME k + 1 <= Len(sa), Undamaged(k + 1) PROVE used + n = EndOf(k + 1)
    BY <1>5, <1>7, <1>10, SMTT(60) DEF Between
  <2>1. k < Len(sa)
    BY <1>6, SMTT(60)
  <2> QED BY <1>8, <2>1, SMTT(60)
<1>18. Within'
  BY <1>5, Zenon DEF Within
<1>19. WholeRead'
  <2> SUFFICES ASSUME damage = 0
               PROVE  k + 1 <= Len(sa) /\ \A i \in 1 .. k + 1 : ShortSPI(sa[i])
    BY <1>5, <1>7, SMTT(60) DEF WholeRead
  <2>1. k < Len(sa) /\ \A i \in 1 .. k : ShortSPI(sa[i])
    BY <1>1, <1>3, SMTT(60) DEF WholeRead
  <2>2. Undamaged(k + 1)
    BY SMTT(60) DEF Undamaged
  <2>3. ShortSPI(sa[k + 1])
    BY <1>8, <2>1, <2>2, SMTT(60) DEF p
  <2>4. k + 1 <= Len(sa) /\ \A i \in 1 .. k + 1 : i \in 1 .. k \/ i = k + 1
    BY <1>6, <2>1, SMTT(60)
  <2> QED BY <2>1, <2>3, <2>4, SMTT(60)
<1>20. DamageStaysBehind'
  <2> SUFFICES ASSUME NEW i \in 1 .. k + 1, i <= Len(sa), damage = 0 \/ EndOf(i) < damage
               PROVE  got'[i] = Received(sa[i])
    BY <1>5, <1>7, <1>10, SMTT(60) DEF DamageStaysBehind
  <2>1. CASE i = k + 1
    <3>1. k < Len(sa) /\ Undamaged(k + 1)
      BY <1>6, <2>1, SMTT(60) DEF Undamaged
    <3> QED BY <1>7, <1>8, <2>1, <3>1, SMTT(60) DEF p
  <2>2. CASE i # k + 1
    <3>1. i \in 1 .. k
      BY <1>6, <2>2, SMTT(60)
    <3>2. got[i] = Received(sa[i])
      BY <1>3, <3>1, SMTT(60) DEF DamageStaysBehind
    <3> QED BY <1>7, <3>1, <3>2, SMTT(60)
  <2> QED BY <2>1, <2>2, SMTT(60)
<1>21. SARoundTrip'
  BY <1>1, <1>5, SMTT(60) DEF SARoundTrip
<1> QED BY <1>13, <1>14, <1>15, <1>16, <1>17, <1>18, <1>19, <1>20, <1>21 DEF IInv, Decoding

\* A step that changes nothing.
LEMMA StutterIInv ==
  ASSUME IInv, UNCHANGED vars
  PROVE  IInv'
BY DEF vars, IInv, Typed, Before, Written, Encodable, Decoding, Arrived, Reading, Between, Within, PartRead,
       WholeRead, Undamaged, EndOf, Sent, Started, DamageStaysBehind, SARoundTrip

------------------------------------------------------------------------------
(* The theorems.                                                              *)

\* The invariant holds throughout.
THEOREM Invariance == Spec => []IInv
<1>1. Init => IInv
  BY InitIInv, SMTT(60)
<1>2. IInv /\ [Next]_vars => IInv'
  <2> SUFFICES ASSUME IInv, [Next]_vars PROVE IInv'
    OBVIOUS
  <2>1. CASE Marshal
    BY <2>1, MarshalIInv, SMTT(60)
  <2>2. CASE Intact \/ Truncated \/ Changed
    BY <2>2, NetworkIInv, SMTT(60)
  <2>3. CASE UnmarshalDone
    BY <2>3, DoneIInv
  <2>4. CASE UnmarshalProposal
    BY <2>4, ProposalIInv
  <2>5. CASE UnmarshalTransform
    BY <2>5, TransformIInv
  <2>6. CASE UnmarshalNext
    BY <2>6, NextIInv
  <2>7. CASE UNCHANGED vars
    BY <2>7, StutterIInv, SMTT(60)
  <2> QED BY <2>1, <2>2, <2>3, <2>4, <2>5, <2>6, <2>7, SMTT(60) DEF Next
<1> QED BY <1>1, <1>2, PTL DEF Spec

\* Unmarshal of what Marshal wrote returns every proposal, with what Received says,
\* or panics where the end of an SPI does not fit in an octet
\* (payload_securityassociation.go:175, 178, 181).
THEOREM SARoundTripHolds == Spec => []SARoundTrip
<1>1. IInv => SARoundTrip
  BY SMTT(60) DEF IInv
<1> QED BY <1>1, Invariance, PTL

\* The proposals before the first damaged octet are read as they were sent
\* (payload_securityassociation.go:162, 181, 248).
THEOREM DamageStaysBehindHolds == Spec => []DamageStaysBehind
<1>1. IInv => DamageStaysBehind
  BY SMTT(60) DEF IInv
<1> QED BY <1>1, Invariance, PTL

\* No octet is read twice or beyond the end, and the transforms of a proposal lie
\* inside it, whatever arrives (payload_securityassociation.go:162, 181, 192, 243, 248).
THEOREM OctetsAccountedHolds == Spec => []OctetsAccounted
<1>1. IInv => OctetsAccounted
  BY DEF IInv, Started, Decoding, Reading, IsFrom, OctetsAccounted
<1> QED BY <1>1, Invariance, PTL
==============================================================================

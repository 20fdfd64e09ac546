----------------------------- MODULE OctetLemmas -----------------------------
(***************************************************************************)
(* Lemmas about octets, big-endian integers and slices that the proofs     *)
(* about the codecs share.                                                 *)
(***************************************************************************)
EXTENDS Octets, TLAPS

\* f holds the elements of s and then those of u.
Joined(D, f, s, u) ==
  /\ f \in Seq(D) /\ Len(f) = Len(s) + Len(u)
  /\ \A k \in 1 .. Len(s) : f[k] = s[k]
  /\ \A k \in 1 .. Len(u) : f[Len(s) + k] = u[k]

\* The elements of a concatenation, of Go's append(s, u...).
LEMMA Concat ==
  ASSUME NEW D, NEW s \in Seq(D), NEW u \in Seq(D)
  PROVE  Joined(D, s \o u, s, u)
<1>1. s \o u \in Seq(D) /\ Len(s \o u) = Len(s) + Len(u)
  OBVIOUS
<1>2. \A k \in 1 .. Len(s) : (s \o u)[k] = s[k]
  OBVIOUS
<1>3. ASSUME NEW k \in 1 .. Len(u)
      PROVE  (s \o u)[Len(s) + k] = u[k]
  <2>1. Len(s) + k \in 1 .. Len(s) + Len(u) /\ ~ (Len(s) + k <= Len(s)) /\ Len(s) + k - Len(s) = k
    OBVIOUS
  <2> QED BY <2>1
<1> QED BY <1>1, <1>2, <1>3 DEF Joined

\* Two sequences with the same elements are the same.
LEMMA SameElements ==
  ASSUME NEW D, NEW s \in Seq(D), NEW u \in Seq(D), Len(s) = Len(u),
         \A k \in 1 .. Len(u) : s[k] = u[k]
  PROVE  s = u
OBVIOUS

\* x is s[i:i+n].
IsSlice(D, x, s, i, n) == x \in Seq(D) /\ Len(x) = n /\ \A k \in 1 .. n : x[k] = s[i + k]

\* The n octets from index i.
LEMMA SliceOf ==
  ASSUME NEW D, NEW s \in Seq(D), NEW i \in Nat, NEW n \in Nat, i + n <= Len(s)
  PROVE  IsSlice(D, SubSeq(s, i + 1, i + n), s, i, n)
BY DEF IsSlice

\* The first octet, s[:1].
LEMMA FirstOne ==
  ASSUME NEW D, NEW s \in Seq(D), Len(s) >= 1
  PROVE  SubSeq(s, 1, 1) = <<s[1]>>
<1> DEFINE x == SubSeq(s, 1, 1)
           y == <<s[1]>>
<1>1. x \in Seq(D) /\ Len(x) = 1 /\ x[1] = s[1]
  OBVIOUS
<1>2. y \in Seq(D) /\ Len(y) = 1 /\ y[1] = s[1]
  OBVIOUS
<1> HIDE DEF x, y
<1>3. \A k \in 1 .. 1 : x[k] = y[k]
  BY <1>1, <1>2
<1>4. x = y
  BY <1>1, <1>2, <1>3, SameElements
<1> QED BY <1>4 DEF x, y

\* The first two octets, s[:2].
LEMMA FirstTwo ==
  ASSUME NEW D, NEW s \in Seq(D), Len(s) >= 2
  PROVE  SubSeq(s, 1, 2) = <<s[1], s[2]>>
<1> DEFINE x == SubSeq(s, 1, 2)
           y == <<s[1], s[2]>>
<1>1. x \in Seq(D) /\ Len(x) = 2 /\ x[1] = s[1] /\ x[2] = s[2]
  OBVIOUS
<1>2. y \in Seq(D) /\ Len(y) = 2 /\ y[1] = s[1] /\ y[2] = s[2]
  OBVIOUS
<1> HIDE DEF x, y
<1>3. \A k \in 1 .. 2 : x[k] = y[k]
  BY <1>1, <1>2
<1>4. x = y
  BY <1>1, <1>2, <1>3, SameElements, SMTT(60)
<1> QED BY <1>4 DEF x, y

\* What is joined from s and u is their concatenation.
LEMMA JoinedIsConcat ==
  ASSUME NEW D, NEW s \in Seq(D), NEW u \in Seq(D), NEW f, Joined(D, f, s, u)
  PROVE  s \o u = f
<1> DEFINE g == s \o u
<1>1. Joined(D, g, s, u)
  BY Concat
<1> HIDE DEF g
<1>2. g \in Seq(D) /\ f \in Seq(D) /\ Len(g) = Len(f) /\ Len(f) = Len(s) + Len(u)
  BY <1>1 DEF Joined
<1>3. ASSUME NEW k \in 1 .. Len(f) PROVE g[k] = f[k]
  <2>1. CASE k <= Len(s)
    BY <1>1, <1>2, <2>1 DEF Joined
  <2>2. CASE ~ (k <= Len(s))
    <3>1. k - Len(s) \in 1 .. Len(u) /\ k = Len(s) + (k - Len(s))
      BY <1>2, <2>2
    <3> QED BY <1>1, <3>1, Zenon DEF Joined
  <2> QED BY <2>1, <2>2
<1>4. g = f
  BY <1>2, <1>3
<1> QED BY <1>4 DEF g

\* Four sequences one behind the other, the last three put together first.
Regrouped(r, s, u, v) == r \o s \o u \o v = r \o (s \o u \o v)

\* Concatenation is associative.
LEMMA Assoc ==
  ASSUME NEW D, NEW r \in Seq(D), NEW s \in Seq(D), NEW u \in Seq(D), NEW v \in Seq(D)
  PROVE  Regrouped(r, s, u, v)
<1>1. r \o s \in Seq(D) /\ u \o v \in Seq(D)
  OBVIOUS
<1>2. (r \o s) \o (u \o v) = r \o (s \o (u \o v))
  BY <1>1
<1>3. ((r \o s) \o u) \o v = (r \o s) \o (u \o v)
  BY <1>1, SMTT(60)
<1>4. (s \o u) \o v = s \o (u \o v)
  BY SMTT(60)
<1> QED BY <1>2, <1>3, <1>4, Zenon DEF Regrouped

\* Four elements, written as two pairs, and a sequence behind them.
LEMMA FourAndRest ==
  ASSUME NEW D, NEW t \in D, NEW u \in D, NEW x \in D, NEW y \in D, NEW m \in Seq(D)
  PROVE  LET f == <<t, u>> \o <<x, y>> \o m
         IN  /\ f \in Seq(D) /\ Len(f) = 4 + Len(m)
             /\ f[1] = t /\ f[2] = u /\ f[3] = x /\ f[4] = y
             /\ \A k \in 1 .. Len(m) : f[4 + k] = m[k]
<1> DEFINE p == <<t, u>>
           q == <<x, y>>
           a == p \o q
<1>1. p \in Seq(D) /\ q \in Seq(D) /\ Len(p) = 2 /\ Len(q) = 2
      /\ p[1] = t /\ p[2] = u /\ q[1] = x /\ q[2] = y
  OBVIOUS
<1> HIDE DEF p, q
<1>2. /\ a \in Seq(D) /\ Len(a) = Len(p) + Len(q)
      /\ \A k \in 1 .. Len(p) : a[k] = p[k]
      /\ \A k \in 1 .. Len(q) : a[Len(p) + k] = q[k]
  <2>1. Joined(D, a, p, q)
    BY <1>1, Concat
  <2> QED BY <2>1 DEF Joined
<1> HIDE DEF a
<1>3. Len(a) = 4 /\ a[1] = t /\ a[2] = u /\ a[3] = x /\ a[4] = y
  <2>1. 1 \in 1 .. 2 /\ 2 \in 1 .. 2 /\ 2 + 1 = 3 /\ 2 + 2 = 4
    OBVIOUS
  <2> QED BY <1>1, <1>2, <2>1
<1>4. /\ a \o m \in Seq(D) /\ Len(a \o m) = Len(a) + Len(m)
      /\ \A k \in 1 .. Len(a) : (a \o m)[k] = a[k]
      /\ \A k \in 1 .. Len(m) : (a \o m)[Len(a) + k] = m[k]
  <2>1. Joined(D, a \o m, a, m)
    BY <1>2, Concat
  <2> QED BY <2>1 DEF Joined
<1>5. (a \o m)[1] = t /\ (a \o m)[2] = u /\ (a \o m)[3] = x /\ (a \o m)[4] = y
  <2>1. 1 \in 1 .. 4 /\ 2 \in 1 .. 4 /\ 3 \in 1 .. 4 /\ 4 \in 1 .. 4
    OBVIOUS
  <2> QED BY <1>3, <1>4, <2>1
<1> QED BY <1>3, <1>4, <1>5 DEF a, p, q

\* The first n octets and those behind them, b[:n] and b[n:], are b.
LEMMA SplitAt ==
  ASSUME NEW D, NEW s \in Seq(D), NEW n \in 0 .. Len(s)
  PROVE  /\ Joined(D, s, SubSeq(s, 1, n), SubSeq(s, n + 1, Len(s)))
         /\ SubSeq(s, 1, n) \in Seq(D) /\ SubSeq(s, n + 1, Len(s)) \in Seq(D)
         /\ Len(SubSeq(s, 1, n)) = n /\ Len(SubSeq(s, n + 1, Len(s))) = Len(s) - n
<1> DEFINE x == SubSeq(s, 1, n)
           y == SubSeq(s, n + 1, Len(s))
<1>1. x \in Seq(D) /\ Len(x) = n /\ \A k \in 1 .. n : x[k] = s[k]
  OBVIOUS
<1>2. y \in Seq(D) /\ Len(y) = Len(s) - n /\ \A k \in 1 .. Len(s) - n : y[k] = s[n + k]
  OBVIOUS
<1> HIDE DEF x, y
<1>3. Joined(D, s, x, y)
  BY <1>1, <1>2 DEF Joined
<1> QED BY <1>1, <1>2, <1>3 DEF x, y

\* What follows s in the concatenation of s and u is u.
LEMMA DropFirst ==
  ASSUME NEW D, NEW s \in Seq(D), NEW u \in Seq(D), NEW f, Joined(D, f, s, u)
  PROVE  SubSeq(f, 1, Len(s)) = s /\ SubSeq(f, Len(s) + 1, Len(f)) = u
<1> DEFINE m == Len(s)
           x == SubSeq(f, 1, m)
           y == SubSeq(f, m + 1, Len(f))
<1>1. /\ f \in Seq(D) /\ Len(f) = m + Len(u) /\ m \in Nat /\ m \in 0 .. Len(f)
      /\ \A k \in 1 .. m : f[k] = s[k]
      /\ \A k \in 1 .. Len(u) : f[m + k] = u[k]
  BY DEF Joined
<1>0. m = Len(s)
  OBVIOUS
<1> HIDE DEF m
<1>2. x \in Seq(D) /\ Len(x) = m /\ \A k \in 1 .. m : x[k] = f[k]
  BY <1>1
<1>3. y \in Seq(D) /\ Len(y) = Len(u) /\ \A k \in 1 .. Len(u) : y[k] = f[m + k]
  BY <1>1
<1> HIDE DEF x, y
<1>4. x = s
  BY <1>0, <1>1, <1>2, SameElements
<1>5. y = u
  BY <1>1, <1>3, SameElements
<1> QED BY <1>4, <1>5 DEF x, y, m

\* b is w[u:]; b[l:] is w[u+l:].
IsFrom(b, w, u) == b = SubSeq(w, u + 1, Len(w)) /\ u + Len(b) = Len(w)
LeavesFrom(b, l, w, u) == SubSeq(b, l + 1, Len(b)) = SubSeq(w, u + l + 1, Len(w))

\* b[l:] of b = w[u:] is w[u+l:].
LEMMA SuffixOfSuffix ==
  ASSUME NEW D, NEW w \in Seq(D), NEW u \in Nat, NEW b \in Seq(D),
         IsFrom(b, w, u), NEW l \in Nat, l <= Len(b)
  PROVE  LeavesFrom(b, l, w, u)
<1> USE DEF IsFrom
<1> DEFINE x == SubSeq(b, l + 1, Len(b))
           y == SubSeq(w, u + l + 1, Len(w))
<1>1. x \in Seq(D) /\ Len(x) = Len(b) - l /\ \A k \in 1 .. Len(b) - l : x[k] = b[l + k]
  OBVIOUS
<1>2. y \in Seq(D) /\ Len(y) = Len(b) - l /\ \A k \in 1 .. Len(b) - l : y[k] = w[u + l + k]
  OBVIOUS
<1>3. \A k \in 1 .. Len(b) : b[k] = w[u + k]
  OBVIOUS
<1> HIDE DEF x, y
<1>4. ASSUME NEW k \in 1 .. Len(b) - l PROVE x[k] = y[k]
  <2>1. l + k \in 1 .. Len(b) /\ u + (l + k) = u + l + k
    OBVIOUS
  <2> QED BY <1>1, <1>2, <1>3, <2>1
<1>5. x = y
  BY <1>1, <1>2, <1>4
<1> QED BY <1>5 DEF x, y, LeavesFrom

------------------------------------------------------------------------------
(* Integers.                                                                 *)

\* Quotient and remainder are determined.
LEMMA DivMod ==
  ASSUME NEW m \in Nat, m > 0, NEW q \in Nat, NEW r \in Nat, r < m
  PROVE  (q * m + r) \div m = q /\ (q * m + r) % m = r
<1> DEFINE x == q * m + r
           d == x \div m
           s == x % m
<1>0. q * m \in Nat
  OBVIOUS
<1>1. x \in Nat /\ x = q * m + r
  BY <1>0
<1> HIDE DEF x
<1>2. d \in Nat /\ s \in Nat /\ s < m /\ x = m * d + s
  BY <1>1
<1> HIDE DEF d, s
<1>3. ~ (q > d)
  <2> SUFFICES ASSUME q >= d + 1 PROVE FALSE
    BY <1>2
  <2>1. PICK e \in Nat : q = d + 1 + e
    BY <1>2
  <2>2. q * m = m * d + m + e * m
    BY <1>2, <2>1
  <2>3. e * m \in Nat /\ m * d \in Nat
    BY <1>2
  <2> QED BY <1>1, <1>2, <2>2, <2>3
<1>4. ~ (d > q)
  <2> SUFFICES ASSUME d >= q + 1 PROVE FALSE
    BY <1>2
  <2>1. PICK e \in Nat : d = q + 1 + e
    BY <1>2
  <2>2. m * d = q * m + m + e * m
    BY <1>2, <2>1
  <2>3. e * m \in Nat /\ m * d \in Nat
    BY <1>2
  <2> QED BY <1>0, <1>1, <1>2, <2>2, <2>3
<1>5. d = q
  BY <1>2, <1>3, <1>4
<1>6. s = r
  <2>1. m * d = q * m
    BY <1>2, <1>5
  <2> QED BY <1>0, <1>1, <1>2, <2>1
<1> QED BY <1>5, <1>6 DEF d, s, x
\* A number below q * m is a quotient below q and a remainder.
LEMMA DivBelow ==
  ASSUME NEW m \in Nat, m > 0, NEW q \in Nat, NEW x \in Nat, x < q * m
  PROVE  /\ x \div m \in Nat /\ x \div m < q /\ x % m \in Nat /\ x % m < m
         /\ x = (x \div m) * m + (x % m)
<1> DEFINE d == x \div m
           s == x % m
<1>1. d \in Nat /\ s \in Nat /\ s < m /\ x = m * d + s
  OBVIOUS
<1> HIDE DEF d, s
<1>2. d < q
  <2> SUFFICES ASSUME d >= q PROVE FALSE
    BY <1>1
  <2>1. PICK e \in Nat : d = q + e
    BY <1>1
  <2>2. m * d = q * m + e * m
    BY <1>1, <2>1
  <2>3. e * m \in Nat /\ q * m \in Nat
    OBVIOUS
  <2> QED BY <1>1, <2>2, <2>3
<1>3. m * d = d * m
  BY <1>1
<1>4. d \in Nat /\ d < q /\ s \in Nat /\ s < m /\ x = d * m + s
  BY <1>1, <1>2, <1>3
<1> QED BY <1>4 DEF d, s

\* A quotient below q and a remainder below m make a number below q * m.
LEMMA SumBelow ==
  ASSUME NEW m \in Nat, NEW q \in Nat, NEW a \in Nat, a < q, NEW r \in Nat, r < m
  PROVE  a * m + r \in Nat /\ a * m + r < q * m
<1>1. PICK e \in Nat : q = a + 1 + e
  OBVIOUS
<1>2. q * m = a * m + m + e * m
  BY <1>1
<1>3. e * m \in Nat /\ a * m \in Nat
  OBVIOUS
<1> QED BY <1>2, <1>3

\* PutUint16 and Uint16 are inverse: the octets of an integer that fits in 16 bits.
LEMMA Put16 ==
  ASSUME Octet \in Nat, Octet > 0, NEW n \in Nat, n < Word
  PROVE  /\ PutUint16(n) \in Seq(Octets) /\ Len(PutUint16(n)) = 2
         /\ PutUint16(n)[1] \in Octets /\ PutUint16(n)[2] \in Octets
         /\ PutUint16(n)[1] * Octet + PutUint16(n)[2] = n
<1> DEFINE q == n \div Octet
           r == n % Octet
<1>1. q \in Nat /\ q < Octet /\ r \in Nat /\ r < Octet /\ n = q * Octet + r
  BY DivBelow DEF Word
<1> HIDE DEF q, r
<1>2. q % Octet = q
  BY <1>1
<1>3. PutUint16(n) = <<q, r>>
  BY <1>2 DEF PutUint16, q, r
<1>4. q \in Octets /\ r \in Octets
  BY <1>1 DEF Octets
<1>5. PutUint16(n) \in Seq(Octets) /\ Len(PutUint16(n)) = 2 /\ PutUint16(n)[1] = q /\ PutUint16(n)[2] = r
  BY <1>3, <1>4
<1> QED BY <1>1, <1>4, <1>5

\* The integer of two octets, and the octets of it.
LEMMA Join16 ==
  ASSUME Octet \in Nat, Octet > 0, NEW x \in Octets, NEW y \in Octets
  PROVE  x * Octet + y \in Nat /\ x * Octet + y < Word /\ PutUint16(x * Octet + y) = <<x, y>>
<1>1. x \in Nat /\ y \in Nat /\ x < Octet /\ y < Octet
  BY DEF Octets
<1>2. x * Octet + y \in Nat /\ x * Octet + y < Octet * Octet
  BY <1>1, SumBelow
<1>3. (x * Octet + y) \div Octet = x /\ (x * Octet + y) % Octet = y
  BY <1>1, DivMod
<1>4. x % Octet = x
  BY <1>1
<1> QED BY <1>2, <1>3, <1>4 DEF PutUint16, Word

\* PutUint32 writes four octets, from which Uint32 reads the integer again.
LEMMA Put32 ==
  ASSUME Octet \in Nat, Octet > 0, NEW n \in Nat, n < Word * Word
  PROVE  LET t == PutUint32(n)
         IN  /\ t \in Seq(Octets) /\ Len(t) = 4
             /\ t[1] \in Octets /\ t[2] \in Octets /\ t[3] \in Octets /\ t[4] \in Octets
             /\ (t[1] * Octet + t[2]) * Word + (t[3] * Octet + t[4]) = n
<1> DEFINE t == PutUint32(n)
           h == n \div Word
           l == n % Word
<1>1. Word \in Nat /\ Word > 0
  BY DEF Word
<1>2. h \in Nat /\ h < Word /\ l \in Nat /\ l < Word /\ n = h * Word + l
  BY <1>1, DivBelow
<1> DEFINE x == PutUint16(h)
           y == PutUint16(l)
<1>3. t = x \o y
  BY DEF PutUint32
<1> HIDE DEF t, h, l
<1>4. x \in Seq(Octets) /\ Len(x) = 2 /\ x[1] \in Octets /\ x[2] \in Octets /\ x[1] * Octet + x[2] = h
  BY <1>2, Put16
<1>5. y \in Seq(Octets) /\ Len(y) = 2 /\ y[1] \in Octets /\ y[2] \in Octets /\ y[1] * Octet + y[2] = l
  BY <1>2, Put16
<1> HIDE DEF x, y
<1>6. Joined(Octets, t, x, y)
  BY <1>3, <1>4, <1>5, Concat
<1>7. /\ t \in Seq(Octets) /\ Len(t) = 2 + 2
      /\ \A k \in 1 .. 2 : t[k] = x[k]
      /\ \A k \in 1 .. 2 : t[2 + k] = y[k]
  BY <1>4, <1>5, <1>6 DEF Joined
<1>8. t[1] = x[1] /\ t[2] = x[2] /\ t[3] = y[1] /\ t[4] = y[2] /\ Len(t) = 4
  <2>1. 1 \in 1 .. 2 /\ 2 \in 1 .. 2 /\ 2 + 1 = 3 /\ 2 + 2 = 4
    OBVIOUS
  <2> QED BY <1>7, <2>1
<1>9. (t[1] * Octet + t[2]) * Word + (t[3] * Octet + t[4]) = n
  BY <1>2, <1>4, <1>5, <1>8
<1> QED BY <1>4, <1>5, <1>7, <1>8, <1>9 DEF t

\* The integer of four octets, and the octets of it.
LEMMA Join32 ==
  ASSUME Octet \in Nat, Octet > 0,
         NEW x \in Octets, NEW y \in Octets, NEW z \in Octets, NEW u \in Octets
  PROVE  LET n == (x * Octet + y) * Word + (z * Octet + u)
         IN  n \in Nat /\ n < Word * Word /\ PutUint32(n) = <<x, y>> \o <<z, u>>
<1> DEFINE h == x * Octet + y
           l == z * Octet + u
<1>1. h \in Nat /\ h < Word /\ PutUint16(h) = <<x, y>> /\ l \in Nat /\ l < Word /\ PutUint16(l) = <<z, u>>
  BY Join16
<1>2. Word \in Nat /\ Word > 0
  BY DEF Word
<1> HIDE DEF h, l
<1>3. h * Word + l \in Nat /\ h * Word + l < Word * Word
  BY <1>1, <1>2, SumBelow
<1>4. (h * Word + l) \div Word = h /\ (h * Word + l) % Word = l
  BY <1>1, <1>2, DivMod
<1>5. PutUint32(h * Word + l) = <<x, y>> \o <<z, u>>
  BY <1>1, <1>4, Zenon DEF PutUint32
<1> QED BY <1>3, <1>5 DEF h, l
------------------------------------------------------------------------------
(* Three pieces.                                                             *)

\* f consists of p, v and w: where Go's slice expressions find them.
ThreeParts(f, p, v, w) ==
  /\ Len(f) = Len(p) + Len(v) + Len(w)
  /\ \A k \in 1 .. Len(p) : f[k] = p[k]
  /\ SubSeq(f, Len(p) + 1, Len(p) + Len(v)) = v
  /\ SubSeq(f, Len(p) + Len(v) + 1, Len(f)) = w

\* A frame of a head, a value and a rest, taken apart.
LEMMA ThreeTaken ==
  ASSUME NEW D, NEW p \in Seq(D), NEW v \in Seq(D), NEW w \in Seq(D)
  PROVE  p \o v \o w \in Seq(D) /\ ThreeParts(p \o v \o w, p, v, w)
<1> DEFINE g == p \o v
           f == g \o w
           m == Len(p)
           n == Len(v)
<1>1. Joined(D, g, p, v)
  BY Concat
<1> HIDE DEF g
<1>2. g \in Seq(D) /\ Len(g) = m + n /\ m \in Nat /\ n \in Nat
      /\ (\A k \in 1 .. m : g[k] = p[k]) /\ (\A k \in 1 .. n : g[m + k] = v[k])
  BY <1>1 DEF Joined
<1>3. Joined(D, f, g, w)
  BY <1>2, Concat
<1> HIDE DEF f
<1>4. f \in Seq(D) /\ Len(f) = m + n + Len(w) /\ \A k \in 1 .. m + n : f[k] = g[k]
  BY <1>2, <1>3 DEF Joined
<1>5. SubSeq(f, m + n + 1, Len(f)) = w
  <2>1. SubSeq(f, Len(g) + 1, Len(f)) = w
    BY <1>2, <1>3, DropFirst, SMTT(60)
  <2> QED BY <1>2, <2>1
<1>6. \A k \in 1 .. m : f[k] = p[k]
  <2> HIDE DEF m, n
  <2>1. \A k \in 1 .. m : k \in 1 .. m + n
    BY <1>2
  <2> QED BY <1>2, <1>4, <2>1, Zenon
<1>7. SubSeq(f, m + 1, m + n) = v
  <2> HIDE DEF m, n
  <2> DEFINE x == SubSeq(f, m + 1, m + n)
  <2>1. x \in Seq(D) /\ Len(x) = n /\ \A k \in 1 .. n : x[k] = f[m + k]
    BY <1>2, <1>4
  <2> HIDE DEF x
  <2>2. \A k \in 1 .. n : m + k \in 1 .. m + n
    BY <1>2
  <2>3. \A k \in 1 .. n : x[k] = v[k]
    BY <1>2, <1>4, <2>1, <2>2
  <2>4. Len(v) = n
    BY DEF n
  <2>5. x = v
    BY <2>1, <2>3, <2>4, SameElements
  <2> QED BY <2>5 DEF x
<1>8. ThreeParts(f, p, v, w)
  BY <1>4, <1>5, <1>6, <1>7, Zenon DEF ThreeParts
<1> QED BY <1>4, <1>8 DEF f, g

\* d[:m], d[m:n] and d[n:] put together are d.
LEMMA ThreeJoined ==
  ASSUME NEW D, NEW d \in Seq(D), NEW n \in 0 .. Len(d), NEW m \in 0 .. n
  PROVE  SubSeq(d, 1, m) \o SubSeq(d, m + 1, n) \o SubSeq(d, n + 1, Len(d)) = d
<1> DEFINE p == SubSeq(d, 1, m)
           v == SubSeq(d, m + 1, n)
           g == SubSeq(d, 1, n)
           w == SubSeq(d, n + 1, Len(d))
<1>1. /\ g \in Seq(D) /\ w \in Seq(D) /\ Joined(D, d, g, w)
  BY SplitAt
<1>2. /\ p \in Seq(D) /\ Len(p) = m /\ \A k \in 1 .. m : p[k] = d[k]
      /\ Len(g) = n /\ \A k \in 1 .. n : g[k] = d[k]
  OBVIOUS
<1>3. v \in Seq(D) /\ Len(v) = n - m /\ \A k \in 1 .. n - m : v[k] = d[m + k]
  OBVIOUS
<1> HIDE DEF p, v, g, w
<1>4. Joined(D, g, p, v)
  <2>1. \A k \in 1 .. m : g[k] = p[k]
    BY <1>2
  <2>2. ASSUME NEW k \in 1 .. n - m PROVE g[m + k] = v[k]
    <3>1. m + k \in 1 .. n
      OBVIOUS
    <3> QED BY <1>2, <1>3, <3>1, Zenon
  <2> QED BY <1>1, <1>2, <1>3, <2>1, <2>2 DEF Joined
<1>5. p \o v = g
  BY <1>2, <1>3, <1>4, JoinedIsConcat, Zenon
<1>6. g \o w = d
  BY <1>1, JoinedIsConcat
<1> QED BY <1>5, <1>6, Zenon DEF p, v, g, w
==============================================================================

------------------------- MODULE MessageObjectsProofs -------------------------
(***************************************************************************)
(* Proofs about MessageObjects for any number of payloads and messages and *)
(* any growth of arrays: type correctness, what lists and payloads hold,   *)
(* and that the octets of 3GPP payloads can be read back.                  *)
(***************************************************************************)
EXTENDS MessageObjects, SequenceTheorems, OctetLemmas

\* What the builders are given.
Gifts == Seq(Part) \cup Seq(Seq(Octets))
           \cup ({1} \X Seq(Octets) \X BOOLEAN \X Seq(Octets))

\* A slice of one of the arrays arr, and what it reads as.
InArray(s, arr) ==
  /\ s \in [array: 0 .. Len(arr), len: Nat]
  /\ s.len > 0 => s.array > 0 /\ s.len <= Len(arr[s.array])
Read(s, arr) == IF s.len = 0 THEN <<>> ELSE SubSeq(arr[s.array], 1, s.len)

\* The arrays of elements of S; a name of its own keeps the nested Seq from the provers.
Array(S) == Seq(S)

\* No attribute lacks its value.
Complete(parts) == \A i \in 1 .. Len(parts) : parts[i].form # "empty"

\* The data of a 3GPP payload can be read back to what it was given (VendorDataReadable).
QoSReads(d, gift) ==
  /\ d[1] = Len(d)
  /\ LET n == d[3] IN
       gift = <<d[2], SubSeq(d, 4, 3 + n), d[4 + n] \div DCSI = 1,
                IF d[4 + n] % DCSI = DSCPI THEN <<d[5 + n]>> ELSE <<>>>>
NASReads(d, gift) == gift = <<SubSeq(d, 5, 4 + Uint16(d, 2))>>
Readable(object, gift) ==
  /\ object.kind = "QoS" => QoSReads(object.octets, gift)
  /\ object.kind = "NAS" => NASReads(object.octets, gift)

\* The objects: payloads hold copies of what they were given.
ObjectsInv ==
  /\ buffer \in Data
  /\ objects \in Seq(Objects) /\ given \in Seq(Gifts) /\ Len(given) = Len(objects)
  /\ \A o \in 1 .. Len(objects) :
       /\ objects[o].kind \in {"data", "list", "TS"} => ~ objects[o].shared /\ objects[o].parts = given[o]
       /\ Complete(objects[o].parts) /\ Readable(objects[o], given[o])

\* The lists of objects.
SlicesInv ==
  /\ arrays \in Seq(Array(0 .. Len(objects)))
  /\ InArray(container, arrays)
  /\ messages \in Seq([array: Nat, len: Nat])
  /\ \A m \in 1 .. Len(messages) : InArray(messages[m], arrays)
  /\ built \in Seq(1 .. Len(objects))
  /\ made \in Seq(Array(1 .. Len(objects))) /\ Len(made) = Len(messages)

\* The array into which the next append to the container writes is shared only
\* with messages that end before the place it writes to: Reset gives the array up.
SharedInv ==
  \A m \in 1 .. Len(messages) :
    container.array > 0 /\ messages[m].array = container.array => messages[m].len <= container.len

ListsInv == SlicesInv /\ SharedInv /\ ListsKept

\* The inductive invariant behind ListsKept, ContentKept and FilledEncodes.
IInv == ObjectsInv /\ ListsInv

------------------------------------------------------------------------------
(* append.                                                                   *)

\* Array is Seq.
LEMMA ArrayDef ==
  ASSUME NEW S
  PROVE  \A a : a \in Array(S) <=> a \in Seq(S)
BY DEF Array

\* What a slice reads as is a sequence of its length.
LEMMA ReadType ==
  ASSUME NEW S, NEW arr \in Seq(Array(S)), NEW s, InArray(s, arr)
  PROVE  Read(s, arr) \in Seq(S) /\ Len(Read(s, arr)) = s.len
         /\ \A i \in 1 .. s.len : Read(s, arr)[i] = arr[s.array][i]
<1>1. CASE s.len = 0
  BY <1>1 DEF Read
<1>2. CASE s.len # 0
  <2>1. arr[s.array] \in Seq(S) /\ s.len \in 1 .. Len(arr[s.array])
    BY <1>2, ArrayDef DEF InArray
  <2>2. \A i \in 1 .. s.len : arr[s.array][i] \in S
    BY <2>1, ElementOfSeq
  <2> QED
    BY <1>2, <2>1, <2>2, SubSeqProperties DEF Read
<1> QED
  BY <1>1, <1>2

\* The slice and the arrays after an append in place.
LongerSlice(s) == [s EXCEPT !.len = @ + 1]
Stored(s, arr, e) == [arr EXCEPT ![s.array][s.len + 1] = e]

\* append in place: the slice grows by one element, and a slice of another array,
\* or one that ends before the new element, reads as before.
LEMMA AppendInPlace ==
  ASSUME NEW S, NEW arr \in Seq(Array(S)), NEW s, InArray(s, arr), NEW e \in S,
         s.array > 0, s.len < Len(arr[s.array])
  PROVE  LET t == LongerSlice(s)
             bs == Stored(s, arr, e)
         IN  /\ bs \in Seq(Array(S)) /\ Len(bs) = Len(arr)
             /\ InArray(t, bs) /\ t.array = s.array /\ t.len = s.len + 1
             /\ Read(t, bs) = Append(Read(s, arr), e)
             /\ \A u : InArray(u, arr) =>
                  /\ InArray(u, bs)
                  /\ (u.array = s.array => u.len <= s.len) => Read(u, bs) = Read(u, arr)
<1> DEFINE t == LongerSlice(s)
           a == arr[s.array]
           b == [a EXCEPT ![s.len + 1] = e]
           bs == Stored(s, arr, e)
<1>1. /\ s.array \in 1 .. Len(arr) /\ s.len \in Nat /\ a \in Seq(S)
      /\ s.len + 1 \in 1 .. Len(a)
  BY ArrayDef DEF InArray
<1>2. /\ b \in Seq(S) /\ Len(b) = Len(a)
      /\ \A j \in 1 .. Len(a) : b[j] = IF j = s.len + 1 THEN e ELSE a[j]
  BY <1>1, ExceptSeq
<1>3. /\ bs \in Seq(Array(S)) /\ Len(bs) = Len(arr) /\ bs[s.array] = b
      /\ \A j \in 1 .. Len(arr) : j # s.array => bs[j] = arr[j]
  <2>1. bs = [arr EXCEPT ![s.array] = b] /\ b \in Array(S)
    BY <1>1, <1>2, ArrayDef, Zenon DEF Stored
  <2> HIDE DEF b, bs
  <2> QED
    BY <1>1, <2>1
<1>4. InArray(t, bs) /\ t.array = s.array /\ t.len = s.len + 1
  BY <1>1, <1>2, <1>3, SMTT(60) DEF InArray, LongerSlice
<1> HIDE DEF t, b, bs
<1>5. Read(t, bs) = Append(Read(s, arr), e)
  <2>1. /\ Read(t, bs) \in Seq(S) /\ Len(Read(t, bs)) = s.len + 1
        /\ \A i \in 1 .. s.len + 1 : Read(t, bs)[i] = b[i]
    BY <1>3, <1>4, ReadType
  <2>2. /\ Read(s, arr) \in Seq(S) /\ Len(Read(s, arr)) = s.len
        /\ \A i \in 1 .. s.len : Read(s, arr)[i] = a[i]
    BY ReadType
  <2>3. /\ Append(Read(s, arr), e) \in Seq(S) /\ Len(Append(Read(s, arr), e)) = s.len + 1
        /\ \A i \in 1 .. s.len : Append(Read(s, arr), e)[i] = a[i]
        /\ Append(Read(s, arr), e)[s.len + 1] = e
    BY <2>2, AppendProperties
  <2>4. \A i \in 1 .. s.len + 1 : Read(t, bs)[i] = Append(Read(s, arr), e)[i]
    <3>1. ASSUME NEW i \in 1 .. s.len + 1
          PROVE  Read(t, bs)[i] = Append(Read(s, arr), e)[i]
      <4>1. CASE i = s.len + 1
        BY <1>1, <1>2, <2>1, <2>3, <4>1
      <4>2. CASE i # s.len + 1
        <5>1. i \in 1 .. s.len /\ i \in 1 .. Len(a)
          BY <1>1, <4>2
        <5>2. b[i] = a[i]
          BY <1>2, <4>2, <5>1
        <5> QED
          BY <2>1, <2>3, <5>1, <5>2
      <4> QED
        BY <4>1, <4>2, Zenon
    <3> QED
      BY <3>1, Zenon
  <2> QED
    BY <2>1, <2>3, <2>4, SeqEqual, SMTT(60)
<1>6. ASSUME NEW u, InArray(u, arr)
      PROVE  /\ InArray(u, bs)
             /\ (u.array = s.array => u.len <= s.len) => Read(u, bs) = Read(u, arr)
  <2>1. InArray(u, bs)
    <3>1. Len(bs) = Len(arr) /\ \A j \in 1 .. Len(arr) : Len(bs[j]) = Len(arr[j])
      BY <1>1, <1>2, <1>3, SMTT(60)
    <3>2. Len(arr) \in Nat
      BY LenProperties
    <3> QED
      BY <1>6, <3>1, <3>2 DEF InArray
  <2>2. ASSUME u.array = s.array => u.len <= s.len
        PROVE  Read(u, bs) = Read(u, arr)
    <3>1. /\ Read(u, bs) \in Seq(S) /\ Len(Read(u, bs)) = u.len
          /\ \A i \in 1 .. u.len : Read(u, bs)[i] = bs[u.array][i]
      BY <1>3, <2>1, ReadType
    <3>2. /\ Read(u, arr) \in Seq(S) /\ Len(Read(u, arr)) = u.len
          /\ \A i \in 1 .. u.len : Read(u, arr)[i] = arr[u.array][i]
      BY <1>6, ReadType
    <3>3. u.len \in Nat /\ u.array \in Nat
          /\ (u.len > 0 => u.array \in 1 .. Len(arr) /\ u.len <= Len(arr[u.array]))
      BY <1>6 DEF InArray
    <3>4. \A i \in 1 .. u.len : bs[u.array][i] = arr[u.array][i]
      <4>1. CASE u.array # s.array
        BY <1>3, <3>3, <4>1
      <4>2. CASE u.array = s.array
        <5>1. \A i \in 1 .. u.len : i \in 1 .. Len(a) /\ i # s.len + 1
          BY <1>1, <2>2, <3>3, <4>2
        <5>2. \A i \in 1 .. u.len : b[i] = a[i]
          BY <1>2, <5>1, SMTT(60)
        <5> QED
          BY <1>3, <4>2, <5>2
      <4> QED
        BY <4>1, <4>2
    <3>5. \A i \in 1 .. Len(Read(u, bs)) : Read(u, bs)[i] = Read(u, arr)[i]
      BY <3>1, <3>2, <3>4
    <3> QED
      BY <3>1, <3>2, <3>5, SeqEqual
  <2> QED
    BY <2>1, <2>2
<1> QED
  BY <1>3, <1>4, <1>5, <1>6 DEF t, bs

\* append into a new array: no other slice is affected.
LEMMA AppendNew ==
  ASSUME NEW S, NEW arr \in Seq(Array(S)), NEW s, InArray(s, arr), NEW e \in S,
         NEW z \in Seq(S)
  PROVE  LET t == [array |-> Len(arr) + 1, len |-> s.len + 1]
             bs == Append(arr, Read(s, arr) \o <<e>> \o z)
         IN  /\ bs \in Seq(Array(S)) /\ Len(bs) = Len(arr) + 1
             /\ InArray(t, bs)
             /\ Read(t, bs) = Append(Read(s, arr), e)
             /\ \A u : InArray(u, arr) => InArray(u, bs) /\ Read(u, bs) = Read(u, arr)
<1> DEFINE t == [array |-> Len(arr) + 1, len |-> s.len + 1]
           a == Append(Read(s, arr), e)
           b == Read(s, arr) \o <<e>> \o z
           bs == Append(arr, b)
<1>1. Read(s, arr) \in Seq(S) /\ Len(Read(s, arr)) = s.len /\ s.len \in Nat
  BY ReadType DEF InArray
<1>2. /\ a \in Seq(S) /\ Len(a) = s.len + 1
      /\ a = Read(s, arr) \o <<e>>
  BY <1>1, AppendProperties, AppendIsConcat
<1>3. /\ b \in Seq(S) /\ Len(b) >= s.len + 1 /\ Len(b) \in Nat
      /\ \A i \in 1 .. s.len + 1 : b[i] = a[i]
  <2>1. b = a \o z
    BY <1>2
  <2> HIDE DEF a, b
  <2>2. a \in Seq(S)
    BY <1>2
  <2>3. /\ a \o z \in Seq(S) /\ Len(a \o z) = Len(a) + Len(z)
        /\ \A i \in 1 .. Len(a) + Len(z) : (a \o z)[i] = IF i <= Len(a) THEN a[i] ELSE z[i - Len(a)]
    BY <2>2, ConcatProperties
  <2>4. Len(z) \in Nat /\ Len(a) = s.len + 1
    BY <1>2, LenProperties
  <2> QED
    BY <1>1, <2>1, <2>3, <2>4, SMTT(60)
<1> HIDE DEF a, b
<1>4. /\ bs \in Seq(Array(S)) /\ Len(bs) = Len(arr) + 1 /\ bs[Len(arr) + 1] = b
      /\ \A j \in 1 .. Len(arr) : bs[j] = arr[j]
  <2>1. b \in Array(S)
    BY <1>3, ArrayDef
  <2> QED
    BY <2>1, AppendProperties
<1>5. InArray(t, bs) /\ t.array = Len(arr) + 1 /\ t.len = s.len + 1
  <2>1. Len(arr) + 1 \in 0 .. Len(bs) /\ s.len + 1 \in Nat /\ Len(arr) \in Nat
    BY <1>1, <1>4, LenProperties
  <2> HIDE DEF bs
  <2> QED
    BY <1>3, <1>4, <2>1 DEF InArray
<1> HIDE DEF t, bs
<1>6. Read(t, bs) = a
  <2>1. /\ Read(t, bs) \in Seq(S) /\ Len(Read(t, bs)) = s.len + 1
        /\ \A i \in 1 .. s.len + 1 : Read(t, bs)[i] = b[i]
    BY <1>4, <1>5, ReadType, SMTT(60)
  <2>2. \A i \in 1 .. Len(a) : Read(t, bs)[i] = a[i]
    BY <1>2, <1>3, <2>1
  <2> QED
    BY <1>2, <2>1, <2>2, SeqEqual, Zenon
<1>7. ASSUME NEW u, InArray(u, arr)
      PROVE  InArray(u, bs) /\ Read(u, bs) = Read(u, arr)
  <2>1. /\ u \in [array: Nat, len: Nat] /\ u.array <= Len(arr) /\ Len(arr) \in Nat
        /\ u.len > 0 => u.array \in 1 .. Len(arr) /\ u.len <= Len(arr[u.array])
    BY <1>7, LenProperties DEF InArray
  <2>2. u.len > 0 => bs[u.array] = arr[u.array]
    BY <1>4, <2>1
  <2> QED
    BY <1>4, <2>1, <2>2 DEF InArray, Read
<1> QED
  BY <1>4, <1>5, <1>6, <1>7, SMTT(60) DEF t, a, b, bs

\* append of an object to a slice of arrays, wherever it is put: the result r, and
\* what becomes of the other slices.
IsAppended(r, s, e, S) ==
  /\ r.arrays \in Seq(Array(S))
  /\ InArray(r.slice, r.arrays) /\ r.slice.len = s.len + 1
  /\ Read(r.slice, r.arrays) = Append(Read(s, arrays), e)
  /\ \A u : InArray(u, arrays) =>
       /\ InArray(u, r.arrays)
       /\ (s.array > 0 /\ u.array = s.array => u.len <= s.len) => Read(u, r.arrays) = Read(u, arrays)
       /\ u.array = r.slice.array => s.array > 0 /\ u.array = s.array

\* Every outcome of append is one of these.
LEMMA AppendedSlices ==
  ASSUME NEW S, 0 \in S, arrays \in Seq(Array(S)), NEW s, InArray(s, arrays),
         NEW e \in S, NEW r \in Appended(s, e)
  PROVE  IsAppended(r, s, e, S)
<1>1. s.array \in Nat /\ s.len \in Nat
  BY DEF InArray
<1>2. CASE s.array # 0 /\ s.len < Len(arrays[s.array])
  <2>1. r.slice = LongerSlice(s) /\ r.arrays = Stored(s, arrays, e)
    BY <1>2 DEF Appended, LongerSlice, Stored
  <2>2. s.array > 0
    BY <1>1, <1>2
  <2>3. /\ r.arrays \in Seq(Array(S))
        /\ InArray(r.slice, r.arrays) /\ r.slice.len = s.len + 1 /\ r.slice.array = s.array
        /\ Read(r.slice, r.arrays) = Append(Read(s, arrays), e)
        /\ \A u : InArray(u, arrays) =>
              /\ InArray(u, r.arrays)
              /\ (u.array = s.array => u.len <= s.len) => Read(u, r.arrays) = Read(u, arrays)
    <3>1. s.len < Len(arrays[s.array])
      BY <1>2
    <3> QED
      BY <2>1, <2>2, <3>1, AppendInPlace
  <2> QED
    BY <2>2, <2>3 DEF IsAppended
<1>3. CASE ~ (s.array # 0 /\ s.len < Len(arrays[s.array]))
  <2>1. PICK n \in 0 .. Spare :
          /\ r.slice = [array |-> Len(arrays) + 1, len |-> s.len + 1]
          /\ r.arrays = Append(arrays, Elements(s) \o <<e>> \o Zeros(n))
    <3>1. r \in {[slice |-> [array |-> Len(arrays) + 1, len |-> s.len + 1],
                  arrays |-> Append(arrays, Elements(s) \o <<e>> \o Zeros(n))] : n \in 0 .. Spare}
      BY <1>3, Zenon DEF Appended
    <3>2. PICK n \in 0 .. Spare :
            r = [slice |-> [array |-> Len(arrays) + 1, len |-> s.len + 1],
                 arrays |-> Append(arrays, Elements(s) \o <<e>> \o Zeros(n))]
      BY <3>1, Zenon
    <3> QED
      BY <3>2, Zenon
  <2>2. Zeros(n) \in Seq(S)
    BY ObjectAssumption DEF Zeros
  <2>3. r.arrays = Append(arrays, Read(s, arrays) \o <<e>> \o Zeros(n))
    BY <2>1 DEF Elements, Read
  <2>4. /\ r.arrays \in Seq(Array(S)) /\ InArray(r.slice, r.arrays)
        /\ Read(r.slice, r.arrays) = Append(Read(s, arrays), e)
        /\ \A u : InArray(u, arrays) => InArray(u, r.arrays) /\ Read(u, r.arrays) = Read(u, arrays)
    <3> DEFINE t == [array |-> Len(arrays) + 1, len |-> s.len + 1]
               bs == Append(arrays, Read(s, arrays) \o <<e>> \o Zeros(n))
    <3>1. /\ bs \in Seq(Array(S)) /\ InArray(t, bs)
          /\ Read(t, bs) = Append(Read(s, arrays), e)
          /\ \A u : InArray(u, arrays) => InArray(u, bs) /\ Read(u, bs) = Read(u, arrays)
      BY <2>2, AppendNew
    <3>2. r.slice = t /\ r.arrays = bs
      BY <2>1, <2>3, Zenon
    <3> HIDE DEF t, bs
    <3> QED
      BY <3>1, <3>2
  <2>5. r.slice.len = s.len + 1 /\ r.slice.array = Len(arrays) + 1 /\ Len(arrays) \in Nat
    BY <2>1, LenProperties
  <2>6. \A u : InArray(u, arrays) => u.array # r.slice.array
    BY <2>5 DEF InArray
  <2> QED
    BY <2>4, <2>5, <2>6 DEF IsAppended
<1> QED
  BY <1>2, <1>3

------------------------------------------------------------------------------
(* The lists.                                                                *)

\* A longer heap has the same lists.
LEMMA Longer ==
  ASSUME NEW n \in Nat, NEW m \in Nat, n <= m
  PROVE  /\ \A t \in Seq(1 .. n) : t \in Seq(1 .. m)
         /\ \A t \in Seq(Array(1 .. n)) : t \in Seq(Array(1 .. m))
         /\ \A t \in Seq(Array(0 .. n)) : t \in Seq(Array(0 .. m))
<1>1. 1 .. n \subseteq 1 .. m /\ 0 .. n \subseteq 0 .. m
  OBVIOUS
<1>2. Array(1 .. n) \subseteq Array(1 .. m)
  BY <1>1, SeqMonotonic DEF Array
<1>3. Array(0 .. n) \subseteq Array(0 .. m)
  BY <1>1, SeqMonotonic DEF Array
<1>4. \A t \in Seq(1 .. n) : t \in Seq(1 .. m)
  BY <1>1, SeqMonotonic
<1>5. \A t \in Seq(Array(1 .. n)) : t \in Seq(Array(1 .. m))
  BY <1>2, SeqMonotonic
<1>6. \A t \in Seq(Array(0 .. n)) : t \in Seq(Array(0 .. m))
  BY <1>3, SeqMonotonic
<1> QED
  BY <1>4, <1>5, <1>6

\* Elements in terms of Read, before and after a step.
LEMMA ElementsRead ==
  /\ \A s : Elements(s) = Read(s, arrays)
  /\ Elements(container)' = Read(container', arrays')
  /\ \A m : Elements(messages[m])' = Read(messages'[m], arrays')
BY DEF Elements, Read

\* The builders: container = append(container, payload).
LEMMA PutLists ==
  ASSUME ListsInv, objects \in Seq(Objects), NEW object \in Objects, NEW gift, Put(object, gift)
  PROVE  ListsInv'
<1> DEFINE N == Len(objects) + 1
<1>1. /\ Len(objects) \in Nat /\ Len(objects') = N /\ N \in Nat
      /\ built' = Append(built, N) /\ messages' = messages /\ made' = made
  BY LenProperties, AppendProperties DEF Put
<1>2. PICK r \in Appended(container, N) : container' = r.slice /\ arrays' = r.arrays
  BY DEF Put
<1> HIDE DEF N
<1>3. arrays \in Seq(Array(0 .. N)) /\ built \in Seq(1 .. N) /\ made \in Seq(Array(1 .. N))
  <2>1. Len(objects) <= N
    BY <1>1 DEF N
  <2> QED
    BY <1>1, <2>1, Longer DEF ListsInv, SlicesInv
<1>4. /\ arrays' \in Seq(Array(0 .. N))
      /\ InArray(container', arrays') /\ container'.len = container.len + 1
      /\ Read(container', arrays') = Append(Read(container, arrays), N)
      /\ \A u : InArray(u, arrays) =>
           /\ InArray(u, arrays')
           /\ (container.array > 0 /\ u.array = container.array => u.len <= container.len)
                => Read(u, arrays') = Read(u, arrays)
           /\ u.array = container'.array => container.array > 0 /\ u.array = container.array
  <2>1. InArray(container, arrays) /\ N \in 0 .. N /\ 0 \in 0 .. N
    BY <1>1 DEF ListsInv, SlicesInv
  <2>2. IsAppended(r, container, N, 0 .. N)
    BY <1>2, <1>3, <2>1, AppendedSlices, Zenon
  <2> QED
    BY <1>2, <2>2 DEF IsAppended
<1>5. \A m \in 1 .. Len(messages) :
        /\ InArray(messages[m], arrays) /\ Read(messages[m], arrays) = made[m]
        /\ container.array > 0 /\ messages[m].array = container.array => messages[m].len <= container.len
  BY ElementsRead DEF ListsInv, SlicesInv, SharedInv, ListsKept
<1>6. SlicesInv'
  <2>1. built' \in Seq(1 .. N)
    BY <1>1, <1>3, AppendProperties DEF N
  <2> QED
    BY <1>1, <1>3, <1>4, <1>5, <2>1 DEF ListsInv, SlicesInv
<1>7. SharedInv'
  <2>1. container.len \in Nat /\ \A m \in 1 .. Len(messages) : messages[m].len \in Nat
    BY <1>5 DEF ListsInv, SlicesInv, InArray
  <2> QED
    BY <1>1, <1>4, <1>5, <2>1, SMTT(60) DEF SharedInv
<1>8. ListsKept'
  <2>1. Elements(container)' = built'
    BY <1>1, <1>4, ElementsRead DEF ListsInv, ListsKept
  <2>2. ASSUME NEW m \in 1 .. Len(messages)
        PROVE  Elements(messages[m])' = made'[m]
    BY <1>1, <1>4, <1>5, ElementsRead, Zenon
  <2> QED
    BY <1>1, <2>1, <2>2 DEF ListsKept
<1> QED
  BY <1>6, <1>7, <1>8 DEF ListsInv

\* encryptMsg: the payloads of a message are replaced by one, in a new array.
LEMMA EncodeLists ==
  ASSUME ListsInv, objects \in Seq(Objects), NEW m \in 1 .. Len(messages), EncodeEncrypt(m)
  PROVE  ListsInv'
<1> DEFINE N == Len(objects) + 1
<1>1. Len(objects) \in Nat /\ N \in Nat
  BY LenProperties
<1>2. PICK r \in Appended(Slice0, N) :
        messages' = [messages EXCEPT ![m] = r.slice] /\ arrays' = r.arrays
  BY Zenon DEF EncodeEncrypt, Reset
<1>3. /\ Len(objects') = N /\ made' = [made EXCEPT ![m] = <<N>>]
      /\ UNCHANGED <<container, built>>
  <2>1. New("SK", <<>>, <<>>) \in Objects
    BY DEF New, Objects
  <2> QED
    BY <2>1, AppendProperties DEF EncodeEncrypt
<1> HIDE DEF N
<1>4. arrays \in Seq(Array(0 .. N)) /\ built \in Seq(1 .. N) /\ made \in Seq(Array(1 .. N))
  <2>1. Len(objects) <= N
    BY <1>1 DEF N
  <2> QED
    BY <1>1, <2>1, Longer DEF ListsInv, SlicesInv
<1>5. /\ arrays' \in Seq(Array(0 .. N))
      /\ InArray(r.slice, arrays') /\ r.slice.len = 1
      /\ Read(r.slice, arrays') = <<N>>
      /\ \A u : InArray(u, arrays) =>
           InArray(u, arrays') /\ Read(u, arrays') = Read(u, arrays) /\ u.array # r.slice.array
  <2>1. /\ InArray(Slice0, arrays) /\ Slice0.len = 0 /\ Slice0.array = 0
        /\ Read(Slice0, arrays) = <<>> /\ N \in 0 .. N /\ 0 \in 0 .. N
    BY <1>1, <1>4, LenProperties DEF Slice0, InArray, Read
  <2>2. IsAppended(r, Slice0, N, 0 .. N)
    BY <1>2, <1>4, <2>1, AppendedSlices, Zenon
  <2> QED
    BY <1>2, <2>1, <2>2 DEF IsAppended
<1>6. \A k \in 1 .. Len(messages) :
        /\ InArray(messages[k], arrays) /\ Read(messages[k], arrays) = made[k]
        /\ container.array > 0 /\ messages[k].array = container.array => messages[k].len <= container.len
  BY ElementsRead DEF ListsInv, SlicesInv, SharedInv, ListsKept
<1>7. InArray(container, arrays) /\ Read(container, arrays) = built
  BY ElementsRead DEF ListsInv, SlicesInv, ListsKept
<1>8. /\ messages \in Seq([array: Nat, len: Nat]) /\ Len(made) = Len(messages)
      /\ r.slice \in [array: Nat, len: Nat] /\ <<N>> \in Array(1 .. N)
  <2>1. r.slice \in [array: 0 .. Len(arrays'), len: Nat] /\ Len(arrays') \in Nat
    BY <1>5, LenProperties DEF InArray
  <2>2. <<N>> \in Seq(1 .. N)
    BY <1>1 DEF N
  <2>3. <<N>> \in Array(1 .. N)
    BY <2>2, ArrayDef, Zenon
  <2>4. r.slice \in [array: Nat, len: Nat]
    BY <2>1
  <2> QED
    BY <2>3, <2>4 DEF ListsInv, SlicesInv
<1>9. /\ messages' \in Seq([array: Nat, len: Nat]) /\ Len(messages') = Len(messages)
      /\ messages'[m] = r.slice /\ \A k \in 1 .. Len(messages) : k # m => messages'[k] = messages[k]
  BY <1>2, <1>8, ExceptSeq
<1>10. /\ made' \in Seq(Array(1 .. N)) /\ Len(made') = Len(messages)
       /\ made'[m] = <<N>> /\ \A k \in 1 .. Len(messages) : k # m => made'[k] = made[k]
  BY <1>3, <1>4, <1>8, ExceptSeq, SMTT(60)
<1>11. SlicesInv'
  BY <1>3, <1>4, <1>5, <1>6, <1>7, <1>9, <1>10, Zenon DEF SlicesInv
<1>12. SharedInv'
  BY <1>3, <1>5, <1>6, <1>7, <1>9, Zenon DEF SharedInv
<1>13. ListsKept'
  <2>1. Elements(container)' = built'
    BY <1>3, <1>5, <1>7, ElementsRead
  <2>2. ASSUME NEW k \in 1 .. Len(messages)
        PROVE  Elements(messages[k])' = made'[k]
    <3>1. Elements(messages[k])' = Read(messages'[k], arrays')
      BY ElementsRead
    <3> QED
      BY <1>5, <1>6, <1>9, <1>10, <3>1, Zenon
  <2> QED
    BY <1>9, <2>1, <2>2, SMTT(60) DEF ListsKept
<1> QED
  BY <1>11, <1>12, <1>13 DEF ListsInv

\* Actions that leave the lists and the number of objects alone.
LEMMA FrameLists ==
  ASSUME ListsInv, Len(objects') = Len(objects), UNCHANGED <<arrays, container, messages, built, made>>
  PROVE  ListsInv'
BY Zenon DEF ListsInv, SlicesInv, SharedInv, ListsKept, Elements

\* container.Reset() lets go of the array.
LEMMA ResetLists ==
  ASSUME ListsInv, ResetContainer
  PROVE  ListsInv'
<1>1. container' = Slice0 /\ built' = <<>> /\ UNCHANGED <<objects, arrays, messages, made>>
  BY DEF ResetContainer, Reset
<1>2. Slice0.array = 0 /\ Slice0.len = 0 /\ InArray(Slice0, arrays)
  BY LenProperties DEF Slice0, InArray, ListsInv, SlicesInv
<1>3. SlicesInv' /\ SharedInv'
  BY <1>1, <1>2 DEF ListsInv, SlicesInv, SharedInv
<1>4. ListsKept'
  BY <1>1, <1>2 DEF ListsInv, ListsKept, Elements
<1> QED
  BY <1>3, <1>4 DEF ListsInv

\* NewMessage copies the container's slice.
LEMMA NewMessageLists ==
  ASSUME ListsInv, NewMessage
  PROVE  ListsInv'
<1> DEFINE M == Len(messages) + 1
<1>1. /\ messages' = Append(messages, container) /\ made' = Append(made, built)
      /\ UNCHANGED <<objects, arrays, container, built>>
  BY DEF NewMessage
<1>2. /\ container \in [array: Nat, len: Nat] /\ InArray(container, arrays)
      /\ built \in Array(1 .. Len(objects)) /\ Elements(container) = built
  <2>1. Len(arrays) \in Nat
    BY LenProperties DEF ListsInv, SlicesInv
  <2> QED
    BY <2>1, ArrayDef DEF ListsInv, SlicesInv, ListsKept, InArray
<1>3. /\ messages' \in Seq([array: Nat, len: Nat]) /\ Len(messages') = M /\ messages'[M] = container
      /\ \A m \in 1 .. Len(messages) : messages'[m] = messages[m]
  BY <1>1, <1>2, AppendProperties DEF ListsInv, SlicesInv
<1>4. /\ made' \in Seq(Array(1 .. Len(objects))) /\ Len(made') = M /\ made'[M] = built
      /\ \A m \in 1 .. Len(messages) : made'[m] = made[m]
  <2>1. made \in Seq(Array(1 .. Len(objects))) /\ Len(made) = Len(messages)
    BY DEF ListsInv, SlicesInv
  <2> QED
    BY <1>1, <1>2, <2>1, AppendProperties
<1>5. Len(messages) \in Nat /\ \A m \in 1 .. Len(messages') : m = M \/ m \in 1 .. Len(messages)
  BY <1>3, LenProperties DEF ListsInv, SlicesInv
<1>6. \A m \in 1 .. Len(messages) :
        /\ InArray(messages[m], arrays) /\ Elements(messages[m]) = made[m]
        /\ container.array > 0 /\ messages[m].array = container.array => messages[m].len <= container.len
  BY SMTT(60) DEF ListsInv, SlicesInv, SharedInv, ListsKept
<1> HIDE DEF M
<1>7. SlicesInv'
  BY <1>1, <1>2, <1>3, <1>4, <1>5, <1>6 DEF ListsInv, SlicesInv
<1>8. SharedInv'
  BY <1>1, <1>2, <1>3, <1>5, <1>6, SMTT(60) DEF SharedInv
<1>9. ListsKept'
  <2>1. \A m \in 1 .. Len(messages') : Elements(messages[m])' = made'[m]
    BY <1>1, <1>2, <1>3, <1>4, <1>5, <1>6, Zenon DEF Elements
  <2>2. Elements(container)' = built'
    BY <1>1, <1>2 DEF Elements
  <2> QED
    BY <2>1, <2>2 DEF ListsKept
<1> QED
  BY <1>7, <1>8, <1>9 DEF ListsInv

------------------------------------------------------------------------------
(* The objects.                                                              *)

\* The parts that builders make are parts, complete, and may be given.
LEMMA ElementTypes ==
  /\ buffer \in Data => Plain \in Part /\ Plain.form = "none" /\ <<Plain>> \in Seq(Part)
  /\ Seq(Part) \subseteq Gifts
  /\ <<>> \in Seq(Part) /\ Complete(<<>>)
BY DEF Plain, Part, Forms, Gifts, Complete

\* A new object on the heap.
LEMMA AppendObject ==
  ASSUME ObjectsInv, NEW object \in Objects, NEW gift \in Gifts,
         objects' = Append(objects, object), given' = Append(given, gift), buffer' = buffer,
         object.kind \in {"data", "list", "TS"} => ~ object.shared /\ object.parts = gift,
         Complete(object.parts), Readable(object, gift)
  PROVE  ObjectsInv'
<1> DEFINE N == Len(objects) + 1
<1>1. objects' = Append(objects, object) /\ given' = Append(given, gift) /\ buffer' = buffer
  OBVIOUS
<1>2. /\ objects' \in Seq(Objects) /\ Len(objects') = N /\ objects'[N] = object
      /\ \A o \in 1 .. Len(objects) : objects'[o] = objects[o]
  BY <1>1, AppendProperties DEF ObjectsInv
<1>3. /\ given' \in Seq(Gifts) /\ Len(given') = N /\ given'[N] = gift
      /\ \A o \in 1 .. Len(objects) : given'[o] = given[o]
  BY <1>1, AppendProperties DEF ObjectsInv
<1>4. \A o \in 1 .. Len(objects') : o = N \/ o \in 1 .. Len(objects)
  BY <1>2, LenProperties DEF ObjectsInv
<1> HIDE DEF N
<1> QED
  BY <1>1, <1>2, <1>3, <1>4 DEF ObjectsInv

\* Replacing the parts of a list, and what it was given, by the same sequence.
LEMMA PartsObjects ==
  ASSUME ObjectsInv, NEW o \in 1 .. Len(objects), objects[o].kind \in {"list", "TS"},
         NEW parts \in Seq(Part), Complete(parts),
         objects' = [objects EXCEPT ![o] = [objects[o] EXCEPT !.parts = parts]],
         given' = [given EXCEPT ![o] = parts], buffer' = buffer
  PROVE  ObjectsInv' /\ Len(objects') = Len(objects)
<1> DEFINE ob == [objects[o] EXCEPT !.parts = parts]
<1>1. objects[o] \in Objects
  BY DEF ObjectsInv
<1>2. ob \in Objects /\ ob.parts = parts /\ ob.kind = objects[o].kind /\ ob.shared = objects[o].shared
  BY <1>1, Zenon DEF Objects
<1>3. ~ objects[o].shared /\ Readable(ob, parts)
  BY <1>2 DEF ObjectsInv, Readable
<1> HIDE DEF ob
<1>4. /\ objects' \in Seq(Objects) /\ Len(objects') = Len(objects)
      /\ \A q \in 1 .. Len(objects) : objects'[q] = IF q = o THEN ob ELSE objects[q]
  BY <1>2, ExceptSeq DEF ObjectsInv, ob
<1>5. /\ given' \in Seq(Gifts) /\ Len(given') = Len(given)
      /\ \A q \in 1 .. Len(given) : given'[q] = IF q = o THEN parts ELSE given[q]
  BY ElementTypes, ExceptSeq DEF ObjectsInv
<1> QED
  <2>1. ASSUME NEW q \in 1 .. Len(objects)
        PROVE  /\ objects'[q].kind \in {"data", "list", "TS"} =>
                    ~ objects'[q].shared /\ objects'[q].parts = given'[q]
               /\ Complete(objects'[q].parts) /\ Readable(objects'[q], given'[q])
    <3>1. CASE q = o
      BY <1>2, <1>3, <1>4, <1>5, <3>1, ZenonT(60) DEF ObjectsInv
    <3>2. CASE q # o
      <4>1. objects'[q] = objects[q] /\ given'[q] = given[q]
        BY <1>4, <1>5, <3>2 DEF ObjectsInv
      <4> QED BY <4>1 DEF ObjectsInv
    <3> QED BY <3>1, <3>2
  <2> QED BY <1>4, <1>5, <2>1 DEF ObjectsInv

\* BuildPart and BuildTransform add a complete part to a list.
LEMMA AddPartObjects ==
  ASSUME ObjectsInv, NEW o \in 1 .. Len(objects), objects[o].kind \in {"list", "TS"},
         NEW part \in Part, part.form # "empty", AddPart(o, part)
  PROVE  ObjectsInv' /\ Len(objects') = Len(objects)
<1> DEFINE parts == Append(objects[o].parts, part)
<1>1. /\ objects[o].parts \in Seq(Part) /\ given[o] = objects[o].parts
      /\ Complete(objects[o].parts)
  <2>1. objects[o] \in Objects
    BY DEF ObjectsInv
  <2> QED
    BY <2>1 DEF ObjectsInv, Objects
<1>2. parts \in Seq(Part) /\ Complete(parts)
  BY <1>1, SMTT(60) DEF Complete
<1>3. objects' = [objects EXCEPT ![o] = [objects[o] EXCEPT !.parts = parts]]
  BY DEF AddPart, ObjectsInv
<1>4. given' = [given EXCEPT ![o] = parts] /\ buffer' = buffer
  BY <1>1 DEF AddPart, ObjectsInv
<1> HIDE DEF parts
<1> QED
  BY <1>2, <1>3, <1>4, PartsObjects, Zenon

\* The octets of the 3GPP payloads are octets.
LEMMA VendorTypes ==
  /\ \A session \in {1}, qfis \in QFIs, isDefault \in BOOLEAN, dscp \in DSCPs :
       /\ QoSInfo(session, qfis, isDefault, dscp) \in Seq(Octets)
       /\ <<session, qfis, isDefault, dscp>> \in Gifts
  /\ \A nas \in NASPDUs :
       /\ <<EAP5GType5GNAS, 0>> \o PutUint16(Len(nas)) \o nas \in Seq(Octets)
       /\ <<nas>> \in Gifts
  /\ \A code \in Codes : <<code>> \in Seq(Octets)
  /\ <<EapCodeRequest, EAP5GType5GStart, 0>> \in Seq(Octets)
<1> USE ObjectAssumption
<1>1. \A n \in Int : n % Octet \in Octets
  BY DEF Octets
<1>2. {0, 1, 2, 3, 4} \subseteq Octets
  BY DEF Octets
<1>3. ASSUME NEW session \in {1}, NEW qfis \in QFIs, NEW isDefault \in BOOLEAN,
             NEW dscp \in DSCPs
      PROVE  /\ QoSInfo(session, qfis, isDefault, dscp) \in Seq(Octets)
             /\ <<session, qfis, isDefault, dscp>> \in Gifts
  <2> DEFINE flags == (IF isDefault THEN DCSI ELSE 0) + (IF dscp = <<>> THEN 0 ELSE DSCPI)
             tail == <<flags>> \o dscp
             head == <<(3 + Len(qfis) + Len(tail)) % Octet, session, Len(qfis) % Octet>>
  <2>1. qfis \in Seq(Octets) /\ Len(qfis) \in Nat
    BY LenProperties
  <2>2. dscp \in Seq(Octets)
    <3>1. 3 \in Octets /\ <<>> \in Seq(Octets)
      BY <1>2
    <3>2. \A o \in Octets : <<o>> \in Seq(Octets)
      OBVIOUS
    <3>3. dscp = <<>> \/ (dscp # <<>> /\ \E o \in {3} : dscp = <<o>>)
      BY DEF DSCPs
    <3> QED
      BY <3>1, <3>2, <3>3, Zenon
  <2>3. flags \in Octets
    BY <1>2 DEF DCSI, DSCPI
  <2> HIDE DEF flags
  <2>4. tail \in Seq(Octets) /\ Len(tail) \in Nat
    BY <2>2, <2>3
  <2> HIDE DEF tail
  <2>5. head \in Seq(Octets)
    <3>1. (3 + Len(qfis) + Len(tail)) % Octet \in Octets /\ Len(qfis) % Octet \in Octets
      <4>1. 3 + Len(qfis) + Len(tail) \in Int /\ Len(qfis) \in Int
        BY <2>1, <2>4
      <4> QED
        BY <1>1, <4>1, Zenon
    <3> QED
      BY <1>2, <3>1
  <2>6. QoSInfo(session, qfis, isDefault, dscp) = head \o qfis \o tail
    BY DEF QoSInfo, tail, flags
  <2> HIDE DEF head
  <2>7. head \o qfis \o tail \in Seq(Octets)
    BY <2>1, <2>4, <2>5
  <2>8. <<session, qfis, isDefault, dscp>> \in {1} \X Seq(Octets) \X BOOLEAN \X Seq(Octets)
    BY <2>1, <2>2
  <2> QED
    BY <2>6, <2>7, <2>8 DEF Gifts
<1>4. ASSUME NEW nas \in NASPDUs
      PROVE  /\ <<EAP5GType5GNAS, 0>> \o PutUint16(Len(nas)) \o nas \in Seq(Octets)
             /\ <<nas>> \in Gifts
  <2>1. nas \in Seq(Octets) /\ Len(nas) \in Nat
    BY LenProperties
  <2>2. PutUint16(Len(nas)) \in Seq(Octets)
    <3>1. Len(nas) \div Octet \in Int
      BY <2>1
    <3>2. (Len(nas) \div Octet) % Octet \in Octets
      BY <1>1, <3>1, Zenon
    <3>3. Len(nas) % Octet \in Octets
      BY <1>1, <2>1
    <3> QED
      BY <3>2, <3>3 DEF PutUint16
  <2>3. <<EAP5GType5GNAS, 0>> \in Seq(Octets)
    BY <1>2 DEF EAP5GType5GNAS
  <2>4. <<nas>> \in Seq(Array(Octets))
    BY <2>1, ArrayDef
  <2> QED
    BY <2>1, <2>2, <2>3, <2>4 DEF Gifts, Array
<1>5. \A code \in Codes : <<code>> \in Seq(Octets)
  BY <1>2
<1>6. <<EapCodeRequest, EAP5GType5GStart, 0>> \in Seq(Octets)
  BY <1>2 DEF EapCodeRequest, EAP5GType5GStart
<1> QED
  BY <1>3, <1>4, <1>5, <1>6

\* A NAS message of a length that fits 16 bits (build.go:260).
LEMMA NASRead ==
  ASSUME NEW nas \in NASPDUs, Len(nas) \in 1 .. Max16
  PROVE  NASReads(<<EAP5GType5GNAS, 0>> \o PutUint16(Len(nas)) \o nas, <<nas>>)
<1> DEFINE n == Len(nas)
           h == PutUint16(n)
           d == <<EAP5GType5GNAS, 0>> \o h \o nas
           x == h[1]
           y == h[2]
<1>0. Octet \in Nat /\ Octet > 4 /\ nas \in Seq(Octets)
  BY ObjectAssumption
<1>1. n \in Nat /\ n < Word
  BY <1>0 DEF Max16, Word
<1>2. x \in Octets /\ y \in Octets /\ x * Octet + y = n
  BY <1>0, <1>1, Put16
<1>3. h = <<x, y>>
  BY DEF PutUint16
<1>4. EAP5GType5GNAS \in Octets /\ 0 \in Octets
  BY <1>0 DEF Octets, EAP5GType5GNAS
<1> HIDE DEF h, x, y
<1>5. /\ d \in Seq(Octets) /\ Len(d) = 4 + n /\ d[3] = x /\ d[4] = y
      /\ \A k \in 1 .. n : d[4 + k] = nas[k]
  BY <1>0, <1>2, <1>3, <1>4, FourAndRest
<1> HIDE DEF d
<1>6. Uint16(d, 2) = n
  BY <1>2, <1>5 DEF Uint16
<1> DEFINE s == SubSeq(d, 4 + 1, 4 + n)
<1>7. 4 + n <= Len(d)
  BY <1>1, <1>5
<1>8. IsSlice(Octets, s, d, 4, n)
  BY <1>1, <1>5, <1>7, SliceOf
<1>9. SubSeq(d, 5, 4 + Uint16(d, 2)) = s
  BY <1>6
<1> HIDE DEF s
<1>10. s \in Seq(Octets) /\ Len(s) = Len(nas) /\ \A k \in 1 .. Len(nas) : s[k] = nas[k]
  BY <1>5, <1>8 DEF IsSlice
<1>11. s = nas
  BY <1>0, <1>10, SameElements
<1> QED BY <1>9, <1>11, Zenon DEF NASReads, d, h

\* QoS information whose length and list fit one octet (build.go:285, 307).
LEMMA QoSRead ==
  ASSUME NEW session \in {1}, NEW qfis \in QFIs, NEW isDefault \in BOOLEAN, NEW dscp \in DSCPs,
         ~ QoSInfoTooLong(QoSInfo(session, qfis, isDefault, dscp), qfis)
  PROVE  QoSReads(QoSInfo(session, qfis, isDefault, dscp), <<session, qfis, isDefault, dscp>>)
<1> DEFINE flags == (IF isDefault THEN DCSI ELSE 0) + (IF dscp = <<>> THEN 0 ELSE DSCPI)
           tail == <<flags>> \o dscp
           all == 3 + Len(qfis) + Len(tail)
           n == Len(qfis)
           head == <<all % Octet, session, n % Octet>>
           d == head \o qfis \o tail
<1>0. Octet \in Nat /\ Octet > 4 /\ qfis \in Seq(Octets)
  BY ObjectAssumption
<1>1. QoSInfo(session, qfis, isDefault, dscp) = d
  BY DEF QoSInfo
<1>2. d \in Seq(Octets)
  BY <1>1, VendorTypes, Zenon
<1>3. flags \in Nat /\ flags < 4 /\ (flags \div DCSI = 1 <=> isDefault) /\ (flags % DCSI = DSCPI <=> dscp # <<>>)
  BY DEF DCSI, DSCPI
<1>4. dscp = <<>> \/ dscp = <<3>>
  BY DEF DSCPs
<1>5. flags \in Octets /\ 3 \in Octets
  BY <1>0, <1>3 DEF Octets
<1> HIDE DEF flags
<1>6. /\ tail \in Seq(Octets) /\ Len(tail) \in 1 .. 2 /\ tail[1] = flags
      /\ dscp # <<>> => Len(tail) = 2 /\ dscp = <<tail[2]>>
  <2> DEFINE f == <<flags>>
  <2>1. f \in Seq(Octets) /\ Len(f) = 1 /\ f[1] = flags
    BY <1>5
  <2>2. CASE dscp = <<>>
    <3>1. dscp \in Seq(Octets) /\ Len(dscp) = 0
      BY <2>2
    <3>2. Joined(Octets, tail, f, dscp)
      BY <2>1, <3>1, Concat, Zenon
    <3> HIDE DEF f, tail
    <3> QED BY <2>1, <2>2, <3>1, <3>2 DEF Joined
  <2>3. CASE dscp = <<3>>
    <3>1. dscp \in Seq(Octets) /\ Len(dscp) = 1 /\ dscp[1] = 3
      BY <1>5, <2>3
    <3>2. Joined(Octets, tail, f, dscp)
      BY <2>1, <3>1, Concat, Zenon
    <3> HIDE DEF f, tail
    <3>3. tail \in Seq(Octets) /\ Len(tail) = 2 /\ tail[1] = flags /\ tail[2] = 3
      BY <2>1, <3>1, <3>2 DEF Joined
    <3> QED BY <2>3, <3>3
  <2> QED BY <1>4, <2>2, <2>3
<1> HIDE DEF tail
<1>7. n \in Nat /\ all \in Nat
  BY <1>0, <1>6
<1>8. n % Octet \in Octets /\ all % Octet \in Octets /\ session \in Octets
  BY <1>0, <1>7 DEF Octets
<1>9. head \in Seq(Octets) /\ Len(head) = 3 /\ head[1] = all % Octet /\ head[2] = session /\ head[3] = n % Octet
  BY <1>8
<1> HIDE DEF head
<1>10. ThreeParts(d, head, qfis, tail)
  BY <1>0, <1>6, <1>9, ThreeTaken
<1> HIDE DEF d
<1>11. /\ Len(d) = all /\ (\A k \in 1 .. 3 : d[k] = head[k])
       /\ SubSeq(d, 3 + 1, 3 + n) = qfis /\ SubSeq(d, 3 + n + 1, Len(d)) = tail
  BY <1>9, <1>10 DEF ThreeParts
<1>12. d[1] = all % Octet /\ d[2] = session /\ d[3] = n % Octet
  BY <1>9, <1>11
<1>13. all < Octet /\ n < Octet
  BY <1>0, <1>1, <1>7, <1>11 DEF QoSInfoTooLong, Max8
<1>14. d[1] = Len(d) /\ d[3] = n
  <2>1. \A k \in Nat : k < Octet => k % Octet = k
    BY <1>0
  <2> HIDE DEF all, n
  <2> QED BY <1>7, <1>11, <1>12, <1>13, <2>1
<1>15. IsSlice(Octets, SubSeq(d, 3 + n + 1, 3 + n + Len(tail)), d, 3 + n, Len(tail))
  <2>1. 3 + n \in Nat /\ Len(tail) \in Nat /\ 3 + n + Len(tail) <= Len(d)
    BY <1>6, <1>7, <1>11
  <2> QED BY <1>2, <1>1, <2>1, SliceOf
<1>16. tail[1] = d[4 + n] /\ (Len(tail) = 2 => tail[2] = d[5 + n])
  <2>1. \A k \in 1 .. Len(tail) : tail[k] = d[3 + n + k]
    BY <1>11, <1>15, Zenon DEF IsSlice
  <2>2. 3 + n + 1 = 4 + n /\ 3 + n + 2 = 5 + n
    BY <1>7
  <2> QED BY <1>6, <2>1, <2>2
<1>17. (d[4 + n] \div DCSI = 1) = isDefault
  BY <1>3, <1>6, <1>16
<1>18. (IF d[4 + n] % DCSI = DSCPI THEN <<d[5 + n]>> ELSE <<>>) = dscp
  BY <1>3, <1>6, <1>16
<1>19. SubSeq(d, 4, 3 + n) = qfis
  BY <1>11
<1> QED BY <1>1, <1>12, <1>14, <1>17, <1>18, <1>19, SMTT(60) DEF QoSReads

\* Every builder puts a well-formed object into the container.
IsBuild(object, gift) ==
  /\ object \in Objects /\ gift \in Gifts /\ Put(object, gift)
  /\ object.kind \in {"data", "list", "TS"} => ~ object.shared /\ object.parts = gift
  /\ Complete(object.parts) /\ Readable(object, gift)

\* The builders of build.go are such calls.
LEMMA BuildIsPut ==
  ASSUME ObjectsInv,
         \/ BuildPayload \/ BuildList \/ BuildDeletePayload \/ BuildEAP
         \/ BuildNotify5G_QOS_INFO \/ BuildNotifyAddress \/ BuildEAP5GStart \/ BuildEAP5GNAS
  PROVE  \E object, gift : IsBuild(object, gift)
<1>1. /\ <<Plain>> \in Seq(Part) /\ <<Plain>> \in Gifts /\ Complete(<<Plain>>)
      /\ <<>> \in Seq(Part) /\ <<>> \in Gifts /\ Complete(<<>>) /\ <<>> \in Seq(Octets)
  <2>1. Plain.form = "none" /\ <<Plain>> \in Seq(Part)
    BY ElementTypes DEF ObjectsInv
  <2> HIDE DEF Plain
  <2>2. Complete(<<Plain>>)
    BY <2>1 DEF Complete
  <2>3. <<>> \in Seq(Part) /\ Complete(<<>>) /\ <<>> \in Seq(Octets)
    BY ElementTypes
  <2>4. \A ps \in Seq(Part) : ps \in Gifts
    BY ElementTypes
  <2> QED
    BY <2>1, <2>2, <2>3, <2>4, Zenon
<1>2. ASSUME NEW k \in {"data", "list", "TS", "EAP", "delete", "SK", "QoS", "NAS"},
             NEW ps \in Seq(Part), NEW os \in Seq(Octets), NEW g \in Gifts,
             Put(New(k, ps, os), g), Complete(ps), k \in {"data", "list", "TS"} => ps = g,
             k = "QoS" => QoSReads(os, g), k = "NAS" => NASReads(os, g)
      PROVE  \E object, gift : IsBuild(object, gift)
  <2>1. /\ New(k, ps, os) \in Objects /\ New(k, ps, os).kind = k
        /\ New(k, ps, os).parts = ps /\ New(k, ps, os).shared = FALSE /\ New(k, ps, os).octets = os
    BY DEF New, Objects
  <2>2. IsBuild(New(k, ps, os), g)
    BY <1>2, <2>1 DEF IsBuild, Readable
  <2> QED
    BY <2>2
<1>3. CASE BuildPayload
  <2>1. Put(New("data", <<Plain>>, <<>>), <<Plain>>)
    BY <1>3 DEF BuildPayload
  <2> QED
    BY <1>1, <1>2, <2>1, Zenon
<1>4. CASE BuildList
  <2>1. PICK k \in {"list", "TS"} : Put(New(k, <<>>, <<>>), <<>>)
    BY <1>4 DEF BuildList
  <2> QED
    BY <1>1, <1>2, <2>1, Zenon
<1>5. CASE BuildDeletePayload
  <2> DEFINE ob == [New("delete", <<>>, <<>>) EXCEPT !.shared = TRUE]
  <2>1. ob \in Objects /\ ob.kind = "delete" /\ ob.parts = <<>>
    BY <1>1, Zenon DEF New, Objects
  <2>2. Put(ob, <<Plain>>)
    BY <1>5 DEF BuildDeletePayload
  <2> HIDE DEF ob
  <2>3. IsBuild(ob, <<Plain>>)
    BY <1>1, <2>1, <2>2 DEF IsBuild, Readable
  <2> QED
    BY <2>3
<1>6. CASE BuildEAP
  <2>1. PICK code \in Codes : Put(New("EAP", <<>>, <<code>>), <<>>)
    BY <1>6 DEF BuildEAP
  <2>2. <<code>> \in Seq(Octets)
    BY VendorTypes
  <2> QED
    BY <1>1, <1>2, <2>1, <2>2, Zenon
<1>7. CASE BuildNotify5G_QOS_INFO
  <2>1. PICK session \in {1}, qfis \in QFIs, isDefault \in BOOLEAN, dscp \in DSCPs :
          /\ ~ QoSInfoTooLong(QoSInfo(session, qfis, isDefault, dscp), qfis)
          /\ Put(New("QoS", <<>>, QoSInfo(session, qfis, isDefault, dscp)), <<session, qfis, isDefault, dscp>>)
    BY <1>7 DEF BuildNotify5G_QOS_INFO
  <2> DEFINE os == QoSInfo(session, qfis, isDefault, dscp)
             g == <<session, qfis, isDefault, dscp>>
  <2>2. os \in Seq(Octets) /\ g \in Gifts
    BY VendorTypes
  <2>3. QoSReads(os, g)
    BY <2>1, QoSRead
  <2> HIDE DEF os, g
  <2> QED
    BY <1>1, <1>2, <2>1, <2>2, <2>3, Zenon DEF os, g
<1>8. CASE BuildNotifyAddress
  <2>1. PICK ps \in {<<Plain>>, <<>>} : Put(New("data", ps, <<>>), ps)
    BY <1>8, Zenon DEF BuildNotifyAddress
  <2>2. ps \in Seq(Part) /\ ps \in Gifts /\ Complete(ps)
    BY <1>1, Zenon
  <2> QED
    BY <1>1, <1>2, <2>1, <2>2, Zenon
<1>9. CASE BuildEAP5GStart
  <2>1. Put(New("EAP", <<>>, <<EapCodeRequest, EAP5GType5GStart, 0>>), <<>>)
    BY <1>9 DEF BuildEAP5GStart
  <2> QED
    BY <1>1, <1>2, <2>1, VendorTypes, Zenon
<1>10. CASE BuildEAP5GNAS
  <2>1. PICK nas \in NASPDUs :
          /\ Len(nas) \in 1 .. Max16
          /\ Put(New("NAS", <<>>, <<EAP5GType5GNAS, 0>> \o PutUint16(Len(nas)) \o nas), <<nas>>)
    BY <1>10 DEF BuildEAP5GNAS
  <2>2. <<EAP5GType5GNAS, 0>> \o PutUint16(Len(nas)) \o nas \in Seq(Octets) /\ <<nas>> \in Gifts
    BY VendorTypes
  <2>3. NASReads(<<EAP5GType5GNAS, 0>> \o PutUint16(Len(nas)) \o nas, <<nas>>)
    BY <2>1, NASRead
  <2> QED
    BY <1>1, <1>2, <2>1, <2>2, <2>3, Zenon
<1> QED
  BY <1>3, <1>4, <1>5, <1>6, <1>7, <1>8, <1>9, <1>10

------------------------------------------------------------------------------
(* The invariant.                                                            *)

\* At the beginning there is nothing on the heap.
LEMMA InitIInv == Init => IInv
<1> SUFFICES ASSUME Init PROVE IInv
  OBVIOUS
<1>1. ObjectsInv
  BY DEF Init, ObjectsInv
<1>2. SlicesInv
  BY DEF Init, SlicesInv, InArray, Slice0
<1>3. SharedInv /\ ListsKept
  BY DEF Init, SharedInv, ListsKept, Elements, Slice0
<1> QED
  BY <1>1, <1>2, <1>3 DEF IInv, ListsInv

\* Every call preserves the invariant.
LEMMA NextIInv == IInv /\ [Next]_vars => IInv'
<1> SUFFICES ASSUME IInv, [Next]_vars PROVE IInv'
  OBVIOUS
<1>0. ObjectsInv /\ ListsInv /\ objects \in Seq(Objects)
  BY DEF IInv, ObjectsInv
<1>1. CASE UNCHANGED vars
  BY <1>0, <1>1, FrameLists, SMTT(60) DEF IInv, vars, ObjectsInv
<1>2. CASE ResetContainer
  BY <1>0, <1>2, ResetLists, SMTT(60) DEF IInv, ResetContainer, ObjectsInv
<1>3. CASE NewMessage
  BY <1>0, <1>3, NewMessageLists, SMTT(60) DEF IInv, NewMessage, ObjectsInv
<1>4. CASE ReuseBuffer
  BY <1>0, <1>4, FrameLists DEF IInv, ReuseBuffer, ObjectsInv
<1>5. CASE \/ BuildPayload \/ BuildList \/ BuildDeletePayload \/ BuildEAP
           \/ BuildNotify5G_QOS_INFO \/ BuildNotifyAddress \/ BuildEAP5GStart \/ BuildEAP5GNAS
  <2>1. PICK object, gift : IsBuild(object, gift)
    BY <1>0, <1>5, BuildIsPut
  <2>2. /\ object \in Objects /\ gift \in Gifts /\ Put(object, gift) /\ Complete(object.parts)
        /\ Readable(object, gift)
        /\ object.kind \in {"data", "list", "TS"} => ~ object.shared /\ object.parts = gift
    BY <2>1 DEF IsBuild
  <2>3. objects' = Append(objects, object) /\ given' = Append(given, gift) /\ buffer' = buffer
    BY <2>2 DEF Put
  <2>4. ObjectsInv'
    BY <1>0, <2>2, <2>3, AppendObject
  <2>5. ListsInv'
    BY <1>0, <2>2, PutLists
  <2> QED
    BY <2>4, <2>5 DEF IInv
<1>6. ASSUME NEW o \in 1 .. Len(objects), BuildPart(o)
      PROVE  IInv'
  <2>1. Plain \in Part /\ Plain.form # "empty"
    BY <1>0, ElementTypes DEF ObjectsInv
  <2>2. objects[o].kind \in {"list", "TS"} /\ AddPart(o, Plain)
    BY <1>6 DEF BuildPart
  <2>3. UNCHANGED <<arrays, container, messages, built, made>>
    BY <2>2 DEF AddPart
  <2> HIDE DEF Plain
  <2> QED
    BY <1>0, <2>1, <2>2, <2>3, AddPartObjects, FrameLists, SMTT(60) DEF IInv
<1>7. ASSUME NEW o \in 1 .. Len(objects), BuildTransform(o)
      PROVE  IInv'
  <2>1. PICK form \in Forms : form # "empty" /\ AddPart(o, [data |-> buffer, form |-> form])
    <3>1. \A type, value, variable \in BOOLEAN : Form(type, value, variable) \in Forms
      BY DEF Form, Forms
    <3> QED
      BY <1>7, <3>1 DEF BuildTransform
  <2> DEFINE part == [data |-> buffer, form |-> form]
  <2>2. part \in Part /\ part.form # "empty"
    BY <1>0, <2>1 DEF Part, ObjectsInv
  <2>3. AddPart(o, part) /\ objects[o].kind \in {"list", "TS"}
    BY <1>7, <2>1 DEF BuildTransform
  <2>4. UNCHANGED <<arrays, container, messages, built, made>>
    BY <2>3 DEF AddPart
  <2> HIDE DEF part
  <2> QED
    BY <1>0, <2>2, <2>3, <2>4, AddPartObjects, FrameLists, SMTT(60) DEF IInv
<1>8. ASSUME NEW o \in 1 .. Len(objects), ResetParts(o)
      PROVE  IInv'
  <2>1. /\ objects' = [objects EXCEPT ![o] = [objects[o] EXCEPT !.parts = <<>>]]
        /\ given' = [given EXCEPT ![o] = <<>>] /\ buffer' = buffer
        /\ objects[o].kind \in {"list", "TS"}
        /\ UNCHANGED <<arrays, container, messages, built, made>>
    BY <1>0, <1>8 DEF ResetParts
  <2>2. <<>> \in Seq(Part) /\ Complete(<<>>)
    BY ElementTypes
  <2>3. ObjectsInv' /\ Len(objects') = Len(objects)
    BY <1>0, <2>1, <2>2, PartsObjects, Zenon
  <2> QED
    BY <1>0, <2>1, <2>3, FrameLists DEF IInv
<1>9. ASSUME NEW m \in 1 .. Len(messages), EncodeEncrypt(m)
      PROVE  IInv'
  <2> DEFINE ob == New("SK", <<>>, <<>>)
  <2>1. ob \in Objects /\ ob.kind = "SK" /\ ob.parts = <<>> /\ Readable(ob, <<>>)
    BY DEF New, Objects, Readable
  <2>2. objects' = Append(objects, ob) /\ given' = Append(given, <<>>) /\ buffer' = buffer
    BY <1>9 DEF EncodeEncrypt
  <2>3. <<>> \in Gifts /\ Complete(<<>>)
    BY ElementTypes, Zenon
  <2> HIDE DEF ob
  <2>4. ObjectsInv'
    BY <1>0, <2>1, <2>2, <2>3, AppendObject
  <2> QED
    BY <1>0, <1>9, <2>4, EncodeLists, SMTT(60) DEF IInv
<1> QED
  BY <1>1, <1>2, <1>3, <1>4, <1>5, <1>6, <1>7, <1>8, <1>9 DEF Next

\* The invariant holds in every state.
LEMMA IInvHolds == Spec => []IInv
BY InitIInv, NextIInv, PTL DEF Spec

------------------------------------------------------------------------------

\* Every object, array and slice stays well formed, whatever is built in whatever
\* order (build.go).
THEOREM TypeCorrect == Spec => []TypeOK
<1>1. IInv => TypeOK
  <2> SUFFICES ASSUME IInv PROVE TypeOK
    OBVIOUS
  <2>1. /\ buffer \in Data /\ objects \in Seq(Objects) /\ Len(given) = Len(objects)
        /\ built \in Seq(1 .. Len(objects))
    BY DEF IInv, ObjectsInv, ListsInv, SlicesInv
  <2>2. made \in Seq(Seq(1 .. Len(objects)))
    BY DEF IInv, ListsInv, SlicesInv, Array
  <2>3. \A a \in 1 .. Len(arrays) : arrays[a] \in Seq(0 .. Len(objects))
    <3>1. \A a \in 1 .. Len(arrays) : arrays[a] \in Array(0 .. Len(objects))
      BY ElementOfSeq DEF IInv, ListsInv, SlicesInv
    <3> QED
      BY <3>1, ArrayDef
  <2>4. container \in Slices /\ (container.len > 0 => container.len <= Len(arrays[container.array]))
    BY DEF IInv, ListsInv, SlicesInv, InArray, Slices
  <2>5. \A m \in 1 .. Len(messages) :
          messages[m] \in Slices /\ (messages[m].len > 0 => messages[m].len <= Len(arrays[messages[m].array]))
    BY DEF IInv, ListsInv, SlicesInv, InArray, Slices
  <2>6. messages \in Seq(Slices)
    <3>1. messages \in [1 .. Len(messages) -> Slices] /\ Len(messages) \in Nat
      BY <2>5, LenProperties DEF IInv, ListsInv, SlicesInv
    <3> QED
      BY <3>1
  <2> QED
    BY <2>1, <2>2, <2>3, <2>4, <2>5, <2>6 DEF TypeOK
<1> QED
  BY <1>1, IInvHolds, PTL

\* The container and every message list exactly what was put into them, in spite of
\* the arrays they share (build.go:13, ike.go:272), for any number of payloads and
\* messages and whatever capacity append leaves.
THEOREM ListsKeptHolds == Spec => []ListsKept
<1>1. IInv => ListsKept
  BY SMTT(60) DEF IInv, ListsInv
<1> QED
  BY <1>1, IInvHolds, PTL

\* The payloads hold what their builders were given (build.go:25 to 188), whatever
\* the caller does with its buffer.
THEOREM ContentKeptHolds == Spec => []ContentKept
<1>1. IInv => ContentKept
  BY SMTT(60) DEF IInv, ObjectsInv, ContentKept, Holds
<1> QED
  BY <1>1, IInvHolds, PTL

\* No sequence of builders leaves a payload with parts that Marshal refuses
\* (build.go:192).
THEOREM FilledEncodesHolds == Spec => []FilledEncodes
<1>1. IInv => FilledEncodes
  BY SMTT(60) DEF IInv, ObjectsInv, FilledEncodes, Encodes, Complete
<1> QED
  BY <1>1, IInvHolds, PTL

\* The data of the 3GPP payloads can be read back with the lengths and counts they
\* hold, whatever lists and messages the builders accept (build.go:260, 285, 307).
THEOREM VendorDataReadableHolds == Spec => []VendorDataReadable
<1>1. IInv => VendorDataReadable
  BY Zenon DEF IInv, ObjectsInv, VendorDataReadable, Readable, QoSReads, NASReads
<1> QED
  BY <1>1, IInvHolds, PTL
==============================================================================

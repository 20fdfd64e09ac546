------------------------------ MODULE IKEProofs ------------------------------
(***************************************************************************)
(* Proofs about IKE for every set of keys, key shapes, headers and payload *)
(* lists: type correctness, Authenticity, RoundTrip, and the refinement of *)
(* SecureChannel.                                                          *)
(***************************************************************************)
EXTENDS IKE, TLAPS

\* The only checksum ever computed for the i-th encryption.
MacOf(i) == [key |-> enc[i].key, obj |-> IntegKey(enc[i].by), hdr |-> enc[i].hdr,
             next |-> Type(enc[i].payloads), ct |-> i]

\* p is an Encrypted payload as encryptMsg leaves it, finished or not.
AsSealed(p) ==
  /\ p.ct \in 1 .. Len(enc)
  /\ p.next = Type(enc[p.ct].payloads)
  /\ p.mac = IF enc[p.ct].done THEN {MacOf(p.ct)} ELSE {}

EncInv == \A i \in 1 .. Len(enc) : /\ enc[i].obj = EncrKey(enc[i].by)
                                   /\ enc[i].payloads # Garbage

MsgInv == \A r \in Role : msg[r] # nil => /\ msg[r].payloads # Garbage
                                          /\ msg[r].payloads \notin Plain => AsSealed(msg[r].payloads)

\* Whatever happened to a datagram, a checksum on it is one that a finished call
\* computed; an intact datagram is one that IKEMessage.Encode produced.
NetInv == \A d \in net :
  /\ d.payloads \notin Plain => \A m \in d.payloads.mac :
       m.ct \in 1 .. Len(enc) /\ enc[m.ct].done /\ m = MacOf(m.ct)
  /\ d.intact => /\ d.np = Type(d.payloads)
                 /\ d.payloads \notin Plain => AsSealed(d.payloads)

\* The inductive invariant behind Authenticity and RoundTrip.
IInv == TypeOK /\ EncInv /\ MsgInv /\ NetInv

------------------------------------------------------------------------------

\* The helpers the actions are built from stay within their types.
LEMMA HelperTypes ==
  /\ \A r \in Role : /\ Other(r) \in Role /\ Other(r) # r /\ Other(Other(r)) = r
                     /\ IntegKey(r) \in {"Integ_i", "Integ_r"}
                     /\ EncrKey(r) \in {"Encr_i", "Encr_r"}
                     /\ DecrKey(r) = EncrKey(Other(r))
  /\ \A r, s \in Role : IntegKey(r) = IntegKey(s) => r = s
  /\ \A p \in Payloads : Type(p) \in Types /\ (Type(p) = "SK" <=> p \notin Plain)
  /\ \A t \in Types, p \in Payloads : Decode(t, p) \subseteq Payloads \cup {Malformed}
BY ConstantsAssumption, SentinelAssumption
   DEF Role, Other, IntegKey, EncrKey, DecrKey, Type, Payloads, Decode, Empty

\* enc only grows: an encryption, its checksum and what is known of an Encrypted
\* payload built from it stay as they are when encryptPayload appends another.
LEMMA AppendKeeps ==
  ASSUME enc \in Seq(Encryption), NEW e \in Encryption, enc' = Append(enc, e)
  PROVE  /\ enc' \in Seq(Encryption)
         /\ Len(enc) \in Nat /\ Len(enc') = Len(enc) + 1
         /\ enc'[Len(enc) + 1] = e
         /\ \A i \in 1 .. Len(enc) : /\ i \in 1 .. Len(enc')
                                     /\ enc'[i] = enc[i] /\ MacOf(i)' = MacOf(i)
         /\ \A p : AsSealed(p) => AsSealed(p)'
<1>1. /\ enc' \in Seq(Encryption)
      /\ Len(enc) \in Nat /\ Len(enc') = Len(enc) + 1
      /\ enc'[Len(enc) + 1] = e
      /\ \A i \in 1 .. Len(enc) : i \in 1 .. Len(enc') /\ enc'[i] = enc[i]
  OBVIOUS
<1>2. \A i \in 1 .. Len(enc) : MacOf(i)' = MacOf(i)
  BY <1>1 DEF MacOf
<1>3. \A p : AsSealed(p) => AsSealed(p)'
  BY <1>1, <1>2, Zenon DEF AsSealed
<1> QED BY <1>1, <1>2, <1>3

\* Two endpoints that have called nothing yet satisfy the invariant.
LEMMA InitIInv == Init => IInv
BY SentinelAssumption
   DEF Init, IInv, TypeOK, EncInv, MsgInv, NetInv, Returned, Result, Role, Encryption

\* The caller's own steps: a new message, a new header, a new key.
LEMMA CallerIInv ==
  ASSUME IInv, NEW r \in Role, NewMessage(r) \/ SetHeader(r) \/ SetKey(r)
  PROVE  IInv'
<1> USE DEF IInv
<1>1. UNCHANGED <<enc, net, ret, down>>
  BY DEF NewMessage, SetHeader, SetKey
<1>2. EncInv' /\ NetInv'
  BY <1>1, ZenonT(60) DEF EncInv, NetInv, AsSealed, MacOf
<1>3. TypeOK'
  <2>1. CASE NewMessage(r)
    BY <1>1, <2>1 DEF NewMessage, TypeOK, IKEMessage, Payloads
  <2>2. CASE SetHeader(r)
    BY <1>1, <2>2 DEF SetHeader, TypeOK, IKEMessage
  <2>3. CASE SetKey(r)
    BY <1>1, <2>3 DEF SetKey, TypeOK
  <2> QED BY <2>1, <2>2, <2>3
<1>4. MsgInv'
  <2>1. \A p : AsSealed(p)' <=> AsSealed(p)
    BY <1>1 DEF AsSealed, MacOf
  <2>2. \A s \in Role \ {r} : msg'[s] = msg[s]
    BY DEF NewMessage, SetHeader, SetKey, TypeOK
  <2>3. CASE NewMessage(r)
    <3>1. msg'[r].payloads \in Plain \ {Garbage}
      BY <2>3 DEF NewMessage, TypeOK
    <3> QED BY <2>1, <2>2, <3>1 DEF MsgInv
  <2>4. CASE SetHeader(r)
    <3>1. msg[r] # nil /\ msg'[r].payloads = msg[r].payloads
      BY <2>4 DEF SetHeader, TypeOK, IKEMessage
    <3> QED BY <2>1, <2>2, <3>1 DEF MsgInv
  <2>5. CASE SetKey(r)
    BY <2>1, <2>5 DEF SetKey, MsgInv
  <2> QED BY <2>3, <2>4, <2>5
<1> QED BY <1>2, <1>3, <1>4

\* IKEMessage.Encode yields a datagram.
LEMMA EncodeType ==
  ASSUME NEW m \in IKEMessage
  PROVE  /\ Encode(m) \in Datagram
         /\ Encode(m).intact /\ Encode(m).np = Type(m.payloads) /\ Encode(m).payloads = m.payloads
<1>1. Type(m.payloads) \in Types
  BY HelperTypes DEF IKEMessage
<1> QED BY <1>1 DEF Encode, Datagram, IKEMessage

\* The checksum of an Encrypted payload that encryptMsg left is genuine.
LEMMA SealedMac ==
  ASSUME NEW p, AsSealed(p), NEW m \in p.mac
  PROVE  m.ct \in 1 .. Len(enc) /\ enc[m.ct].done /\ m = MacOf(m.ct)
BY DEF AsSealed, MacOf

\* What EncodeEncrypt's return sets is well typed.
LEMMA ReturnType ==
  ASSUME TypeOK, NEW res \in Result, Return(res)
  PROVE  ret' \in Result /\ down' \in SUBSET Role
BY DEF TypeOK, Return, Result

\* What DecodeDecrypt's result record holds is well typed.
LEMMA ReturnedType ==
  ASSUME NEW r \in Role, NEW o \in {"ok", "error", "panic"}
  PROVE  Returned(r, o) \in Result
BY DEF Returned, Result

\* EncodeEncrypt returning without an encryption: in clear, refused, or panicking.
LEMMA EncodeIInv ==
  ASSUME IInv, NEW r \in Role, EncodeClear(r) \/ EncryptRefused(r) \/ EncryptPanics(r)
  PROVE  IInv'
<1> USE DEF IInv
<1>1. UNCHANGED <<key, msg, enc>>
  BY DEF EncodeClear, EncryptRefused, EncryptPanics
<1>2. PICK o \in {"ok", "error", "panic"} : Return(Returned(r, o))
  BY DEF EncodeClear, EncryptRefused, EncryptPanics
<1>3. ret' \in Result /\ down' \in SUBSET Role
  BY <1>2, ReturnType, ReturnedType
<1>4. net' = net \/ (msg[r] # nil /\ net' = net \cup {Encode(msg[r])})
  BY DEF EncodeClear, EncryptRefused, EncryptPanics, Transmit
<1>5. TypeOK'
  <2>1. msg[r] # nil => msg[r] \in IKEMessage
    BY DEF TypeOK
  <2>2. net' \in SUBSET Datagram
    BY <1>4, <2>1, EncodeType, SMTT(60) DEF TypeOK
  <2> QED BY <1>1, <1>3, <2>2 DEF TypeOK
<1>6. EncInv' /\ MsgInv'
  BY <1>1, SMTT(60) DEF EncInv, MsgInv, AsSealed, MacOf
<1>7. NetInv'
  <2>1. ASSUME msg[r] # nil, NEW d, d = Encode(msg[r])
        PROVE  /\ d.intact /\ d.np = Type(d.payloads)
               /\ d.payloads \notin Plain => AsSealed(d.payloads)
    BY <2>1, EncodeType DEF MsgInv, TypeOK
  <2>2. ASSUME NEW d \in net'
        PROVE  /\ d.payloads \notin Plain => \A m \in d.payloads.mac :
                    m.ct \in 1 .. Len(enc) /\ enc[m.ct].done /\ m = MacOf(m.ct)
               /\ d.intact => /\ d.np = Type(d.payloads)
                              /\ d.payloads \notin Plain => AsSealed(d.payloads)
    BY <1>4, <2>1, SealedMac DEF NetInv
  <2> QED BY <1>1, <2>2, Zenon DEF NetInv, AsSealed, MacOf
<1> QED BY <1>5, <1>6, <1>7

\* encryptMsg from the encryption on: it appends to enc and replaces the payloads
\* by an Encrypted payload, finished (and sent) or with a checksum of zeros.
LEMMA EncryptIInv ==
  ASSUME IInv, NEW r \in Role, EncryptHalfDone(r) \/ EncryptSeals(r)
  PROVE  IInv'
<1> USE DEF IInv
<1> DEFINE e == [key |-> key[r].id, obj |-> EncrKey(r), payloads |-> msg[r].payloads,
                 by |-> r, hdr |-> msg[r].hdr, done |-> CanFinish(r)]
<1>a. PICK n : n = Len(enc) + 1
  OBVIOUS
<1>b. PICK p : p = msg'[r].payloads
  OBVIOUS
<1>1. /\ msg[r] # nil /\ key[r] # nil /\ key' = key
      /\ enc' = Append(enc, e)
  BY DEF EncryptHalfDone, EncryptSeals, encryptPayload, EncryptReady
<1>2. msg[r] \in IKEMessage /\ key[r] \in IKESAKey
  BY <1>1 DEF TypeOK
<1>3. e \in Encryption
  BY <1>2, HelperTypes DEF Encryption, IKEMessage, IKESAKey, CanFinish
<1> HIDE DEF e
<1>4. /\ enc' \in Seq(Encryption)
      /\ n \in Nat /\ Len(enc') = n
      /\ enc'[n] = e
      /\ \A i \in 1 .. Len(enc) : i \in 1 .. n /\ enc'[i] = enc[i] /\ MacOf(i)' = MacOf(i)
      /\ \A q : AsSealed(q) => AsSealed(q)'
  BY <1>a, <1>1, <1>3, AppendKeeps DEF TypeOK
<1>5. p = [next |-> Type(msg[r].payloads), ct |-> n,
           mac |-> IF CanFinish(r) THEN {calculateIntegrity(key[r], r, msg[r].hdr, Type(msg[r].payloads), n)}
                                   ELSE {}]
  BY <1>a, <1>b, <1>2, ZenonT(60) DEF EncryptHalfDone, EncryptSeals, SealedPayload, TypeOK, IKEMessage
<1>6. calculateIntegrity(key[r], r, msg[r].hdr, Type(msg[r].payloads), n) = MacOf(n)'
  BY <1>4 DEF calculateIntegrity, MacOf, e
<1>7. AsSealed(p)'
  <2>1. n \in 1 .. Len(enc') /\ Type(enc'[n].payloads) = Type(msg[r].payloads)
    BY <1>a, <1>4 DEF e, TypeOK
  <2>2. enc'[n].done <=> CanFinish(r)
    BY <1>4 DEF e
  <2> QED BY <1>5, <1>6, <2>1, <2>2 DEF AsSealed
<1>8. p \in Encrypted
  <2>1. Type(msg[r].payloads) \in Types
    BY <1>2, HelperTypes DEF IKEMessage
  <2>2. calculateIntegrity(key[r], r, msg[r].hdr, Type(msg[r].payloads), n) \in Mac
    BY <1>2, <1>4, <2>1, HelperTypes DEF calculateIntegrity, Mac, IKESAKey, IKEMessage
  <2> QED BY <1>4, <1>5, <2>1, <2>2 DEF Encrypted
<1>9. /\ msg'[r] \in IKEMessage
      /\ \A s \in Role \ {r} : msg'[s] = msg[s]
      /\ msg' \in [Role -> IKEMessage \cup {nil}]
  BY <1>b, <1>2, <1>8 DEF EncryptHalfDone, EncryptSeals, TypeOK, IKEMessage, Payloads
<1>10. PICK o \in {"ok", "error", "panic"} : Return(Returned(r, o))
  BY DEF EncryptHalfDone, EncryptSeals
<1>11. ret' \in Result /\ down' \in SUBSET Role
  BY <1>10, ReturnType, ReturnedType
<1>12. net' = net \/ net' = net \cup {Encode(msg'[r])}
  BY DEF EncryptHalfDone, EncryptSeals, Transmit
<1>13. TypeOK'
  <2>1. net' \in SUBSET Datagram
    BY <1>9, <1>12, EncodeType DEF TypeOK
  <2> QED BY <1>1, <1>4, <1>9, <1>11, <2>1 DEF TypeOK
<1>14. EncInv'
  BY <1>1, <1>4 DEF EncInv, MsgInv, e
<1>15. MsgInv'
  <2>1. p # Garbage
    BY <1>8, ConstantsAssumption, SentinelAssumption
  <2> QED BY <1>b, <1>4, <1>7, <1>9, <2>1 DEF MsgInv
<1>16. NetInv'
  <2>1. ASSUME NEW d \in net
        PROVE  /\ d.payloads \notin Plain => \A m \in d.payloads.mac :
                    m.ct \in 1 .. Len(enc') /\ enc'[m.ct].done /\ m = MacOf(m.ct)'
               /\ d.intact => /\ d.np = Type(d.payloads)
                              /\ d.payloads \notin Plain => AsSealed(d.payloads)'
    BY <1>4 DEF NetInv
  <2>2. ASSUME NEW d, d = Encode(msg'[r])
        PROVE  /\ \A m \in d.payloads.mac :
                    m.ct \in 1 .. Len(enc') /\ enc'[m.ct].done /\ m = MacOf(m.ct)'
               /\ d.np = Type(d.payloads)
               /\ AsSealed(d.payloads)'
    <3>1. d.payloads = p /\ d.np = Type(p)
      BY <1>b, <1>9, <2>2, EncodeType
    <3> QED BY <1>7, <3>1 DEF AsSealed, MacOf
  <2> QED BY <1>12, <2>1, <2>2 DEF NetInv
<1> QED BY <1>13, <1>14, <1>15, <1>16

\* DecodeDecrypt changes nothing but what the caller gets to see.
LEMMA DecodeIInv ==
  ASSUME IInv, NEW r \in Role, NEW d \in net, DecodeDecrypt(r, d)
  PROVE  IInv'
<1> USE DEF IInv
<1>1. UNCHANGED <<key, msg, enc, net>>
  BY DEF DecodeDecrypt
<1>2. d \in Datagram
  BY DEF TypeOK
<1>3. \E o \in {"ok", "error", "panic"}, got \in SUBSET Payloads : Decoded(r, d, o, got)
  <2>1. CASE DecodeClear(r, d)
    <3>1. DecodePayload(d) \subseteq Payloads \cup {Malformed}
      BY <1>2, HelperTypes DEF DecodePayload, Datagram
    <3> QED BY <2>1, <3>1 DEF DecodeClear
  <2>2. CASE DecryptMisread(r, d)
    BY <2>2 DEF DecryptMisread
  <2>3. CASE DecryptRefused(r, d)
    BY <2>3 DEF DecryptRefused
  <2>4. CASE DecryptVerified(r, d)
    <3>1. d.payloads \in Encrypted
      BY <1>2, <2>4 DEF DecryptVerified, Datagram, Payloads
    <3>2. decryptPayload(r, d.payloads) \subseteq Payloads \cup {Malformed}
      <4>1. ASSUME NEW i \in 1 .. Len(enc)
            PROVE  enc[i].payloads \in Payloads
        <5>1. enc[i] \in Encryption
          BY DEF TypeOK
        <5> QED BY <5>1 DEF Encryption
      <4>2. d.payloads.next \in Types
        BY <3>1 DEF Encrypted
      <4>3. Garbage \in Payloads
        BY ConstantsAssumption DEF Payloads
      <4> QED BY <4>1, <4>2, <4>3, HelperTypes DEF decryptPayload
    <3> QED BY <2>4, <3>2, Zenon DEF DecryptVerified
  <2> QED BY <2>1, <2>2, <2>3, <2>4 DEF DecodeDecrypt
<1>4. ret' \in Result /\ down' \in SUBSET Role
  <2>1. PICK o \in {"ok", "error", "panic"}, got \in SUBSET Payloads : Decoded(r, d, o, got)
    BY <1>3
  <2>2. [by |-> r, out |-> o, key |-> key[r], rcvd |-> {d}, got |-> got] \in Result
    BY <1>2 DEF TypeOK, Result
  <2> QED BY <2>1, <2>2, ReturnType DEF Decoded
<1>5. TypeOK'
  BY <1>1, <1>4 DEF TypeOK
<1>6. EncInv' /\ MsgInv' /\ NetInv'
  BY <1>1, Zenon DEF EncInv, MsgInv, NetInv, AsSealed, MacOf
<1> QED BY <1>5, <1>6

\* Damage on the way never adds a checksum, and the result is not intact.
LEMMA DamageIInv ==
  ASSUME IInv, NEW d \in net, Damage(d)
  PROVE  IInv'
<1> USE DEF IInv
<1>1. UNCHANGED <<key, msg, enc, ret, down>>
  BY DEF Damage
<1>2. PICK e \in Damaged(d) : net' = net \cup {[e EXCEPT !.intact = FALSE]}
  BY DEF Damage
<1>3. PICK f : f = [e EXCEPT !.intact = FALSE]
  BY Zenon
<1>4. d \in Datagram
  BY DEF TypeOK
<1>5. /\ f \in Datagram /\ ~ f.intact
      /\ f.payloads \notin Plain => d.payloads \notin Plain /\ f.payloads.mac \subseteq d.payloads.mac
  <2>1. /\ e \in Datagram
        /\ e.payloads \notin Plain => d.payloads \notin Plain /\ e.payloads.mac \subseteq d.payloads.mac
    <3>1. CASE \E h \in Headers : e = [d EXCEPT !.hdr = h]
      BY <1>4, <3>1 DEF Datagram
    <3>2. CASE \E t \in Types : e = [d EXCEPT !.np = t]
      BY <1>4, <3>2 DEF Datagram
    <3>3. CASE e = [d EXCEPT !.payloads = Garbage]
      BY <1>4, <3>3, ConstantsAssumption DEF Datagram, Payloads
    <3>4. CASE /\ d.payloads \notin Plain
               /\ \/ \E t \in Types : e = [d EXCEPT !.payloads.next = t]
                  \/ e = [d EXCEPT !.payloads.ct = 0]
                  \/ e = [d EXCEPT !.payloads.mac = {}]
      <4>1. d.payloads \in Encrypted
        BY <1>4, <3>4 DEF Datagram, Payloads
      <4>2. e.payloads \in Encrypted /\ e.payloads.mac \subseteq d.payloads.mac
        BY <1>4, <3>4, <4>1 DEF Datagram, Encrypted
      <4>3. e = [d EXCEPT !.payloads = e.payloads]
        BY <1>4, <3>4 DEF Datagram
      <4> QED BY <1>4, <3>4, <4>2, <4>3 DEF Datagram, Payloads
    <3> QED BY <3>1, <3>2, <3>3, <3>4 DEF Damaged
  <2> QED BY <1>3, <2>1, Zenon DEF Datagram
<1>6. TypeOK'
  BY <1>1, <1>2, <1>3, <1>5, Zenon DEF TypeOK
<1>7. EncInv' /\ MsgInv'
  BY <1>1, ZenonT(60) DEF EncInv, MsgInv, AsSealed, MacOf
<1>8. NetInv'
  <2>1. ASSUME NEW g \in net'
        PROVE  /\ g.payloads \notin Plain => \A m \in g.payloads.mac :
                    m.ct \in 1 .. Len(enc) /\ enc[m.ct].done /\ m = MacOf(m.ct)
               /\ g.intact => /\ g.np = Type(g.payloads)
                              /\ g.payloads \notin Plain => AsSealed(g.payloads)
    BY <1>2, <1>3, <1>5, Zenon DEF NetInv
  <2> QED BY <1>1, <2>1, Zenon DEF NetInv, AsSealed, MacOf
<1> QED BY <1>6, <1>7, <1>8

\* Every step, of a caller, of the library or of the network, preserves the invariant.
LEMMA NextIInv == IInv /\ [Next]_vars => IInv'
<1> SUFFICES ASSUME IInv, [Next]_vars PROVE IInv'
  OBVIOUS
<1>1. ASSUME NEW r \in Role, NewMessage(r) \/ SetHeader(r) \/ SetKey(r) PROVE IInv'
  BY <1>1, CallerIInv
<1>2. ASSUME NEW r \in Role, EncodeEncrypt(r) PROVE IInv'
  BY <1>2, EncodeIInv, EncryptIInv DEF EncodeEncrypt
<1>3. ASSUME NEW r \in Role, NEW d \in net, DecodeDecrypt(r, d) PROVE IInv'
  BY <1>3, DecodeIInv
<1>4. ASSUME NEW d \in net, Damage(d) PROVE IInv'
  BY <1>4, DamageIInv, SMTT(60)
<1>5. CASE UNCHANGED vars
  BY <1>5, ZenonT(60) DEF vars, IInv, TypeOK, EncInv, MsgInv, NetInv, AsSealed, MacOf
<1> QED BY <1>1, <1>2, <1>3, <1>4, <1>5 DEF Next

\* Every reachable state satisfies the inductive invariant.
THEOREM Invariance == Spec => []IInv
BY InitIInv, NextIInv, PTL DEF Spec

\* Every variable of the message layer keeps its type, whatever the callers and
\* the network do.
THEOREM TypeCorrect == Spec => []TypeOK
<1>1. IInv => TypeOK
  BY DEF IInv
<1> QED BY <1>1, Invariance, PTL

------------------------------------------------------------------------------

\* Decoding what was encoded, from the right type, yields what the peer is to read.
LEMMA DecodeReceived ==
  ASSUME NEW p \in Payloads, p # Garbage
  PROVE  Decode(Type(p), p) = {Received(p)}
BY ConstantsAssumption, SentinelAssumption DEF Decode, Received, Empty, Type, Payloads

\* What a verified checksum tells: the Encrypted payload is one that the peer
\* finished, under the receiver's key and the header it arrives with, and it
\* decrypts to the peer's payloads.
LEMMA VerifiedIsSealed ==
  ASSUME IInv, NEW r \in Role, NEW d \in net, d.payloads \notin Plain,
         key[r] # nil, verifyIntegrity(r, d)
  PROVE  LET i == d.payloads.ct
         IN  /\ i \in 1 .. Len(enc)
             /\ enc[i].done /\ enc[i].by = Other(r)
             /\ enc[i].key = key[r].id /\ enc[i].hdr = d.hdr
             /\ decryptPayload(r, d.payloads) = {Received(enc[i].payloads)}
<1> DEFINE i == d.payloads.ct
           m == calculateIntegrity(key[r], Other(r), d.hdr, d.payloads.next, i)
<1>1. m \in d.payloads.mac
  BY DEF verifyIntegrity
<1>2. m.ct = i /\ m.key = key[r].id /\ m.obj = IntegKey(Other(r)) /\ m.hdr = d.hdr
      /\ m.next = d.payloads.next
  BY DEF calculateIntegrity
<1> HIDE DEF m
<1>3. i \in 1 .. Len(enc) /\ enc[i].done /\ m = MacOf(i)
  BY <1>1, <1>2 DEF IInv, NetInv
<1>4. /\ enc[i].key = key[r].id /\ enc[i].hdr = d.hdr
      /\ IntegKey(enc[i].by) = IntegKey(Other(r)) /\ Type(enc[i].payloads) = d.payloads.next
  BY <1>2, <1>3 DEF MacOf
<1>5. enc[i] \in Encryption
  BY <1>3 DEF IInv, TypeOK
<1>6. enc[i].by \in Role /\ enc[i].payloads \in Payloads
  BY <1>5 DEF Encryption
<1>7. enc[i].by = Other(r)
  BY <1>4, <1>6, HelperTypes, SMTT(60)
<1>8. enc[i].obj = DecrKey(r) /\ enc[i].payloads # Garbage
  BY <1>3, <1>7, HelperTypes, SMTT(60) DEF IInv, EncInv
<1>9. decryptPayload(r, d.payloads) = {Received(enc[i].payloads)}
  BY <1>3, <1>4, <1>6, <1>8, DecodeReceived DEF decryptPayload
<1> QED BY <1>3, <1>4, <1>7, <1>9

\* Only DecodeDecrypt has the caller look at a datagram: any other step leaves the
\* last result and enc alone, or returns from EncodeEncrypt.
LEMMA StepKinds ==
  ASSUME [Next]_vars
  PROVE  \/ UNCHANGED <<enc, ret>>
         \/ ret'.rcvd = {}
         \/ \E r \in Role : \E d \in net : DecodeDecrypt(r, d)
BY SMTT(60) DEF Next, vars, NewMessage, SetHeader, SetKey, EncodeEncrypt, EncodeClear, EncryptRefused,
       EncryptPanics, EncryptHalfDone, EncryptSeals, Return, Returned, Damage

\* The result of a DecodeDecrypt.
LEMMA DecodeResult ==
  ASSUME IInv, NEW r \in Role, NEW d \in net, DecodeDecrypt(r, d)
  PROVE  /\ enc' = enc /\ ret'.by = r /\ ret'.key = key[r] /\ ret'.rcvd = {d}
         /\ ret'.out = "ok" /\ d.np = "SK" =>
              LET i == d.payloads.ct
              IN  /\ i \in 1 .. Len(enc)
                  /\ enc[i].done /\ enc[i].by = Other(r)
                  /\ enc[i].key = key[r].id /\ enc[i].hdr = d.hdr
                  /\ ret'.got = {Received(enc[i].payloads)}
<1>1. enc' = enc
  BY SMTT(60) DEF DecodeDecrypt
<1>2. ret'.by = r /\ ret'.key = key[r] /\ ret'.rcvd = {d}
  <2>1. CASE DecodeClear(r, d)
    <3>1. PICK p \in DecodePayload(d) : Decoded(r, d, "error", {}) \/ Decoded(r, d, "ok", {p})
      BY <2>1 DEF DecodeClear
    <3> QED BY <3>1 DEF Decoded, Return
  <2>2. CASE DecryptMisread(r, d)
    BY <2>2 DEF DecryptMisread, Decoded, Return
  <2>3. CASE DecryptRefused(r, d)
    BY <2>3, SMTT(60) DEF DecryptRefused, Decoded, Return
  <2>4. CASE DecryptVerified(r, d)
    <3>1. \/ Decoded(r, d, "panic", {})
          \/ Decoded(r, d, "error", {})
          \/ \E p \in decryptPayload(r, d.payloads) : Decoded(r, d, "ok", {p})
      BY <2>4, Zenon DEF DecryptVerified
    <3> QED BY <3>1 DEF Decoded, Return
  <2> QED BY <2>1, <2>2, <2>3, <2>4 DEF DecodeDecrypt
<1>3. ASSUME ret'.out = "ok", d.np = "SK"
      PROVE  /\ d.payloads \notin Plain /\ key[r] # nil /\ verifyIntegrity(r, d)
             /\ \E p \in decryptPayload(r, d.payloads) : ret'.got = {p}
  <2>1. ~ DecodeClear(r, d)
    BY <1>3, ConstantsAssumption DEF DecodeClear, DecodePayload, Decoded, Return
  <2>2. ~ DecryptMisread(r, d) /\ ~ DecryptRefused(r, d)
    BY <1>3 DEF DecryptMisread, DecryptRefused, Decoded, Return
  <2>3. DecryptVerified(r, d)
    BY <2>1, <2>2, SMTT(60) DEF DecodeDecrypt
  <2> QED BY <1>3, <2>3, SMTT(60) DEF DecryptVerified, DecryptChecked, Decoded, Return
<1>4. ASSUME ret'.out = "ok", d.np = "SK"
      PROVE  LET i == d.payloads.ct
             IN  /\ i \in 1 .. Len(enc)
                 /\ enc[i].done /\ enc[i].by = Other(r)
                 /\ enc[i].key = key[r].id /\ enc[i].hdr = d.hdr
                 /\ ret'.got = {Received(enc[i].payloads)}
  <2>1. /\ d.payloads \notin Plain /\ key[r] # nil /\ verifyIntegrity(r, d)
        /\ \E p \in decryptPayload(r, d.payloads) : ret'.got = {p}
    BY <1>3, <1>4
  <2> QED BY <2>1, VerifiedIsSealed, ZenonT(60)
<1> QED BY <1>1, <1>2, <1>4

\* A protected message that DecodeDecrypt returns is one that the peer's
\* EncodeEncrypt sealed and returned: for every number of keys, headers, payload
\* lists and datagrams, and every way the network treats them.
THEOREM AuthenticityHolds == Spec => []Authenticity
<1>1. Init => Authenticity
  BY DEF Init, Authenticity, Returned
<1>2. IInv /\ Authenticity /\ [Next]_vars => Authenticity'
  <2> SUFFICES ASSUME IInv, Authenticity, [Next]_vars PROVE Authenticity'
    OBVIOUS
  <2>1. CASE UNCHANGED <<enc, ret>>
    BY <2>1 DEF Authenticity
  <2>2. CASE ret'.rcvd = {}
    BY <2>2 DEF Authenticity
  <2>3. ASSUME NEW r \in Role, NEW d \in net, DecodeDecrypt(r, d) PROVE Authenticity'
    BY <2>3, DecodeResult DEF Authenticity
  <2> QED BY <2>1, <2>2, <2>3, StepKinds
<1> QED BY <1>1, <1>2, Invariance, PTL DEF Spec

\* An undamaged sealed message, opened with the complete key of its SA, passes.
LEMMA GenuineVerifies ==
  ASSUME IInv, NEW r \in Role, NEW d \in net, NEW i \in 1 .. Len(enc),
         d.intact, d.np = "SK", d.payloads.ct = i,
         enc[i].done, enc[i].by = Other(r), enc[i].hdr = d.hdr,
         key[r] = [id |-> enc[i].key, has |-> Fields]
  PROVE  /\ d.payloads \notin Plain /\ ~ Empty(d.payloads)
         /\ DecryptChecked(r) /\ verifyIntegrity(r, d) /\ DecrKey(r) \in key[r].has
<1>1. d \in Datagram /\ enc[i] \in Encryption
  BY DEF IInv, TypeOK
<1>2. d.payloads \notin Plain /\ ~ Empty(d.payloads)
  BY <1>1, HelperTypes DEF IInv, NetInv, Datagram, Empty
<1>3. d.payloads.mac = {MacOf(i)} /\ d.payloads.next = Type(enc[i].payloads)
  BY <1>2, Zenon DEF IInv, NetInv, AsSealed
<1>4. key[r].id = enc[i].key /\ key[r].has = Fields /\ key[r] # nil
  <2>1. key[r].id = enc[i].key /\ key[r].has = Fields
    OBVIOUS
  <2>2. key[r] \in [id: KeyIds, has: SUBSET Fields]
    BY <1>1 DEF Encryption
  <2> QED BY <2>1, <2>2, SentinelAssumption
<1>5. MacOf(i) = calculateIntegrity(key[r], Other(r), d.hdr, d.payloads.next, i)
  BY <1>3, <1>4 DEF MacOf, calculateIntegrity
<1>6. IntegKey(Other(r)) \in Fields /\ DecrKey(r) \in Fields /\ decryptChecks \subseteq Fields
  BY HelperTypes DEF Fields, decryptChecks, DecrKey
<1> QED BY <1>2, <1>3, <1>4, <1>5, <1>6 DEF verifyIntegrity, DecryptChecked

\* DecodeDecrypt never refuses an undamaged message that the peer sealed under
\* the same SA, and returns the payloads of the sealing call.
THEOREM RoundTripHolds == Spec => []RoundTrip
<1>1. Init => RoundTrip
  BY DEF Init, RoundTrip, Returned
<1>2. IInv /\ RoundTrip /\ [Next]_vars => RoundTrip'
  <2> SUFFICES ASSUME IInv, RoundTrip, [Next]_vars PROVE RoundTrip'
    OBVIOUS
  <2>1. CASE UNCHANGED <<enc, ret>>
    BY <2>1 DEF RoundTrip
  <2>2. CASE ret'.rcvd = {}
    BY <2>2 DEF RoundTrip
  <2>3. ASSUME NEW r \in Role, NEW d \in net, DecodeDecrypt(r, d) PROVE RoundTrip'
    <3>1. enc' = enc /\ ret'.by = r /\ ret'.key = key[r] /\ ret'.rcvd = {d}
      BY <2>3, DecodeResult, SMTT(60)
    <3>2. ASSUME NEW i \in 1 .. Len(enc),
                 d.intact, d.np = "SK", d.payloads.ct = i,
                 enc[i].done, enc[i].by = Other(r), enc[i].hdr = d.hdr,
                 key[r] = [id |-> enc[i].key, has |-> Fields]
          PROVE  IF Received(enc[i].payloads) = Malformed
                 THEN ret'.out = "error"
                 ELSE ret'.out = "ok" /\ ret'.got = {Received(enc[i].payloads)}
      <4>1. /\ d.payloads \notin Plain /\ ~ Empty(d.payloads)
            /\ DecryptChecked(r) /\ verifyIntegrity(r, d) /\ DecrKey(r) \in key[r].has
        BY <3>2, GenuineVerifies, SMTT(60)
      <4>2. decryptPayload(r, d.payloads) = {Received(enc[i].payloads)}
        BY <3>2, <4>1, VerifiedIsSealed, SMTT(60) DEF DecryptChecked
      <4>3. DecryptVerified(r, d)
        BY <2>3, <3>2, <4>1, SMTT(60) DEF DecodeDecrypt, DecodeClear, DecryptMisread, DecryptRefused
      <4> QED BY <4>1, <4>2, <4>3, SMTT(60) DEF DecryptVerified, Decoded, Return
    <3> QED BY <3>1, <3>2 DEF RoundTrip
  <2> QED BY <2>1, <2>2, <2>3, StepKinds
<1> QED BY <1>1, <1>2, Invariance, PTL DEF Spec

------------------------------------------------------------------------------

\* A step that appends no finished encryption changes nothing the channel seals.
LEMMA SealedBarKept ==
  ASSUME enc' = enc
  PROVE  sealedBar' = sealedBar
BY SMTT(60) DEF sealedBar

\* What encryptMsg appends, seen through the mapping: a new message of r when the
\* call finishes, and nothing at all when it fails half way.
LEMMA SealedBarAppend ==
  ASSUME IInv, NEW r \in Role, encryptPayload(r)
  PROVE  LET m == [to |-> Other(r), sa |-> key[r].id, hdr |-> msg[r].hdr,
                   payloads |-> Received(msg[r].payloads)]
         IN  sealedBar' = IF CanFinish(r) THEN [sealedBar EXCEPT ![r] = @ \cup {m}] ELSE sealedBar
<1> DEFINE e == [key |-> key[r].id, obj |-> EncrKey(r), payloads |-> msg[r].payloads,
                 by |-> r, hdr |-> msg[r].hdr, done |-> CanFinish(r)]
           m == [to |-> Other(r), sa |-> key[r].id, hdr |-> msg[r].hdr,
                 payloads |-> Received(msg[r].payloads)]
           M(s, x) == [to |-> Other(s), sa |-> x.key, hdr |-> x.hdr, payloads |-> Received(x.payloads)]
           B(s) == {M(s, enc[i]) : i \in {j \in 1 .. Len(enc) : enc[j].by = s /\ enc[j].done}}
           C(s) == {M(s, enc'[i]) : i \in {j \in 1 .. Len(enc') : enc'[j].by = s /\ enc'[j].done}}
<1>1. enc' = Append(enc, e) /\ msg[r] # nil /\ key[r] # nil
  BY SMTT(60) DEF encryptPayload, EncryptReady
<1>2. e \in Encryption
  BY <1>1, HelperTypes, SMTT(60) DEF Encryption, IKEMessage, IKESAKey, CanFinish, IInv, TypeOK
<1>3. e.by = r /\ (e.done <=> CanFinish(r)) /\ M(r, e) = m
  BY SMTT(60)
<1> HIDE DEF e, m
<1>4. /\ Len(enc) \in Nat /\ Len(enc') = Len(enc) + 1
      /\ enc'[Len(enc) + 1] = e
      /\ \A i \in 1 .. Len(enc) : i \in 1 .. Len(enc') /\ enc'[i] = enc[i]
  BY <1>1, <1>2, AppendKeeps, SMTT(60) DEF IInv, TypeOK
<1>5. sealedBar = [s \in Role |-> B(s)] /\ sealedBar' = [s \in Role |-> C(s)]
  BY ZenonT(60) DEF sealedBar
<1>6. \A s \in Role : C(s) = IF s = r /\ CanFinish(r) THEN B(s) \cup {m} ELSE B(s)
  <2> SUFFICES ASSUME NEW s \in Role
               PROVE  C(s) = IF s = r /\ CanFinish(r) THEN B(s) \cup {m} ELSE B(s)
    OBVIOUS
  <2>1. B(s) \subseteq C(s)
    BY <1>4, SMTT(60)
  <2>2. ASSUME NEW c \in C(s) PROVE c \in B(s) \/ (s = r /\ CanFinish(r) /\ c = m)
    <3>1. PICK i \in 1 .. Len(enc') : enc'[i].by = s /\ enc'[i].done /\ c = M(s, enc'[i])
      BY <2>2, SMTT(60)
    <3>2. CASE i \in 1 .. Len(enc)
      BY <1>4, <3>1, <3>2, SMTT(60)
    <3>3. CASE i = Len(enc) + 1
      BY <1>3, <1>4, <3>1, <3>3, SMTT(60)
    <3> QED BY <1>4, <3>2, <3>3
  <2>3. s = r /\ CanFinish(r) => m \in C(s)
    <3>1. Len(enc) + 1 \in 1 .. Len(enc')
      BY <1>4
    <3> QED BY <1>3, <1>4, <3>1
  <2> QED BY <2>1, <2>2, <2>3, ZenonT(60)
<1> HIDE DEF B, C
<1>7. sealedBar' = IF CanFinish(r) THEN [sealedBar EXCEPT ![r] = @ \cup {m}] ELSE sealedBar
  <2>1. CASE CanFinish(r)
    BY <1>5, <1>6, <2>1
  <2>2. CASE ~ CanFinish(r)
    BY <1>5, <1>6, <2>2
  <2> QED BY <2>1, <2>2
<1> QED BY <1>7 DEF m

\* Every step of the message layer is a step of the secure channel, or none.
LEMMA StepRefines ==
  ASSUME IInv, [Next]_vars
  PROVE  [Abstract!Next]_<<sealedBar, deliveredBar>>
<1>1. ret'.rcvd = {} => deliveredBar' = {}
  BY DEF deliveredBar
<1>2. ASSUME NEW r \in Role, EncodeEncrypt(r)
      PROVE  Abstract!Next
  <2>0. deliveredBar' = {}
    BY <1>1, <1>2 DEF EncodeEncrypt, EncodeClear, EncryptRefused, EncryptPanics, EncryptHalfDone,
                      EncryptSeals, Return, Returned
  <2>1. CASE EncodeClear(r) \/ EncryptRefused(r) \/ EncryptPanics(r) \/ EncryptHalfDone(r)
    <3>1. sealedBar' = sealedBar
      BY <2>1, SealedBarKept, SealedBarAppend DEF EncodeClear, EncryptRefused, EncryptPanics, EncryptHalfDone
    <3> QED BY <2>0, <3>1 DEF Abstract!Next, Abstract!Nothing
  <2>2. CASE EncryptSeals(r)
    <3> DEFINE m == [to |-> Other(r), sa |-> key[r].id, hdr |-> msg[r].hdr,
                     payloads |-> Received(msg[r].payloads)]
    <3>1. sealedBar' = [sealedBar EXCEPT ![r] = @ \cup {m}]
      BY <2>2, SealedBarAppend DEF EncryptSeals
    <3>2. m.to # r
      BY HelperTypes, SMTT(60)
    <3> HIDE DEF m
    <3>3. m \in sealedBar'[r]
      BY <3>1 DEF sealedBar
    <3>4. Abstract!Seal(r)
      BY <2>0, <3>1, <3>2, <3>3, ZenonT(60) DEF Abstract!Seal
    <3> QED BY <3>4 DEF Abstract!Next
  <2> QED BY <1>2, <2>1, <2>2 DEF EncodeEncrypt
<1>3. ASSUME NEW r \in Role, NEW d \in net, DecodeDecrypt(r, d)
      PROVE  Abstract!Next
  <2>1. enc' = enc /\ ret'.by = r /\ ret'.key = key[r] /\ ret'.rcvd = {d}
    BY <1>3, DecodeResult
  <2>2. sealedBar' = sealedBar
    BY <2>1, SealedBarKept
  <2>3. CASE ret'.out = "ok" /\ d.np = "SK"
    <3> DEFINE i == d.payloads.ct
               m == [to |-> r, sa |-> key[r].id, hdr |-> d.hdr, payloads |-> Received(enc[i].payloads)]
    <3>1. /\ i \in 1 .. Len(enc)
          /\ enc[i].done /\ enc[i].by = Other(r)
          /\ enc[i].key = key[r].id /\ enc[i].hdr = d.hdr
          /\ ret'.got = {Received(enc[i].payloads)}
      BY <1>3, <2>3, DecodeResult, SMTT(60)
    <3>2. m \in sealedBar[Other(r)]
      BY <3>1, HelperTypes, SMTT(60) DEF sealedBar
    <3>3. deliveredBar' = {m}
      BY <2>1, <2>3, <3>1 DEF deliveredBar
    <3>4. m.to = r
      OBVIOUS
    <3> HIDE DEF m
    <3>5. Abstract!Deliver(r)
      BY <2>2, <3>2, <3>3, <3>4, HelperTypes DEF Abstract!Deliver
    <3> QED BY <3>5, SMTT(60) DEF Abstract!Next
  <2>4. CASE ~ (ret'.out = "ok" /\ d.np = "SK")
    <3>1. deliveredBar' = {}
      BY <2>1, <2>4 DEF deliveredBar
    <3> QED BY <2>2, <3>1, SMTT(60) DEF Abstract!Next, Abstract!Nothing
  <2> QED BY <2>3, <2>4
<1>4. ASSUME UNCHANGED <<enc, ret>>
      PROVE  UNCHANGED <<sealedBar, deliveredBar>>
  BY <1>4 DEF sealedBar, deliveredBar
<1>5. ASSUME \/ \E r \in Role : NewMessage(r) \/ SetHeader(r) \/ SetKey(r)
             \/ \E d \in net : Damage(d)
             \/ UNCHANGED vars
      PROVE  UNCHANGED <<enc, ret>>
  BY <1>5 DEF NewMessage, SetHeader, SetKey, Damage, vars
<1> QED BY <1>2, <1>3, <1>4, <1>5 DEF Next

\* The message layer implements the abstract secure channel: whatever is lost,
\* repeated, reordered or damaged on the way, what DecodeDecrypt delivers as
\* protected is what the peer sealed for it.
THEOREM Refinement == Spec => ImplementsSecureChannel
<1>1. Init => Abstract!Init
  BY DEF Init, Abstract!Init, sealedBar, deliveredBar, Returned
<1>2. IInv /\ [Next]_vars => [Abstract!Next]_<<sealedBar, deliveredBar>>
  BY StepRefines
<1> QED BY <1>1, <1>2, Invariance, PTL DEF Spec, ImplementsSecureChannel, Abstract!Spec
==============================================================================

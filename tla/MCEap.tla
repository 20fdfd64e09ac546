-------------------------------- MODULE MCEap --------------------------------
(***************************************************************************)
(* The two views of EAP packets: EapPacket, with every method's frame, and *)
(* EapAkaPrime, with the attributes of one.  A behaviour is one of either; *)
(* the other stays in its initial state.                                   *)
(***************************************************************************)
EXTENDS EapPacket

(* EapPacket with octets of 8 values: a packet has at most 63 octets, a      *)
(* vendor ID 512 values, a challenge 2 octets.                               *)

Ramp(n) == [i \in 1 .. n |-> i % Octet]

MCTypeData ==
  {EapData(EapTypeIdentity, Ramp(n)) : n \in {0, 1, 2, 58, 59}}
  \cup {EapData(t, Ramp(1)) : t \in {EapTypeNotification, EapTypeNak}}
  \cup {EapMD5(s, Ramp(n), Ramp(m)) : s \in {1, 2}, n \in {1, 2}, m \in {0, 1}}
  \cup {EapExpanded(513, 4095, Ramp(n)) : n \in {0, 1}}

MCPackets ==
  {EAP(c, 5, NoData) : c \in {1, 4}} \cup {EAP(2, 6, d) : d \in MCTypeData}
  \cup {EAP(3, 6, EapData(EapTypeIdentity, Ramp(1)))}

------------------------------------------------------------------------------
(* EapAkaPrime for one value of every attribute type and length that the     *)
(* code treats differently, and four packets of other implementations.       *)

CONSTANTS Settings, Foreign, MaxAttrs, ChangedTo

VARIABLES akaPc, sender, receiver, attributes, rest, wire, unchanged, hashed, mac

Aka == INSTANCE EapAkaPrime WITH pc <- akaPc, sent <- attributes, intact <- unchanged

ASSUME Aka!InputAssumption

\* The attribute types AT_RAND, AT_RES and so on of EapAkaPrime.
RAND == 1
RES == 3
AUTS == 4
MAC == 11
KDF_INPUT == 23
KDF == 24
CHECKCODE == 134

Ns(n) == [i \in 1 .. n |-> 9]

MCSettings ==
  {<<RAND, Ns(16)>>, <<RAND, Ns(15)>>, <<AUTS, Ns(14)>>, <<RES, Ns(4)>>, <<RES, Ns(5)>>,
   <<KDF_INPUT, Ns(4)>>, <<KDF_INPUT, Ns(3)>>, <<KDF, <<0, 1>>>>, <<CHECKCODE, <<>>>>,
   <<CHECKCODE, Ns(20)>>}
\* Network names of the largest size that Unmarshal reads, of the next larger, and
\* of one whose length field wraps.
LongNames == {<<KDF_INPUT, Ns(n)>> : n \in {248, 249, 1020}}

A(t, length, reserved, value) == [type |-> t, length |-> length, reserved |-> reserved, value |-> value]
Mac == A(MAC, 5, 0, Ns(16))
Kdf(n) == A(KDF, 1, n, <<>>)

\* Out of order; two AT_KDF; AT_RES with padding; AT_IDENTITY, which has no case.
MCForeign ==
  {<<Mac, Kdf(1), A(RES, 2, 32, Ns(4))>>,
   <<Kdf(1), Kdf(2), Mac>>,
   <<A(RES, 3, 40, Ns(5) \o Zeros(3)), Mac>>,
   <<A(14, 2, 4, Ns(4)), Mac>>}

------------------------------------------------------------------------------

akaVars == <<akaPc, sender, receiver, attributes, rest, wire, unchanged, hashed, mac>>

NextPacket == akaPc = "build" /\ sender = Aka!New /\ Next /\ UNCHANGED akaVars
NextAka == sent = 0 /\ eap = NewEAP /\ Aka!Next /\ UNCHANGED vars

MCInit == Init /\ Aka!Init
MCSpec == MCInit /\ [][NextPacket \/ NextAka]_<<vars, akaVars>>

\* Unmarshal of an intact packet whose attribute types it knows, none of 256
\* octets or more, succeeds and yields every attribute with the value that was
\* sent, without padding; of several attributes of a type the last
\* (eap_aka_prime.go:305, 456).
AttributesSurvive == Aka!AttributesSurvive

\* The AT_MAC of an intact packet verifies, in whatever order its attributes
\* came, if none is padded and none occurs twice (eap.go:194, 199).
GenuineVerifies == Aka!GenuineVerifies

\* A packet that verifies says what its sender put into it, although AT_MAC is
\* computed over what the receiver made of the packet (eap.go:194).
VerifiedIsGenuine == Aka!VerifiedIsGenuine

\* Every attribute of an object is 4 * length octets long, as a comment says
\* (eap_aka_prime.go:488).
AttrLength == Aka!AttrLength

\* What SetAttr stored is what GetAttr and GetValue return, as
\* TestEapAkaPrimeSetGetAttr requires (eap_aka_prime_test.go:206).
SetThenGet == Aka!SetThenGet

\* Unmarshal reads what Marshal wrote (eap_aka_prime.go:305, 488).
OwnPacketsAccepted == Aka!OwnPacketsAccepted
==============================================================================

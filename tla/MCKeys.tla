-------------------------------- MODULE MCKeys --------------------------------
(***************************************************************************)
(* From proposals to keys: KeySchedule, and Negotiation with proposals in  *)
(* octets.  A behaviour is one of either; the other stays in its initial   *)
(* state.                                                                  *)
(***************************************************************************)
EXTENDS KeySchedule

(* KeySchedule for a handful of proposals: acceptable ones that differ in    *)
(* one algorithm, and one of every kind that an endpoint refuses.            *)

T(id) == [id |-> id, bits |-> 0]
AES(bits) == [id |-> "ENCR_AES_CBC", bits |-> bits]

Base == [dh |-> <<T("DH_1024_BIT_MODP")>>, encr |-> <<AES(256)>>,
         integ |-> <<T("AUTH_HMAC_SHA1_96")>>, prf |-> <<T("PRF_HMAC_SHA1")>>]

MCProposals ==
  {Base,
   [Base EXCEPT !.dh = <<T("DH_2048_BIT_MODP"), T("DH_1024_BIT_MODP")>>],
   [Base EXCEPT !.integ = <<T("AUTH_HMAC_SHA2_256_128")>>],
   [Base EXCEPT !.prf = <<T("PRF_HMAC_SHA2_256")>>],
   [Base EXCEPT !.encr = <<AES(64)>>],
   [Base EXCEPT !.integ = <<T("AUTH_HMAC_MD5_96")>>],
   [Base EXCEPT !.prf = <<>>]}

ChildBase == [dh |-> <<>>, encr |-> <<AES(128)>>,
              integ |-> <<T("AUTH_HMAC_SHA1_96")>>, esn |-> <<T("ESN_DISABLE")>>]

MCChildProposals ==
  {ChildBase,
   [ChildBase EXCEPT !.encr = <<AES(192)>>],
   [ChildBase EXCEPT !.integ = <<T("AUTH_HMAC_SHA1_96"), T("AUTH_HMAC_SHA2_256_128")>>],
   [ChildBase EXCEPT !.encr = <<AES(64)>>],
   [ChildBase EXCEPT !.dh = <<T("DH_768_BIT_MODP")>>]}

------------------------------------------------------------------------------
(* Negotiation for IKE and ESP offers of one or two proposals, with several  *)
(* transforms of a type, unsupported ones, key lengths in other attributes,  *)
(* and an SPI; at most one of the two messages is altered.                   *)

Transform(type, id) == [type |-> type, id |-> id, present |-> FALSE, format |-> 0, attr |-> 0, value |-> 0, variable |-> <<>>]
AESTransform(attr, bits) == [Transform(1, 12) EXCEPT !.present = TRUE, !.format = 1, !.attr = attr, !.value = bits]
Prop(protocol, number, spi, lists) == [number |-> number, protocol |-> protocol, spi |-> spi, list |-> lists]

IKE1 == Prop(1, 1, <<>>, <<<<AESTransform(14, 256)>>, <<Transform(2, 2)>>, <<Transform(3, 2)>>, <<Transform(4, 14)>>, <<>>>>)
IKE2 == Prop(1, 2, <<9, 8>>, <<<<AESTransform(14, 128), AESTransform(14, 192)>>, <<Transform(2, 5), Transform(2, 2)>>, <<Transform(3, 12)>>, <<Transform(4, 2), Transform(4, 14)>>, <<>>>>)
Unsupported == Prop(1, 1, <<>>, <<<<AESTransform(13, 128)>>, <<Transform(2, 2)>>, <<Transform(3, 2)>>, <<Transform(4, 14)>>, <<>>>>)
ESP1 == Prop(3, 1, <<1, 2, 3, 4>>, <<<<AESTransform(14, 192)>>, <<>>, <<Transform(3, 2)>>, <<>>, <<Transform(5, 0)>>>>)
ESP2 == Prop(3, 2, <<1, 2, 3, 4>>, <<<<AESTransform(14, 128)>>, <<>>, <<Transform(3, 2), Transform(3, 12)>>, <<Transform(4, 14)>>, <<Transform(5, 1)>>>>)

MCSAs == {<<IKE1>>, <<IKE2, IKE1>>, <<Unsupported, IKE2>>, <<ESP1, ESP2>>, <<ESP2>>}

VARIABLES payload, wire, damage, rest, proposal, transformData, got, used, pc,
          leg, offered, altered, chosen, agreed

N == INSTANCE Negotiation WITH
       Octet <- 256, SAs <- MCSAs, ChangedTo <- {0, 1, 5, 8, 12, 14}, MaxAltered <- 1, sa <- payload

------------------------------------------------------------------------------

negotiationVars ==
  <<payload, wire, damage, rest, proposal, transformData, got, used, pc,
    leg, offered, altered, chosen, agreed>>
allVars == <<vars, negotiationVars>>

NextKeys == pc = "encode" /\ leg = "offer" /\ offered = <<IKE1>> /\ Next /\ UNCHANGED negotiationVars
Negotiating(A) == Init /\ A /\ UNCHANGED vars

MCInit == Init /\ N!Init
MCSpec ==
  /\ MCInit
  /\ [][NextKeys \/ Negotiating(N!Next)]_allVars
  /\ WF_allVars(Negotiating(N!Travel \/ N!Choose \/ N!Accept))

\* Whatever happened to the offer, if the answer arrives as it was sent, the
\* initiator takes exactly the algorithms that the responder's key object has
\* (encr.go:92, security.go:114, 329).
SuitesAgree == N!SuitesAgree

\* If the offer arrives as it was sent, the responder's algorithms are those that
\* the library finds in one of the proposals before it is encoded (security.go:153,
\* 364).
ChoiceWasOffered == N!ChoiceWasOffered

\* Once the responder has chosen, and nothing is altered, the answer encodes,
\* decodes and is accepted, except for a child SA without integrity algorithm
\* (security.go:340, 356).
ChoiceIsCompleted == N!ChoiceIsCompleted
==============================================================================

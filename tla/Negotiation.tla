----------------------------- MODULE Negotiation -----------------------------
(***************************************************************************)
(* The choice of algorithms, end to end: an initiator's security           *)
(* association payload is encoded, arrives, perhaps altered, and is        *)
(* decoded (module SecurityAssociation); the responder makes a key object  *)
(* from one of the proposals (NewIKESAKey or NewChildSAKeyByProposal) and  *)
(* answers with ToProposal of it, which travels back the same way; the     *)
(* initiator takes its algorithms from the answer.  Transforms have the    *)
(* numbers of the code, so Octet is 256.                                   *)
(***************************************************************************)
EXTENDS Integers, Sequences, FiniteSets

CONSTANTS
  Octet, SAs, ChangedTo,   \* of SecurityAssociation; SAs are the offers
  MaxAltered               \* bound: legs of the exchange that may be altered

VARIABLES
  sa, wire, damage, rest, proposal, transformData, got, used, pc,  \* of the codec
  leg,          \* "offer" or "answer": the message under way
  offered,      \* history: the SA payload of the offer
  altered,      \* history: the legs that were altered
  chosen,       \* the responder's algorithms, a set that is empty before the choice
  agreed        \* the initiator's algorithms, likewise

codec == <<sa, wire, damage, rest, proposal, transformData, got, used, pc>>
vars == <<codec, leg, offered, altered, chosen, agreed>>

SA == INSTANCE SecurityAssociation

------------------------------------------------------------------------------
(* The registries.  A transform type is 1 for encryption, 2 for the PRF, 3   *)
(* for integrity, 4 for the group, 5 for sequence numbers; an algorithm is   *)
(* its transform ID and, for AES-CBC, the key length in bits.                *)

ENCR_AES_CBC == 12
AttributeTypeKeyLength == 14
KeyLengths == {128, 192, 256}
Registered == <<{ENCR_AES_CBC}, {2, 5}, {2, 12}, {2, 14}, {0, 1}>>
TypeIKE == 1

Alg(id, bits) == [id |-> id, bits |-> bits]
NoAlg == Alg(-1, 0)

DecodeTransform(type, t) ==
  IF t.id \notin Registered[type] THEN NoAlg
  ELSE IF type # 1 THEN Alg(t.id, 0)
  ELSE IF t.attr = AttributeTypeKeyLength /\ t.value \in KeyLengths THEN Alg(t.id, t.value) ELSE NoAlg

\* A transform without an attribute, or AES-CBC with its key length.
ToTransform_NoFormat(type, alg) ==
  [type |-> type, id |-> alg.id, present |-> type = 1, format |-> SA!UseTLV,
   attr |-> IF type = 1 THEN AttributeTypeKeyLength ELSE 0, value |-> alg.bits, variable |-> <<>>]
ToTransform_ESNSwapped(type, alg) ==
  [type |-> type, id |-> IF type = 5 THEN 1 - alg.id ELSE alg.id, present |-> type = 1,
   format |-> IF type = 1 THEN SA!UseTV ELSE SA!UseTLV,
   attr |-> IF type = 1 THEN AttributeTypeKeyLength ELSE 0, value |-> alg.bits, variable |-> <<>>]
ToTransform(type, alg) ==
  [type |-> type, id |-> alg.id, present |-> type = 1,
   format |-> IF type = 1 THEN SA!UseTV ELSE SA!UseTLV,
   attr |-> IF type = 1 THEN AttributeTypeKeyLength ELSE 0, value |-> alg.bits, variable |-> <<>>]

------------------------------------------------------------------------------
(* From a proposal to a key object and back.                                 *)

First(p, type) == IF p.list[type] = <<>> THEN NoAlg ELSE DecodeTransform(type, p.list[type][1])
Only(p, type) == IF Len(p.list[type]) = 1 THEN First(p, type) ELSE NoAlg

\* NewIKESAKey; GenerateKeyForIKESA refuses an unsupported integrity algorithm.
IKESuite(p) == [t \in 1 .. 4 |-> First(p, t)]
IKEAccepted(p) == \A t \in 1 .. 4 : IKESuite(p)[t] # NoAlg

\* NewChildSAKeyByProposal: group and integrity algorithm count only if alone.
ChildSuite(p) == [t \in {1, 3, 4, 5} |-> IF t \in {3, 4} THEN Only(p, t) ELSE First(p, t)]
ChildAccepted(p) ==
  /\ First(p, 1) # NoAlg /\ First(p, 5) # NoAlg
  /\ p.list[3] # <<>>
  /\ \A t \in {3, 4} : Len(p.list[t]) = 1 => Only(p, t) # NoAlg

Suite(p) == IF p.protocol = TypeIKE THEN IKESuite(p) ELSE ChildSuite(p)
Accepted(p) == IF p.protocol = TypeIKE THEN IKEAccepted(p) ELSE ChildAccepted(p)

\* IKESAKey.ToProposal and ChildSAKey.ToProposal; the caller sets the number.
ToProposal(suite, protocol, number) ==
  [number |-> number, protocol |-> protocol, spi |-> <<>>,
   list |-> [t \in 1 .. 5 |-> IF t \in DOMAIN suite /\ suite[t] # NoAlg
                              THEN <<ToTransform(t, suite[t])>> ELSE <<>>]]

------------------------------------------------------------------------------

Init ==
  /\ SA!Init
  /\ leg = "offer" /\ offered = sa /\ altered = {} /\ chosen = {} /\ agreed = {}

Travel ==
  /\ \/ SA!Marshal \/ SA!Intact
     \/ SA!UnmarshalDone \/ SA!UnmarshalProposal \/ SA!UnmarshalTransform \/ SA!UnmarshalNext
  /\ UNCHANGED <<leg, offered, altered, chosen, agreed>>

Alter ==
  /\ Cardinality(altered) < MaxAltered
  /\ SA!Truncated \/ SA!Changed
  /\ altered' = altered \cup {leg}
  /\ UNCHANGED <<leg, offered, chosen, agreed>>

\* The responder's caller takes one of the proposals, and answers.
Choose ==
  /\ leg = "offer" /\ pc = "ok"
  /\ \E i \in 1 .. Len(got) :
       LET p == got[i] IN
       IF Accepted(p)
       THEN /\ chosen' = {Suite(p)}
            /\ sa' = <<ToProposal(Suite(p), p.protocol, p.number)>>
            /\ leg' = "answer" /\ pc' = "encode"
            /\ wire' = <<>> /\ damage' = 0 /\ rest' = <<>> /\ got' = <<>> /\ used' = 0
            /\ UNCHANGED <<proposal, transformData, offered, altered, agreed>>
       ELSE /\ pc' = "refused"
            /\ UNCHANGED <<sa, wire, damage, rest, proposal, transformData, got, used,
                           leg, offered, altered, chosen, agreed>>

\* The initiator's caller takes the one proposal of the answer.
Accept ==
  /\ leg = "answer" /\ pc = "ok"
  /\ IF Len(got) = 1 /\ Accepted(got[1])
     THEN agreed' = {Suite(got[1])} /\ pc' = "done"
     ELSE pc' = "refused" /\ UNCHANGED agreed
  /\ UNCHANGED <<sa, wire, damage, rest, proposal, transformData, got, used,
                 leg, offered, altered, chosen>>

Next == Travel \/ Alter \/ Choose \/ Accept

\* A message that is not altered arrives, since callers retransmit, and the code
\* between two messages is sequential.
Spec == Init /\ [][Next]_vars /\ WF_vars(Travel \/ Choose \/ Accept)

------------------------------------------------------------------------------
(* Properties.                                                               *)

\* A child SA without integrity algorithm, which several of them in a proposal
\* lead to, is answered with a proposal that the initiator refuses.
Answerable(s) == 3 \in DOMAIN s => s[3] # NoAlg

\* Whatever happened to the offer, if the answer arrives as it was sent, the
\* initiator takes exactly the algorithms that the responder's key object has,
\* key length included (encr.go:92, security.go:114, 329,
\* payload_securityassociation.go:205).
SuitesAgree ==
  "answer" \notin altered => \A s \in chosen, a \in agreed : s = a

\* If the offer arrives as it was sent, the responder's algorithms are those that
\* the library finds in one of the proposals before it is encoded: encoding puts
\* no transform into another place, list or proposal (security.go:153, 364).
ChoiceWasOffered ==
  "offer" \notin altered =>
    \A s \in chosen : \E i \in 1 .. Len(offered) : Accepted(offered[i]) /\ Suite(offered[i]) = s

\* Once the responder has chosen, and nothing is altered, both ends get to the
\* end: the answer encodes, decodes and is accepted, except for a child SA without
\* integrity algorithm (security.go:340, 356).
ChoiceIsCompleted ==
  (\E s \in chosen : Answerable(s)) ~> (pc = "done" \/ altered # {})
==============================================================================

------------------------------ MODULE KeySchedule ------------------------------
(***************************************************************************)
(* src/security: how two endpoints turn a proposal, Diffie-Hellman values, *)
(* nonces and SPIs into the keys of an IKE SA, and those into the keys of  *)
(* child SAs.  The responder calls NewIKESAKey and answers with            *)
(* ToProposal; the initiator decodes the answer and calls GetSharedKey and *)
(* GenerateKeyForIKESA; either end then makes ChildSAKeys.  The exchange   *)
(* is not authenticated yet: any part of a message may arrive altered.     *)
(*                                                                         *)
(* Octets of key material are symbolic: a key stream is the pair of        *)
(* arguments PrfPlus was called with, a key is an interval of a stream.    *)
(***************************************************************************)
EXTENDS Integers, Sequences, FiniteSets

CONSTANTS
  Proposals,        \* IKE proposals: a sequence of transforms per kind
  ChildProposals,   \* ESP proposals, likewise
  ChildNonces,      \* concatenated nonces given to GenerateKeyForChildSA
  MaxDerivations    \* bound: calls of GenerateKeyForChildSA per endpoint

Role == {"Initiator", "Responder"}

\* A nil object, the outcome of a call that panics, a nil algorithm.
nil == <<>>
panic == [panic |-> TRUE]
nilType == "nil"

------------------------------------------------------------------------------
(* The registries of packages dh, encr, integ, prf and esn: the algorithms    *)
(* that DecodeTransform finds and whose transform ID ToTransform returns.     *)
(* AES-CBC is one transform ID with a key length attribute, in bits; the      *)
(* other transforms ignore the attribute.                                     *)

dhTypes == {"DH_1024_BIT_MODP", "DH_2048_BIT_MODP"}
encrTypes == {"ENCR_AES_CBC_128", "ENCR_AES_CBC_192", "ENCR_AES_CBC_256"}
integTypes == {"AUTH_HMAC_SHA1_96", "AUTH_HMAC_SHA2_256_128"}
prfTypes == {"PRF_HMAC_SHA1", "PRF_HMAC_SHA2_256"}
esnTypes == {"ESN_ENABLE", "ESN_DISABLE"}

Registry == [dh |-> dhTypes, encr |-> encrTypes, integ |-> integTypes,
             prf |-> prfTypes, esn |-> esnTypes]

GetKeyLength ==
  [ENCR_AES_CBC_128 |-> 16, ENCR_AES_CBC_192 |-> 24, ENCR_AES_CBC_256 |-> 32,
   AUTH_HMAC_SHA1_96 |-> 20, AUTH_HMAC_SHA2_256_128 |-> 32,
   PRF_HMAC_SHA1 |-> 20, PRF_HMAC_SHA2_256 |-> 32]

toString_ENCR_AES_CBC(bits) ==
  CASE bits = 128 -> "ENCR_AES_CBC_128"
    [] bits = 192 -> "ENCR_AES_CBC_192"
    [] bits = 256 -> "ENCR_AES_CBC_256"
    [] OTHER -> nilType

DecodeTransform(kind, t) ==
  IF kind = "encr" THEN IF t.id = "ENCR_AES_CBC" THEN toString_ENCR_AES_CBC(t.bits) ELSE nilType
  ELSE IF t.id \in Registry[kind] THEN t.id ELSE nilType

ToTransform(kind, alg) ==
  IF kind = "encr" THEN [id |-> "ENCR_AES_CBC", bits |-> 8 * GetKeyLength[alg]]
  ELSE [id |-> alg, bits |-> 0]

ASSUME ProposalAssumption ==
  /\ \A p \in Proposals : DOMAIN p = {"dh", "encr", "integ", "prf"}
  /\ \A p \in ChildProposals : DOMAIN p = {"dh", "encr", "integ", "esn"}

\* PrfPlus numbers its blocks with one octet: no stream is longer than 255 blocks.
ASSUME CounterAssumption ==
  \A p \in Registry.prf, e \in Registry.encr, i \in Registry.integ :
    3 * GetKeyLength[p] + 2 * GetKeyLength[i] + 2 * GetKeyLength[e] <= 255 * GetKeyLength[p]

------------------------------------------------------------------------------
(* Diffie-Hellman.  A public value is g^x in a group, written [group, x], or *)
(* Invalid: 0, 1, p-1 or above.                                              *)

Invalid == [group |-> "none", x |-> "none"]

GetPublicValue(group, secret) == [group |-> group, x |-> secret]

\* A value of the larger group is out of range in the smaller one.
InRange(group, pub) ==
  pub # Invalid /\ (group = "DH_1024_BIT_MODP" => pub.group = group)

GetSharedKey(group, secret, pub) ==
  [group |-> group, base |-> pub.group, exponents |-> {secret, pub.x}]

------------------------------------------------------------------------------
(* Key derivation.                                                           *)

PrfPlus(prf, key, seed) == [prf |-> prf, key |-> key, seed |-> seed]

\* Consecutive intervals of a stream, keyStream = keyStream[length:] after each.
Cut_NotAdvanced(stream, lens) ==
  LET From[i \in 1 .. Len(lens)] ==
        IF i = 1 THEN 0 ELSE From[i - 1] + (IF i = 3 THEN 0 ELSE lens[i - 1])
  IN  [i \in 1 .. Len(lens) |-> [of |-> stream, from |-> From[i], to |-> From[i] + lens[i]]]
Cut(stream, lens) ==
  LET From[i \in 1 .. Len(lens)] == IF i = 1 THEN 0 ELSE From[i - 1] + lens[i - 1]
  IN  [i \in 1 .. Len(lens) |-> [of |-> stream, from |-> From[i], to |-> From[i] + lens[i]]]

SKNames == <<"SK_d", "SK_ai", "SK_ar", "SK_ei", "SK_er", "SK_pi", "SK_pr">>

\* The checks of GenerateKeyForIKESA.
DerivationChecked_NoInteg(info, nonce) ==
  info.encr # nilType /\ info.prf # nilType /\ info.dh # nilType /\ nonce # <<>>
DerivationChecked(info, nonce) ==
  info.encr # nilType /\ info.integ # nilType /\ info.prf # nilType /\ info.dh # nilType /\ nonce # <<>>

GenerateKeyForIKESA_NoSPI(info, nonce, shared, spi) ==
  LET p == GetKeyLength[info.prf]
      a == GetKeyLength[info.integ]
      e == GetKeyLength[info.encr]
      sk == Cut(PrfPlus(info.prf, <<nonce, shared>>, <<nonce>>), <<p, a, a, e, e, p, p>>)
  IN  [n \in {SKNames[i] : i \in 1 .. 7} |-> sk[CHOOSE i \in 1 .. 7 : SKNames[i] = n]]
GenerateKeyForIKESA(info, nonce, shared, spi) ==
  LET p == GetKeyLength[info.prf]
      a == GetKeyLength[info.integ]
      e == GetKeyLength[info.encr]
      skeyseed == <<nonce, shared>>
      seed == <<nonce, spi>>
      sk == Cut(PrfPlus(info.prf, skeyseed, seed), <<p, a, a, e, e, p, p>>)
  IN  [n \in {SKNames[i] : i \in 1 .. 7} |-> sk[CHOOSE i \in 1 .. 7 : SKNames[i] = n]]

------------------------------------------------------------------------------
(* State.                                                                    *)

VARIABLES
  offer, answer,   \* the two messages: nil, or [proposal, ke, nonce, spi, altered]
  sa,              \* per endpoint its IKESAKey: nil, panic, or [info, SK]
  child,           \* per endpoint its ChildSAKey: nil, or [info, keys, nonces]
  err              \* the last call returned an error
                   \* altered and nonces are history

vars == <<offer, answer, sa, child, err>>

Derived == {r \in Role : sa[r] \notin {nil, panic}}

Init ==
  /\ offer = nil /\ answer = nil
  /\ sa = [r \in Role |-> nil] /\ child = [r \in Role |-> nil]
  /\ err = FALSE

------------------------------------------------------------------------------
(* IKE_SA_INIT.                                                              *)

\* What an endpoint draws; "altered" is what neither of them has drawn.
Nonce(r) == <<"nonce", r>>
SPI(r) == <<"SPI", r>>

Message(r, p, group) ==
  [proposal |-> p, ke |-> GetPublicValue(group, r),
   nonce |-> Nonce(r), spi |-> SPI(r), altered |-> FALSE]

\* What the caller at endpoint r passes on: its own nonce and SPI and the peer's.
ConcatenatedNonce(r, m) == [q \in Role |-> IF q = r THEN Nonce(r) ELSE m.nonce]
SPIs(r, m) == [q \in Role |-> IF q = r THEN SPI(r) ELSE m.spi]

Propose ==
  /\ offer = nil
  /\ \E p \in Proposals :
       /\ p.dh # <<>> /\ DecodeTransform("dh", p.dh[1]) # nilType
       /\ offer' = Message("Initiator", p, DecodeTransform("dh", p.dh[1]))
  /\ err' = FALSE
  /\ UNCHANGED <<answer, sa, child>>

\* The forms m can arrive in, one part of it altered.
Alterations(m) ==
  {[m EXCEPT !.proposal = p] : p \in Proposals}
  \cup {[m EXCEPT !.ke = ke, !.altered = TRUE] : ke \in {Invalid, GetPublicValue(m.ke.group, "altered")}}
  \cup {[m EXCEPT !.nonce = Nonce("altered"), !.altered = TRUE],
         [m EXCEPT !.spi = SPI("altered"), !.altered = TRUE]}

AlterOffer ==
  /\ offer # nil /\ ~ offer.altered /\ sa["Responder"] = nil
  /\ offer' \in Alterations(offer)
  /\ UNCHANGED <<answer, sa, child, err>>

AlterAnswer ==
  /\ answer # nil /\ ~ answer.altered /\ sa["Initiator"] = nil
  /\ answer' \in Alterations(answer)
  /\ UNCHANGED <<offer, sa, child, err>>

Infos(p) == [k \in DOMAIN p |-> DecodeTransform(k, p[k][1])]
ToProposal(info) == [k \in DOMAIN info |-> <<ToTransform(k, info[k])>>]

\* GenerateKeyForIKESA called by endpoint r on a key with the given algorithms,
\* after m has arrived.  An algorithm that is nil when its methods are called is
\* a nil interface.
Derive(r, info, m, nonce) ==
  IF \E k \in DOMAIN info : info[k] = nilType THEN panic
  ELSE [info |-> info,
        SK |-> GenerateKeyForIKESA(info, nonce, GetSharedKey(info.dh, r, m.ke), SPIs(r, m))]

Install(r, key) == sa' = [sa EXCEPT ![r] = key] /\ err' = FALSE
Fail == err' = TRUE /\ UNCHANGED <<answer, sa, child>>

\* NewIKESAKey checks the algorithms other than the integrity algorithm; that
\* one is left to GenerateKeyForIKESA (security.go:167 tests EncrInfo again).
NewIKESAKey ==
  /\ offer # nil /\ sa["Responder"] = nil
  /\ LET p == offer.proposal
         info == Infos(p)
     IN  \E nonce \in {ConcatenatedNonce("Responder", offer), <<>>} :
           IF /\ \A k \in DOMAIN p : p[k] # <<>>
              /\ \A k \in {"dh", "encr", "prf"} : info[k] # nilType
              /\ InRange(info.dh, offer.ke)
              /\ DerivationChecked(info, nonce)
           THEN /\ Install("Responder", Derive("Responder", info, offer, nonce))
                /\ answer' = Message("Responder", ToProposal(info), info.dh)
                /\ UNCHANGED child
           ELSE Fail
  /\ UNCHANGED offer

\* The initiator's caller: decode the chosen transforms, compute the shared key,
\* call GenerateKeyForIKESA.
FinishInitiator ==
  /\ answer # nil /\ sa["Initiator"] = nil
  /\ LET p == answer.proposal
         info == Infos(p)
     IN  IF /\ \A k \in DOMAIN p : p[k] # <<>>
            /\ info.dh # nilType /\ InRange(info.dh, answer.ke)
            /\ DerivationChecked(info, ConcatenatedNonce("Initiator", answer))
         THEN /\ Install("Initiator", Derive("Initiator", info, answer, ConcatenatedNonce("Initiator", answer)))
              /\ UNCHANGED <<answer, child>>
         ELSE Fail
  /\ UNCHANGED offer

------------------------------------------------------------------------------
(* Child SAs.                                                                *)

\* The Diffie-Hellman group and the integrity algorithm are taken only from a
\* proposal with exactly one of them.
ChildInfo(p) ==
  [dh    |-> IF Len(p.dh) = 1 THEN DecodeTransform("dh", p.dh[1]) ELSE nilType,
   encr  |-> DecodeTransform("encr", p.encr[1]),
   integ |-> IF Len(p.integ) = 1 THEN DecodeTransform("integ", p.integ[1]) ELSE nilType,
   esn   |-> DecodeTransform("esn", p.esn[1])]

ChildProposalAccepted(p) ==
  /\ \A k \in {"encr", "integ", "esn"} : p[k] # <<>>
  /\ ChildInfo(p).encr # nilType /\ ChildInfo(p).esn # nilType
  /\ \A k \in {"dh", "integ"} : Len(p[k]) = 1 => ChildInfo(p)[k] # nilType

NewChildSAKeyByProposal(r) ==
  /\ child[r] = nil
  /\ \E p \in ChildProposals :
       IF ChildProposalAccepted(p)
       THEN /\ child' = [child EXCEPT ![r] = [info |-> ChildInfo(p), keys |-> [i \in 1 .. 4 |-> <<>>], nonces |-> <<>>]]
            /\ err' = FALSE
            /\ UNCHANGED <<answer, sa>>
       ELSE Fail
  /\ UNCHANGED offer

\* The keys that one call adds, in the order of ChildKeyNames.
ChildKeys_NoNonce(key, info, nonce) ==
  LET e == GetKeyLength[info.encr]
      a == IF info.integ = nilType THEN 0 ELSE GetKeyLength[info.integ]
  IN  Cut(PrfPlus(key.info.prf, key.SK.SK_d, <<>>), <<e, a, e, a>>)
ChildKeys(key, info, nonce) ==
  LET e == GetKeyLength[info.encr]
      a == IF info.integ = nilType THEN 0 ELSE GetKeyLength[info.integ]
  IN  Cut(PrfPlus(key.info.prf, key.SK.SK_d, nonce), <<e, a, e, a>>)

GenerateKeyForChildSA(r) ==
  /\ child[r] # nil /\ sa[r] # panic
  /\ Len(child[r].nonces) < MaxDerivations
  /\ IF sa[r] = nil
     THEN Fail
     ELSE \E nonce \in ChildNonces :
            /\ LET new == ChildKeys(sa[r], child[r].info, nonce)
               IN  child' = [child EXCEPT ![r].keys = [i \in 1 .. 4 |-> Append(@[i], new[i])],
                                          ![r].nonces = Append(@, nonce)]
            /\ err' = FALSE
            /\ UNCHANGED <<answer, sa>>
  /\ UNCHANGED offer

Next ==
  \/ Propose \/ AlterOffer \/ NewIKESAKey \/ AlterAnswer \/ FinishInitiator
  \/ \E r \in Role : NewChildSAKeyByProposal(r) \/ GenerateKeyForChildSA(r)

Spec == Init /\ [][Next]_vars

------------------------------------------------------------------------------
(* Properties.                                                               *)

\* An IKESAKey comes only from a proposal whose first transforms are all
\* supported, the integrity algorithm included although the test meant for it in
\* NewIKESAKey tests the encryption algorithm again (security.go:167): the check
\* in GenerateKeyForIKESA (security.go:227) stands between it and a nil call.  A
\* ChildSAKey has registered algorithms too, or none where they are optional
\* (security.go:372, 379).
OnlySupported ==
  /\ \A r \in Role : sa[r] # panic
  /\ \A r \in Derived : \A k \in DOMAIN sa[r].info : sa[r].info[k] \in Registry[k]
  /\ \A r \in Role : child[r] # nil =>
       \A k \in DOMAIN child[r].info :
         child[r].info[k] \in Registry[k] \cup (IF k \in {"dh", "integ"} THEN {nilType} ELSE {})

\* Both ends hold the same seven keys exactly if the key exchange values, nonces
\* and SPIs arrived as they were sent, both took the same algorithms and the
\* initiator's value was made in the group that was chosen.
KeysAgree ==
  Derived = Role =>
    (sa["Initiator"].SK = sa["Responder"].SK
     <=> /\ ~ offer.altered /\ ~ answer.altered
         /\ sa["Initiator"].info = sa["Responder"].info
         /\ offer.ke.group = sa["Responder"].info.dh)

Overlap(x, y) == x.of = y.of /\ x.from < y.to /\ y.from < x.to

\* No octet of key material serves two purposes: the seven keys of an IKE SA, and
\* the four keys that one call of GenerateKeyForChildSA adds, do not overlap
\* (security.go:276-288, 437-451).
KeysDisjoint ==
  /\ \A r \in Derived : \A m, n \in DOMAIN sa[r].SK : m # n => ~ Overlap(sa[r].SK[m], sa[r].SK[n])
  /\ \A r \in Role : child[r] # nil =>
       \A c \in 1 .. Len(child[r].nonces) : \A i, j \in 1 .. 4 :
         i # j => ~ Overlap(child[r].keys[i][c], child[r].keys[j][c])

\* Children of the two ends have the same keys exactly if the ends share SK_d,
\* chose the same encryption and integrity algorithms, and made the same calls
\* of GenerateKeyForChildSA.  Keys accumulate over the calls: a repeated call
\* appends to the keys of the first (security.go:437).
ChildKeysAgree ==
  (/\ Derived = Role
   /\ \A r \in Role : child[r] # nil /\ child[r].nonces # <<>>) =>
    (child["Initiator"].keys = child["Responder"].keys
     <=> /\ sa["Initiator"].SK.SK_d = sa["Responder"].SK.SK_d
         /\ \A k \in {"encr", "integ"} : child["Initiator"].info[k] = child["Responder"].info[k]
         /\ child["Initiator"].nonces = child["Responder"].nonces)
==============================================================================

------------------------------ MODULE MCMessage ------------------------------
(***************************************************************************)
(* Messages as octets and as objects: PayloadChain and Datagram.  A        *)
(* behaviour is one of either; the other stays in its initial state.       *)
(***************************************************************************)
EXTENDS PayloadChain

(* PayloadChain with octets of 6 values, so that lengths above 35 exceed the *)
(* length field.  Types: 1 = KE, 2 = CERT, 3 = Ni/Nr, 4 = SK; 5 is unknown   *)
(* to Decode.                                                                *)

MCPrefix == [t \in Known |-> CASE t = 1 -> 4 [] t = 2 -> 1 [] OTHER -> 0]

Ones(k) == [i \in 1 .. k |-> 1]
MCPayloads == {[type |-> t, data |-> Ones(k), next |-> NoNext] : t \in {1, 2, 3}, k \in {0, 2, 31}}
MCEncrypted == {[type |-> SK, data |-> Ones(k), next |-> t] : k \in {0, 5}, t \in {0, 3}}

\* Chains of at most three payloads, Encrypted ones at the end or, in short chains,
\* before another payload.
Lists(S) == {<<>>} \cup {<<p>> : p \in S} \cup {<<p, q>> : p \in S, q \in S}
MCSmall == {p \in MCPayloads : Len(p.data) # 31}
MCContainers ==
  Lists(MCPayloads) \cup {c \o <<e>> : c \in Lists(MCSmall), e \in MCEncrypted}
  \cup {<<e, p>> : e \in MCEncrypted, p \in MCSmall}

------------------------------------------------------------------------------
(* Datagram with two peers' headers, chains of up to two payloads, one       *)
(* payload type that Decode does not know, and two datagrams.                *)

SPI(o) == [i \in 1 .. 8 |-> o]
Call(exchange, response, initiator, id) ==
  [iSPI |-> SPI(255), rSPI |-> SPI(id), exchgType |-> exchange, response |-> response,
   initiator |-> initiator, mId |-> <<0, 0, 0, id>>]
MCCalls == {Call(34, TRUE, FALSE, 0), Call(35, TRUE, TRUE, 1)}

P(type, critical) == [type |-> type, critical |-> critical, data |-> type]
MCChains ==
  {<<>>, <<P(33, FALSE)>>, <<P(41, FALSE), P(33, FALSE)>>, <<P(99, FALSE), P(33, FALSE)>>,
   <<P(33, TRUE), P(99, TRUE)>>}
\* Next payload, version, flags, and the ends of the message ID and of the length.
MCDamage == [at: {17, 18, 20, 28}, to: {41}] \cup [at: {17, 28}, to: {27}]

VARIABLES array, n, told, arrived, headers, header, message, encoded, out

D == INSTANCE Datagram WITH
       Octet <- 256, Known <- {33, 41}, Calls <- MCCalls, Chains <- MCChains,
       Damage <- MCDamage, MaxChain <- 2, MaxDatagrams <- 2, MaxHeaders <- 2

ASSUME D!DatagramAssumption

------------------------------------------------------------------------------

datagramVars == <<array, n, told, arrived, headers, header, message, encoded, out>>
allVars == <<vars, datagramVars>>

NextChain == arrived = 0 /\ Next /\ UNCHANGED datagramVars
NextDatagram == container = <<>> /\ pc = "encode" /\ D!Next /\ UNCHANGED vars

MCInit == Init /\ D!Init
MCSpec ==
  /\ MCInit
  /\ [][NextChain \/ NextDatagram]_allVars
  /\ WF_allVars(NextChain)

\* A header parsed from a datagram that arrived as it was sent tells, for as long
\* as it lives, what the peer passed to NewHeader (header.go:46, 107).
HeaderAsTold == D!HeaderAsTold

\* A message decoded from a datagram encodes to exactly that datagram, also after
\* the array that its header's PayloadBytes is a slice of was overwritten
\* (header.go:116, message.go:35).
ReencodesAsReceived == D!ReencodesAsReceived

\* A header that the caller passes to DecodeDecrypt gives the payloads that parsing
\* the datagram anew gives, also after Encode assigned its NextPayload (ike.go:45,
\* message.go:29).
PassedHeaderAgrees == D!PassedHeaderAgrees
==============================================================================

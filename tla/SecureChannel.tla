---------------------------- MODULE SecureChannel ----------------------------
(***************************************************************************)
(* What EncodeEncrypt and DecodeDecrypt promise together, with no keys,    *)
(* checksums or datagrams in sight: a protected message that an endpoint   *)
(* hands to its caller was sealed by the peer (under the same IKE SA, with *)
(* the same header and payloads: all are part of the message).  The        *)
(* network may lose, repeat, reorder and damage; nothing here depends on   *)
(* it.  Messages without an Encrypted payload are no part of the promise.  *)
(***************************************************************************)
CONSTANT Role

VARIABLES sealed,            \* sealed[r]: the messages r has sealed so far, each [to: Role, ...]
          delivered          \* what the last call delivered: at most one message

Init == /\ sealed = [r \in Role |-> {}]
        /\ delivered = {}

Seal(r) == \E m \in sealed'[r] :
  /\ m.to # r
  /\ sealed' = [sealed EXCEPT ![r] = @ \cup {m}]
  /\ delivered' = {}

Deliver(r) == \E s \in Role \ {r} : \E m \in sealed[s] :
  /\ m.to = r
  /\ delivered' = {m}
  /\ UNCHANGED sealed

\* A call that delivers nothing protected: it failed, or the message was in clear.
Nothing == delivered' = {} /\ UNCHANGED sealed

Next == Nothing \/ \E r \in Role : Seal(r) \/ Deliver(r)

Spec == Init /\ [][Next]_<<sealed, delivered>>
==============================================================================

--------------------------- MODULE MCMessageObjects ---------------------------
(***************************************************************************)
(* MessageObjects with octets of 8 values: QoS information of 7 octets and *)
(* NAS messages of 63 octets are the longest.                              *)
(***************************************************************************)
EXTENDS MessageObjects, TLC

MCSymmetry == Permutations(Data)
MCQFIs == {[i \in 1 .. n |-> i % Octet] : n \in {0, 2, 3, 4, 8}}
MCNASPDUs == {[i \in 1 .. n |-> i % Octet] : n \in {0, 1, 63, 64}}

\* The 3GPP and EAP payloads, which have many contents and no parts, appear in
\* messages of two payloads; of three payloads one has parts.
Special(o) == o.octets # <<>> \/ (o.kind = "data" /\ o.parts = <<>>)
Filled == {o \in 1 .. Len(objects) : objects[o].kind \in {"list", "TS"} /\ objects[o].parts # <<>>}
MCConstraint ==
  /\ (\E o \in 1 .. Len(objects) : Special(objects[o])) => Len(objects) <= 2 /\ Len(messages) <= 1
  /\ Len(objects) > 2 => \A o, p \in Filled : o = p
==============================================================================

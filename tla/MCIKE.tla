-------------------------------- MODULE MCIKE --------------------------------
(***************************************************************************)
(* Small instances of IKE for TLC.                                         *)
(***************************************************************************)
EXTENDS IKE

CONSTANTS empty,      \* no payloads
          sa,         \* survives encoding and decoding
          lossy,      \* decodes to sa: a transform with a TLV attribute is lost
          rejected,   \* encodes but does not decode: an ID payload without data
          large,      \* each payload fits in 16 bits, the Encrypted payload does not
          bad         \* Marshal refuses it

MCFirstType == [p \in Plain |-> IF p = empty THEN "NoNext" ELSE "SA"]
MCUnmarshal == [p \in Plain |-> CASE p = lossy -> sa
                                  [] p = rejected -> Malformed
                                  [] OTHER -> p]
MCTypes == {"NoNext", "SK", "SA"}
MissingOne == {Fields \ F : F \in {{}, {"Integ_i"}, {"Encr_i"}, {"Encr_r"}}}

CONSTANTS k1, h1      \* one of KeyIds, one of Headers

------------------------------------------------------------------------------
(* One thing varies at a time: SAs (a rekey) and headers, or the shapes of   *)
(* the keys, or the payloads of the initiator.                               *)

VARIABLE varies

AllFields == \A r \in Role : key[r] # nil => key[r].has = Fields
OneSA ==
  /\ \A r \in Role : (key[r] # nil => key[r].id = k1) /\ (msg[r] # nil => msg[r].hdr = h1)
  /\ \A d \in net : d.hdr = h1
Simple(r) == msg[r] # nil => msg[r].payloads \notin Plain \ {sa}
AllSimple == \A r \in Role : Simple(r)

Within ==
  CASE varies = "SA" -> AllFields /\ AllSimple
    [] varies = "shape" -> OneSA /\ AllSimple
    [] varies = "payloads" -> AllFields /\ OneSA /\ Simple("Responder")

MCInit == Init /\ varies \in {"SA", "shape", "payloads"}
MCNext == Next /\ UNCHANGED varies /\ Within'
MCSpec == MCInit /\ [][MCNext]_<<vars, varies>>
==============================================================================

----------------------------- MODULE MCAlgorithms -----------------------------
(***************************************************************************)
(* The algorithms around the ciphers and hashes: AesCbc and KeyStream.  A  *)
(* behaviour is one of either; the other stays in its initial state.       *)
(***************************************************************************)
EXTENDS AesCbc

(* AesCbc with blocks of 4 octets of 16 values: paddings of up to 16 octets, *)
(* plaintexts of up to three blocks.                                         *)

Padding(n, last) == [c \in 1 .. n |-> IF c = n THEN last ELSE 5]
MCPaddings == {Padding(n, n - 1) : n \in {1, 2, 4, 5, 8, 16}} \cup {Padding(4, 9), Padding(4, 0)}

------------------------------------------------------------------------------
(* KeyStream with digests of 2 cells, seeds of 1 to 3 cells, and counters of *)
(* 16 values: 15 blocks are the most that can be numbered.                   *)

Seed(n) == [c \in 1 .. n |-> <<"seed", c, 0>>]
MCJobs ==
  {[f |-> "PrfPlus", key |-> "SK_d", seed |-> Seed(n), length |-> l] : n \in {1, 3}, l \in {0, 1, 4, 7}}
  \cup {[f |-> "PrfPlus", key |-> "SK_d", seed |-> Seed(2), length |-> l] : l \in {30, 31}}
  \cup {[f |-> "EapAkaPrimePRF", key |-> k, seed |-> Seed(1), length |-> 13] : k \in {"", "IK'|CK'"}}

VARIABLES jobs, done, i, mem, len, prf, log, first, result

K == INSTANCE KeyStream WITH Size <- 2, Jobs <- MCJobs, MaxJobs <- 2, Spare <- 3

ASSUME K!StreamAssumption

------------------------------------------------------------------------------

streamVars == <<jobs, done, i, mem, len, prf, log, first, result>>

NextCbc == jobs = <<>> /\ Next /\ UNCHANGED streamVars
NextStream ==
  /\ pc = "encrypt" /\ plain = <<>> /\ sender = (CHOOSE o \in Objects : TRUE) /\ receiver.key = sender.key
  /\ K!Next
  /\ UNCHANGED vars

MCInit == Init /\ K!Init
MCSpec == MCInit /\ [][NextCbc \/ NextStream]_<<vars, streamVars>>

\* Whatever was derived with the hash object before, and wherever append puts its
\* octets, a stream is the concatenation of the blocks that RFC 7296 section 2.13
\* and RFC 9048 section 3.4.1 prescribe, and the caller gets as much of it as it
\* asked for, cut without gap or overlap (lib.go:33, 34, 37, 40,
\* eap_aka_prime.go:787).
StreamAsDefined == K!StreamAsDefined
==============================================================================

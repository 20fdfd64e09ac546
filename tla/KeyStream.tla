------------------------------- MODULE KeyStream -------------------------------
(***************************************************************************)
(* The two functions that stretch a key: PrfPlus (src/security/lib/lib.go) *)
(* and EapAkaPrimePRF (src/eap/eap_aka_prime.go), one step per block.      *)
(*                                                                         *)
(* PrfPlus is called with a hash object that lives on between calls        *)
(* (IKESAKey.Prf_d derives every child SA), and assembles the input of a   *)
(* block with append on a slice of the very stream it is extending: with   *)
(* capacity to spare, the input is written behind the stream.              *)
(*                                                                         *)
(* A prf is an injective function of all that was written to it since its  *)
(* last Reset: the inputs are numbered, and the digest of the n-th is the  *)
(* cells <<"digest", n, 1>>, <<"digest", n, 2>>, ...                       *)
(***************************************************************************)
EXTENDS Octets, SequencesExt

CONSTANTS
  Size,         \* cells of a digest
  Jobs,         \* the calls: [f, key, seed, length], in cells
  MaxJobs,      \* bound: calls in a row
  Spare         \* bound: capacity that append adds beyond what it needs

\* What the constants are.
StreamAssumption ==
  /\ Octet \in Nat \ {0} /\ Size \in Nat \ {0} /\ Size % 2 = 0
  /\ MaxJobs \in Nat /\ Spare \in Nat
  /\ \A j \in Jobs : /\ j.f \in {"PrfPlus", "EapAkaPrimePRF"}
                     /\ j.length \in Nat /\ j.seed \in Seq({"seed"} \X Nat \X {0})

Digest(n) == [c \in 1 .. Size |-> <<"digest", n, c>>]
Counter(i) == <<"counter", i % Octet, 0>>
Unused == <<"unused", 0, 0>>

VARIABLES
  jobs,         \* the calls so far; the last one is running until it is done
  done,         \* the last call has returned
  i,            \* its loop counter
  mem, len,     \* the array of stream (MK), and the length of stream
  prf,          \* what the shared hash object has been written since its last Reset
  log,          \* all inputs that were hashed: [key, input]
  first,        \* the number of inputs before the running call
  result        \* what the last call returned: a sequence of slices of the array

vars == <<jobs, done, i, mem, len, prf, log, first, result>>

job == jobs[Len(jobs)]

Init ==
  /\ jobs = <<>> /\ done = TRUE /\ i = 0 /\ mem = <<>> /\ len = 0
  /\ prf = <<>> /\ log = <<>> /\ first = 0 /\ result = <<>>

Call ==
  /\ done /\ Len(jobs) < MaxJobs
  /\ \E j \in Jobs : jobs' = Append(jobs, j)
  /\ done' = FALSE /\ i' = 1 /\ mem' = <<>> /\ len' = 0
  /\ first' = Len(log) /\ result' = <<>>
  /\ UNCHANGED <<prf, log>>

\* m with the cells written from position n + 1 on.
Write(m, n, cells) == [c \in 1 .. Len(m) |-> IF c \in n + 1 .. n + Len(cells) THEN cells[c - n] ELSE m[c]]

\* The arrays that append of cells to the first n cells of m may leave behind the
\* result: m itself if they fit, else a longer copy.
Grown(m, n, cells) ==
  IF n + Len(cells) <= Len(m) THEN {Write(m, n, cells)}
  ELSE {SubSeq(m, 1, n) \o cells \o [c \in 1 .. s |-> Unused] : s \in 0 .. Spare}

------------------------------------------------------------------------------
(* PrfPlus.                                                                  *)

\* block = stream[len(stream)-prf.Size():], nil before the first block.
BlockFrom(n) == n - Size

\* What append(append(block, s...), byte(i)) writes into the array of stream: the
\* octets that still fit behind block, unless block is nil.
Scribbled(m, n, seed, counter) ==
  LET at == IF n = 0 THEN 0 ELSE BlockFrom(n) + Size
  IN  IF n = 0 \/ at + Len(seed) > Len(m) THEN m
      ELSE IF at + Len(seed) + 1 > Len(m) THEN Write(m, at, seed)
      ELSE Write(m, at, seed \o <<counter>>)

Written_NoReset(input) == prf \o input
Written(input) == input

PrfPlusBlock ==
  /\ ~ done /\ job.f = "PrfPlus" /\ len < job.length
  /\ LET block == IF len = 0 THEN <<>> ELSE SubSeq(mem, BlockFrom(len) + 1, BlockFrom(len) + Size)
         input == block \o job.seed \o <<Counter(i)>>
         before == Scribbled(mem, len, job.seed, Counter(i))
     IN  /\ prf' = Written(input)
         /\ log' = Append(log, [key |-> job.key, input |-> prf'])
         /\ mem' \in Grown(before, len, Digest(Len(log) + 1))
  /\ len' = len + Size /\ i' = i + 1
  /\ UNCHANGED <<jobs, done, first, result>>

PrfPlusReturn ==
  /\ ~ done /\ job.f = "PrfPlus" /\ len >= job.length
  /\ done' = TRUE /\ result' = <<[from |-> 0, to |-> job.length]>>
  /\ UNCHANGED <<jobs, i, mem, len, prf, log, first>>

------------------------------------------------------------------------------
(* EapAkaPrimePRF: a new HMAC object and a copy of the previous digest for   *)
(* every block; five keys out of MK.  A digest has 32 octets.                *)

prfRounds == 208 \div 32 + 1

\* No IK' or no CK'.
AkaRefused ==
  /\ ~ done /\ job.f = "EapAkaPrimePRF" /\ job.key = ""
  /\ done' = TRUE
  /\ UNCHANGED <<jobs, i, mem, len, prf, log, first, result>>

AkaBlock ==
  /\ ~ done /\ job.f = "EapAkaPrimePRF" /\ job.key # "" /\ i <= prfRounds
  /\ LET prev == IF i = 1 THEN <<>> ELSE Digest(Len(log))
     IN  log' = Append(log, [key |-> job.key, input |-> prev \o job.seed \o <<Counter(i)>>])
  /\ mem' \in Grown(mem, len, Digest(Len(log) + 1))
  /\ len' = len + Size /\ i' = i + 1
  /\ UNCHANGED <<jobs, done, prf, first, result>>

\* The bounds in MK, in units of 16 octets.
AkaBounds == << <<0, 1>>, <<1, 3>>, <<3, 5>>, <<5, 9>>, <<9, 13>> >>

AkaReturn ==
  /\ ~ done /\ job.f = "EapAkaPrimePRF" /\ i > prfRounds
  /\ done' = TRUE
  /\ result' = [k \in 1 .. 5 |-> [from |-> AkaBounds[k][1] * (Size \div 2), to |-> AkaBounds[k][2] * (Size \div 2)]]
  /\ UNCHANGED <<jobs, i, mem, len, prf, log, first>>

Next == Call \/ PrfPlusBlock \/ PrfPlusReturn \/ AkaRefused \/ AkaBlock \/ AkaReturn

Spec == Init /\ [][Next]_vars

------------------------------------------------------------------------------
(* Properties.                                                               *)

Returned(k) == SubSeq(mem, result[k].from + 1, result[k].to)
Blocks == len \div Size

\* The definition of prf+ in RFC 7296 section 2.13 and of PRF' in RFC 9048 section
\* 3.4.1: T1 = prf(K, S | 1), Tn = prf(K, Tn-1 | S | n), for at most 255 blocks.
Reference ==
  /\ \A n \in 1 .. Blocks :
       log[first + n] =
         [key |-> job.key,
          input |-> (IF n = 1 THEN <<>> ELSE Digest(first + n - 1)) \o job.seed \o << <<"counter", n, 0>> >>]
  /\ SubSeq(mem, 1, len) = FlattenSeq([n \in 1 .. Blocks |-> Digest(first + n)])

\* Whatever was derived with the hash object before, and wherever append puts its
\* octets, the stream is the concatenation of the blocks that the definition
\* prescribes: the input that is scribbled behind the stream is overwritten by the
\* next block (lib.go:34, 37), and Reset forgets earlier derivations (lib.go:33).
\* The caller gets length cells of the stream, or five keys that lie one behind the
\* other in MK without gap or overlap (lib.go:40, eap_aka_prime.go:787).
StreamAsDefined ==
  /\ jobs # <<>> /\ Blocks <= Max8 => Reference
  /\ done /\ jobs # <<>> =>
       LET keys == FlattenSeq([k \in 1 .. Len(result) |-> Returned(k)])
       IN  /\ keys = SubSeq(mem, 1, Len(keys))
           /\ Len(keys) = IF job.key = "" THEN 0 ELSE job.length
==============================================================================

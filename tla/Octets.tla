-------------------------------- MODULE Octets --------------------------------
(***************************************************************************)
(* Octets, big-endian integers and Go slice expressions, shared by the     *)
(* codec modules.  Octet is the number of values of an octet, 256 in the   *)
(* code.  A smaller value scales the limits of 8-bit and 16-bit fields,    *)
(* the places where 8-bit and 16-bit sums wrap around, and the bits of an  *)
(* octet, and nothing else.                                                *)
(***************************************************************************)
EXTENDS Integers, Sequences

CONSTANT Octet

Octets == 0 .. Octet - 1

\* math.MaxUint8 and 0xFFFF, sums of uint8 and uint16 values.
Max8 == Octet - 1
Max16 == Octet * Octet - 1
Add8(m, n) == (m + n) % Octet
Add16(m, n) == (m + n) % (Octet * Octet)

\* The top bit of an octet, 0x80.
TopBit == Octet \div 2

\* binary.BigEndian: the octets of a 16-bit and of a 32-bit integer, and the integer in
\* the octets of b from index i (0 for the first).
PutUint16_OneOctet(n) == <<0, n>>
PutUint16(n) == <<(n \div Octet) % Octet, n % Octet>>
Uint16(b, i) == b[i + 1] * Octet + b[i + 2]

\* The number of values of a 16-bit integer.
Word == Octet * Octet

PutUint32(n) == PutUint16(n \div Word) \o PutUint16(n % Word)
Uint32(b, i) == Uint16(b, i) * Word + Uint16(b, i + 2)

\* b[m:n] and b[m:], where the bounds are in range.
Slice(b, m, n) == SubSeq(b, m + 1, n)
From(b, m) == SubSeq(b, m + 1, Len(b))

\* What a loop leaves that appends the first n parts: append(b, parts[i]...).
AppendAll(parts, n) == LET b[i \in 0 .. n] == IF i = 0 THEN <<>> ELSE b[i - 1] \o parts[i] IN b[n]

Zeros(n) == [i \in 1 .. n |-> 0]
==============================================================================

---------------------------------- MODULE Gob ----------------------------------
(***************************************************************************)
(* The representations of gobber.c as operators.  Bytes are numbers below  *)
(* Radix (256).  Unsigned values below Small (128) are one byte, and       *)
(* larger ones a byte that holds the negated number of the bytes after it, *)
(* at most MaxBytes (8) of them, high byte first; signed values, floating  *)
(* point numbers and byte vectors are made of them.                        *)
(***************************************************************************)
EXTENDS Integers, Sequences, SequencesExt

CONSTANTS Radix, Small, MaxBytes

ASSUME GobAssumption ==
  /\ Radix \in Nat /\ Small \in Nat \ {0} /\ MaxBytes \in Nat \ {0}
  /\ Small + MaxBytes <= Radix

\* A number shifted by n bytes is multiplied, or divided, by this.
Power[n \in Nat] == IF n = 0 THEN 1 ELSE Radix * Power[n - 1]

\* Byte k of number u, the low one being byte 0.
ByteOf(u, k) == (u \div Power[k]) % Radix

NumBytesAtBoundary(u) ==         \* mutant: a power of the radix is one byte short
  CHOOSE n \in 1..MaxBytes : u <= Power[n] /\ (n = 1 \/ u > Power[n - 1])

\* The bytes value u needs, at least one: the BSR instruction or the search.
NumBytes(u) == CHOOSE n \in 1..MaxBytes : u < Power[n] /\ (n = 1 \/ u >= Power[n - 1])

EncodedUintUnmasked(u) ==        \* mutant: the low byte is not cut out
  IF u < Small THEN <<u>>
  ELSE LET n == NumBytes(u)
       IN <<Radix - n>> \o [i \in 1..n |-> u \div Power[n - i]]

\* __gob_encode_u64, with room for all bytes.
EncodedUint(u) ==
  IF u < Small THEN <<u>>
  ELSE LET n == NumBytes(u)
       IN <<Radix - n>> \o [i \in 1..n |-> ByteOf(u, n - i)]

\* How many bytes follow the first one, b.
NumFollowing(b) == IF b < Small THEN 0 ELSE Radix - b

ValueOfLowFirst(bytes) ==        \* mutant: the bytes are taken from the end
  LET value[n \in 0..NumFollowing(bytes[1])] ==
        IF n = 0 THEN 0
        ELSE value[n - 1] * Radix + bytes[NumFollowing(bytes[1]) + 2 - n]
  IN value

\* The value after n bytes behind the first one: each shifts it and is put below.
ValueOf(bytes) ==
  LET value[n \in 0..NumFollowing(bytes[1])] ==
        IF n = 0 THEN 0 ELSE value[n - 1] * Radix + bytes[n + 1]
  IN value

\* __gob_decode_u64 on bytes that are all there.  The switch has no case for more
\* than MaxBytes bytes, which leaves the value at 0.
DecodedUint(bytes) ==
  IF bytes[1] < Small THEN bytes[1]
  ELSE IF NumFollowing(bytes[1]) > MaxBytes THEN 0
  ELSE ValueOf(bytes)[NumFollowing(bytes[1])]

\* How many bytes a number at the start of `bytes' takes.
Consumed(bytes) == NumFollowing(bytes[1]) + 1

\* Is a whole number there?  If not the result is negative.
Complete(bytes) == bytes # <<>> /\ Consumed(bytes) <= Len(bytes)

\* gob_encode_int64, gob_decode_int64: bit 0 says that the others are complemented.
EncodedInt(v) == EncodedUint(IF v < 0 THEN 2 * (-v - 1) + 1 ELSE 2 * v)

DecodedInt(bytes) ==
  LET u == DecodedUint(bytes)
  IN IF u % 2 = 1 THEN -(u \div 2) - 1 ELSE u \div 2

\* __gob_flip_u64 on the pattern of a double: its low bytes, often 0, come first.
Flip(u) ==
  LET flipped[n \in Nat] == IF n = 0 THEN 0
                            ELSE flipped[n - 1] * Radix + ByteOf(u, n - 1)
  IN flipped[MaxBytes]

EncodedDouble(pattern) == EncodedUint(Flip(pattern))
DecodedDouble(bytes) == Flip(DecodedUint(bytes))

\* A message on a pipe or connection, its length first, and a sequence of them.
Frame(m) == EncodedUint(Len(m)) \o m
Stream(messages) == FlattenSeq([i \in DOMAIN messages |-> Frame(messages[i])])

\* Do the bytes fit into the room left in the buffer?  A vector must leave one byte.
NumberFits(bytes, room) == Len(bytes) <= room
VectorFits(bytes, room) == NumberFits(EncodedUint(Len(bytes)), room)
                           /\ Len(EncodedUint(Len(bytes)) \o bytes) < room
===============================================================================

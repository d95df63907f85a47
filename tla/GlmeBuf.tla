-------------------------------- MODULE GlmeBuf --------------------------------
(***************************************************************************)
(* The life of one glme_buf_t: the data block it points to, its size       *)
(* `buflen', the write pointer `count', the read pointer `current' and the *)
(* owner flag, under every operation of glme.h and the operations of       *)
(* encoder.c, decoder.c and glme.c that move the pointers or grow the      *)
(* block.  What is written is of no interest here, only how many bytes.    *)
(*                                                                         *)
(* The heap is part of the state: `live' blocks with their `size', and the *)
(* blocks the program itself is responsible for, `user'.  The program uses *)
(* the interface as glme.h asks: it initializes a buffer that owns         *)
(* nothing, makes buffers from memory it allocated, and takes over what it *)
(* disowns.  size_t arithmetic wraps at Modulus.                           *)
(***************************************************************************)
EXTENDS Integers

CONSTANTS
  Blocks,       \* addresses the allocator can return
  Null,         \* the null pointer
  MaxLen,       \* the largest block the allocator can provide
  Modulus,      \* size_t holds 0 .. Modulus - 1
  GrowCap,      \* 1024 in encoder.c: doubling below it, steps of it above
  InitSizes,    \* lengths glme_buf_init is called with
  ItemSizes,    \* bytes of an encoded value, or of a length and its data
  ReadSizes     \* lengths of the messages glme_buf_readm receives

ASSUME BufAssumption ==
  /\ Null \notin Blocks
  /\ MaxLen \in Nat /\ Modulus \in Nat /\ GrowCap \in Nat \ {0}
  /\ 2 * MaxLen < Modulus
  /\ InitSizes \subseteq 0..MaxLen
  /\ ItemSizes \subseteq 1..MaxLen
  /\ ReadSizes \subseteq 0..MaxLen

VARIABLES
  buf, buflen, count, current, owner,   \* the fields of glme_buf_t
  live, size, user,                     \* the heap
  spoiled,      \* history: since the buffer was last empty, a value did not fit
                \*   and `count' moved back, or readm kept a failed resize quiet
  dangling      \* history: realloc(buf, 0) has freed the block under the buffer

bufVars == <<buf, buflen, count, current, owner>>
heapVars == <<live, size, user>>
vars == <<bufVars, heapVars, spoiled, dangling>>

WrapNot(x) == x                 \* mutant: the pointers are signed
Wrap(x) == IF x < 0 THEN x + Modulus ELSE IF x >= Modulus THEN x - Modulus ELSE x

Init ==
  /\ buf = Null /\ buflen = 0 /\ count = 0 /\ current = 0 /\ owner = 0
  /\ live = {} /\ size = [b \in Blocks |-> 0] /\ user = {}
  /\ spoiled = FALSE /\ dangling = FALSE

(***************************************************************************)
(* The program's own memory.                                               *)
(***************************************************************************)
UserAlloc ==
  /\ \E b \in Blocks \ live, len \in 1..MaxLen :
       /\ live' = live \cup {b}
       /\ user' = user \cup {b}
       /\ size' = [size EXCEPT ![b] = len]
  /\ UNCHANGED <<bufVars, spoiled, dangling>>

UserFree ==
  /\ \E b \in user \ {buf} :
       /\ live' = live \ {b}
       /\ user' = user \ {b}
  /\ UNCHANGED <<bufVars, size, spoiled, dangling>>

(***************************************************************************)
(* Operations of glme.h.                                                   *)
(***************************************************************************)
OwnsNothing == buf = Null \/ owner = 0

\* glme_buf_init: malloc(len), which may fail, or no block when len is 0.
BufInit(len) ==
  /\ OwnsNothing
  /\ count' = 0 /\ current' = 0
  /\ \/ /\ len > 0
        /\ \E b \in Blocks \ live :
             /\ buf' = b /\ buflen' = len /\ owner' = 1
             /\ live' = live \cup {b}
             /\ size' = [size EXCEPT ![b] = len]
     \/ /\ buf' = Null /\ buflen' = 0 /\ owner' = 0
        /\ UNCHANGED <<live, size>>
  /\ spoiled' = FALSE
  /\ UNCHANGED <<user, dangling>>

\* glme_buf_make, with a block of the program of which cnt bytes are encoded.
BufMake(cnt) ==
  /\ OwnsNothing
  /\ \E b \in user :
       /\ cnt <= size[b]
       /\ buf' = b /\ buflen' = size[b]
  /\ count' = cnt /\ current' = 0 /\ owner' = 0
  /\ spoiled' = FALSE
  /\ UNCHANGED <<heapVars, dangling>>

BufCloseKeepsPointer ==          \* mutant: buf is not set to null
  /\ live' = IF buf # Null /\ owner = 1 THEN live \ {buf} ELSE live
  /\ buflen' = 0 /\ count' = 0 /\ current' = 0
  /\ spoiled' = FALSE
  /\ UNCHANGED <<buf, owner, size, user, dangling>>

BufCloseFreesAll ==              \* mutant: the owner flag is not looked at
  /\ live' = live \ {buf}
  /\ buf' = Null /\ buflen' = 0 /\ count' = 0 /\ current' = 0
  /\ spoiled' = FALSE
  /\ UNCHANGED <<owner, size, user, dangling>>

\* glme_buf_close: the owner flag keeps its value.
BufClose ==
  /\ live' = IF buf # Null /\ owner = 1 THEN live \ {buf} ELSE live
  /\ buf' = Null /\ buflen' = 0 /\ count' = 0 /\ current' = 0
  /\ spoiled' = FALSE
  /\ UNCHANGED <<owner, size, user, dangling>>

BufReset ==
  /\ current' = 0
  /\ UNCHANGED <<buf, buflen, count, owner, heapVars, spoiled, dangling>>

BufSeekAnywhere(pos) ==          \* mutant: the position is not limited to count
  /\ current' = pos
  /\ UNCHANGED <<buf, buflen, count, owner, heapVars, spoiled, dangling>>

BufSeek(pos) ==
  /\ current' = IF pos < count THEN pos ELSE count
  /\ UNCHANGED <<buf, buflen, count, owner, heapVars, spoiled, dangling>>

BufClear ==
  /\ count' = 0 /\ current' = 0
  /\ spoiled' = FALSE
  /\ UNCHANGED <<buf, buflen, owner, heapVars, dangling>>

\* glme_buf_disown and glme_buf_own: the program takes the block over, to keep the
\* data, or hands one of its own to the buffer.
BufDisown ==
  /\ buflen > 0
  /\ owner' = 0
  /\ user' = IF buf # Null /\ owner = 1 THEN user \cup {buf} ELSE user
  /\ UNCHANGED <<buf, buflen, count, current, live, size, spoiled, dangling>>

BufOwn ==
  /\ owner' = 1
  /\ user' = user \ {buf}
  /\ UNCHANGED <<buf, buflen, count, current, live, size, spoiled, dangling>>

(***************************************************************************)
(* glme_buf_resize(gbuf, increase) and its outcomes.  It is tried only by  *)
(* the owner of the block, or when there is nothing to own yet.            *)
(***************************************************************************)
MayResize == owner = 1 \/ buflen = 0

NewLen(increase) == Wrap(buflen + increase)

\* A block of the new length, at the old address or at another: not zero.
Resized(increase) ==
  /\ MayResize /\ NewLen(increase) \in 1..MaxLen
  /\ \E b \in (Blocks \ live) \cup ({buf} \ {Null}) :
       /\ buf' = b
       /\ live' = (live \ {buf}) \cup {b}
       /\ size' = [size EXCEPT ![b] = NewLen(increase)]
  /\ buflen' = NewLen(increase)
  /\ owner' = 1
  /\ UNCHANGED <<user, dangling>>

\* Zero is returned: not the owner or no memory, and nothing happened; or the
\* new length is 0, where realloc returns a block without bytes for the null
\* pointer, and for a block frees it and returns null.
NotResized(increase) ==
  \/ /\ ~ (MayResize /\ NewLen(increase) = 0 /\ buf # Null)
     /\ UNCHANGED <<buf, buflen, owner, heapVars, dangling>>
  \/ /\ MayResize /\ NewLen(increase) = 0 /\ buf = Null
     /\ \E b \in Blocks \ live :
          /\ buf' = b
          /\ live' = live \cup {b}
          /\ size' = [size EXCEPT ![b] = 0]
     /\ owner' = 1
     /\ UNCHANGED <<buflen, user, dangling>>
  \/ /\ MayResize /\ NewLen(increase) = 0 /\ buf # Null
     /\ live' = live \ {buf}
     /\ dangling' = TRUE
     /\ UNCHANGED <<buf, buflen, owner, size, user>>

(***************************************************************************)
(* The write pointer.                                                      *)
(***************************************************************************)
Room == Wrap(buflen - count)
Increase == IF buflen < GrowCap THEN buflen ELSE GrowCap

Written(n) == count' = Wrap(count + n)
InRoom(n) == Written(n) /\ UNCHANGED <<buf, buflen, owner, heapVars, dangling>>

\* __encode_base_type
EncodeBaseType ==
  /\ IF buflen <= count
     THEN \/ Resized(Increase) /\ Written(1)
          \/ NotResized(Increase) /\ count' = count
     ELSE InRoom(1)
  /\ UNCHANGED <<current, spoiled>>

\* glme_encode_value_uint64, _int64 and _double: a value of n bytes that does not
\* fit makes gob_encode_* return -n; the block is resized, nothing is encoded
\* again, and -n is added to count.
EncodeValue(n) ==
  /\ IF n > Room
     THEN \/ Resized(Increase) /\ Written(-n) /\ spoiled' = TRUE
          \/ NotResized(Increase) /\ UNCHANGED <<count, spoiled>>
     ELSE InRoom(n) /\ UNCHANGED spoiled
  /\ UNCHANGED current

\* glme_encode_value_complex128: two numbers, and the result is that of the one
\* that did not fit.
EncodeComplex(n0, n1) ==
  /\ IF n0 + n1 > Room
     THEN \/ /\ Resized(Increase)
             /\ Written(-(IF n0 > Room THEN n0 ELSE n1))
             /\ spoiled' = TRUE
          \/ NotResized(Increase) /\ UNCHANGED <<count, spoiled>>
     ELSE InRoom(n0 + n1) /\ UNCHANGED spoiled
  /\ UNCHANGED current

\* glme_encode_bytes: the length and the data, n bytes together, after the block
\* is resized by what is missing.
EncodeBytes(n) ==
  /\ IF n > Room
     THEN \/ Resized(n - Room) /\ Written(n)
          \/ NotResized(n - Room) /\ count' = count
     ELSE InRoom(n)
  /\ UNCHANGED <<current, spoiled>>

(***************************************************************************)
(* The read pointer: a decoded item of n bytes, of which the functions of  *)
(* decoder.c make sure that they are there.                                *)
(***************************************************************************)
Decode(n) ==
  /\ n <= Wrap(count - current)
  /\ current' = Wrap(current + n)
  /\ UNCHANGED <<buf, buflen, count, owner, heapVars, spoiled, dangling>>

\* glme_buf_readm once the length n is known: the result of the resize is not
\* looked at, the buffer is cleared, n bytes are read and count is set, unless
\* the read fails, as it does into a null pointer.
ReadMessage(n) ==
  /\ IF n > buflen
     THEN Resized(n - buflen) \/ NotResized(n - buflen)
     ELSE UNCHANGED <<buf, buflen, owner, heapVars, dangling>>
  /\ current' = 0
  /\ \/ (buf' = Null => n = 0) /\ count' = n /\ spoiled' = (n > buflen')
     \/ count' = 0 /\ spoiled' = FALSE

\* After a realloc(buf, 0) the program has no defined behaviour.
Next ==
  /\ ~ dangling
  /\ \/ UserAlloc \/ UserFree
     \/ \E len \in InitSizes : BufInit(len)
     \/ \E cnt \in 0..MaxLen : BufMake(cnt)
     \/ BufClose \/ BufReset \/ BufClear \/ BufDisown \/ BufOwn
     \/ \E pos \in 0..(Modulus - 1) : BufSeek(pos)
     \/ EncodeBaseType
     \/ \E n \in ItemSizes : EncodeValue(n)
     \/ \E n0, n1 \in ItemSizes : EncodeComplex(n0, n1)
     \/ \E n \in ItemSizes : EncodeBytes(n)
     \/ \E n \in ItemSizes : Decode(n)
     \/ \E n \in ReadSizes : ReadMessage(n)

Spec == Init /\ [][Next]_vars

(***************************************************************************)
(* Properties.                                                             *)
(***************************************************************************)

\* The types of the fields and of the heap.
TypeOK ==
  /\ buf \in Blocks \cup {Null}
  /\ buflen \in 0..MaxLen
  /\ count \in 0..(Modulus - 1) /\ current \in 0..(Modulus - 1)
  /\ owner \in {0, 1}
  /\ live \in SUBSET Blocks /\ user \in SUBSET Blocks
  /\ size \in [Blocks -> 0..MaxLen]
  /\ spoiled \in BOOLEAN /\ dangling \in BOOLEAN

\* glme.h:95-96: "count <= buflen", "current <= count <= buflen".
PointersOrdered == current <= count /\ count <= buflen

\* The pointers are in order as long as no value has met a full block and no
\* resize inside glme_buf_readm has failed: no other operation, in any order and
\* with any outcome of the allocator, breaks what glme.h says of them.
OrderedUnlessSpoiled == ~ spoiled => PointersOrdered

\* The block a buffer points to is allocated and has the length the buffer says,
\* until realloc(buf, 0): encoding never writes past the block while the pointers
\* are in order.
BlockBehindBuffer ==
  ~ dangling =>
    /\ buf # Null => buf \in live /\ size[buf] = buflen
    /\ buf = Null => buflen = 0

\* Every allocated block has exactly one party to free it: the program, or the
\* buffer that owns it (glme_buf_close frees nothing the program holds).
OneOwner ==
  ~ dangling =>
    \A b \in Blocks :
      /\ b \in live <=> (b \in user \/ (buf = b /\ owner = 1))
      /\ ~ (b \in user /\ buf = b /\ owner = 1)
===============================================================================

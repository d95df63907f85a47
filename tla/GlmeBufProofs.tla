----------------------------- MODULE GlmeBufProofs -----------------------------
(***************************************************************************)
(* For any set of blocks, any largest block and any sizes: the types of    *)
(* the buffer and the three invariants of module GlmeBuf.                  *)
(***************************************************************************)
EXTENDS GlmeBuf, TLAPS

\* The two flags are Booleans: each operation leaves them, or sets them to a
\* constant or to a comparison.
LEMMA Flags == TypeOK /\ [Next]_vars => spoiled' \in BOOLEAN /\ dangling' \in BOOLEAN
<1> SUFFICES ASSUME TypeOK, [Next]_vars
             PROVE  spoiled' \in BOOLEAN /\ dangling' \in BOOLEAN
  OBVIOUS
<1> USE DEF TypeOK, heapVars, bufVars
<1>1. ASSUME NEW d, Resized(d) \/ NotResized(d) PROVE dangling' \in BOOLEAN
  BY <1>1 DEF Resized, NotResized
<1>2. ASSUME NEW n, InRoom(n) PROVE dangling' \in BOOLEAN
  BY <1>2 DEF InRoom
<1>3. CASE \/ UserAlloc \/ UserFree \/ BufClose \/ BufReset
           \/ BufClear \/ BufDisown \/ BufOwn
  BY <1>3 DEF UserAlloc, UserFree, BufClose, BufReset, BufClear, BufDisown, BufOwn
<1>4. ASSUME NEW n, BufInit(n) \/ BufMake(n) \/ BufSeek(n) \/ Decode(n)
      PROVE  spoiled' \in BOOLEAN /\ dangling' \in BOOLEAN
  BY <1>4 DEF BufInit, BufMake, BufSeek, Decode
<1>5. CASE EncodeBaseType
  BY <1>1, <1>2, <1>5 DEF EncodeBaseType
<1>6. ASSUME NEW n, EncodeValue(n) PROVE spoiled' \in BOOLEAN /\ dangling' \in BOOLEAN
  BY <1>1, <1>2, <1>6 DEF EncodeValue
<1>7. ASSUME NEW n0, NEW n1, EncodeComplex(n0, n1)
      PROVE  spoiled' \in BOOLEAN /\ dangling' \in BOOLEAN
  BY <1>1, <1>2, <1>7 DEF EncodeComplex
<1>8. ASSUME NEW n, EncodeBytes(n) PROVE spoiled' \in BOOLEAN /\ dangling' \in BOOLEAN
  BY <1>1, <1>2, <1>8 DEF EncodeBytes
<1>9. ASSUME NEW n, ReadMessage(n) PROVE spoiled' \in BOOLEAN /\ dangling' \in BOOLEAN
  <2>1. dangling' \in BOOLEAN
    BY <1>1, <1>9 DEF ReadMessage
  <2>2. CASE spoiled' = (n > buflen')
    <3>1. (n > buflen') \in BOOLEAN
      OBVIOUS
    <3> QED BY <2>1, <2>2, <3>1
  <2>3. CASE spoiled' = FALSE
    BY <2>1, <2>3
  <2> QED BY <1>9, <2>2, <2>3 DEF ReadMessage
<1>10. CASE UNCHANGED vars
  BY <1>10 DEF vars
<1> QED BY <1>3, <1>4, <1>5, <1>6, <1>7, <1>8, <1>9, <1>10 DEF Next

\* The types hold of the zeroed glme_buf_t the program starts from.
LEMMA TypeInit == Init => TypeOK
<1> SUFFICES ASSUME Init PROVE TypeOK
  OBVIOUS
<1>1. spoiled \in BOOLEAN /\ dangling \in BOOLEAN
  BY DEF Init
<1> QED BY <1>1, BufAssumption DEF Init, TypeOK, BufAssumption

\* Every operation keeps the types; Written wraps, so count stays a size_t.
LEMMA TypeStep == TypeOK /\ [Next]_vars => TypeOK'
<1> SUFFICES ASSUME TypeOK, [Next]_vars PROVE TypeOK'
  OBVIOUS
<1> USE BufAssumption DEF TypeOK, BufAssumption
<1>0. spoiled' \in BOOLEAN /\ dangling' \in BOOLEAN
  BY Flags
<1>1. ASSUME NEW d \in Int, Resized(d) PROVE
        /\ buf' \in Blocks \cup {Null} /\ buflen' \in 0..MaxLen /\ owner' \in {0, 1}
        /\ live' \in SUBSET Blocks /\ user' \in SUBSET Blocks
        /\ size' \in [Blocks -> 0..MaxLen]
  BY <1>1 DEF Resized
<1>2. ASSUME NEW d \in Int, NotResized(d) PROVE
        /\ buf' \in Blocks \cup {Null} /\ buflen' \in 0..MaxLen /\ owner' \in {0, 1}
        /\ live' \in SUBSET Blocks /\ user' \in SUBSET Blocks
        /\ size' \in [Blocks -> 0..MaxLen]
  <2>1. CASE UNCHANGED <<buf, buflen, owner, heapVars, dangling>>
    BY <2>1 DEF heapVars
  <2>2. CASE \E b \in Blocks \ live :
               /\ buf' = b /\ live' = live \cup {b} /\ size' = [size EXCEPT ![b] = 0]
               /\ owner' = 1 /\ UNCHANGED <<buflen, user>>
    BY <2>2
  <2>3. CASE live' = live \ {buf} /\ UNCHANGED <<buf, buflen, owner, size, user>>
    BY <2>3
  <2> QED BY <1>2, <2>1, <2>2, <2>3 DEF NotResized
<1>3. Increase \in Int /\ Room \in 0..(Modulus - 1)
  BY DEF Increase, Room, Wrap
<1>4. \A n \in -Modulus..Modulus : Written(n) => count' \in 0..(Modulus - 1)
  BY DEF Written, Wrap
<1>5. CASE UserAlloc
  BY <1>0, <1>5 DEF UserAlloc, bufVars
<1>6. CASE UserFree
  BY <1>0, <1>6 DEF UserFree, bufVars
<1>7. ASSUME NEW len \in InitSizes, BufInit(len) PROVE TypeOK'
  BY <1>0, <1>7 DEF BufInit
<1>8. ASSUME NEW cnt \in 0..MaxLen, BufMake(cnt) PROVE TypeOK'
  BY <1>0, <1>8 DEF BufMake, heapVars
<1>9. CASE BufClose
  BY <1>0, <1>9 DEF BufClose
<1>10. CASE BufReset
  BY <1>0, <1>10 DEF BufReset, heapVars
<1>11. CASE BufClear
  BY <1>0, <1>11 DEF BufClear, heapVars
<1>12. CASE BufDisown
  BY <1>0, <1>12 DEF BufDisown
<1>13. CASE BufOwn
  BY <1>0, <1>13 DEF BufOwn
<1>14. ASSUME NEW pos \in 0..(Modulus - 1), BufSeek(pos) PROVE TypeOK'
  BY <1>0, <1>14 DEF BufSeek, heapVars
<1>15. CASE EncodeBaseType
  <2>1. CASE buflen <= count
    <3>1. CASE Resized(Increase) /\ Written(1)
      BY <1>0, <3>1, <1>15, <1>1, <1>3, <1>4 DEF EncodeBaseType
    <3>2. CASE NotResized(Increase) /\ count' = count
      BY <1>0, <3>2, <1>15, <1>2, <1>3 DEF EncodeBaseType
    <3> QED BY <2>1, <3>1, <3>2, <1>15 DEF EncodeBaseType
  <2>2. CASE ~ (buflen <= count)
    BY <1>0, <2>2, <1>15, <1>4 DEF EncodeBaseType, InRoom, heapVars
  <2> QED BY <2>1, <2>2
<1>16. ASSUME NEW n \in ItemSizes, EncodeValue(n) PROVE TypeOK'
  <2>1. CASE n > Room
    BY <1>0, <2>1, <1>16, <1>1, <1>2, <1>3, <1>4 DEF EncodeValue
  <2>2. CASE ~ (n > Room)
    BY <1>0, <2>2, <1>16, <1>4 DEF EncodeValue, InRoom, heapVars
  <2> QED BY <2>1, <2>2
<1>17. ASSUME NEW n0 \in ItemSizes, NEW n1 \in ItemSizes, EncodeComplex(n0, n1)
       PROVE TypeOK'
  <2>1. CASE n0 + n1 > Room
    BY <1>0, <2>1, <1>17, <1>1, <1>2, <1>3, <1>4 DEF EncodeComplex
  <2>2. CASE ~ (n0 + n1 > Room)
    BY <1>0, <2>2, <1>17, <1>4 DEF EncodeComplex, InRoom, heapVars
  <2> QED BY <2>1, <2>2
<1>18. ASSUME NEW n \in ItemSizes, EncodeBytes(n) PROVE TypeOK'
  <2>1. CASE n > Room
    BY <1>0, <2>1, <1>18, <1>1, <1>2, <1>3, <1>4 DEF EncodeBytes
  <2>2. CASE ~ (n > Room)
    BY <1>0, <2>2, <1>18, <1>4 DEF EncodeBytes, InRoom, heapVars
  <2> QED BY <2>1, <2>2
<1>19. ASSUME NEW n \in ItemSizes, Decode(n) PROVE TypeOK'
  BY <1>0, <1>19 DEF Decode, Wrap, heapVars
<1>20. ASSUME NEW n \in ReadSizes, ReadMessage(n) PROVE TypeOK'
  <2>1. CASE n > buflen
    BY <1>0, <2>1, <1>20, <1>1, <1>2 DEF ReadMessage
  <2>2. CASE ~ (n > buflen)
    BY <1>0, <2>2, <1>20 DEF ReadMessage, heapVars
  <2> QED BY <2>1, <2>2
<1>21. CASE UNCHANGED vars
  BY <1>0, <1>21 DEF vars, bufVars, heapVars
<1> QED
  BY <1>5, <1>6, <1>7, <1>8, <1>9, <1>10, <1>11, <1>12, <1>13, <1>14, <1>15,
     <1>16, <1>17, <1>18, <1>19, <1>20, <1>21 DEF Next

\* The types hold in every state, whatever the pointers do: all arithmetic on
\* size_t is wrapped, and a block never becomes longer than the largest one.
THEOREM TypeCorrect == Spec => []TypeOK
  BY TypeInit, TypeStep, PTL DEF Spec

(***************************************************************************)
(* The inductive invariant.  The heap part needs one fact of its own: the  *)
(* program's blocks have a byte, so a buffer made from one has buflen > 0  *)
(* and a buffer without bytes that is resized owns its block.              *)
(***************************************************************************)
UserBlocks == \A b \in user : size[b] >= 1
HeapInv == BlockBehindBuffer /\ OneOwner /\ UserBlocks
IInv == TypeOK /\ HeapInv /\ OrderedUnlessSpoiled

\* A resize moves the block and its ownership together, whatever it returns.
LEMMA ResizedKeepsHeap ==
  ASSUME TypeOK, HeapInv, ~ dangling, NEW d \in Int, Resized(d)
  PROVE  HeapInv'
<1> USE BufAssumption DEF TypeOK, BufAssumption
<1>1. PICK b \in (Blocks \ live) \cup ({buf} \ {Null}) :
        /\ buf' = b /\ live' = (live \ {buf}) \cup {b}
        /\ size' = [size EXCEPT ![b] = NewLen(d)]
  BY DEF Resized
<1>2. /\ buflen' = NewLen(d) /\ NewLen(d) \in 1..MaxLen /\ owner' = 1 /\ user' = user
      /\ owner = 1 \/ buflen = 0
  BY DEF Resized, MayResize
<1>3. b \in Blocks /\ b # Null
  BY <1>1
<1>4. b \notin user /\ (buf # Null => owner = 1)
  BY <1>1, <1>2 DEF HeapInv, OneOwner, BlockBehindBuffer, UserBlocks
<1>5. BlockBehindBuffer'
  BY <1>1, <1>2, <1>3 DEF BlockBehindBuffer
<1>6. OneOwner'
  BY <1>1, <1>2, <1>3, <1>4 DEF HeapInv, OneOwner
<1>7. UserBlocks'
  BY <1>1, <1>2, <1>3, <1>4 DEF HeapInv, UserBlocks
<1> QED BY <1>5, <1>6, <1>7 DEF HeapInv

\* A resize that returns zero, in its three outcomes.
LEMMA NotResizedKeepsHeap ==
  ASSUME TypeOK, HeapInv, ~ dangling, NEW d \in Int, NotResized(d)
  PROVE  HeapInv'
<1> USE BufAssumption DEF TypeOK, BufAssumption, HeapInv
<1>1. CASE UNCHANGED <<buf, buflen, owner, heapVars, dangling>>
  BY <1>1 DEF heapVars, BlockBehindBuffer, OneOwner, UserBlocks
<1>2. ASSUME NEW b \in Blocks \ live, buf = Null, buf' = b, live' = live \cup {b},
             size' = [size EXCEPT ![b] = 0], owner' = 1, UNCHANGED <<buflen, user, dangling>>
      PROVE  HeapInv'
  <2>1. b \notin user /\ b # Null /\ buflen = 0
    BY <1>2 DEF OneOwner, BlockBehindBuffer
  <2>2. BlockBehindBuffer'
    BY <1>2, <2>1 DEF BlockBehindBuffer
  <2>3. OneOwner'
    BY <1>2, <2>1 DEF OneOwner
  <2>4. UserBlocks'
    BY <1>2, <2>1 DEF UserBlocks
  <2> QED BY <2>2, <2>3, <2>4
<1>3. CASE dangling' /\ UNCHANGED <<size, user>>
  BY <1>3 DEF BlockBehindBuffer, OneOwner, UserBlocks
<1> QED BY <1>1, <1>2, <1>3 DEF NotResized

\* A value that fits touches nothing of the heap.
LEMMA InRoomKeepsHeap == ASSUME HeapInv, NEW n, InRoom(n) PROVE HeapInv'
  BY DEF InRoom, HeapInv, heapVars, BlockBehindBuffer, OneOwner, UserBlocks

\* The three operations that hand over a block of the program: its own allocation,
\* glme_buf_init and glme_buf_make.
LEMMA NewBlockKeepsHeap ==
  ASSUME TypeOK, HeapInv, ~ dangling,
         UserAlloc \/ UserFree \/ (\E len \in InitSizes : BufInit(len))
           \/ (\E cnt \in 0..MaxLen : BufMake(cnt))
  PROVE  HeapInv'
<1> USE BufAssumption DEF TypeOK, BufAssumption, HeapInv
<1>1. CASE UserAlloc
  <2>1. PICK b \in Blocks \ live, len \in 1..MaxLen :
          live' = live \cup {b} /\ user' = user \cup {b} /\ size' = [size EXCEPT ![b] = len]
    BY <1>1 DEF UserAlloc
  <2>2. UNCHANGED <<buf, buflen, owner, dangling>>
    BY <1>1 DEF UserAlloc, bufVars
  <2> QED BY <2>1, <2>2 DEF BlockBehindBuffer, OneOwner, UserBlocks
<1>2. CASE UserFree
  BY <1>2 DEF UserFree, bufVars, BlockBehindBuffer, OneOwner, UserBlocks
<1>3. ASSUME NEW len \in InitSizes, BufInit(len) PROVE HeapInv'
  <2>1. CASE \E b \in Blocks \ live :
               /\ buf' = b /\ buflen' = len /\ owner' = 1
               /\ live' = live \cup {b} /\ size' = [size EXCEPT ![b] = len]
    BY <1>3, <2>1 DEF BufInit, OwnsNothing, BlockBehindBuffer, OneOwner, UserBlocks
  <2>2. CASE buf' = Null /\ buflen' = 0 /\ owner' = 0 /\ UNCHANGED <<live, size>>
    BY <1>3, <2>2 DEF BufInit, OwnsNothing, BlockBehindBuffer, OneOwner, UserBlocks
  <2> QED BY <1>3, <2>1, <2>2 DEF BufInit
<1>4. ASSUME NEW cnt \in 0..MaxLen, BufMake(cnt) PROVE HeapInv'
  BY <1>4 DEF BufMake, heapVars, OwnsNothing, BlockBehindBuffer, OneOwner, UserBlocks
<1> QED BY <1>1, <1>2, <1>3, <1>4

\* Every step keeps the heap part of the invariant.
LEMMA HeapStep ==
  ASSUME TypeOK, TypeOK', HeapInv, [Next]_vars
  PROVE  HeapInv'
<1>1. CASE UNCHANGED vars
  BY <1>1 DEF vars, bufVars, heapVars, HeapInv, BlockBehindBuffer, OneOwner, UserBlocks
<1>2. ASSUME Next PROVE ~ dangling
  BY <1>2 DEF Next
<1>3. CASE UserAlloc \/ UserFree \/ (\E len \in InitSizes : BufInit(len))
             \/ (\E cnt \in 0..MaxLen : BufMake(cnt))
  <2>1. CASE dangling
    BY <1>1, <1>2, <2>1
  <2> QED BY <1>3, <2>1, NewBlockKeepsHeap
<1>4. CASE ~ dangling /\ BufClose
  BY <1>4, BufAssumption
     DEF BufAssumption, BufClose, TypeOK, HeapInv, BlockBehindBuffer, OneOwner, UserBlocks
<1>5. CASE BufReset \/ BufClear \/ \E pos \in 0..(Modulus - 1) : BufSeek(pos)
  BY <1>5 DEF BufReset, BufClear, BufSeek, heapVars,
              HeapInv, BlockBehindBuffer, OneOwner, UserBlocks
<1>6. CASE ~ dangling /\ BufDisown
  <2>1. ~ dangling' /\ UNCHANGED <<buf, buflen, live, size>>
    BY <1>6 DEF BufDisown
  <2>2. owner' = 0 /\ user' = IF buf # Null /\ owner = 1 THEN user \cup {buf} ELSE user
    BY <1>6 DEF BufDisown
  <2>3. buf # Null => size[buf] >= 1
    BY <1>6 DEF BufDisown, HeapInv, BlockBehindBuffer, TypeOK
  <2> QED
    BY <1>6, <2>1, <2>2, <2>3, BufAssumption
       DEF BufAssumption, TypeOK, HeapInv, BlockBehindBuffer, OneOwner, UserBlocks
<1>7. CASE ~ dangling /\ BufOwn
  BY <1>7, BufAssumption
     DEF BufAssumption, BufOwn, TypeOK, HeapInv, BlockBehindBuffer, OneOwner, UserBlocks
<1>8. Increase \in Int /\ Room \in Int
  BY BufAssumption DEF TypeOK, BufAssumption, Increase, Room, Wrap
<1>9. ASSUME ~ dangling, NEW d \in Int, NEW n, Resized(d) \/ NotResized(d) \/ InRoom(n)
      PROVE  HeapInv'
  BY <1>9, ResizedKeepsHeap, NotResizedKeepsHeap, InRoomKeepsHeap
<1>10. CASE ~ dangling /\ EncodeBaseType
  <2>1. Resized(Increase) \/ NotResized(Increase) \/ InRoom(1)
    BY <1>10, Zenon DEF EncodeBaseType
  <2> QED BY <1>8, <1>9, <1>10, <2>1
<1>11. ASSUME ~ dangling, NEW n \in ItemSizes, EncodeValue(n) PROVE HeapInv'
  <2>1. Resized(Increase) \/ NotResized(Increase) \/ InRoom(n)
    BY <1>11, Zenon DEF EncodeValue
  <2> QED BY <1>8, <1>9, <1>11, <2>1
<1>12. ASSUME ~ dangling, NEW n0 \in ItemSizes, NEW n1 \in ItemSizes, EncodeComplex(n0, n1)
       PROVE  HeapInv'
  <2>1. Resized(Increase) \/ NotResized(Increase) \/ InRoom(n0 + n1)
    BY <1>12, Zenon DEF EncodeComplex
  <2> QED BY <1>8, <1>9, <1>12, <2>1
<1>13. ASSUME ~ dangling, NEW n \in ItemSizes, EncodeBytes(n) PROVE HeapInv'
  <2>1. n - Room \in Int
    BY <1>8, BufAssumption DEF BufAssumption
  <2>2. Resized(n - Room) \/ NotResized(n - Room) \/ InRoom(n)
    BY <1>13, Zenon DEF EncodeBytes
  <2> QED BY <1>9, <1>13, <2>1, <2>2
<1>14. ASSUME NEW n \in ItemSizes, Decode(n) PROVE HeapInv'
  BY <1>14 DEF Decode, heapVars, HeapInv, BlockBehindBuffer, OneOwner, UserBlocks
<1>15. ASSUME ~ dangling, NEW n \in ReadSizes, ReadMessage(n) PROVE HeapInv'
  <2>1. n - buflen \in Int
    BY BufAssumption DEF BufAssumption, TypeOK
  <2>2. CASE UNCHANGED <<buf, buflen, owner, heapVars, dangling>>
    BY <2>2 DEF heapVars, HeapInv, BlockBehindBuffer, OneOwner, UserBlocks
  <2> QED
    BY <1>15, <2>1, <2>2, ResizedKeepsHeap, NotResizedKeepsHeap DEF ReadMessage
<1> QED
  BY <1>1, <1>2, <1>3, <1>4, <1>5, <1>6, <1>7, <1>10, <1>11, <1>12, <1>13, <1>14, <1>15
     DEF Next

(***************************************************************************)
(* The order of the pointers.                                              *)
(***************************************************************************)

\* What the outcomes of a resize say of buflen; a resize that fails returns 0 and
\* leaves it alone, also when it has freed the block.
LEMMA ResizeLength ==
  ASSUME NEW d
  PROVE  /\ Resized(d) => buflen' = NewLen(d) /\ NewLen(d) >= 1
         /\ NotResized(d) => buflen' = buflen
  BY DEF Resized, NotResized

\* A step of the encoder that is not spoiled keeps the order: in __encode_base_type a
\* full buffer has count = buflen and grows by at least one byte; in glme_encode_bytes
\* it grows by exactly what is missing.
LEMMA EncodeKeepsOrder ==
  ASSUME TypeOK, TypeOK', PointersOrdered, ~ spoiled',
         \/ EncodeBaseType
         \/ \E n \in ItemSizes : EncodeValue(n) \/ EncodeBytes(n)
         \/ \E n0, n1 \in ItemSizes : EncodeComplex(n0, n1)
  PROVE  PointersOrdered'
<1> USE BufAssumption DEF BufAssumption, TypeOK, PointersOrdered
<1>1. Room = buflen - count
  BY DEF Room, Wrap
<1>2. ASSUME NEW n \in Int, InRoom(n), 0 <= n, n <= Room, current' = current
      PROVE  PointersOrdered'
  BY <1>1, <1>2 DEF InRoom, Written, Wrap
<1>3. CASE EncodeBaseType
  <2>1. CASE buflen <= count /\ Resized(Increase) /\ Written(1)
    <3>1. buflen' = NewLen(Increase) /\ buflen' >= 1 /\ buflen' <= MaxLen
      BY <2>1, ResizeLength
    <3>2. buflen' = buflen + Increase /\ Increase >= 1
      BY <3>1 DEF NewLen, Increase, Wrap
    <3>3. count' = Wrap(count + 1) /\ current' = current
      BY <1>3, <2>1 DEF Written, EncodeBaseType
    <3>4. buflen = count
      BY <2>1
    <3>5. count' = count + 1
      BY <3>1, <3>2, <3>3, <3>4 DEF Wrap
    <3>6. current' <= count'
      BY <3>3, <3>5
    <3>7. count' <= buflen'
      BY <3>2, <3>4, <3>5 DEF Increase
    <3> QED BY <3>6, <3>7
  <2>2. CASE NotResized(Increase) /\ count' = count
    BY <1>3, <2>2, ResizeLength DEF EncodeBaseType
  <2>3. CASE ~ (buflen <= count) /\ InRoom(1)
    BY <1>1, <1>2, <1>3, <2>3 DEF EncodeBaseType
  <2> QED BY <1>3, <2>1, <2>2, <2>3 DEF EncodeBaseType
<1>4. ASSUME NEW n \in ItemSizes, EncodeValue(n) PROVE PointersOrdered'
  <2>1. CASE NotResized(Increase) /\ count' = count
    BY <1>4, <2>1, ResizeLength DEF EncodeValue
  <2>2. CASE ~ (n > Room) /\ InRoom(n)
    BY <1>1, <1>2, <1>4, <2>2 DEF EncodeValue
  <2> QED BY <1>4, <2>1, <2>2 DEF EncodeValue
<1>5. ASSUME NEW n0 \in ItemSizes, NEW n1 \in ItemSizes, EncodeComplex(n0, n1)
      PROVE  PointersOrdered'
  <2>1. CASE NotResized(Increase) /\ count' = count
    BY <1>5, <2>1, ResizeLength DEF EncodeComplex
  <2>2. CASE ~ (n0 + n1 > Room) /\ InRoom(n0 + n1)
    BY <1>1, <1>2, <1>5, <2>2 DEF EncodeComplex
  <2> QED BY <1>5, <2>1, <2>2 DEF EncodeComplex
<1>6. ASSUME NEW n \in ItemSizes, EncodeBytes(n) PROVE PointersOrdered'
  <2>1. CASE n > Room /\ Resized(n - Room) /\ Written(n)
    <3>1. buflen' = NewLen(n - Room) /\ buflen' >= 1 /\ buflen' <= MaxLen
      BY <2>1, ResizeLength
    <3>2. buflen' = count + n
      BY <1>1, <2>1, <3>1 DEF NewLen, Wrap
    <3>3. count' = Wrap(count + n) /\ current' = current
      BY <1>6, <2>1 DEF Written, EncodeBytes
    <3>4. count' = count + n
      BY <3>1, <3>2, <3>3 DEF Wrap
    <3> QED BY <3>2, <3>3, <3>4
  <2>2. CASE NotResized(n - Room) /\ count' = count
    BY <1>6, <2>2, ResizeLength DEF EncodeBytes
  <2>3. CASE ~ (n > Room) /\ InRoom(n)
    BY <1>1, <1>2, <1>6, <2>3 DEF EncodeBytes
  <2> QED BY <1>6, <2>1, <2>2, <2>3 DEF EncodeBytes
<1> QED BY <1>3, <1>4, <1>5, <1>6

\* Every step that leaves the buffer unspoiled leaves its pointers in order.
LEMMA OrderStep ==
  ASSUME TypeOK, TypeOK', OrderedUnlessSpoiled, [Next]_vars
  PROVE  OrderedUnlessSpoiled'
<1> SUFFICES ASSUME ~ spoiled' PROVE PointersOrdered'
  BY DEF OrderedUnlessSpoiled
<1> USE BufAssumption DEF BufAssumption, TypeOK, PointersOrdered
<1>1. ASSUME UNCHANGED <<buflen, count, current, spoiled>> PROVE PointersOrdered'
  BY <1>1 DEF OrderedUnlessSpoiled
<1>2. CASE UserAlloc \/ UserFree \/ BufDisown \/ BufOwn \/ UNCHANGED vars
  <2>1. UNCHANGED <<buflen, count, current, spoiled>>
    BY <1>2 DEF UserAlloc, UserFree, BufDisown, BufOwn, vars, bufVars
  <2> QED BY <1>1, <2>1
<1>3. CASE BufClose \/ BufClear \/ \E len \in InitSizes : BufInit(len)
  <2>1. count' = 0 /\ current' = 0
    BY <1>3 DEF BufClose, BufClear, BufInit
  <2> QED BY <2>1
<1>4. ASSUME NEW cnt \in 0..MaxLen, BufMake(cnt) PROVE PointersOrdered'
  BY <1>4 DEF BufMake
<1>5. CASE BufReset \/ \E pos \in 0..(Modulus - 1) : BufSeek(pos)
  <2>1. UNCHANGED <<buflen, count, spoiled>>
    BY <1>5 DEF BufReset, BufSeek
  <2>2. current' <= count
    BY <1>5 DEF BufReset, BufSeek
  <2> QED BY <2>1, <2>2 DEF OrderedUnlessSpoiled
<1>6. CASE \/ EncodeBaseType
           \/ \E n \in ItemSizes : EncodeValue(n) \/ EncodeBytes(n)
           \/ \E n0, n1 \in ItemSizes : EncodeComplex(n0, n1)
  <2>1. ~ spoiled
    BY <1>6 DEF EncodeBaseType, EncodeValue, EncodeComplex, EncodeBytes
  <2> HIDE DEF PointersOrdered
  <2> QED BY <1>6, <2>1, EncodeKeepsOrder DEF OrderedUnlessSpoiled
<1>7. ASSUME NEW n \in ItemSizes, Decode(n) PROVE PointersOrdered'
  <2>1. UNCHANGED <<buflen, count, spoiled>> /\ current' = Wrap(current + n)
    BY <1>7 DEF Decode
  <2>2. n <= Wrap(count - current)
    BY <1>7 DEF Decode
  <2> QED BY <2>1, <2>2 DEF Wrap, OrderedUnlessSpoiled
<1>8. ASSUME NEW n \in ReadSizes, ReadMessage(n) PROVE PointersOrdered'
  <2>1. current' = 0
    BY <1>8 DEF ReadMessage
  <2>2. CASE count' = n /\ spoiled' = (n > buflen')
    <3>1. ~ (n > buflen')
      BY <2>2
    <3>2. n \in Nat /\ buflen' \in Nat
      OBVIOUS
    <3> QED BY <2>1, <2>2, <3>1, <3>2
  <2>3. CASE count' = 0
    BY <2>1, <2>3
  <2> QED BY <1>8, <2>2, <2>3 DEF ReadMessage
<1> QED
  BY <1>2, <1>3, <1>4, <1>5, <1>6, <1>7, <1>8 DEF Next

\* IInv holds in every state.
THEOREM Inductive == Spec => []IInv
<1>1. Init => IInv
  <2> SUFFICES ASSUME Init PROVE IInv
    OBVIOUS
  <2>1. TypeOK
    BY TypeInit
  <2>2. HeapInv
    <3>1. BlockBehindBuffer
      BY DEF Init, BlockBehindBuffer
    <3>2. OneOwner
      BY BufAssumption DEF BufAssumption, Init, OneOwner
    <3>3. UserBlocks
      BY DEF Init, UserBlocks
    <3> QED BY <3>1, <3>2, <3>3 DEF HeapInv
  <2>3. OrderedUnlessSpoiled
    BY DEF Init, OrderedUnlessSpoiled, PointersOrdered
  <2> QED BY <2>1, <2>2, <2>3 DEF IInv
<1>2. IInv /\ [Next]_vars => IInv'
  BY TypeStep, HeapStep, OrderStep DEF IInv
<1> QED BY <1>1, <1>2, PTL DEF Spec

\* The pointers are in the order glme.h:95-96 states until a value meets a full block
\* or a resize in glme_buf_readm fails, for blocks and values of any size.
THEOREM Ordered == Spec => []OrderedUnlessSpoiled
<1>1. IInv => OrderedUnlessSpoiled
  BY DEF IInv
<1> QED BY <1>1, Inductive, PTL

\* The buffer never points to freed memory, and buflen is the length of its block.
THEOREM BlockOfBuffer == Spec => []BlockBehindBuffer
<1>1. IInv => BlockBehindBuffer
  BY DEF IInv, HeapInv
<1> QED BY <1>1, Inductive, PTL

\* No block is lost and none is freed twice, whatever the allocator answers.
THEOREM Ownership == Spec => []OneOwner
<1>1. IInv => OneOwner
  BY DEF IInv, HeapInv
<1> QED BY <1>1, Inductive, PTL
===============================================================================

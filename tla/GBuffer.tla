-------------------------------- MODULE GBuffer --------------------------------
(***************************************************************************)
(* The class GBuffer of the Python binding (glme.pyx): a buffer into which *)
(* Python values are encoded and from which they are decoded again, a      *)
(* second implementation of glme_buf_t and of the element codec.           *)
(*                                                                         *)
(* One action is one method call.  A value is <<type, contents>>: a number *)
(* (for a float the one its bytes spell), the bytes of a string, elements, *)
(* or for a "strdict" or "intdict" pairs of a key and an element.  The     *)
(* methods that write an element differ in what they do when a step fails: *)
(* those of simple types stop and restore `count', those of lists,         *)
(* dictionaries and arrays go on with the next, so that what they do, one  *)
(* inside the other, is one program of steps.                              *)
(* A step fails when the buffer cannot grow.  What a `cdef int' method     *)
(* then raises is lost in the builds of older Cython versions (the caller  *)
(* sees 0) and propagates in those of newer ones.                          *)
(*                                                                         *)
(* Decoding is modelled at the start of an element.  Once the bytes are    *)
(* no sequence of elements any more (spoiled), or the read pointer is not  *)
(* at the start of one (strayed), the program is left with reset.          *)
(***************************************************************************)
EXTENDS Gob, FiniteSets

CONSTANTS
  Elements,     \* the Python values, those inside of others included
  Depth,        \* how deeply the values in one of them are nested
  Values,       \* arguments of encode
  Sizes,        \* arguments of GBuffer()
  Grow,         \* what resize adds (1024)
  MaxSize,      \* the memory there is for a buffer
  MaxElements   \* bound on the elements between two resets

ASSUME GBufferAssumption ==
  /\ Sizes \subseteq 0..MaxSize /\ MaxSize \in Nat /\ MaxElements \in Nat
  /\ Grow \in Nat /\ Grow > MaxBytes

Type(e) == e[1]
Content(e) == e[2]

\* The numbers that 64 bits can hold, and what is not longer than they can count.
Unsigned == 0..(Power[MaxBytes] - 1)
Signed == {v \in Int : 2 * v < Power[MaxBytes] /\ 2 * (-v - 1) + 1 < Power[MaxBytes]}
Short(S) == {s \in Seq(S) : Len(s) < Power[MaxBytes]}
ByteString == Short(0..(Radix - 1))

\* What e may be if the values in it are from E.  The elements of an array of unsigned
\* numbers are bytes: other arrays of them cannot be decoded.
Fits(e, E) ==
  \/ e \in {"int"} \X Signed \/ e \in {"float"} \X Unsigned \/ e \in {"bool"} \X BOOLEAN
  \/ e \in {"str", "bytes"} \X ByteString
  \/ e \in {"ints"} \X Short(Signed) \/ e \in {"uints"} \X Short(0..(Radix - 1))
  \/ e \in {"floats"} \X Short(Unsigned)
  \/ e \in {"list"} \X Short(E)
  \/ e \in {"strdict"} \X Short(ByteString \X E) \/ e \in {"intdict"} \X Short(Signed \X E)
  \/ e \in {"none"} \X {0}

Shallower(e) == {x \in Elements : Depth[x] < Depth[e]}

\* No value leads back to itself: encodeElement would not return from it.
ASSUME ElementsAssumption ==
  /\ Values \subseteq Elements
  /\ Depth \in [Elements -> Nat]
  /\ \A e \in Elements : Fits(e, Shallower(e))

VARIABLES
  build,        \* "swallows" | "propagates": exceptions in cdef methods
  buf,          \* the first `count' bytes of buf
  size, owner, current,
  elements,     \* history: the elements completely in buf, [value, end]
  spoiled,      \* history: an element is in buf without one of its parts
  strayed       \* history: a failed decode call has moved the read pointer

vars == <<build, buf, size, owner, current, elements, spoiled, strayed>>

count == Len(buf)

\* The type ids of the module's own enum: GLME_INT and GLME_UINT are not those of
\* glme.h.
GLME_ANY == 0
GLME_BOOLEAN == 1
GLME_UINT == 2
GLME_INT == 3
GLME_FLOAT == 4
GLME_VECTOR == 5
GLME_STRING == 6
GLME_ARRAY == 10
GLME_MAP == 11

\* The type marks are among the numbers that can be encoded.
ASSUME MarksAssumption == 2 * GLME_MAP < Power[MaxBytes]

\* __cinit__: no block for a size of 0, which then can never get one.
Init ==
  /\ build \in {"swallows", "propagates"}
  /\ size \in Sizes
  /\ owner = IF size > 0 THEN 1 ELSE 0
  /\ buf = <<>> /\ current = 0
  /\ elements = <<>> /\ spoiled = FALSE /\ strayed = FALSE

(***************************************************************************)
(* A buffer on its way through a method: its bytes and size, the result n  *)
(* of the last step, whether that step raised an exception, and whether    *)
(* all steps so far have done what they should.                            *)
(***************************************************************************)
Working == [bytes |-> buf, size |-> size, n |-> 1, raised |-> FALSE, whole |-> TRUE]

Failed(b, r) == [b EXCEPT !.n = 0, !.raised = r, !.whole = FALSE]
FailedInCdef(b) == Failed(b, build = "propagates")

Room(b) == b.size - Len(b.bytes)
Added(b, bytes) == [b EXCEPT !.bytes = @ \o bytes, !.n = Len(bytes)]

\* resize: only a buffer with a block of its own, and memory.
CanResize(newsize) == owner = 1 /\ newsize <= MaxSize

PutNumberOnce(b, bytes) ==       \* mutant: the second attempt is missing
  IF NumberFits(bytes, Room(b)) THEN Added(b, bytes)
  ELSE IF CanResize(b.size + Grow) THEN Failed([b EXCEPT !.size = @ + Grow], FALSE)
  ELSE FailedInCdef(b)

PutAtOnce(b, bytes) ==
  IF NumberFits(bytes, Room(b)) THEN Added(b, bytes) ELSE Failed(b, FALSE)

\* __encode_uint_val, __encode_int_val, __encode_float_val: a second attempt after
\* the buffer has grown.
PutNumber(b, bytes) ==
  IF NumberFits(bytes, Room(b)) THEN Added(b, bytes)
  ELSE IF CanResize(b.size + Grow) THEN PutAtOnce([b EXCEPT !.size = @ + Grow], bytes)
  ELSE FailedInCdef(b)

\* __encode_bytes: no second attempt, and no address of the first of no bytes.
PutBytes(b, bytes) ==
  IF bytes = <<>> THEN FailedInCdef(b)
  ELSE IF VectorFits(bytes, Room(b))
  THEN Added(b, EncodedUint(Len(bytes)) \o bytes)
  ELSE Failed(b, FALSE)

\* The numbers that are written for a number, a float (its pattern), a Boolean.
NumberOf(e) ==
  CASE Type(e) = "int" -> EncodedInt(Content(e))
    [] Type(e) = "float" -> EncodedDouble(Content(e))
    [] Type(e) = "bool" -> EncodedUint(IF Content(e) THEN 1 ELSE 0)

MarkOf(e) ==
  CASE Type(e) = "int" -> GLME_INT
    [] Type(e) = "float" -> GLME_FLOAT
    [] Type(e) = "bool" -> GLME_BOOLEAN
    [] Type(e) = "str" -> GLME_STRING
    [] Type(e) = "bytes" -> GLME_VECTOR

IsNumber(e) == Type(e) \in {"int", "float", "bool"}
IsSimple(e) == IsNumber(e) \/ Type(e) \in {"str", "bytes"}

\* `count' goes back to where the element began; the size stays.
NotTakenBack(end, b) == end      \* mutant: the mark stays
TakenBack(end, b) == [end EXCEPT !.bytes = b.bytes]

\* encodeInt, encodeFloat, encodeBool, encodeString, encodeBytes: the mark, and if a
\* positive number of bytes was written the value.  An exception leaves them at once.
PutSimple(b, e) ==
  LET mark == PutNumber(b, EncodedInt(MarkOf(e)))
      end == IF mark.n <= 0 THEN mark
             ELSE IF IsNumber(e) THEN PutNumber(mark, NumberOf(e))
             ELSE PutBytes(mark, Content(e))
  IN IF end.n > 0 \/ end.raised THEN end ELSE TakenBack(end, b)

\* The steps of the methods for all types.
Number(bytes) == [do |-> "number", bytes |-> bytes]
Vector(bytes) == [do |-> "vector", bytes |-> bytes]
Simple(e) == [do |-> "simple", value |-> e]
Raise == [do |-> "raise"]

Do(b, step) ==
  CASE step.do = "number" -> PutNumber(b, step.bytes)
    [] step.do = "vector" -> PutBytes(b, step.bytes)
    [] step.do = "simple" -> PutSimple(b, step.value)
    [] step.do = "raise" -> Failed(b, TRUE)

\* One after the other, until one raises an exception, which leaves every method.
Run(b, program) ==
  LET after[i \in 0..Len(program)] ==
        IF i = 0 THEN b
        ELSE LET c == after[i - 1]
             IN IF c.raised THEN c ELSE Do(c, program[i])
  IN after[Len(program)]

Header(marks, s) ==
  [i \in DOMAIN marks |-> Number(EncodedInt(marks[i]))] \o <<Number(EncodedUint(Len(s)))>>

\* The type of the first key of a dictionary decides for all.
KeyType(e) == IF Type(e) = "strdict" THEN GLME_STRING ELSE GLME_INT
KeyStep(e, key) == IF Type(e) = "strdict" THEN Vector(key) ELSE Number(EncodedInt(key))

\* encodeElement, encodeArray, encodeDict: what they do for e, given what they do for the
\* elements in it.  The TypeError of a type that is not supported and the IndexError for
\* the first key of no keys are raised in Python methods.
Steps(e, program) ==
  LET s == Content(e)
  IN CASE IsSimple(e) -> <<Simple(e)>>
       [] Type(e) = "ints" -> Header(<<GLME_ARRAY, GLME_INT>>, s)
                              \o [i \in DOMAIN s |-> Number(EncodedInt(s[i]))]
       [] Type(e) = "uints" -> Header(<<GLME_ARRAY, GLME_UINT>>, s)
                               \o [i \in DOMAIN s |-> Number(EncodedUint(s[i]))]
       [] Type(e) = "floats" -> Header(<<GLME_ARRAY, GLME_FLOAT>>, s)
                                \o [i \in DOMAIN s |-> Number(EncodedDouble(s[i]))]
       [] Type(e) = "list" -> Header(<<GLME_ARRAY, GLME_ANY>>, s)
                              \o FlattenSeq([i \in DOMAIN s |-> program[s[i]]])
       [] Type(e) \in {"strdict", "intdict"} ->
            IF s = <<>> THEN <<Number(EncodedInt(GLME_MAP)), Raise>>
            ELSE Header(<<GLME_MAP, KeyType(e), GLME_ANY>>, s)
                 \o FlattenSeq([i \in DOMAIN s |->
                                  <<KeyStep(e, s[i][1])>> \o program[s[i][2]]])
       [] Type(e) = "none" -> <<Raise>>

Program[e \in Elements] == Steps(e, Program)

\* encode(e), and the method for the type of e.
Encode(e) ==
  /\ Len(elements) < MaxElements /\ ~ spoiled
  /\ LET b == Run(Working, Program[e])
     IN /\ buf' = b.bytes /\ size' = b.size
        /\ elements' = IF b.whole THEN Append(elements, [value |-> e, end |-> Len(b.bytes)])
                                  ELSE elements
        /\ spoiled' = (~ b.whole /\ b.bytes # buf /\ (IsSimple(e) => b.raised))
  /\ UNCHANGED <<build, owner, current, strayed>>

(***************************************************************************)
(* Decoding.                                                               *)
(***************************************************************************)
From(pos) == SubSeq(buf, pos + 1, count)
IntAt(pos) == DecodedInt(From(pos))
After(pos) == pos + Consumed(From(pos))

\* What a method returns, or the exception, and where it leaves `current'.
Returned(v, pos) == [ok |-> TRUE, v |-> v, to |-> pos]
Raised(pos) == [ok |-> FALSE, to |-> pos]

\* The values that `reader' finds one after the other from pos, until it raises an
\* exception.
Many(n, pos, reader) ==
  LET after[i \in 0..n] ==
        IF i = 0 THEN Returned(<<>>, pos)
        ELSE LET r == after[i - 1]
                 next == reader[r.to]
             IN IF ~ r.ok THEN r
                ELSE IF next.ok THEN Returned(Append(r.v, next.v), next.to)
                ELSE next
  IN after[n]

IntReader == [pos \in Nat |-> Returned(IntAt(pos), After(pos))]
UintReader == [pos \in Nat |-> Returned(DecodedUint(From(pos)), After(pos))]
FloatReader == [pos \in Nat |-> Returned(DecodedDouble(From(pos)), After(pos))]

ReadBytesStays(pos) ==           \* mutant: the pointer stays behind the length
  LET n == DecodedUint(From(pos))
  IN Returned(SubSeq(From(After(pos)), 1, n), After(pos))
ReadBytes(pos) ==
  LET n == DecodedUint(From(pos))
  IN Returned(SubSeq(From(After(pos)), 1, n), After(pos) + n)

Typed(type, r) == IF r.ok THEN Returned(<<type, r.v>>, r.to) ELSE r

\* decodeArrayData.  The numbers of an array go to an array of the typecode asked for;
\* if it does not suit them `current' returns to where it was behind the type mark.
\* Unsigned ones are only decoded into bytes ("B"): the others are tested for with the
\* wrong case.  The elements of a list and of a dictionary are left to `reader'.
ReadArray(pos, typecode, reader) ==
  LET type == IntAt(pos)
      n == DecodedUint(From(After(pos)))
      at == After(After(pos))
  IN CASE type = GLME_INT ->
            IF typecode = "" THEN Typed("ints", Many(n, at, IntReader)) ELSE Raised(pos)
       [] type = GLME_UINT ->
            IF typecode = "B" THEN Typed("uints", Many(n, at, UintReader)) ELSE Raised(at)
       [] type = GLME_FLOAT ->
            IF typecode = "" THEN Typed("floats", Many(n, at, FloatReader)) ELSE Raised(pos)
       [] type = GLME_ANY -> Typed("list", Many(n, at, reader))

ReadPair(type, pos, reader) ==
  LET key == IF type = "strdict" THEN ReadBytes(pos) ELSE IntReader[pos]
      value == reader[key.to]
  IN IF value.ok THEN Returned(<<key.v, value.v>>, value.to) ELSE value

\* decodeDictData.
ReadDict(pos, reader) ==
  LET type == IF IntAt(pos) = GLME_STRING THEN "strdict" ELSE "intdict"
      n == DecodedUint(From(After(After(pos))))
  IN Typed(type, Many(n, After(After(After(pos))),
                      [p \in Nat |-> ReadPair(type, p, reader)]))

\* decodeElement.
ReadWith(pos, typecode, reader) ==
  LET mark == IntAt(pos)
      at == After(pos)
  IN CASE mark = GLME_INT -> Typed("int", IntReader[at])
       [] mark = GLME_FLOAT -> Typed("float", FloatReader[at])
       [] mark = GLME_BOOLEAN -> Returned(<<"bool", UintReader[at].v # 0>>, After(at))
       [] mark = GLME_VECTOR -> Typed("bytes", ReadBytes(at))
       [] mark = GLME_STRING -> Typed("str", ReadBytes(at))
       [] mark = GLME_ARRAY -> ReadArray(at, typecode, reader)
       [] mark = GLME_MAP -> ReadDict(at, reader)

\* decodeElement calls itself without a typecode.  An element has no more levels than
\* bytes, so the last case does not occur.
Reader[levels \in 0..count] ==
  [pos \in Nat |-> IF levels > 0 THEN ReadWith(pos, "", Reader[levels - 1]) ELSE Raised(pos)]

ReadElement(pos, typecode) == ReadWith(pos, typecode, Reader[count])

Starts == {0} \cup {elements[i].end : i \in DOMAIN elements}

\* The program has no use for more decode calls until it seeks or resets.
AtElement == ~ strayed /\ ~ spoiled /\ current < count

LeavesAt(r) ==
  /\ current' = r.to
  /\ strayed' = ~ r.ok
  /\ UNCHANGED <<build, buf, size, owner, elements, spoiled>>

\* decode(typecode); at the end of the bytes it returns None.
Decode(typecode) == AtElement /\ LeavesAt(ReadElement(current, typecode))

\* decodeInt ... decodeArray restore the read pointer when the type mark is another
\* one, decodeDict does not.
Expects == [decodeInt |-> {GLME_INT, GLME_UINT}, decodeFloat |-> {GLME_FLOAT},
            decodeBool |-> {GLME_BOOLEAN}, decodeBytes |-> {GLME_VECTOR},
            decodeString |-> {GLME_STRING}, decodeArray |-> {GLME_ARRAY},
            decodeDict |-> {GLME_MAP}]

MismatchForgets(method) ==       \* mutant: the read pointer stays behind the mark
  LeavesAt(Returned(method, After(current)))
Mismatch(method) ==
  IF method = "decodeDict" THEN LeavesAt(Raised(After(current))) ELSE UNCHANGED vars

DecodeTyped(method) ==
  /\ AtElement
  /\ IF IntAt(current) \in Expects[method]
     THEN LeavesAt(ReadElement(current, ""))
     ELSE Mismatch(method)

(***************************************************************************)
(* The other methods.                                                      *)
(***************************************************************************)

\* seek to a place the program knows of; past the end is an IndexError.
Seek(index) ==
  /\ index \in Starts /\ index <= count
  /\ current' = index /\ strayed' = FALSE
  /\ UNCHANGED <<build, buf, size, owner, elements, spoiled>>

ResetHalf ==                     \* mutant: the read pointer keeps its place
  /\ buf' = <<>> /\ current' = current
  /\ elements' = <<>> /\ spoiled' = FALSE /\ strayed' = FALSE
  /\ UNCHANGED <<build, size, owner>>

Reset ==
  /\ buf' = <<>> /\ current' = 0
  /\ elements' = <<>> /\ spoiled' = FALSE /\ strayed' = FALSE
  /\ UNCHANGED <<build, size, owner>>

\* resize, which does not look at count: the program does.
Resize(newsize) ==
  /\ newsize >= count /\ CanResize(newsize)
  /\ size' = newsize
  /\ UNCHANGED <<build, buf, owner, current, elements, spoiled, strayed>>

Next ==
  \/ \E e \in Values : Encode(e)
  \/ \E typecode \in {"", "B"} : Decode(typecode)
  \/ \E method \in DOMAIN Expects : DecodeTyped(method)
  \/ \E index \in Starts : Seek(index)
  \/ Reset
  \/ \E newsize \in Sizes : Resize(newsize)

Spec == Init /\ [][Next]_vars

(***************************************************************************)
(* Properties.                                                             *)
(***************************************************************************)

\* The types of the variables: current <= count <= size, and only a buffer with a
\* block has bytes.
TypeOK ==
  /\ build \in {"swallows", "propagates"}
  /\ size \in 0..MaxSize /\ count <= size /\ current \in 0..count
  /\ owner \in {0, 1} /\ (owner = 0 => size = 0)
  /\ spoiled \in BOOLEAN /\ strayed \in BOOLEAN

\* An element that could not be encoded, for lack of room for its mark, its length
\* or its bytes, has left nothing behind: the elements encoded follow each other
\* without gaps, unless a list, a dictionary or an array has lost a part or an
\* exception has skipped the restoring of count (glme.pyx, encodeInt ... encodeString).
NothingInBetween ==
  ~ spoiled => count = IF elements = <<>> THEN 0 ELSE Last(elements).end

\* The elements in an element, and itself.
Within[e \in Elements] ==
  {e} \cup UNION {Within[x] : x \in IF Type(e) = "list" THEN Range(Content(e))
                                    ELSE IF Type(e) \in {"strdict", "intdict"}
                                    THEN {p[2] : p \in Range(Content(e))} ELSE {}}

HoldsUints(e) == \E x \in Within[e] : Type(x) = "uints"

\* Every element encoded as a whole decodes to the value it was made from, and ends
\* where the next one starts, whatever became of later ones; arrays of unsigned
\* numbers do as bytes (glme.pyx, encodeElement against decodeElement).
RoundTrip ==
  \A i \in DOMAIN elements :
    LET e == elements[i].value
        start == IF i = 1 THEN 0 ELSE elements[i - 1].end
    IN (HoldsUints(e) => Type(e) = "uints") =>
         ReadElement(start, IF Type(e) = "uints" THEN "B" ELSE "") =
           Returned(e, elements[i].end)

\* The read pointer is at the start of an element after every call but those of
\* decodeDict for another element, of decode for another kind of array, and of
\* decode for an array of unsigned numbers (glme.pyx, decodeInt ... decodeDict).
CursorAligned == ~ strayed => current \in Starts

\* Only numbers are written for e.
Numeric(e) ==
  \A i \in DOMAIN Program[e] :
    LET step == Program[e][i]
    IN step.do = "number" \/ (step.do = "simple" /\ IsNumber(step.value))

\* An element that contains no byte string goes in as a whole as long as there is
\* memory for it: the second attempt after resize never fails (glme.pyx,
\* __encode_uint_val, __encode_int_val, __encode_float_val).
NumbersGoIn ==
  [][\A e \in Values :
       Encode(e) /\ Numeric(e) /\ owner = 1 /\ size' + Grow <= MaxSize
         => elements' = Append(elements, [value |-> e, end |-> Len(buf')])]_vars

\* The codec below it: whatever number an empty buffer is given, it is read back
\* from its own bytes and from no fewer, is as short as can be, and fits exactly
\* when the buffer is as long as its bytes (gobber.c).
ShortestLength(u) ==
  1 + IF u < Small THEN 0 ELSE Cardinality({k \in 0..(MaxBytes - 1) : u >= Power[k]})

Codec ==
  buf = <<>> =>
    \A u \in 0..(Power[MaxBytes] - 1) :
      LET bytes == EncodedUint(u)
          signed == IF u % 2 = 1 THEN -(u \div 2) - 1 ELSE u \div 2
      IN /\ DecodedUint(bytes \o <<0>>) = u /\ Len(bytes) = ShortestLength(u)
         /\ Complete(bytes) /\ ~ Complete(Front(bytes))
         /\ (PutNumber(Working, bytes).size = size) = (Len(bytes) <= size \/ ~ CanResize(size + Grow))
         /\ DecodedDouble(EncodedDouble(u)) = u
         /\ DecodedInt(EncodedInt(signed)) = signed
===============================================================================

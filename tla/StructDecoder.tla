----------------------------- MODULE StructDecoder -----------------------------
(***************************************************************************)
(* glme_decode_struct and the decoder functions written with the           *)
(* GLME_DECODE_FLD_* macros, reading the `count' bytes that reached this   *)
(* side.  `dstack' is the C stack of decoder functions; one action is one  *)
(* glme_decode_field call (its cases are the cases of its switch), or the  *)
(* start or the end of a structure.  A failed call returns through every   *)
(* function on the stack without touching the stream, in one step (Fail).  *)
(*                                                                         *)
(* `live' counts the blocks the decoder allocated and has not freed;       *)
(* `held' those a pointer in the caller's structures leads to.  Inside a   *)
(* call, a frame holds the blocks only its own structure points to, and    *)
(* owns its structure when it was allocated for a pointer.                 *)
(***************************************************************************)
EXTENDS GlmeStream, SequencesExt, FiniteSetsExt

CONSTANTS
  Garbage,        \* what an uninitialised int may hold when it is read
  AllocMayFail    \* whether glme_malloc and glme_calloc may return null

VARIABLES
  dec,            \* "waiting" for a message, "open", or "failed" (returned < 0)
  count,          \* glme_buf_t.count of the receiving buffer
  current,        \* glme_buf_t.current, the read pointer
  dbase,          \* the handler table of the program's glme_base_t
  dstack,         \* frames of the decoder functions on the C stack
  got,            \* history: what successful glme_decode_struct calls returned
  live, held,
  oom             \* history: an allocation has failed

decVars == <<dec, count, current, dbase, dstack, got, live, held, oom>>

DecoderFrame(typeid, owned) ==
  [typeid |-> typeid, fld |-> 1, delta |-> 1, out |-> <<>>,
   owned |-> owned, holds |-> 0]

DecInit ==
  /\ dec = "waiting"
  /\ count = 0
  /\ current = 0
  /\ dbase = Handlers
  /\ dstack = <<>>
  /\ got = <<>>
  /\ live = 0
  /\ held = 0
  /\ oom = FALSE

DTop == Last(dstack)
DFields == DecFields[DTop.typeid]
DField == DFields[DTop.fld]

InDecField ==
  dec = "open" /\ dstack # <<>> /\ DTop.fld <= Len(DFields)

At(pos) == stream[pos + 1]

\* What a macro puts in the element before it calls glme_decode_field.
Cleared(f) ==
  CASE f.kind = "scalar" -> 0
    [] f.kind \in {"vector", "fixed"} -> Zeros(f.size)
    [] OTHER -> <<>>

\* Those of an embedded structure, which is never inside itself, have done the same.
ClearedFields[t \in DOMAIN DecFields] ==
  [i \in 1..Len(DecFields[t]) |->
     LET f == DecFields[t][i]
     IN IF f.kind = "struct" THEN ClearedFields[f.typeid] ELSE Cleared(f)]

Absent(f) == IF f.kind = "struct" THEN ClearedFields[f.typeid] ELSE Cleared(f)

(***************************************************************************)
(* Ways out of a call.                                                     *)
(***************************************************************************)

\* The frames whose structure the caller's memory contains or leads to: no
\* structure that was allocated in this call is stored anywhere yet.
Anchored == {i \in DOMAIN dstack : \A j \in 1..i : dstack[j].owned = 0}

Total(counts) ==
  LET sum[n \in 0..Len(counts)] == IF n = 0 THEN 0 ELSE sum[n - 1] + counts[n]
  IN sum[Len(counts)]

\* The blocks each function of the call answers for.
BlocksOf(frames) == [i \in DOMAIN frames |-> frames[i].owned + frames[i].holds]

FailFreesFields(pos, lost) ==    \* mutant: what the fields of a structure point to
  /\ dec' = "failed"             \*   is freed with it, also when others point there
  /\ current' = pos
  /\ live' = live + lost - Total(BlocksOf(dstack))
  /\ held' = held + Total([i \in DOMAIN dstack |->
                            IF i \in Anchored THEN dstack[i].holds ELSE 0])
  /\ dstack' = <<>>
  /\ UNCHANGED <<count, got>>

\* A negative return from `pos', with `lost' blocks only a local pointed to.
\* Every function that allocated a structure frees it, and nothing else.
Fail(pos, lost) ==
  /\ dec' = "failed"
  /\ current' = pos
  /\ live' = live + lost - Total([i \in DOMAIN dstack |-> dstack[i].owned])
  /\ held' = held + Total([i \in DOMAIN dstack |->
                            IF i \in Anchored THEN dstack[i].holds ELSE 0])
  /\ dstack' = <<>>
  /\ UNCHANGED <<count, got>>

\* The field is done: its value, *delta, the read pointer, and the blocks
\* allocated and stored in the structure.
DNext(frames, value, d, holds) ==
  LET f == Last(frames)
  IN [frames EXCEPT ![Len(frames)] =
        [f EXCEPT !.fld = f.fld + 1, !.delta = d, !.out = Append(f.out, value),
                  !.holds = f.holds + holds]]

Done(value, d, pos, allocated, stored) ==
  /\ dstack' = DNext(dstack, value, d, stored)
  /\ current' = pos
  /\ live' = live + allocated
  /\ UNCHANGED <<dec, count, got, held>>

Allocated == oom' = oom
OutOfMemory == AllocMayFail /\ oom' = TRUE

(***************************************************************************)
(* glme_decode_struct: the type mark is read and checked, the structure    *)
(* allocated when the caller passes a null pointer.                        *)
(***************************************************************************)
DecodeStruct(typeid, owned) ==
  /\ dec = "open" /\ dstack = <<>>
  /\ IF current >= count \/ Unzigzag(At(current)) # typeid
     THEN Fail(IF current < count THEN current + 1 ELSE current, 0) /\ oom' = oom
     ELSE \/ /\ dstack' = <<DecoderFrame(typeid, owned)>>
             /\ current' = current + 1
             /\ live' = live + owned
             /\ Allocated
             /\ UNCHANGED <<dec, count, got, held>>
          \/ owned = 1 /\ OutOfMemory /\ Fail(current + 1, 0)

(***************************************************************************)
(* glme_decode_field, up to the element: the delta is looked at, and       *)
(* consumed only when the field is the one it announces.                   *)
(***************************************************************************)
Offset == At(current)

FieldMacro == InDecField /\ DField.kind # "block"

FieldUnderflow ==
  /\ FieldMacro /\ current >= count
  /\ Fail(current, 0)
  /\ oom' = oom

FieldAfterEnd ==
  /\ FieldMacro /\ current < count
  /\ Offset = 0 \/ DTop.delta = 0
  /\ Done(Absent(DField), 0, current, 0, 0)
  /\ oom' = oom

FieldNotYet ==
  /\ FieldMacro /\ current < count
  /\ Offset # 0 /\ DTop.delta # 0 /\ DTop.delta < Offset
  /\ Done(Absent(DField), DTop.delta + 1, current, 0, 0)
  /\ oom' = oom

FieldPresent ==
  /\ FieldMacro /\ current < count
  /\ Offset # 0 /\ DTop.delta >= Offset

Pos == current + 1         \* the read pointer once the delta is consumed
Mark == Pos < count        \* is there a byte for the type mark?

\* glme_decode_peek_type: on underflow it returns a positive number and its
\* local int64_t, which nothing has set.
PeekedType == IF Mark THEN {Unzigzag(At(Pos))} ELSE Garbage

TypeMismatch(f, t) ==
  IF t = GLME_ARRAY THEN ~ IsArray(f) ELSE t # f.typeid

FieldTypeError ==
  /\ FieldPresent
  /\ \E t \in PeekedType : TypeMismatch(DField, t)
  /\ Fail(Pos, 0)
  /\ oom' = oom

\* The element decoder is called: the peeked type is the expected one.
ElementStarts ==
  FieldPresent /\ \E t \in PeekedType : t = DField.typeid

(***************************************************************************)
(* The cases of the switch in glme_decode_field.                           *)
(***************************************************************************)

\* glme_decode_int64 and glme_decode_double return a positive number when the
\* value is missing and leave the element as it was; glme_decode_uint64 fails.
FieldScalar ==
  /\ ElementStarts /\ DField.kind = "scalar"
  /\ IF ~ Mark THEN Fail(Pos, 0)
     ELSE IF Pos + 1 < count
     THEN Done(FromByte(DField.typeid, At(Pos + 1)), 1, Pos + 2, 0, 0)
     ELSE IF DField.typeid = GLME_UINT THEN Fail(Pos + 1, 0)
     ELSE Done(Absent(DField), 1, Pos + 1, 0, 0)
  /\ oom' = oom

\* The bytes after a length at `pos', as many as there are.
Data(pos) == SubSeq(stream, pos + 2, pos + 1 + At(pos))
DataMissingOffByOne(pos) ==      \* mutant: forgets the byte of the length
  pos >= count \/ At(pos) > count - pos
DataMissing(pos) == pos >= count \/ At(pos) > count - pos - 1

\* glme_decode_vector: at most sizeof(elem) bytes, zeros after them.
FieldVectorShort ==              \* mutant: moves over the bytes it copied only
  /\ ElementStarts /\ DField.kind = "vector"
  /\ IF ~ Mark THEN Fail(Pos, 0)
     ELSE IF DataMissing(Pos + 1) THEN Fail(Pos + 1, 0)
     ELSE LET bytes == Data(Pos + 1)
              n == Min({Len(bytes), DField.size})
          IN Done([i \in 1..DField.size |-> IF i <= n THEN bytes[i] ELSE 0],
                  1, Pos + 2 + n, 0, 0)
  /\ oom' = oom

FieldVector ==
  /\ ElementStarts /\ DField.kind = "vector"
  /\ IF ~ Mark THEN Fail(Pos, 0)
     ELSE IF DataMissing(Pos + 1) THEN Fail(Pos + 1, 0)
     ELSE LET bytes == Data(Pos + 1)
              n == Len(bytes)
          IN Done([i \in 1..DField.size |-> IF i <= n THEN bytes[i] ELSE 0],
                  1, Pos + 2 + n, 0, 0)
  /\ oom' = oom

\* glme_decode_string moves the read pointer over the type mark only, and the
\* STRING case returns -n, a positive number, for its negative n: *delta keeps
\* its value and the element its null pointer.
FieldString ==
  /\ ElementStarts /\ DField.kind = "string"
  /\ IF ~ Mark \/ DataMissing(Pos + 1)
     THEN /\ Done(<<>>, DTop.delta, IF Mark THEN Pos + 1 ELSE Pos, 0, 0)
          /\ oom' = oom
     ELSE \/ Done(Data(Pos + 1), 1, Pos + 1, 1, 1) /\ Allocated
          \/ Done(<<>>, DTop.delta, Pos + 1, 0, 0) /\ OutOfMemory

\* The array case.  The macros pass the address of the element: for a FLOAT
\* vector that of a pointer to it, for INT and UINT vectors that of the (zeroed)
\* elements, which is taken for a null pointer, and the values go to a new block
\* that is dropped.  Value decoders of UINT fail when the value is missing, those
\* of the other types store a local nothing has set and return a positive number.
InPlaceNever(f) == FALSE         \* mutant: every vector is taken for a null pointer
InPlace(f) == f.kind = "fixed" /\ f.typeid = GLME_FLOAT

ArrayElements(pos, n, junk) ==
  [i \in 1..n |-> IF pos + i <= count
                  THEN FromByte(DField.typeid, At(pos + i - 1)) ELSE junk]

Fill(f, v) ==
  CASE f.kind = "array" -> v
    [] InPlace(f) -> [i \in 1..f.size |-> IF i <= Len(v) THEN v[i] ELSE 0]
    [] OTHER -> Zeros(f.size)

StoredArray(n) ==
  LET f == DField
      at == Pos + 3
      block == IF InPlace(f) THEN 0 ELSE 1
      short == at + n > count
  IN \/ /\ Allocated
        /\ IF short /\ f.typeid = GLME_UINT
           THEN Fail(count, block)
           ELSE \E junk \in Garbage :
                  Done(Fill(f, ArrayElements(at, n, junk)), 1,
                       IF short THEN count ELSE at + n,
                       block, IF f.kind = "array" THEN 1 ELSE 0)
     \/ block = 1 /\ OutOfMemory /\ Fail(at, 0)

FieldArray ==
  /\ FieldPresent
  /\ IsArray(DField)
  /\ GLME_ARRAY \in PeekedType
  /\ IF Pos + 2 >= count            \* ARRAY, the element type or the length missing
     THEN Fail(count, 0) /\ oom' = oom
     ELSE LET n == At(Pos + 2)
          IN IF Unzigzag(At(Pos + 1)) # DField.typeid
                \/ (DField.kind = "fixed" /\ DField.size < n)
             THEN Fail(Pos + 3, 0) /\ oom' = oom
             ELSE IF n = 0           \* n = 0 leaves *delta alone
             THEN Done(Absent(DField), DTop.delta, Pos + 3, 0, 0) /\ oom' = oom
             ELSE StoredArray(n)

\* A scalar where an array is expected: its type is the element type, and the
\* value decoder of the elements runs on the type mark with the address of the
\* element, a pointer the program then believes to point to no elements.
FieldScalarForArray ==
  /\ ElementStarts /\ IsArray(DField)
  /\ IF ~ Mark /\ DField.typeid = GLME_UINT
     THEN Fail(Pos, 0)
     ELSE \E junk \in Garbage :
            LET v == IF Mark THEN FromByte(DField.typeid, At(Pos)) ELSE junk
            IN Done(IF DField.kind = "fixed" /\ ~ InPlace(DField)
                    THEN [Zeros(DField.size) EXCEPT ![1] = v] ELSE Absent(DField),
                    1, IF Mark THEN Pos + 1 ELSE Pos, 0, 0)
  /\ oom' = oom

\* The default case: a structure, in place or in memory allocated for it.
FieldStruct ==
  /\ ElementStarts /\ IsStruct(DField)
  /\ LET block == IF DField.kind = "pointer" THEN 1 ELSE 0
     IN IF ~ Mark THEN Fail(Pos, 0) /\ oom' = oom
        ELSE \/ /\ Allocated
                /\ IF DField.named \/ HasHandler(dbase, DField.typeid)
                   THEN /\ dstack' = Append(dstack, DecoderFrame(DField.typeid, block))
                        /\ current' = Pos + 1
                        /\ live' = live + block
                        /\ UNCHANGED <<dec, count, got, held>>
                   ELSE Fail(Pos + 1, block)
             \/ block = 1 /\ OutOfMemory /\ Fail(Pos + 1, 0)

(***************************************************************************)
(* GLME_DECODE_FLD_START_ARRAY, the loop over the elements as t14.c writes *)
(* it, and GLME_DECODE_FLD_END_ARRAY, which is only a label.               *)
(***************************************************************************)
BlockMacro == InDecField /\ DField.kind = "block"

BlockSkipped ==
  /\ BlockMacro /\ DTop.delta # 1
  /\ Done(<<>>, IF DTop.delta > 0 THEN DTop.delta - 1 ELSE 0, current, 0, 0)
  /\ oom' = oom

BlockDecoded ==
  /\ BlockMacro /\ DTop.delta = 1
  /\ IF current >= count THEN Fail(current, 0) /\ oom' = oom
     ELSE IF Pos >= count \/ At(Pos) # TypeMark(GLME_ARRAY)
     THEN Fail(IF Pos < count THEN Pos + 1 ELSE Pos, 0) /\ oom' = oom
     ELSE IF Pos + 2 >= count
     THEN Fail(count, 0) /\ oom' = oom
     ELSE IF Unzigzag(At(Pos + 1)) # DField.typeid
     THEN Fail(Pos + 3, 0) /\ oom' = oom
     ELSE LET n == At(Pos + 2)
              at == Pos + 3
              short == at + n > count
          IN \/ /\ Allocated
                /\ \E junk \in Garbage :
                     Done(ArrayElements(at, n, junk), Offset,
                          IF short THEN count ELSE at + n, 1, 1)
             \/ OutOfMemory /\ Fail(at, 0)

(***************************************************************************)
(* GLME_DECODE_STRUCT_END and the return of the decoder function, to       *)
(* glme_decode_field (which sets its *delta to 1 and stores the pointer to *)
(* the structure) or to glme_decode_struct.                                *)
(***************************************************************************)
\* glme_decode_end_struct: one byte, and it is 0.
EndMarkAnyByte == current < count                      \* mutant: value unchecked
EndMark == current < count /\ At(current) = 0

ReturnTo(pos) ==
  LET blocks == DTop.owned + DTop.holds
  IN /\ current' = pos
     /\ IF Len(dstack) = 1
        THEN /\ dstack' = <<>>
             /\ got' = Append(got, [typeid |-> DTop.typeid, value |-> DTop.out, pos |-> pos])
             /\ held' = held + blocks
        ELSE /\ dstack' = DNext(Front(dstack), DTop.out, 1, blocks)
             /\ UNCHANGED <<got, held>>
     /\ UNCHANGED <<dec, count, live>>

DecodeEndStructPeeks ==          \* mutant: the mark is looked at, not consumed
  /\ dec = "open" /\ dstack # <<>> /\ DTop.fld > Len(DFields)
  /\ oom' = oom
  /\ IF EndMark THEN ReturnTo(current) ELSE Fail(current, 0)

DecodeEndStruct ==
  /\ dec = "open" /\ dstack # <<>> /\ DTop.fld > Len(DFields)
  /\ oom' = oom
  /\ IF EndMark THEN ReturnTo(current + 1) ELSE Fail(current, 0)

DecNext ==
  /\ \/ FieldUnderflow \/ FieldAfterEnd \/ FieldNotYet \/ FieldTypeError
     \/ FieldScalar \/ FieldVector \/ FieldString \/ FieldArray
     \/ FieldScalarForArray \/ FieldStruct
     \/ BlockSkipped \/ BlockDecoded
     \/ DecodeEndStruct
  /\ UNCHANGED <<stream, dbase>>
===============================================================================

------------------------------ MODULE GlmeStream ------------------------------
(***************************************************************************)
(* What the encoder and the decoder of a structure share: the type ids of  *)
(* glme.h, the representation of type marks and integers in the stream,    *)
(* the fields a pair of encoder and decoder functions lists with the       *)
(* GLME_ENCODE_FLD_* and GLME_DECODE_FLD_* macros, and the buffer.         *)
(*                                                                         *)
(* One item of `stream' is one byte of glme_buf_t.buf.  Every integer the  *)
(* models send is below 128, where a gob integer is exactly one byte (the  *)
(* longer representation is a matter of gobber.c alone), so a position in  *)
(* `stream' is a value of glme_buf_t.current or glme_buf_t.count.          *)
(***************************************************************************)
EXTENDS Integers, Sequences, Registry

CONSTANTS
  EncFields,    \* type id -> the fields its encoder function lists
  DecFields,    \* type id -> the fields its decoder function lists
  Handlers          \* the handler table both programs start with

VARIABLE stream \* the bytes encoded so far, from position 0

GLME_INT == 2
GLME_UINT == 3
GLME_FLOAT == 4
GLME_VECTOR == 5
GLME_STRING == 6
GLME_ARRAY == 10
GLME_USER_MIN == 16

\* The bytes of a signed value: bit 0 says that the others are complemented.
Zigzag(v) == IF v < 0 THEN 2 * (-v - 1) + 1 ELSE 2 * v
UnzigzagNegates(u) == IF u % 2 = 1 THEN -(u \div 2) ELSE u \div 2  \* mutant
Unzigzag(u) == IF u % 2 = 1 THEN -(u \div 2) - 1 ELSE u \div 2

TypeMark(typeid) == Zigzag(typeid)

\* The byte that stands for value v of base type t, and the value it stands for.
ToByte(t, v) == IF t = GLME_INT THEN Zigzag(v) ELSE v
FromByte(t, u) == IF t = GLME_INT THEN Unzigzag(u) ELSE u

(***************************************************************************)
(* A field as one macro of an encoder or decoder function declares it:     *)
(* `typeid' is the expected type (the element type of an array), `size'    *)
(* the sizeof of a fixed size element, `named' whether the handler of a    *)
(* structure is passed to the macro or left to the registry.               *)
(***************************************************************************)
Field(kind, typeid, size, named) ==
  [kind |-> kind, typeid |-> typeid, size |-> size, named |-> named]

FldScalar(t) == Field("scalar", t, 1, TRUE)          \* INT, UINT, DOUBLE
FldVector(n) == Field("vector", GLME_VECTOR, n, TRUE)
FldString == Field("string", GLME_STRING, 0, TRUE)
FldArray(t) == Field("array", t, 0, TRUE)            \* INT_ARRAY, UINT_ARRAY, ...
FldFixed(t, n) == Field("fixed", t, n, TRUE)         \* INT_VECTOR, FLOAT_VECTOR, ...
FldBlock(t) == Field("block", t, 0, TRUE)            \* START_ARRAY ... END_ARRAY
FldStruct(id, named) == Field("struct", id, 0, named)
FldPointer(id, named) == Field("pointer", id, 0, named)

IsStruct(f) == f.kind \in {"struct", "pointer"}
IsArray(f) == f.kind \in {"array", "fixed"}          \* GLME_F_ARRAY is set

Fields ==
  [kind : {"scalar", "vector", "string", "array", "fixed", "block", "struct", "pointer"},
   typeid : 1..63, size : Nat, named : BOOLEAN]

\* Type ids, lengths and distances are one byte each, and a structure that is a field
\* has a type that the program knows.
ASSUME StreamAssumption ==
  /\ \A fields \in {EncFields, DecFields} : \A t \in DOMAIN fields :
       /\ t \in 1..63 /\ fields[t] \in Seq(Fields) /\ Len(fields[t]) <= 127
       /\ \A i \in 1..Len(fields[t]) :
            IsStruct(fields[t][i]) => fields[t][i].typeid \in DOMAIN fields
  /\ Handlers \in Seq(0..63)

Zeros(n) == [i \in 1..n |-> 0]
===============================================================================

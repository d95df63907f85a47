----------------------------- MODULE StructMeaning -----------------------------
(***************************************************************************)
(* What the bytes of a structure are, and what decoding them returns, as   *)
(* functions of the structure: the reference StructCodec is compared with. *)
(* A part is a structure in the program's memory and the type it has; the  *)
(* functions are recursive over the parts a part leads to.                 *)
(***************************************************************************)
EXTENDS StructCodec

CONSTANT Depth    \* part -> how deep the structures in it are nested

Parts == UNION {{t} \X Structures[t] : t \in DOMAIN EncFields}

FieldOf(p, i) == EncFields[p[1]][i]
Present(p) == {i \in DOMAIN EncFields[p[1]] : ~ Omitted(FieldOf(p, i), p[2][i])}
Inner(p, i) == <<FieldOf(p, i).typeid, p[2][i]>>
Structs(p) == {i \in Present(p) : IsStruct(FieldOf(p, i))}

\* No structure leads back to itself: the encoder calls itself for the structures in
\* a structure, and would not return from those of a cyclic list.
ASSUME NestingAssumption ==
  \A p \in Parts :
    Depth[p] \in Nat /\ \A i \in Structs(p) : Depth[Inner(p, i)] < Depth[p]

(***************************************************************************)
(* The bytes.                                                              *)
(***************************************************************************)

Previous(p, i) == Max({0} \cup {j \in Present(p) : j < i})

\* The bytes of one structure as ENCODING's grammar lists them: for every field
\* that has a value, the distance to the one before it and the element; then 0.
WireStruct[p \in Parts] ==
  LET element(i) ==
        IF i \in Structs(p)
        THEN <<TypeMark(FieldOf(p, i).typeid)>> \o WireStruct[Inner(p, i)]
        ELSE Element(FieldOf(p, i), p[2][i])
  IN FlattenSeq([i \in DOMAIN EncFields[p[1]] |->
                   IF i \in Present(p) THEN <<i - Previous(p, i)>> \o element(i) ELSE <<>>])
     \o <<0>>

PartOf(m) == <<m.typeid, m.value>>

\* A message in the stream is exactly the structure ENCODING describes: field
\* distances are relative to the last field sent on the same level, whatever was
\* nested in between (encoder.c, glme_encode_field).
WireFormat ==
  \A k \in DOMAIN sent :
    sent[k].end # 0 =>
      SubSeq(stream, sent[k].at + 1, sent[k].end) =
        <<TypeMark(sent[k].msg.typeid)>> \o WireStruct[PartOf(sent[k].msg)]

(***************************************************************************)
(* What is decoded.                                                        *)
(***************************************************************************)

\* The value v of a field that arrives in an element of a fixed size.
Fitted(d, v) ==
  IF d.kind \in {"vector", "fixed"}
  THEN [i \in 1..d.size |-> IF i <= Len(v) THEN v[i] ELSE 0] ELSE v

\* What the encoder sends in field e, the decoder can have in field d.
Fits(e, d) ==
  /\ e.typeid = d.typeid
  /\ IsStruct(e) = IsStruct(d)
  /\ (e.kind = "scalar") = (d.kind = "scalar")

\* Everything sent in a part has its field in the decoder's version of the structure.
Lossless[p \in Parts] ==
  \A i \in Present(p) :
    /\ i \in DOMAIN DecFields[p[1]]
    /\ Fits(FieldOf(p, i), DecFields[p[1]][i])
    /\ i \in Structs(p) => Lossless[Inner(p, i)]

\* What the decoder's version of a structure makes of the encoder's: fields both have
\* in common have the value sent or their default, and fields only the decoder has
\* their default.
Seen[p \in Parts] ==
  [i \in 1..Len(DecFields[p[1]]) |->
     IF i \notin Present(p) THEN Absent(DecFields[p[1]][i])
     ELSE IF i \in Structs(p) THEN Seen[Inner(p, i)]
     ELSE Fitted(DecFields[p[1]][i], p[2][i])]

\* A structure whose decoding succeeded is the structure that was encoded, seen
\* through the decoder's version of it: no value ends up in another field, none
\* is lost without an error, and omitted fields have their defaults.  What is left of
\* a structure whose encoding failed is never taken for one.
RoundTrip ==
  \A k \in DOMAIN got :
    /\ k \in DOMAIN sent
    /\ got[k].typeid = sent[k].msg.typeid
    /\ Lossless[PartOf(sent[k].msg)]
    /\ got[k].value = Seen[PartOf(sent[k].msg)]

(***************************************************************************)
(* What the proofs about decoding ask of the structures.                   *)
(***************************************************************************)

\* The type ids the macros pass: those of the base types for numbers and arrays of them,
\* and those from GLME_USER_MIN on for structures (glme.h:64).
Declared(fields) ==
  \A t \in DOMAIN fields : \A i \in DOMAIN fields[t] :
    LET f == fields[t][i]
    IN /\ f.kind \in {"scalar", "array", "fixed"} => f.typeid \in {GLME_INT, GLME_UINT, GLME_FLOAT}
       /\ f.kind = "vector" => f.typeid = GLME_VECTOR
       /\ f.kind = "string" => f.typeid = GLME_STRING
       /\ IsStruct(f) => f.typeid >= GLME_USER_MIN

\* What the decoder functions read is in step with the stream: they have no strings, of
\* which only the mark is consumed, and no array blocks, whose distances are not looked
\* at, and none has an array where the encoder sends a number of the elements' type.
InStep(efields, dfields) ==
  /\ \A t \in DOMAIN dfields : \A i \in DOMAIN dfields[t] : dfields[t][i].kind \notin {"string", "block"}
  /\ \A t \in DOMAIN efields \cap DOMAIN dfields : \A i \in DOMAIN efields[t] \cap DOMAIN dfields[t] :
       ~ (/\ efields[t][i].kind = "scalar" /\ IsArray(dfields[t][i])
          /\ efields[t][i].typeid = dfields[t][i].typeid)

Readable(efields, dfields) ==
  Declared(efields) /\ Declared(dfields) /\ InStep(efields, dfields)

\* Every structure in a structure finds its decoder function, whatever the programs register
\* and unregister between the calls: it is passed to the macro, or in the table all the time.
Handled(fields, table, changing) ==
  \A t \in DOMAIN fields : \A i \in DOMAIN fields[t] :
    IsStruct(fields[t][i]) =>
      \/ fields[t][i].named
      \/ fields[t][i].typeid \notin changing /\ HasHandler(table, fields[t][i].typeid)

\* An array of a fixed size has no more elements than that.
Sized ==
  \A p \in Parts : \A i \in Present(p) :
    FieldOf(p, i).kind = "fixed" => Len(p[2][i]) <= FieldOf(p, i).size
===============================================================================

----------------------------- MODULE StructEncoder -----------------------------
(***************************************************************************)
(* glme_encode_struct and the encoder functions written with the           *)
(* GLME_ENCODE_FLD_* macros.  The C call stack of encoder functions is     *)
(* `estack': one frame per structure being encoded, each with its own      *)
(* __delta, the distance to the last field that was sent.  One action is   *)
(* one glme_encode_field call, or the call that starts or ends a           *)
(* structure; a field that is a structure spans the actions between its    *)
(* EncodeStructField and the EncodeEndStruct that returns to it.           *)
(*                                                                         *)
(* A value is a number for a scalar field and a sequence for the others:   *)
(* bytes, elements, or the values of a structure's fields; the empty       *)
(* sequence is a null pointer, an empty string or an array of length 0.    *)
(* The buffer never overflows here: module GlmeBuf is about its limits.    *)
(***************************************************************************)
EXTENDS GlmeStream, SequencesExt

CONSTANTS
  Structures,   \* type id -> the structures of this type in the program's memory
  Messages,     \* [typeid, named, value]: arguments of glme_encode_struct
  MaxMessages   \* bound on the messages encoded into one buffer

\* A value a field can have; all integers are sent as one byte.
HasType(f, v) ==
  CASE f.kind = "scalar" -> v \in Int /\ ToByte(f.typeid, v) \in 0..127
    [] f.kind \in {"vector", "string"} -> v \in Seq(0..127) /\ Len(v) <= 127
    [] f.kind \in {"array", "fixed", "block"} ->
         /\ v \in Seq(Int) /\ Len(v) <= 127
         /\ \A i \in 1..Len(v) : ToByte(f.typeid, v[i]) \in 0..127
    [] OTHER -> v = <<>> \/ v \in Structures[f.typeid]

ASSUME MessagesAssumption ==
  /\ MaxMessages \in Nat
  /\ \A m \in Messages : /\ m.typeid \in DOMAIN EncFields \cap DOMAIN DecFields
                        /\ m.value \in Structures[m.typeid]
  /\ \A t \in DOMAIN EncFields : \A v \in Structures[t] :
       Len(v) = Len(EncFields[t]) /\ \A i \in 1..Len(v) : HasType(EncFields[t][i], v[i])

VARIABLES
  enc,          \* "open" | "failed": a failed call has returned -1
  ebase,        \* the handler table of the program's glme_base_t
  estack,       \* frames of the encoder functions on the C stack
  sent          \* history: the messages completely encoded, and where they end

encVars == <<enc, ebase, estack, sent>>

EncoderFrame(typeid, value) ==
  [typeid |-> typeid, value |-> value, fld |-> 1, delta |-> 1]

EncInit ==
  /\ stream = <<>>
  /\ enc = "open"
  /\ ebase = Handlers
  /\ estack = <<>>
  /\ sent = <<>>

ETop == Last(estack)
EFields == EncFields[ETop.typeid]
EField == EFields[ETop.fld]
EValue == ETop.value[ETop.fld]

InEncField == enc = "open" /\ estack # <<>> /\ ETop.fld <= Len(EFields)

\* *delta = d, and the encoder function goes on to its next macro.
ENextFromZero(frames, d) ==      \* mutant: distances count from 0
  LET f == Last(frames)
  IN [frames EXCEPT ![Len(frames)] = [f EXCEPT !.fld = f.fld + 1, !.delta = d - 1]]
ENext(frames, d) ==
  LET f == Last(frames)
  IN [frames EXCEPT ![Len(frames)] = [f EXCEPT !.fld = f.fld + 1, !.delta = d]]

\* glme_encode_struct: type mark, then the encoder function, which starts
\* with __delta = 1; without a function the registry is asked for one.
EncodeStruct(m) ==
  /\ enc = "open" /\ estack = <<>> /\ Len(sent) < MaxMessages
  /\ IF m.named \/ HasHandler(ebase, m.typeid)
     THEN /\ stream' = Append(stream, TypeMark(m.typeid))
          /\ estack' = <<EncoderFrame(m.typeid, m.value)>>
          /\ enc' = enc
          /\ sent' = Append(sent, [msg |-> m, at |-> Len(stream), end |-> 0])
     ELSE /\ enc' = "failed"
          /\ UNCHANGED <<stream, estack, sent>>

\* A null pointer, an esize of 0 (the macros pass 0 for a value equal to its
\* default), an array without elements and an empty string are not sent.  An
\* embedded structure is the address of memory and never null.
Omitted(f, v) == IF f.kind = "scalar" THEN v = 0 ELSE v = <<>>

EncodeOmittedUncounted ==        \* mutant: the early returns leave *delta alone
  /\ InEncField
  /\ Omitted(EField, EValue)
  /\ estack' = ENext(estack, ETop.delta)
  /\ UNCHANGED <<stream, enc, sent>>

EncodeOmitted ==
  /\ InEncField
  /\ Omitted(EField, EValue)
  /\ estack' = ENext(estack, ETop.delta + 1)
  /\ UNCHANGED <<stream, enc, sent>>

Elements(t, v) == [i \in 1..Len(v) |-> ToByte(t, v[i])]

\* What follows the delta of a field that is no structure.
Element(f, v) ==
  CASE f.kind = "scalar" -> <<TypeMark(f.typeid), ToByte(f.typeid, v)>>
    [] f.kind \in {"vector", "string"} -> <<TypeMark(f.typeid), Len(v)>> \o v
    [] f.kind \in {"array", "fixed", "block"} ->
         <<TypeMark(GLME_ARRAY), TypeMark(f.typeid), Len(v)>> \o Elements(f.typeid, v)

EncodeElement ==
  /\ InEncField
  /\ ~ Omitted(EField, EValue)
  /\ ~ IsStruct(EField)
  /\ stream' = Append(stream, ETop.delta) \o Element(EField, EValue)
  /\ estack' = ENext(estack, 1)
  /\ UNCHANGED <<enc, sent>>

\* The delta is in the stream before the registry is asked for the encoder.
EncodeStructField ==
  /\ InEncField
  /\ ~ Omitted(EField, EValue)
  /\ IsStruct(EField)
  /\ IF EField.named \/ HasHandler(ebase, EField.typeid)
     THEN /\ stream' = stream \o <<ETop.delta, TypeMark(EField.typeid)>>
          /\ estack' = Append(estack, EncoderFrame(EField.typeid, EValue))
          /\ enc' = enc
          /\ sent' = sent
     ELSE \* GLME_E_NOENC: every function on the stack returns its error
          /\ stream' = Append(stream, ETop.delta)
          /\ estack' = <<>>
          /\ enc' = "failed"
          /\ sent' = Front(sent)

\* glme_encode_end_struct, the return of the encoder function, and the end of
\* the glme_encode_field that called it, which sets the caller's delta to 1.
EncodeEndStructKeepsDelta ==     \* mutant: the caller's *delta is not set to 1
  /\ enc = "open" /\ estack # <<>> /\ ETop.fld > Len(EFields)
  /\ stream' = Append(stream, 0)
  /\ estack' = IF Len(estack) = 1 THEN <<>>
               ELSE ENext(Front(estack), estack[Len(estack) - 1].delta)
  /\ sent' = IF Len(estack) = 1
             THEN [sent EXCEPT ![Len(sent)].end = Len(stream) + 1] ELSE sent
  /\ UNCHANGED enc

EncodeEndStruct ==
  /\ enc = "open" /\ estack # <<>> /\ ETop.fld > Len(EFields)
  /\ stream' = Append(stream, 0)
  /\ estack' = IF Len(estack) = 1 THEN <<>> ELSE ENext(Front(estack), 1)
  /\ sent' = IF Len(estack) = 1
             THEN [sent EXCEPT ![Len(sent)].end = Len(stream) + 1] ELSE sent
  /\ UNCHANGED enc

EncNext ==
  /\ \/ \E m \in Messages : EncodeStruct(m)
     \/ EncodeOmitted
     \/ EncodeElement
     \/ EncodeStructField
     \/ EncodeEndStruct
  /\ UNCHANGED ebase
===============================================================================

----------------------------- MODULE MCStructCodec -----------------------------
(***************************************************************************)
(* Instances of StructCodec: structures like those of the test programs    *)
(* (t13.c, t14.c, t17.c, t18.c, t21.c, t23.c) and small sets of messages.  *)
(***************************************************************************)
EXTENDS StructMeaning

Message(typeid, value) == [typeid |-> typeid, named |-> TRUE, value |-> value]
Lookup(typeid, value) == [typeid |-> typeid, named |-> FALSE, value |-> value]

DATA == 16      \* t21.c data_t, with the kinds of fields of t17.c and t18.c
LINK == 17      \* t23.c link_t, its handlers found in the registry
RECT == 18      \* t21.c rect_t

LinkFields == <<FldScalar(GLME_INT), FldPointer(LINK, FALSE)>>
RectFields == <<FldScalar(GLME_INT), FldScalar(GLME_UINT)>>
DataFields ==
  <<FldScalar(GLME_FLOAT), FldStruct(RECT, TRUE), FldArray(GLME_UINT),
    FldVector(2), FldPointer(LINK, TRUE), FldFixed(GLME_FLOAT, 2)>>

\* The structures a program has are those it sends, and those they lead to.
RECURSIVE PartsOf(_, _, _)
PartsOf(fields, typeid, v) ==
  {<<typeid, v>>} \cup
  UNION {PartsOf(fields, fields[typeid][i].typeid, v[i]) :
           i \in {j \in DOMAIN v : IsStruct(fields[typeid][j]) /\ v[j] # <<>>}}

StructuresOf(fields, messages) ==
  LET parts == UNION {PartsOf(fields, m.typeid, m.value) : m \in messages}
  IN [t \in DOMAIN fields |-> {p[2] : p \in {q \in parts : q[1] = t}}]

\* One more than the deepest of the structures a structure leads to.
RECURSIVE DepthOf(_, _, _)
DepthOf(fields, typeid, v) ==
  LET inner == {j \in DOMAIN v : IsStruct(fields[typeid][j]) /\ v[j] # <<>>}
  IN Max({0} \cup {1 + DepthOf(fields, fields[typeid][i].typeid, v[i]) : i \in inner})

DepthIn(fields) == [p \in Parts |-> DepthOf(fields, p[1], p[2])]

NoLinks == <<>>
OneLink == <<0, <<>>>>
TwoLinks == <<-2, <<0, <<>>>>>>
ThreeLinks == <<1, <<0, <<-4, <<>>>>>>>>

CoreFields == (DATA :> DataFields) @@ (LINK :> LinkFields) @@ (RECT :> RectFields)
CoreHandlers == <<LINK, 0>>
CoreMessages ==
  {Message(DATA, <<x, r, a, <<7, 0>>, l, <<0, 1>>>>) :
     x \in {0, 5}, r \in {<<0, 0>>, <<-1, 3>>},
     a \in {<<>>, <<0, 9>>}, l \in {NoLinks, OneLink, TwoLinks}}
  \cup {Message(DATA, <<5, <<0, 3>>, <<4>>, <<>>, NoLinks, <<2, 0>>>>)}
  \cup {Message(LINK, l) : l \in {OneLink, TwoLinks, ThreeLinks}}

CoreStructures == StructuresOf(CoreFields, CoreMessages)
CoreDepth == DepthIn(CoreFields)

CoreGarbage == {0, GLME_UINT, GLME_ARRAY}

(***************************************************************************)
(* Two versions of structures, one built into each program.                *)
(***************************************************************************)
GROWN == 20     \* the decoder has one field more
SHRUNK == 21    \* the decoder has one field less
RETYPED == 22   \* a field is signed on one side
RESHAPED == 23  \* a scalar and an array, and the other way round
RESIZED == 24   \* fixed sizes differ
TEXT == 25      \* t18.c: with a string
PARTIAL == 26   \* t14.c: an array block
LOST == 27      \* the decoder has no handler for the type pointed to
HIDDEN == 28    \* nobody has one
INLINED == 29   \* a pointer is an embedded structure on the other side
STRANGE == 30   \* LOST points to it

Base == <<FldScalar(GLME_INT), FldPointer(LINK, FALSE), FldArray(GLME_UINT)>>
Extra == <<FldVector(2)>>

SkewEncFields ==
  (LINK :> LinkFields) @@ (RECT :> RectFields) @@ (STRANGE :> RectFields)
  @@ (GROWN :> Base) @@ (SHRUNK :> Base \o Extra)
  @@ (RETYPED :> <<FldScalar(GLME_INT), FldScalar(GLME_UINT)>>)
  @@ (RESHAPED :> <<FldScalar(GLME_INT), FldFixed(GLME_INT, 2), FldScalar(GLME_UINT)>>)
  @@ (RESIZED :> <<FldVector(3), FldFixed(GLME_FLOAT, 2)>>)
  @@ (TEXT :> <<FldScalar(GLME_INT), FldString, FldPointer(RECT, TRUE)>>)
  @@ (PARTIAL :> <<FldScalar(GLME_INT), FldBlock(GLME_INT), FldScalar(GLME_FLOAT)>>)
  @@ (LOST :> <<FldPointer(STRANGE, TRUE)>>)
  @@ (HIDDEN :> <<FldScalar(GLME_INT), FldPointer(STRANGE, FALSE)>>)
  @@ (INLINED :> <<FldPointer(RECT, TRUE), FldScalar(GLME_INT)>>)

SkewDecFields ==
  (GROWN :> Base \o Extra) @@ (SHRUNK :> Base)
  @@ (RETYPED :> <<FldScalar(GLME_UINT), FldScalar(GLME_UINT)>>)
  @@ (RESHAPED :> <<FldArray(GLME_INT), FldScalar(GLME_INT), FldScalar(GLME_UINT)>>)
  @@ (RESIZED :> <<FldVector(2), FldFixed(GLME_FLOAT, 1)>>)
  @@ (LOST :> <<FldPointer(STRANGE, FALSE)>>)
  @@ (INLINED :> <<FldStruct(RECT, TRUE), FldScalar(GLME_INT)>>)
  @@ SkewEncFields

SkewMessages ==
  {Message(GROWN, <<3, l, a>>) : l \in {NoLinks, TwoLinks}, a \in {<<>>, <<1, 0>>}}
  \cup {Message(SHRUNK, <<3, OneLink, a, v>>) : a \in {<<>>, <<8>>}, v \in {<<>>, <<0, 7>>}}
  \cup {Message(RETYPED, <<i, 6>>) : i \in {0, -1}}
  \cup {Message(RESHAPED, <<i, <<1, 2>>, 6>>) : i \in {0, -1}}
  \cup {Message(RESIZED, <<v, x>>) : v \in {<<7>>, <<7, 8, 9>>, <<7, 8, 0>>}, x \in {<<3>>, <<3, 4>>}}
  \cup {Message(TEXT, <<i, s, r>>) : i \in {0, 1}, s \in {<<>>, <<120, 121>>},
                                    r \in {<<>>, <<0, 4>>}}
  \cup {Message(PARTIAL, <<i, b, 5>>) : i \in {0, 1}, b \in {<<>>, <<0, -1>>}}
  \cup {Message(LOST, <<r>>) : r \in {<<>>, <<2, 4>>}}
  \cup {Message(HIDDEN, <<1, r>>) : r \in {<<>>, <<2, 4>>}}
  \cup {Message(INLINED, <<r, 5>>) : r \in {<<>>, <<0, 0>>, <<2, 4>>}}
  \cup {Lookup(LINK, ThreeLinks), Lookup(RECT, <<1, 1>>)}

SkewStructures == StructuresOf(SkewEncFields, SkewMessages)
SkewDepth == DepthIn(SkewEncFields)

\* The theorems about decoding are about structures like these: those of struct_core, and
\* two versions of all those of struct_skew without strings, array blocks and arrays for numbers.
Plain == DOMAIN SkewEncFields \ {TEXT, PARTIAL, RESHAPED}

ASSUME CoreIsReadable == Readable(CoreFields, CoreFields)
ASSUME SkewIsReadable == Readable(Restrict(SkewEncFields, Plain), Restrict(SkewDecFields, Plain))
ASSUME CoreIsHandled == Handled(CoreFields, CoreHandlers, {})
ASSUME CoreIsSized == EncFields = CoreFields => Sized

SkewChanging == {LINK, STRANGE}

SkewGarbage == {0, GLME_INT, GLME_FLOAT, GLME_STRING, GLME_ARRAY, RECT}

(***************************************************************************)
(* The structures of t18.c and t14.c, equal on both sides.                 *)
(***************************************************************************)
StringFields == TEXT :> <<FldScalar(GLME_INT), FldString>>
StringMessages == {Message(TEXT, <<i, s>>) : i \in {0, 1}, s \in {<<>>, <<120, 121>>}}
StringStructures == StructuresOf(StringFields, StringMessages)
StringDepth == DepthIn(StringFields)

BlockFields == PARTIAL :> <<FldScalar(GLME_INT), FldBlock(GLME_INT)>>
BlockMessages == {Message(PARTIAL, <<i, b>>) : i \in {0, 1}, b \in {<<>>, <<1, 3>>}}
BlockStructures == StructuresOf(BlockFields, BlockMessages)
BlockDepth == DepthIn(BlockFields)

VectorFields == RESIZED :> <<FldScalar(GLME_INT), FldFixed(GLME_UINT, 3)>>
VectorMessages == {Message(RESIZED, <<i, <<5, 6, 7>>>>) : i \in {0, 1}}
VectorStructures == StructuresOf(VectorFields, VectorMessages)
VectorDepth == DepthIn(VectorFields)
===============================================================================

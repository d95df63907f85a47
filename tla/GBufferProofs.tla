---------------------------- MODULE GBufferProofs ----------------------------
(***************************************************************************)
(* For all Python values, nested to any depth, and all sequences of method *)
(* calls on a GBuffer: an element goes in as a whole or leaves nothing     *)
(* behind, and comes out as it went in.                                    *)
(***************************************************************************)
EXTENDS GBuffer, GobProofs, FiniteSetTheorems

(***************************************************************************)
(* Writing.                                                                *)
(***************************************************************************)

\* The bytes of a number, and what the steps of a method are made of.
Numeral == {w \in Seq(Byte) : w # <<>> /\ Len(w) <= MaxBytes + 1}
SimpleElements == {e \in Elements : IsSimple(e)}

StepSet ==
  {Number(w) : w \in Numeral} \cup {Vector(s) : s \in Sendable}
  \cup {Simple(e) : e \in SimpleElements} \cup {Raise}

Buffers == [bytes : Seq(Byte), size : Nat, n : Nat, raised : BOOLEAN, whole : BOOLEAN]

LEMMA ByteStringIs == ByteString = Sendable
BY DEF ByteString, Short, Sendable, Byte

LEMMA PowerAll ==
  /\ Power[MaxBytes] \in Nat \ {0} /\ MaxBytes \in Nat \ {0}
  /\ 22 < Power[MaxBytes]
BY GobAssumption, MarksAssumption, PowerType DEF GLME_MAP

LEMMA NumeralUint ==
  ASSUME NEW u \in Unsigned
  PROVE  u \in Nat /\ u < Power[MaxBytes] /\ EncodedUint(u) \in Numeral
<1>1. u \in Nat /\ u < Power[MaxBytes] BY PowerAll DEF Unsigned
<1> QED BY <1>1, EncodedUintType DEF Numeral, Byte

LEMMA NumeralInt ==
  ASSUME NEW v \in Signed
  PROVE  v \in Int /\ EncodedInt(v) \in Numeral
<1>1. v \in Int /\ 2 * v < Power[MaxBytes] /\ 2 * (-v - 1) + 1 < Power[MaxBytes] BY DEF Signed
<1> DEFINE u == IF v < 0 THEN 2 * (-v - 1) + 1 ELSE 2 * v
<1>2. u \in Unsigned BY <1>1, PowerAll DEF Unsigned
<1>3. EncodedInt(v) = EncodedUint(u) BY DEF EncodedInt
<1> HIDE DEF u
<1> QED BY <1>1, <1>2, <1>3, NumeralUint

LEMMA NumeralDouble ==
  ASSUME NEW u \in Unsigned
  PROVE  EncodedDouble(u) \in Numeral
<1>1. u \in Nat /\ u < Power[MaxBytes] BY NumeralUint
<1>2. Flip(u) \in Unsigned BY <1>1, FlipTwice, PowerAll DEF Unsigned
<1> QED BY <1>2, NumeralUint DEF EncodedDouble

\* The type marks and the length of what is short enough.
LEMMA NumeralMark ==
  ASSUME NEW k \in 0..GLME_MAP
  PROVE  k \in Signed /\ EncodedInt(k) \in Numeral
<1>1. k \in Signed BY PowerAll DEF Signed, GLME_MAP
<1> QED BY <1>1, NumeralInt

LEMMA NumeralLength ==
  ASSUME NEW S, NEW s \in Short(S)
  PROVE  s \in Seq(S) /\ Len(s) \in Unsigned /\ EncodedUint(Len(s)) \in Numeral
<1>1. s \in Seq(S) /\ Len(s) \in Nat /\ Len(s) < Power[MaxBytes] BY LenProperties DEF Short
<1>2. Len(s) \in Unsigned BY <1>1, PowerAll DEF Unsigned
<1> QED BY <1>1, <1>2, NumeralUint

\* The types of the contents.
LEMMA ContentType ==
  ASSUME NEW e \in Elements
  PROVE  /\ Type(e) = "int" => Content(e) \in Signed
         /\ Type(e) = "float" => Content(e) \in Unsigned
         /\ Type(e) = "bool" => Content(e) \in BOOLEAN
         /\ Type(e) \in {"str", "bytes"} => Content(e) \in Sendable
         /\ Type(e) = "ints" => Content(e) \in Short(Signed)
         /\ Type(e) = "uints" => Content(e) \in Short(Byte)
         /\ Type(e) = "floats" => Content(e) \in Short(Unsigned)
         /\ Type(e) = "list" => Content(e) \in Short(Shallower(e))
         /\ Type(e) = "strdict" => Content(e) \in Short(Sendable \X Shallower(e))
         /\ Type(e) = "intdict" => Content(e) \in Short(Signed \X Shallower(e))
         /\ Type(e) \in {"int", "float", "bool", "str", "bytes", "ints", "uints", "floats",
                         "list", "strdict", "intdict", "none"}
         /\ e = <<Type(e), Content(e)>>
<1>1. Fits(e, Shallower(e)) BY ElementsAssumption
<1> QED BY <1>1, ByteStringIs DEF Fits, Type, Content, Byte

\* The mark and the value of a simple element.
LEMMA SimpleIs ==
  ASSUME NEW e \in SimpleElements
  PROVE  /\ MarkOf(e) \in 0..GLME_MAP /\ EncodedInt(MarkOf(e)) \in Numeral
         /\ IsNumber(e) => NumberOf(e) \in Numeral
         /\ ~ IsNumber(e) => Type(e) \in {"str", "bytes"} /\ Content(e) \in Sendable
<1>1. e \in Elements /\ IsSimple(e) BY DEF SimpleElements
<1>2. MarkOf(e) \in 0..GLME_MAP
  BY <1>1 DEF MarkOf, IsSimple, IsNumber, GLME_MAP, GLME_INT, GLME_FLOAT, GLME_BOOLEAN,
              GLME_STRING, GLME_VECTOR
<1>3. CASE Type(e) = "int"
  <2>1. NumberOf(e) = EncodedInt(Content(e)) BY <1>3 DEF NumberOf
  <2> QED BY <1>1, <1>2, <1>3, <2>1, ContentType, NumeralMark, NumeralInt DEF IsNumber
<1>4. CASE Type(e) = "float"
  <2>1. NumberOf(e) = EncodedDouble(Content(e)) BY <1>4 DEF NumberOf
  <2> QED BY <1>1, <1>2, <1>4, <2>1, ContentType, NumeralMark, NumeralDouble DEF IsNumber
<1>5. CASE Type(e) = "bool"
  <2> DEFINE u == IF Content(e) THEN 1 ELSE 0
  <2>1. NumberOf(e) = EncodedUint(u) BY <1>5 DEF NumberOf
  <2>2. u \in Unsigned BY PowerAll DEF Unsigned
  <2> HIDE DEF u
  <2> QED BY <1>1, <1>2, <1>5, <2>1, <2>2, NumeralMark, NumeralUint DEF IsNumber
<1>6. CASE Type(e) \in {"str", "bytes"}
  BY <1>1, <1>2, <1>6, ContentType, NumeralMark DEF IsNumber
<1> QED BY <1>1, <1>3, <1>4, <1>5, <1>6 DEF IsSimple, IsNumber

\* What a step puts into the buffer.
VectorBytes(s) == EncodedUint(Len(s)) \o s
SimpleBytes(e) ==
  EncodedInt(MarkOf(e)) \o (IF IsNumber(e) THEN NumberOf(e) ELSE VectorBytes(Content(e)))

Wire(step) ==
  CASE step.do = "number" -> step.bytes
    [] step.do = "vector" -> VectorBytes(step.bytes)
    [] step.do = "simple" -> SimpleBytes(step.value)
    [] step.do = "raise" -> <<>>

LEMMA StepCases ==
  ASSUME NEW step \in StepSet
  PROVE  \/ step.do = "number" /\ step.bytes \in Numeral
         \/ step.do = "vector" /\ step.bytes \in Sendable
         \/ step.do = "simple" /\ step.value \in SimpleElements
         \/ step.do = "raise"
BY DEF StepSet, Number, Vector, Simple, Raise

LEMMA VectorBytesType ==
  ASSUME NEW s \in Sendable
  PROVE  /\ VectorBytes(s) \in Seq(Byte) /\ EncodedUint(Len(s)) \in Numeral /\ s \in Seq(Byte)
         /\ Len(VectorBytes(s)) = Len(EncodedUint(Len(s))) + Len(s)
         /\ Len(s) \in Unsigned
<1>1. s \in Seq(Byte) /\ Len(s) \in Unsigned /\ EncodedUint(Len(s)) \in Numeral
  BY NumeralLength DEF Sendable, Short
<1>2. EncodedUint(Len(s)) \in Seq(Byte) BY <1>1 DEF Numeral
<1> QED BY <1>1, <1>2, ConcatProperties DEF VectorBytes

LEMMA WireType ==
  ASSUME NEW step \in StepSet
  PROVE  Wire(step) \in Seq(Byte)
<1>1. CASE step.do = "number" /\ step.bytes \in Numeral BY <1>1 DEF Wire, Numeral
<1>2. CASE step.do = "vector" /\ step.bytes \in Sendable BY <1>2, VectorBytesType DEF Wire
<1>3. CASE step.do = "simple" /\ step.value \in SimpleElements
  <2> DEFINE e == step.value
  <2> DEFINE w == IF IsNumber(e) THEN NumberOf(e) ELSE VectorBytes(Content(e))
  <2>1. w \in Seq(Byte) /\ EncodedInt(MarkOf(e)) \in Seq(Byte)
    BY <1>3, SimpleIs, VectorBytesType DEF Numeral
  <2>2. Wire(step) = EncodedInt(MarkOf(e)) \o w BY <1>3 DEF Wire, SimpleBytes
  <2> HIDE DEF w, e
  <2> QED BY <2>1, <2>2, ConcatProperties
<1>4. CASE step.do = "raise" BY <1>4, EmptySeq DEF Wire
<1> QED BY <1>1, <1>2, <1>3, <1>4, StepCases

(***************************************************************************)
(* One step.                                                               *)
(***************************************************************************)

\* The buffer inside its block, and a buffer without a block with no bytes.
InBlock(c) ==
  /\ c \in Buffers /\ Len(c.bytes) <= c.size /\ c.size <= MaxSize
  /\ owner = 0 => c.size = 0

\* d is c with a step done or failed: bytes are put behind those there are.
Extends(c, d) ==
  /\ InBlock(d) /\ c.size <= d.size
  /\ Len(c.bytes) <= Len(d.bytes) /\ \A j \in 1..Len(c.bytes) : d.bytes[j] = c.bytes[j]

\* The step is done, or the element is not whole any more.
DoneOr(c, d, w) == d.whole => c.whole /\ ~ d.raised /\ d.bytes = c.bytes \o w

LEMMA ExtendsSelf == ASSUME NEW c, InBlock(c) PROVE Extends(c, c)
BY DEF Extends, InBlock, Buffers

LEMMA ExtendsTwice ==
  ASSUME NEW c, NEW d, NEW f, InBlock(c), Extends(c, d), Extends(d, f)
  PROVE  Extends(c, f)
<1>1. Len(c.bytes) \in Nat /\ Len(d.bytes) \in Nat /\ Len(f.bytes) \in Nat
  BY LenProperties DEF Extends, InBlock, Buffers
<1>2. c.size \in Nat /\ d.size \in Nat /\ f.size \in Nat BY DEF Extends, InBlock, Buffers
<1> QED BY <1>1, <1>2 DEF Extends

LEMMA AddedIs ==
  ASSUME NEW c, InBlock(c), NEW w \in Seq(Byte), Len(w) <= c.size - Len(c.bytes)
  PROVE  /\ Extends(c, Added(c, w)) /\ Added(c, w).n = Len(w)
         /\ Added(c, w).raised = c.raised /\ Added(c, w).whole = c.whole
         /\ Added(c, w).bytes = c.bytes \o w /\ Added(c, w).size = c.size
<1> DEFINE d == Added(c, w)
<1> DEFINE s == c.bytes \o w
<1>1. c \in Buffers /\ c.bytes \in Seq(Byte) /\ c.size \in Nat /\ Len(c.bytes) \in Nat
      /\ Len(w) \in Nat
  BY LenProperties DEF InBlock, Buffers
<1>2. s \in Seq(Byte) /\ Len(s) = Len(c.bytes) + Len(w)
      /\ \A j \in 1..Len(c.bytes) : s[j] = c.bytes[j]
  <2>1. /\ s \in Seq(Byte) /\ Len(s) = Len(c.bytes) + Len(w)
        /\ \A j \in 1..(Len(c.bytes) + Len(w)) :
             s[j] = IF j <= Len(c.bytes) THEN c.bytes[j] ELSE w[j - Len(c.bytes)]
    BY <1>1, ConcatProperties
  <2> HIDE DEF s
  <2> QED BY <1>1, <2>1
<1>3. d = [c EXCEPT !.bytes = s, !.n = Len(w)] BY DEF Added
<1> HIDE DEF s
<1>4. d \in Buffers /\ d.bytes = s /\ d.n = Len(w) /\ d.size = c.size /\ d.raised = c.raised
      /\ d.whole = c.whole
  BY <1>1, <1>2, <1>3 DEF Buffers
<1> HIDE DEF d
<1> QED BY <1>1, <1>2, <1>4 DEF Extends, InBlock, d, s

LEMMA FailedIs ==
  ASSUME NEW c, InBlock(c), NEW r \in BOOLEAN
  PROVE  /\ Extends(c, Failed(c, r)) /\ Failed(c, r).n = 0 /\ ~ Failed(c, r).whole
         /\ Failed(c, r).bytes = c.bytes
         /\ Failed(c, r).size = c.size
<1> DEFINE d == Failed(c, r)
<1>1. c \in Buffers BY DEF InBlock
<1>2. d = [c EXCEPT !.n = 0, !.raised = r, !.whole = FALSE] BY DEF Failed
<1>3. d \in Buffers
  <2>1. ASSUME NEW F, F = BOOLEAN, NEW x \in Nat, NEW p \in F, NEW q \in F,
               c \in [bytes : Seq(Byte), size : Nat, n : Nat, raised : F, whole : F]
        PROVE  [c EXCEPT !.n = x, !.raised = p, !.whole = q]
                 \in [bytes : Seq(Byte), size : Nat, n : Nat, raised : F, whole : F]
    BY <2>1
  <2>2. 0 \in Nat /\ FALSE \in BOOLEAN OBVIOUS
  <2>3. [c EXCEPT !.n = 0, !.raised = r, !.whole = FALSE] \in Buffers
    BY <1>1, <2>1, <2>2, Zenon DEF Buffers
  <2> QED BY <1>2, <2>3, Zenon
<1>4. d.bytes = c.bytes /\ d.size = c.size /\ d.n = 0 BY <1>1, <1>2 DEF Buffers
<1>5. ~ d.whole BY <1>1, <1>2 DEF Buffers
<1>6. c.bytes \in Seq(Byte) /\ c.size \in Nat BY <1>1 DEF Buffers
<1> HIDE DEF d
<1> QED BY <1>3, <1>4, <1>5, <1>6 DEF Extends, InBlock, d

LEMMA FailedInCdefIs ==
  ASSUME NEW c, InBlock(c)
  PROVE  /\ Extends(c, FailedInCdef(c)) /\ FailedInCdef(c).n = 0 /\ ~ FailedInCdef(c).whole
         /\ FailedInCdef(c).bytes = c.bytes
<1>1. CASE build = "propagates"
  <2>1. FailedInCdef(c) = Failed(c, TRUE) BY <1>1, Zenon DEF FailedInCdef
  <2>2. TRUE \in BOOLEAN OBVIOUS
  <2> QED BY <2>1, <2>2, FailedIs
<1>2. CASE build # "propagates"
  <2>1. FailedInCdef(c) = Failed(c, FALSE) BY <1>2 DEF FailedInCdef
  <2>2. FALSE \in BOOLEAN OBVIOUS
  <2> QED BY <2>1, <2>2, FailedIs
<1> QED BY <1>1, <1>2

LEMMA GrownIs ==
  ASSUME NEW c, InBlock(c), CanResize(c.size + Grow)
  PROVE  Extends(c, [c EXCEPT !.size = @ + Grow])
<1>1. Grow \in Nat BY GBufferAssumption
<1> QED BY <1>1 DEF CanResize, Extends, InBlock, Buffers

\* It put all of its bytes there, or none.
AllOrNone(c, d) ==
  \/ d.n > 0 /\ (c.whole => d.whole) /\ ~ d.raised
  \/ d.n = 0 /\ ~ d.whole /\ d.bytes = c.bytes

LEMMA PutNumberIs ==
  ASSUME NEW c, InBlock(c), ~ c.raised, NEW w \in Numeral
  PROVE  /\ Extends(c, PutNumber(c, w)) /\ DoneOr(c, PutNumber(c, w), w)
         /\ AllOrNone(c, PutNumber(c, w))
<1>1. w \in Seq(Byte) /\ Len(w) \in Nat /\ Len(w) > 0 BY LenProperties, EmptySeq DEF Numeral
<1>2. CASE NumberFits(w, Room(c))
  <2>1. PutNumber(c, w) = Added(c, w) BY <1>2 DEF PutNumber
  <2>2. Len(w) <= c.size - Len(c.bytes) BY <1>2 DEF NumberFits, Room
  <2> QED BY <1>1, <2>1, <2>2, AddedIs DEF DoneOr, AllOrNone
<1>3. CASE ~ NumberFits(w, Room(c)) /\ CanResize(c.size + Grow)
  <2> DEFINE g == [c EXCEPT !.size = @ + Grow]
  <2>1. Extends(c, g) /\ InBlock(g) BY <1>3, GrownIs DEF Extends
  <2>2. g.bytes = c.bytes /\ g.raised = c.raised /\ g.whole = c.whole BY DEF InBlock, Buffers
  <2>3. PutNumber(c, w) = PutAtOnce(g, w) BY <1>3 DEF PutNumber
  <2> HIDE DEF g
  <2>4. CASE NumberFits(w, Room(g))
    <3>1. PutNumber(c, w) = Added(g, w) BY <2>3, <2>4 DEF PutAtOnce
    <3>2. Len(w) <= g.size - Len(g.bytes) BY <2>4 DEF NumberFits, Room
    <3>3. Extends(g, Added(g, w)) BY <1>1, <2>1, <3>2, AddedIs
    <3>4. Extends(c, Added(g, w)) BY <2>1, <3>3, ExtendsTwice
    <3>5. /\ Added(g, w).n = Len(w) /\ Added(g, w).bytes = g.bytes \o w
          /\ Added(g, w).raised = g.raised /\ Added(g, w).whole = g.whole
      BY <1>1, <2>1, <3>2, AddedIs
    <3>6. DoneOr(c, Added(g, w), w) BY <2>2, <3>5 DEF DoneOr
    <3>7. AllOrNone(c, Added(g, w)) BY <1>1, <2>2, <3>5 DEF AllOrNone
    <3> QED BY <3>1, <3>4, <3>6, <3>7
  <2>5. CASE ~ NumberFits(w, Room(g))
    <3>1. PutNumber(c, w) = Failed(g, FALSE) BY <2>3, <2>5 DEF PutAtOnce
    <3>2. Extends(c, Failed(g, FALSE)) BY <2>1, FailedIs, ExtendsTwice
    <3>3. FALSE \in BOOLEAN OBVIOUS
    <3> QED BY <2>1, <2>2, <3>1, <3>2, <3>3, FailedIs DEF DoneOr, AllOrNone
  <2> QED BY <2>4, <2>5
<1>4. CASE ~ NumberFits(w, Room(c)) /\ ~ CanResize(c.size + Grow)
  <2>1. PutNumber(c, w) = FailedInCdef(c) BY <1>4 DEF PutNumber
  <2> QED BY <2>1, FailedInCdefIs DEF DoneOr, AllOrNone
<1> QED BY <1>2, <1>3, <1>4

LEMMA PutBytesIs ==
  ASSUME NEW c, InBlock(c), ~ c.raised, NEW s \in Sendable
  PROVE  /\ Extends(c, PutBytes(c, s)) /\ DoneOr(c, PutBytes(c, s), VectorBytes(s))
         /\ AllOrNone(c, PutBytes(c, s))
<1> DEFINE w == VectorBytes(s)
<1>1. w \in Seq(Byte) /\ Len(w) \in Nat /\ Len(w) > 0
  <2>1. /\ w \in Seq(Byte) /\ Len(w) = Len(EncodedUint(Len(s))) + Len(s)
        /\ EncodedUint(Len(s)) \in Numeral /\ s \in Seq(Byte)
    BY VectorBytesType
  <2>2. Len(EncodedUint(Len(s))) \in Nat /\ Len(EncodedUint(Len(s))) > 0 /\ Len(s) \in Nat
    BY <2>1, LenProperties, EmptySeq DEF Numeral
  <2> HIDE DEF w
  <2> QED BY <2>1, <2>2
<1>2. CASE s = <<>>
  <2>1. PutBytes(c, s) = FailedInCdef(c) BY <1>2 DEF PutBytes
  <2> QED BY <2>1, FailedInCdefIs DEF DoneOr, AllOrNone
<1>3. CASE s # <<>> /\ VectorFits(s, Room(c))
  <2>1. PutBytes(c, s) = Added(c, w) BY <1>3 DEF PutBytes, VectorBytes
  <2>2. Len(w) < c.size - Len(c.bytes) BY <1>3 DEF VectorFits, Room, VectorBytes
  <2>3. Len(w) <= c.size - Len(c.bytes)
    <3>1. c.size \in Nat /\ Len(c.bytes) \in Nat BY LenProperties DEF InBlock, Buffers
    <3> HIDE DEF w
    <3> QED BY <1>1, <2>2, <3>1
  <2> HIDE DEF w
  <2>4. DoneOr(c, Added(c, w), w) /\ Extends(c, Added(c, w)) /\ AllOrNone(c, Added(c, w))
    BY <1>1, <2>3, AddedIs DEF DoneOr, AllOrNone
  <2> QED BY <2>1, <2>4 DEF w
<1>4. CASE s # <<>> /\ ~ VectorFits(s, Room(c))
  <2>1. PutBytes(c, s) = Failed(c, FALSE) BY <1>4 DEF PutBytes
  <2>2. FALSE \in BOOLEAN OBVIOUS
  <2> QED BY <2>1, <2>2, FailedIs DEF DoneOr, AllOrNone
<1> QED BY <1>2, <1>3, <1>4

LEMMA TakenBackIs ==
  ASSUME NEW c, InBlock(c), NEW d, Extends(c, d)
  PROVE  /\ Extends(c, TakenBack(d, c)) /\ TakenBack(d, c).bytes = c.bytes
         /\ TakenBack(d, c).whole = d.whole /\ TakenBack(d, c).raised = d.raised
<1> DEFINE t == TakenBack(d, c)
<1>1. t = [d EXCEPT !.bytes = c.bytes] BY DEF TakenBack
<1>2. c \in Buffers /\ d \in Buffers BY DEF Extends, InBlock
<1>3. t \in Buffers /\ t.bytes = c.bytes /\ t.size = d.size /\ t.whole = d.whole
      /\ t.raised = d.raised
  BY <1>1, <1>2 DEF Buffers
<1>4. c.size \in Nat /\ d.size \in Nat /\ Len(c.bytes) \in Nat
  BY <1>2, LenProperties DEF Buffers
<1> HIDE DEF t
<1> QED BY <1>3, <1>4 DEF Extends, InBlock, t

\* A simple element goes in as a whole, or not at all unless an exception leaves its method.
LEMMA PutSimpleIs ==
  ASSUME NEW c, InBlock(c), ~ c.raised, NEW e \in SimpleElements
  PROVE  /\ Extends(c, PutSimple(c, e)) /\ DoneOr(c, PutSimple(c, e), SimpleBytes(e))
         /\ c.whole /\ ~ PutSimple(c, e).whole /\ ~ PutSimple(c, e).raised
              => PutSimple(c, e).bytes = c.bytes
<1> DEFINE m == EncodedInt(MarkOf(e))
<1> DEFINE mark == PutNumber(c, m)
<1> DEFINE w == IF IsNumber(e) THEN NumberOf(e) ELSE VectorBytes(Content(e))
<1> DEFINE put == IF IsNumber(e) THEN PutNumber(mark, NumberOf(e)) ELSE PutBytes(mark, Content(e))
<1> DEFINE end == IF mark.n <= 0 THEN mark ELSE put
<1> DEFINE all == PutSimple(c, e)
<1>1. m \in Numeral BY SimpleIs
<1>2. Extends(c, mark) /\ DoneOr(c, mark, m) /\ AllOrNone(c, mark) BY <1>1, PutNumberIs
<1>3. all = IF end.n > 0 \/ end.raised THEN end ELSE TakenBack(end, c) BY DEF PutSimple
<1>4. w \in Seq(Byte) /\ m \in Seq(Byte) BY SimpleIs, VectorBytesType DEF Numeral
<1>5. SimpleBytes(e) = m \o w BY DEF SimpleBytes
<1>6. ASSUME mark.n > 0 PROVE Extends(mark, put) /\ DoneOr(mark, put, w) /\ AllOrNone(mark, put)
  <2>1. InBlock(mark) /\ ~ mark.raised BY <1>2, <1>6 DEF Extends, AllOrNone
  <2> HIDE DEF mark
  <2>2. CASE IsNumber(e)
    <3>1. put = PutNumber(mark, NumberOf(e)) /\ w = NumberOf(e) BY <2>2
    <3> QED BY <2>1, <2>2, <3>1, SimpleIs, PutNumberIs
  <2>3. CASE ~ IsNumber(e)
    <3>1. put = PutBytes(mark, Content(e)) /\ w = VectorBytes(Content(e)) BY <2>3
    <3> QED BY <2>1, <2>3, <3>1, SimpleIs, PutBytesIs
  <2> QED BY <2>2, <2>3
<1> HIDE DEF m, mark, w, put, all
<1>7. CASE mark.n = 0
  <2>1. end = mark /\ ~ mark.whole BY <1>2, <1>7 DEF AllOrNone
  <2> HIDE DEF end
  <2>2. CASE end.raised
    <3>1. all = mark BY <1>3, <2>1, <2>2
    <3> QED BY <1>2, <2>1, <2>2, <3>1 DEF DoneOr, all
  <2>3. CASE ~ end.raised
    <3>1. all = TakenBack(mark, c) BY <1>3, <1>7, <2>1, <2>3
    <3>2. Extends(c, all) /\ all.bytes = c.bytes /\ all.whole = mark.whole
      BY <1>2, <3>1, TakenBackIs
    <3> QED BY <2>1, <3>2 DEF DoneOr, all
  <2> QED BY <2>2, <2>3
<1>8. CASE mark.n > 0
  <2>0. mark.n \in Nat BY <1>2 DEF Extends, InBlock, Buffers
  <2>1. end = put BY <1>8, <2>0
  <2> HIDE DEF end
  <2>2. InBlock(mark) /\ Extends(c, put) BY <1>2, <1>6, <1>8, ExtendsTwice DEF Extends
  <2>3. c.whole => mark.whole BY <1>2, <1>8 DEF AllOrNone
  <2>4. DoneOr(c, put, m \o w)
    <3> SUFFICES ASSUME put.whole PROVE c.whole /\ ~ put.raised /\ put.bytes = c.bytes \o (m \o w)
      BY DEF DoneOr
    <3>1. mark.whole /\ ~ put.raised /\ put.bytes = mark.bytes \o w BY <1>6, <1>8 DEF DoneOr
    <3>2. c.whole /\ mark.bytes = c.bytes \o m BY <1>2, <3>1 DEF DoneOr
    <3>3. c.bytes \in Seq(Byte) BY DEF InBlock, Buffers
    <3>4. Associates(c.bytes, m, w) BY <1>4, <3>3, Associative
    <3> QED BY <3>1, <3>2, <3>4 DEF Associates
  <2>5. CASE put.n > 0
    <3>1. all = put BY <1>3, <2>1, <2>5
    <3>2. (mark.whole => put.whole) /\ ~ put.raised BY <1>6, <1>8, <2>5 DEF AllOrNone
    <3> QED BY <1>5, <2>2, <2>3, <2>4, <3>1, <3>2 DEF all
  <2>6. CASE put.n = 0
    <3>1. ~ put.whole BY <1>6, <1>8, <2>6 DEF AllOrNone
    <3>2. CASE put.raised
      <4>1. all = put BY <1>3, <2>1, <3>2
      <4> QED BY <1>5, <2>2, <2>4, <3>2, <4>1 DEF all
    <3>3. CASE ~ put.raised
      <4>1. all = TakenBack(put, c) BY <1>3, <2>1, <2>6, <3>3
      <4>2. Extends(c, all) /\ all.bytes = c.bytes /\ all.whole = put.whole
        BY <2>2, <4>1, TakenBackIs
      <4> QED BY <3>1, <4>2 DEF DoneOr, all
    <3> QED BY <3>2, <3>3
  <2> QED BY <1>6, <1>8, <2>5, <2>6 DEF AllOrNone
<1> QED BY <1>2, <1>7, <1>8 DEF AllOrNone

\* A step puts its bytes behind those there are, or the element is not whole.
LEMMA DoIs ==
  ASSUME NEW c, InBlock(c), ~ c.raised, NEW step \in StepSet
  PROVE  /\ Extends(c, Do(c, step)) /\ DoneOr(c, Do(c, step), Wire(step))
         /\ step.do = "raise" => ~ Do(c, step).whole
<1>1. CASE step.do = "number" /\ step.bytes \in Numeral
  <2>1. Do(c, step) = PutNumber(c, step.bytes) /\ Wire(step) = step.bytes BY <1>1 DEF Do, Wire
  <2> QED BY <1>1, <2>1, PutNumberIs
<1>2. CASE step.do = "vector" /\ step.bytes \in Sendable
  <2>1. Do(c, step) = PutBytes(c, step.bytes) /\ Wire(step) = VectorBytes(step.bytes)
    BY <1>2 DEF Do, Wire
  <2> QED BY <1>2, <2>1, PutBytesIs
<1>3. CASE step.do = "simple" /\ step.value \in SimpleElements
  <2>1. Do(c, step) = PutSimple(c, step.value) /\ Wire(step) = SimpleBytes(step.value)
    BY <1>3 DEF Do, Wire
  <2> QED BY <1>3, <2>1, PutSimpleIs
<1>4. CASE step.do = "raise"
  <2>1. Do(c, step) = Failed(c, TRUE) BY <1>4 DEF Do
  <2>2. TRUE \in BOOLEAN OBVIOUS
  <2> QED BY <2>1, <2>2, FailedIs DEF DoneOr
<1> QED BY <1>1, <1>2, <1>3, <1>4, StepCases

(***************************************************************************)
(* A program of steps.                                                     *)
(***************************************************************************)

\* What the step that ends a stage makes of the buffer c.
Stage(c, step) == IF c.raised THEN c ELSE Do(c, step)

\* Whatever every stage keeps holds at the end: I is a set of pairs of the number of a
\* stage and a buffer.
LEMMA RunKeeps ==
  ASSUME NEW b, NEW p, Len(p) \in Nat, NEW I, <<0, b>> \in I,
         \A i \in 1..Len(p) : \A c : <<i - 1, c>> \in I => <<i, Stage(c, p[i])>> \in I
  PROVE  <<Len(p), Run(b, p)>> \in I
<1> DEFINE n == Len(p)
<1> DEFINE Eq(f) == f = [i \in 0..n |-> IF i = 0 THEN b ELSE Stage(f[i - 1], p[i])]
<1> DEFINE S == {x[2] : x \in I}
<1>1. \A i, c : <<i, c>> \in I => c \in S
  <2> TAKE i, c
  <2> HAVE <<i, c>> \in I
  <2>1. <<i, c>>[2] = c OBVIOUS
  <2> QED BY <2>1
<1>2. b \in S BY <1>1
<1> HIDE DEF S
<1> DEFINE H == [x \in Nat \X S |-> IF x[1] \in 1..n /\ <<x[1] - 1, x[2]>> \in I
                                   THEN Stage(x[2], p[x[1]]) ELSE b]
<1>3. H \in [Nat \X S -> S]
  <2>1. ASSUME NEW i \in 1..n, NEW c \in S, <<i - 1, c>> \in I PROVE Stage(c, p[i]) \in S
    BY <1>1, <2>1
  <2> QED BY <1>2, <2>1
<1>4. PICK f \in [Nat -> S] : Recursion(f, b, H)
  <2> HIDE DEF H
  <2> QED BY <1>2, <1>3, RecursiveFunction
<1>5. f[0] = b /\ \A i \in Nat \ {0} : f[i] = H[<<i, f[i - 1]>>]
  <2> HIDE DEF H
  <2> QED BY <1>4 DEF Recursion
<1>6. ASSUME NEW i \in 1..n, <<i - 1, f[i - 1]>> \in I
      PROVE  f[i] = Stage(f[i - 1], p[i]) /\ <<i, f[i]>> \in I
  <2>1. i \in Nat \ {0} /\ i - 1 \in Nat OBVIOUS
  <2>2. f[i - 1] \in S BY <2>1
  <2>3. f[i] = H[<<i, f[i - 1]>>] BY <1>5, <2>1
  <2>4. H[<<i, f[i - 1]>>] = Stage(f[i - 1], p[i]) BY <1>6, <2>1, <2>2
  <2>5. <<i, Stage(f[i - 1], p[i])>> \in I BY <1>6
  <2> HIDE DEF H
  <2> QED BY <2>3, <2>4, <2>5
<1> HIDE DEF H
<1> DEFINE T == {i \in Nat : i <= n => <<i, f[i]>> \in I}
<1>7. 0 \in T BY <1>5
<1>8. ASSUME NEW i \in Nat, i \in T PROVE i + 1 \in T
  <2> SUFFICES ASSUME i + 1 <= n PROVE <<i + 1, f[i + 1]>> \in I OBVIOUS
  <2>1. n \in Nat OBVIOUS
  <2> HIDE DEF n
  <2>2. i + 1 \in 1..n /\ (i + 1) - 1 = i /\ i <= n BY <2>1
  <2>3. <<i, f[i]>> \in I BY <1>8, <2>2
  <2> QED BY <1>6, <2>2, <2>3
<1>9. Nat \subseteq T
  <2> HIDE DEF T
  <2> QED BY <1>7, <1>8, SetInduction
<1>10. ASSUME NEW i \in 1..n PROVE f[i] = Stage(f[i - 1], p[i])
  <2>1. i - 1 \in Nat /\ i - 1 <= n OBVIOUS
  <2>2. <<i - 1, f[i - 1]>> \in I BY <1>9, <2>1
  <2> QED BY <1>6, <2>2
<1> DEFINE h == [i \in 0..n |-> f[i]]
<1>11. Eq(h)
  <2>1. ASSUME NEW i \in 0..n PROVE h[i] = IF i = 0 THEN b ELSE Stage(h[i - 1], p[i])
    <3>1. CASE i = 0 BY <1>5, <3>1
    <3>2. CASE i # 0
      <4>1. i \in 1..n /\ i - 1 \in 0..n BY <3>2
      <4>2. h[i] = f[i] /\ h[i - 1] = f[i - 1] BY <4>1
      <4> HIDE DEF h
      <4> QED BY <1>10, <3>2, <4>1, <4>2
    <3> QED BY <3>1, <3>2
  <2>2. h = [i \in 0..n |-> h[i]] OBVIOUS
  <2> HIDE DEF h
  <2> QED BY <2>1, <2>2
<1> DEFINE G == CHOOSE g : Eq(g)
<1>12. Eq(G)
  <2> HIDE DEF Eq, h
  <2> QED BY <1>11
<1>13. Run(b, p) = G[n] BY Zenon DEF Run, Stage
<1> HIDE DEF G
<1> DEFINE U == {i \in Nat : i <= n => <<i, G[i]>> \in I}
<1>14. 0 \in U
  <2>1. 0 \in 0..n OBVIOUS
  <2>2. G[0] = b BY <1>12, <2>1
  <2> QED BY <2>2
<1>15. ASSUME NEW i \in Nat, i \in U PROVE i + 1 \in U
  <2> SUFFICES ASSUME i + 1 <= n PROVE <<i + 1, G[i + 1]>> \in I OBVIOUS
  <2>1. i + 1 \in 1..n /\ i + 1 \in 0..n /\ (i + 1) - 1 = i /\ i <= n /\ i + 1 # 0 OBVIOUS
  <2>2. <<i, G[i]>> \in I BY <1>15, <2>1
  <2>3. G[i + 1] = Stage(G[i], p[i + 1]) BY <1>12, <2>1
  <2> QED BY <2>1, <2>2, <2>3
<1>16. Nat \subseteq U
  <2> HIDE DEF U
  <2> QED BY <1>14, <1>15, SetInduction
<1>17. n \in U /\ n <= n
  <2> HIDE DEF U
  <2> QED BY <1>16
<1> QED BY <1>13, <1>17

\* What a program puts into the buffer.
Wires(p) == FlattenSeq([i \in DOMAIN p |-> Wire(p[i])])

\* No step of it raises an exception whatever happens.
Regular(p) == \A i \in DOMAIN p : p[i].do # "raise"

LEMMA WiresOf ==
  ASSUME NEW p \in Seq(StepSet)
  PROVE  /\ [i \in DOMAIN p |-> Wire(p[i])] \in Seq(Seq(Byte))
         /\ Len([i \in DOMAIN p |-> Wire(p[i])]) = Len(p)
         /\ Len(p) \in Nat /\ DOMAIN p = 1..Len(p)
         /\ Wires(p) \in Seq(Byte)
<1>1. Len(p) \in Nat /\ DOMAIN p = 1..Len(p) BY LenProperties
<1>2. \A i \in 1..Len(p) : Wire(p[i]) \in Seq(Byte) BY ElementOfSeq, WireType
<1> DEFINE ws == [i \in 1..Len(p) |-> Wire(p[i])]
<1>3. ws \in Seq(Seq(Byte)) BY <1>1, <1>2
<1>4. Len(ws) = Len(p) BY <1>1
<1> HIDE DEF ws
<1>5. FlattenSeq(ws) \in Seq(Byte) BY <1>3, FlattenType
<1> QED BY <1>1, <1>3, <1>4, <1>5 DEF Wires, ws

\* A program whose steps have all been done has put its bytes behind those there were.
LEMMA RunIs ==
  ASSUME NEW b, InBlock(b), ~ b.raised, NEW p \in Seq(StepSet)
  PROVE  /\ Extends(b, Run(b, p))
         /\ Run(b, p).whole => /\ b.whole /\ Run(b, p).bytes = b.bytes \o Wires(p)
                               /\ Regular(p)
<1> DEFINE ws == [i \in DOMAIN p |-> Wire(p[i])]
<1>1. ws \in Seq(Seq(Byte)) /\ Len(ws) = Len(p) /\ Len(p) \in Nat /\ DOMAIN p = 1..Len(p)
  BY WiresOf
<1>2. \A i \in 1..Len(p) : ws[i] = Wire(p[i]) BY <1>1
<1>3. Wires(p) = FlattenSeq(ws) BY DEF Wires
<1> HIDE DEF ws
<1>4. PICK f \in [Nat -> Seq(Byte)] :
        f[0] = <<>> /\ \A k \in 1..Len(ws) : f[k] = f[k - 1] \o ws[k]
  BY <1>1, FlattenFunction
<1>5. Wires(p) = f[Len(p)] BY <1>1, <1>3, <1>4, FlattenIs
<1> DEFINE Along(i, c) ==
      /\ i \in 0..Len(p) /\ Extends(b, c)
      /\ c.whole => /\ b.whole /\ ~ c.raised /\ c.bytes = b.bytes \o f[i]
                    /\ \A j \in 1..i : p[j].do # "raise"
<1> DEFINE I == {x \in Nat \X Buffers : Along(x[1], x[2])}
<1>6. \A i, c : <<i, c>> \in I <=> Along(i, c)
  <2> SUFFICES ASSUME NEW i, NEW c PROVE <<i, c>> \in I <=> Along(i, c) OBVIOUS
  <2>1. Along(i, c) => i \in Nat /\ c \in Buffers BY <1>1 DEF Extends, InBlock
  <2> HIDE DEF Along
  <2> QED BY <2>1
<1> HIDE DEF I
<1>7. b.bytes \in Seq(Byte) /\ b \in Buffers BY DEF InBlock, Buffers
<1>8. Along(0, b)
  <2>1. b.bytes \o <<>> = b.bytes BY <1>7, ConcatEmptySeq
  <2> QED BY <1>1, <1>4, <2>1, ExtendsSelf
<1>9. ASSUME NEW i \in 1..Len(p), NEW c, Along(i - 1, c) PROVE Along(i, Stage(c, p[i]))
  <2> DEFINE d == Stage(c, p[i])
  <2>1. p[i] \in StepSet BY ElementOfSeq
  <2>2. InBlock(c) BY <1>9 DEF Extends
  <2>3. i \in 0..Len(p) /\ i - 1 \in Nat BY <1>1
  <2>4. CASE c.raised
    <3>1. d = c BY <2>4 DEF Stage
    <3> HIDE DEF d
    <3> QED BY <1>9, <2>3, <2>4, <3>1 DEF d
  <2>5. CASE ~ c.raised
    <3>1. d = Do(c, p[i]) BY <2>5 DEF Stage
    <3> HIDE DEF d
    <3>2. Extends(c, d) /\ DoneOr(c, d, ws[i]) /\ (p[i].do = "raise" => ~ d.whole)
      BY <1>2, <2>1, <2>2, <2>5, <3>1, DoIs
    <3>3. Extends(b, d) BY <1>9, <3>2, ExtendsTwice
    <3>4. ASSUME d.whole
          PROVE  /\ b.whole /\ ~ d.raised /\ d.bytes = b.bytes \o f[i]
                 /\ \A j \in 1..i : p[j].do # "raise"
      <4>1. c.whole /\ ~ d.raised /\ d.bytes = c.bytes \o ws[i] BY <3>2, <3>4 DEF DoneOr
      <4>2. b.whole /\ c.bytes = b.bytes \o f[i - 1] /\ \A j \in 1..(i - 1) : p[j].do # "raise"
        BY <1>9, <4>1
      <4>3. f[i] = f[i - 1] \o ws[i] BY <1>1, <1>4
      <4>4. f[i - 1] \in Seq(Byte) BY <1>4, <2>3
      <4>5. ws[i] \in Seq(Byte) BY <1>2, <2>1, WireType
      <4>6. Associates(b.bytes, f[i - 1], ws[i]) BY <1>7, <4>4, <4>5, Associative
      <4>7. \A j \in 1..i : p[j].do # "raise"
        <5> SUFFICES ASSUME NEW j \in 1..i PROVE p[j].do # "raise" OBVIOUS
        <5>1. j \in 1..(i - 1) \/ j = i OBVIOUS
        <5> QED BY <3>2, <3>4, <4>2, <5>1
      <4> QED BY <4>1, <4>2, <4>3, <4>6, <4>7 DEF Associates
    <3> QED BY <2>3, <3>3, <3>4 DEF d
  <2> QED BY <2>4, <2>5
<1>10. <<Len(p), Run(b, p)>> \in I
  <2> HIDE DEF Along
  <2> QED BY <1>1, <1>6, <1>8, <1>9, RunKeeps
<1>11. Along(Len(p), Run(b, p)) BY <1>6, <1>10
<1> QED BY <1>1, <1>5, <1>11 DEF Regular

(***************************************************************************)
(* The programs of elements.                                               *)
(***************************************************************************)

LEMMA NumberStep == ASSUME NEW w \in Numeral PROVE Number(w) \in StepSet
BY DEF StepSet

LEMMA HeaderType ==
  ASSUME NEW marks \in Seq(0..GLME_MAP), NEW S, NEW s \in Short(S)
  PROVE  Header(marks, s) \in Seq(StepSet)
<1> DEFINE h == [i \in DOMAIN marks |-> Number(EncodedInt(marks[i]))]
<1> DEFINE l == Number(EncodedUint(Len(s)))
<1>1. DOMAIN marks = 1..Len(marks) /\ Len(marks) \in Nat BY LenProperties
<1>2. ASSUME NEW i \in 1..Len(marks) PROVE Number(EncodedInt(marks[i])) \in StepSet
  <2>1. marks[i] \in 0..GLME_MAP BY ElementOfSeq
  <2> QED BY <2>1, NumeralMark, NumberStep
<1>3. h \in Seq(StepSet) BY <1>1, <1>2
<1>4. l \in StepSet BY NumeralLength, NumberStep
<1> HIDE DEF h, l
<1>5. <<l>> \in Seq(StepSet) BY <1>4
<1>6. h \o <<l>> \in Seq(StepSet) BY <1>3, <1>5, ConcatProperties
<1> QED BY <1>6 DEF Header, h, l

\* One step, or one program, for each element of a sequence.
LEMMA EachType ==
  ASSUME NEW S, NEW s \in Short(S), NEW T, NEW f, \A x \in S : f[x] \in T
  PROVE  [i \in DOMAIN s |-> f[s[i]]] \in Seq(T)
<1>1. s \in Seq(S) /\ DOMAIN s = 1..Len(s) /\ Len(s) \in Nat BY LenProperties DEF Short
<1>2. \A i \in 1..Len(s) : s[i] \in S BY <1>1, ElementOfSeq
<1> QED BY <1>1, <1>2

LEMMA NumbersType ==
  ASSUME NEW S, NEW s \in Short(S), NEW f, \A v \in S : f[v] \in Numeral
  PROVE  [i \in DOMAIN s |-> Number(f[s[i]])] \in Seq(StepSet)
<1>1. s \in Seq(S) /\ DOMAIN s = 1..Len(s) /\ Len(s) \in Nat BY LenProperties DEF Short
<1>2. \A i \in 1..Len(s) : Number(f[s[i]]) \in StepSet BY <1>1, ElementOfSeq, NumberStep
<1> QED BY <1>1, <1>2

IntSteps(s) == [i \in DOMAIN s |-> Number(EncodedInt(s[i]))]
UintSteps(s) == [i \in DOMAIN s |-> Number(EncodedUint(s[i]))]
DoubleSteps(s) == [i \in DOMAIN s |-> Number(EncodedDouble(s[i]))]

LEMMA ByteUnsigned == Byte \subseteq Unsigned
<1>1. Radix \in Nat /\ Power[MaxBytes] >= Radix BY PowerAll, PowerGrows, RadixType
<1> QED BY <1>1, PowerAll DEF Byte, Unsigned

LEMMA ArrayStepsType ==
  /\ \A s \in Short(Signed) : IntSteps(s) \in Seq(StepSet)
  /\ \A s \in Short(Byte) : UintSteps(s) \in Seq(StepSet)
  /\ \A s \in Short(Unsigned) : DoubleSteps(s) \in Seq(StepSet)
<1>1. ASSUME NEW s \in Short(Signed) PROVE IntSteps(s) \in Seq(StepSet)
  <2> DEFINE f == [v \in Signed |-> EncodedInt(v)]
  <2>1. \A v \in Signed : f[v] \in Numeral BY NumeralInt
  <2>2. s \in Seq(Signed) /\ DOMAIN s = 1..Len(s) BY LenProperties DEF Short
  <2>3. \A i \in DOMAIN s : f[s[i]] = EncodedInt(s[i]) BY <2>2, ElementOfSeq
  <2>4. IntSteps(s) = [i \in DOMAIN s |-> Number(f[s[i]])] BY <2>3 DEF IntSteps
  <2> HIDE DEF f
  <2> QED BY <2>1, <2>4, NumbersType
<1>2. ASSUME NEW s \in Short(Byte) PROVE UintSteps(s) \in Seq(StepSet)
  <2> DEFINE f == [v \in Byte |-> EncodedUint(v)]
  <2>1. \A v \in Byte : f[v] \in Numeral BY NumeralUint, ByteUnsigned
  <2>2. s \in Seq(Byte) /\ DOMAIN s = 1..Len(s) BY LenProperties DEF Short
  <2>3. \A i \in DOMAIN s : f[s[i]] = EncodedUint(s[i]) BY <2>2, ElementOfSeq
  <2>4. UintSteps(s) = [i \in DOMAIN s |-> Number(f[s[i]])] BY <2>3 DEF UintSteps
  <2> HIDE DEF f
  <2> QED BY <2>1, <2>4, NumbersType
<1>3. ASSUME NEW s \in Short(Unsigned) PROVE DoubleSteps(s) \in Seq(StepSet)
  <2> DEFINE f == [v \in Unsigned |-> EncodedDouble(v)]
  <2>1. \A v \in Unsigned : f[v] \in Numeral BY NumeralDouble
  <2>2. s \in Seq(Unsigned) /\ DOMAIN s = 1..Len(s) BY LenProperties DEF Short
  <2>3. \A i \in DOMAIN s : f[s[i]] = EncodedDouble(s[i]) BY <2>2, ElementOfSeq
  <2>4. DoubleSteps(s) = [i \in DOMAIN s |-> Number(f[s[i]])] BY <2>3 DEF DoubleSteps
  <2> HIDE DEF f
  <2> QED BY <2>1, <2>4, NumbersType
<1> QED BY <1>1, <1>2, <1>3

\* The parts of the programs of lists and of dictionaries.
ListParts(s, program) == [i \in DOMAIN s |-> program[s[i]]]
DictParts(e, program) ==
  [i \in DOMAIN Content(e) |->
     <<KeyStep(e, Content(e)[i][1])>> \o program[Content(e)[i][2]]]

LEMMA StepsAre ==
  ASSUME NEW e \in Elements, NEW f
  PROVE  /\ IsSimple(e) => Steps(e, f) = <<Simple(e)>>
         /\ Type(e) = "ints" => Steps(e, f) = Header(<<GLME_ARRAY, GLME_INT>>, Content(e))
                                              \o IntSteps(Content(e))
         /\ Type(e) = "uints" => Steps(e, f) = Header(<<GLME_ARRAY, GLME_UINT>>, Content(e))
                                               \o UintSteps(Content(e))
         /\ Type(e) = "floats" => Steps(e, f) = Header(<<GLME_ARRAY, GLME_FLOAT>>, Content(e))
                                                \o DoubleSteps(Content(e))
         /\ Type(e) = "list" => Steps(e, f) = Header(<<GLME_ARRAY, GLME_ANY>>, Content(e))
                                              \o FlattenSeq(ListParts(Content(e), f))
         /\ Type(e) \in {"strdict", "intdict"} =>
              Steps(e, f) = IF Content(e) = <<>> THEN <<Number(EncodedInt(GLME_MAP)), Raise>>
                            ELSE Header(<<GLME_MAP, KeyType(e), GLME_ANY>>, Content(e))
                                 \o FlattenSeq(DictParts(e, f))
         /\ Type(e) = "none" => Steps(e, f) = <<Raise>>
         /\ IsSimple(e) \/ Type(e) \in {"ints", "uints", "floats", "list", "strdict", "intdict",
                                        "none"}
BY ContentType DEF Steps, IsSimple, IsNumber, IntSteps, UintSteps, DoubleSteps, ListParts, DictParts

LEMMA MarksType ==
  /\ <<GLME_ARRAY, GLME_INT>> \in Seq(0..GLME_MAP)
  /\ <<GLME_ARRAY, GLME_UINT>> \in Seq(0..GLME_MAP)
  /\ <<GLME_ARRAY, GLME_FLOAT>> \in Seq(0..GLME_MAP)
  /\ <<GLME_ARRAY, GLME_ANY>> \in Seq(0..GLME_MAP)
  /\ \A e : <<GLME_MAP, KeyType(e), GLME_ANY>> \in Seq(0..GLME_MAP)
BY DEF GLME_ARRAY, GLME_INT, GLME_UINT, GLME_FLOAT, GLME_ANY, GLME_MAP, GLME_STRING, KeyType

LEMMA KeyStepType ==
  ASSUME NEW e \in Elements, NEW i \in DOMAIN Content(e), Type(e) \in {"strdict", "intdict"}
  PROVE  /\ KeyStep(e, Content(e)[i][1]) \in StepSet /\ KeyStep(e, Content(e)[i][1]).do # "raise"
         /\ Content(e)[i][2] \in Shallower(e)
         /\ Content(e)[i] = <<Content(e)[i][1], Content(e)[i][2]>>
         /\ Type(e) = "strdict" => Content(e)[i][1] \in Sendable
         /\ Type(e) = "intdict" => Content(e)[i][1] \in Signed
<1> DEFINE s == Content(e)
<1>1. CASE Type(e) = "strdict"
  <2>1. s \in Seq(Sendable \X Shallower(e)) BY <1>1, ContentType DEF Short
  <2>2. s[i] \in Sendable \X Shallower(e) BY <2>1, ElementOfSeq, LenProperties
  <2>3. KeyStep(e, s[i][1]) = Vector(s[i][1]) BY <1>1 DEF KeyStep
  <2> QED BY <1>1, <2>2, <2>3 DEF StepSet, Vector
<1>2. CASE Type(e) = "intdict"
  <2>1. s \in Seq(Signed \X Shallower(e)) BY <1>2, ContentType DEF Short
  <2>2. s[i] \in Signed \X Shallower(e) BY <2>1, ElementOfSeq, LenProperties
  <2>3. KeyStep(e, s[i][1]) = Number(EncodedInt(s[i][1])) BY <1>2 DEF KeyStep
  <2>4. Number(EncodedInt(s[i][1])) \in StepSet BY <2>2, NumeralInt, NumberStep
  <2> QED BY <1>2, <2>2, <2>3, <2>4 DEF Number
<1> QED BY <1>1, <1>2

LEMMA DictContent ==
  ASSUME NEW e \in Elements, Type(e) \in {"strdict", "intdict"}
  PROVE  \E S : Content(e) \in Short(S)
BY ContentType

LEMMA PartsType ==
  ASSUME NEW e \in Elements, NEW f, \A x \in Shallower(e) : f[x] \in Seq(StepSet)
  PROVE  /\ Type(e) = "list" => ListParts(Content(e), f) \in Seq(Seq(StepSet))
         /\ Type(e) \in {"strdict", "intdict"} => DictParts(e, f) \in Seq(Seq(StepSet))
<1> DEFINE s == Content(e)
<1>1. ASSUME Type(e) = "list" PROVE ListParts(s, f) \in Seq(Seq(StepSet))
  <2>1. s \in Short(Shallower(e)) BY <1>1, ContentType
  <2> HIDE DEF s
  <2> QED BY <2>1, EachType DEF ListParts
<1>2. ASSUME Type(e) \in {"strdict", "intdict"} PROVE DictParts(e, f) \in Seq(Seq(StepSet))
  <2>1. PICK S : s \in Short(S) BY <1>2, DictContent
  <2>2. DOMAIN s = 1..Len(s) /\ Len(s) \in Nat BY <2>1, LenProperties DEF Short
  <2>3. ASSUME NEW i \in DOMAIN s
        PROVE  <<KeyStep(e, s[i][1])>> \o f[s[i][2]] \in Seq(StepSet)
    <3>1. KeyStep(e, s[i][1]) \in StepSet /\ s[i][2] \in Shallower(e) BY <1>2, KeyStepType
    <3>2. f[s[i][2]] \in Seq(StepSet) BY <3>1
    <3> DEFINE k == KeyStep(e, s[i][1])
    <3>3. <<k>> \in Seq(StepSet) BY <3>1
    <3> HIDE DEF k
    <3> QED BY <3>2, <3>3, ConcatProperties DEF k
  <2> HIDE DEF s
  <2>4. [i \in DOMAIN s |-> <<KeyStep(e, s[i][1])>> \o f[s[i][2]]] \in Seq(Seq(StepSet))
    BY <2>2, <2>3
  <2> QED BY <2>4 DEF DictParts, s
<1> QED BY <1>1, <1>2

LEMMA ConcatType ==
  ASSUME NEW S, NEW s \in Seq(S), NEW t \in Seq(S)
  PROVE  s \o t \in Seq(S)
BY ConcatProperties

LEMMA StepsType ==
  ASSUME NEW e \in Elements, NEW f, \A x \in Shallower(e) : f[x] \in Seq(StepSet)
  PROVE  Steps(e, f) \in Seq(StepSet)
<1> DEFINE s == Content(e)
<1>1. CASE IsSimple(e)
  <2>1. Simple(e) \in StepSet BY <1>1 DEF StepSet, SimpleElements
  <2>2. <<Simple(e)>> \in Seq(StepSet) BY <2>1
  <2>3. Steps(e, f) = <<Simple(e)>> BY <1>1, StepsAre
  <2> QED BY <2>2, <2>3
<1>2. CASE Type(e) = "ints"
  <2>1. s \in Short(Signed) BY <1>2, ContentType
  <2>2. Header(<<GLME_ARRAY, GLME_INT>>, s) \in Seq(StepSet) BY <2>1, HeaderType, MarksType
  <2>3. IntSteps(s) \in Seq(StepSet) BY <2>1, ArrayStepsType
  <2>4. Steps(e, f) = Header(<<GLME_ARRAY, GLME_INT>>, s) \o IntSteps(s) BY <1>2, StepsAre
  <2> QED BY <2>2, <2>3, <2>4, ConcatType
<1>3. CASE Type(e) = "uints"
  <2>1. s \in Short(Byte) BY <1>3, ContentType
  <2>2. Header(<<GLME_ARRAY, GLME_UINT>>, s) \in Seq(StepSet) BY <2>1, HeaderType, MarksType
  <2>3. UintSteps(s) \in Seq(StepSet) BY <2>1, ArrayStepsType
  <2>4. Steps(e, f) = Header(<<GLME_ARRAY, GLME_UINT>>, s) \o UintSteps(s) BY <1>3, StepsAre
  <2> QED BY <2>2, <2>3, <2>4, ConcatType
<1>4. CASE Type(e) = "floats"
  <2>1. s \in Short(Unsigned) BY <1>4, ContentType
  <2>2. Header(<<GLME_ARRAY, GLME_FLOAT>>, s) \in Seq(StepSet) BY <2>1, HeaderType, MarksType
  <2>3. DoubleSteps(s) \in Seq(StepSet) BY <2>1, ArrayStepsType
  <2>4. Steps(e, f) = Header(<<GLME_ARRAY, GLME_FLOAT>>, s) \o DoubleSteps(s) BY <1>4, StepsAre
  <2> QED BY <2>2, <2>3, <2>4, ConcatType
<1>5. CASE Type(e) = "list"
  <2>1. s \in Short(Shallower(e)) BY <1>5, ContentType
  <2>2. Header(<<GLME_ARRAY, GLME_ANY>>, s) \in Seq(StepSet) BY <2>1, HeaderType, MarksType
  <2>3. FlattenSeq(ListParts(s, f)) \in Seq(StepSet) BY <1>5, PartsType, FlattenType
  <2>4. Steps(e, f) = Header(<<GLME_ARRAY, GLME_ANY>>, s) \o FlattenSeq(ListParts(s, f))
    BY <1>5, StepsAre
  <2> QED BY <2>2, <2>3, <2>4, ConcatType
<1>6. CASE Type(e) \in {"strdict", "intdict"} /\ s = <<>>
  <2>1. Number(EncodedInt(GLME_MAP)) \in StepSet
    <3>1. GLME_MAP \in 0..GLME_MAP BY DEF GLME_MAP
    <3> QED BY <3>1, NumeralMark, NumberStep
  <2>2. Raise \in StepSet BY DEF StepSet
  <2>3. <<Number(EncodedInt(GLME_MAP)), Raise>> \in Seq(StepSet) BY <2>1, <2>2
  <2> QED BY <1>6, <2>3, StepsAre
<1>7. CASE Type(e) \in {"strdict", "intdict"} /\ s # <<>>
  <2>1. PICK S : s \in Short(S) BY <1>7, DictContent
  <2>2. Header(<<GLME_MAP, KeyType(e), GLME_ANY>>, s) \in Seq(StepSet)
    BY <2>1, HeaderType, MarksType
  <2>3. FlattenSeq(DictParts(e, f)) \in Seq(StepSet) BY <1>7, PartsType, FlattenType
  <2>4. Steps(e, f) = Header(<<GLME_MAP, KeyType(e), GLME_ANY>>, s) \o FlattenSeq(DictParts(e, f))
    BY <1>7, StepsAre
  <2> QED BY <2>2, <2>3, <2>4, ConcatType
<1>8. CASE Type(e) = "none"
  <2>1. Raise \in StepSet BY DEF StepSet
  <2>2. <<Raise>> \in Seq(StepSet) BY <2>1
  <2>3. Steps(e, f) = <<Raise>> BY <1>8, StepsAre
  <2> QED BY <2>2, <2>3
<1> QED BY <1>1, <1>2, <1>3, <1>4, <1>5, <1>6, <1>7, <1>8, StepsAre

LEMMA StepsLocal ==
  ASSUME NEW e \in Elements, NEW f, NEW g, \A x \in Shallower(e) : f[x] = g[x]
  PROVE  Steps(e, f) = Steps(e, g)
<1> DEFINE s == Content(e)
<1>1. CASE Type(e) = "list"
  <2>1. s \in Seq(Shallower(e)) BY <1>1, ContentType DEF Short
  <2>2. \A i \in DOMAIN s : s[i] \in Shallower(e) BY <2>1, ElementOfSeq, LenProperties
  <2>3. ListParts(s, f) = ListParts(s, g) BY <2>2 DEF ListParts
  <2> QED BY <1>1, <2>3, StepsAre
<1>2. CASE Type(e) \in {"strdict", "intdict"}
  <2>1. \A i \in DOMAIN s : s[i][2] \in Shallower(e) BY <1>2, KeyStepType
  <2>2. DictParts(e, f) = DictParts(e, g) BY <2>1 DEF DictParts
  <2> QED BY <1>2, <2>2, StepsAre
<1> QED BY <1>1, <1>2, StepsAre

\* The recursion finds a program for every element.
LEMMA ProgramIs ==
  /\ \A e \in Elements : Program[e] = Steps(e, Program)
  /\ \A e \in Elements : Program[e] \in Seq(StepSet)
<1> DEFINE S == Seq(StepSet)
<1> DEFINE H == [x \in Elements \X [Elements -> S] |-> Steps(x[1], x[2])]
<1>1. H \in [Elements \X [Elements -> S] -> S]
  <2>1. ASSUME NEW e \in Elements, NEW f \in [Elements -> S] PROVE Steps(e, f) \in S
    <3>1. \A x \in Shallower(e) : f[x] \in S BY DEF Shallower
    <3> QED BY <3>1, StepsType
  <2> HIDE DEF S
  <2> QED BY <2>1
<1>2. ASSUME NEW e \in Elements, NEW f \in [Elements -> S], NEW g \in [Elements -> S],
             LocalTo(e, f, g, Elements, Depth)
      PROVE  H[<<e, f>>] = H[<<e, g>>]
  <2>1. Steps(e, f) = Steps(e, g) BY <1>2, StepsLocal DEF LocalTo, Shallower
  <2> HIDE DEF S
  <2> QED BY <2>1
<1>3. <<>> \in S BY EmptySeq
<1>4. Depth \in [Elements -> Nat] BY ElementsAssumption
<1> HIDE DEF S
<1>5. PICK f : Solves(f, H, Elements, S)
  <2>1. DependsLocally(H, Elements, S, Depth)
    <3> HIDE DEF H
    <3> QED BY <1>2 DEF DependsLocally
  <2> HIDE DEF H
  <2> QED BY <1>1, <1>3, <1>4, <2>1, RecursionOnDepth
<1>6. f = [e \in Elements |-> Steps(e, f)] BY <1>5 DEF Solves
<1> HIDE DEF H
<1> DEFINE Eq(p) == p = [e \in Elements |-> Steps(e, p)]
<1>7. Eq(Program)
  <2>1. Program = CHOOSE p : Eq(p) BY DEF Program
  <2>2. Eq(CHOOSE p : Eq(p))
    <3>1. Eq(f) BY <1>6
    <3> HIDE DEF Eq
    <3> QED BY <3>1
  <2> HIDE DEF Eq
  <2> QED BY <2>1, <2>2
<1>8. \A e \in Elements : Program[e] = Steps(e, Program) BY <1>7
<1> HIDE DEF Eq
<1> DEFINE T == {n \in Nat : \A e \in Elements : Depth[e] < n => Program[e] \in S}
<1>9. 0 \in T BY <1>4
<1>10. ASSUME NEW n \in Nat, n \in T PROVE n + 1 \in T
  <2> SUFFICES ASSUME NEW e \in Elements, Depth[e] < n + 1 PROVE Program[e] \in S OBVIOUS
  <2>1. \A x \in Shallower(e) : Program[x] \in S BY <1>4, <1>10 DEF Shallower
  <2>2. Steps(e, Program) \in S BY <2>1, StepsType DEF S
  <2> QED BY <1>8, <2>2
<1>11. Nat \subseteq T
  <2> HIDE DEF T
  <2> QED BY <1>9, <1>10, SetInduction
<1>12. ASSUME NEW e \in Elements PROVE Program[e] \in S
  <2>1. Depth[e] + 1 \in T BY <1>4, <1>11
  <2>2. Depth[e] < Depth[e] + 1 BY <1>4
  <2> QED BY <2>1, <2>2
<1> QED BY <1>8, <1>12 DEF S

LEMMA RunOne ==
  ASSUME NEW b, ~ b.raised, NEW step
  PROVE  Run(b, <<step>>) = Do(b, step)
<1> DEFINE p == <<step>>
<1> DEFINE I == {<<0, b>>, <<1, Do(b, step)>>}
<1>1. Len(p) = 1 /\ p[1] = step OBVIOUS
<1>2. \A i \in 1..Len(p) : \A c : <<i - 1, c>> \in I => <<i, Stage(c, p[i])>> \in I
  <2> SUFFICES ASSUME NEW c, <<0, c>> \in I PROVE <<1, Stage(c, step)>> \in I
    <3>1. \A i \in 1..Len(p) : i = 1 /\ i - 1 = 0 BY <1>1
    <3> HIDE DEF p, I
    <3> QED BY <1>1, <3>1
  <2>1. c = b OBVIOUS
  <2>2. Stage(c, step) = Do(b, step) BY <2>1, Zenon DEF Stage
  <2> QED BY <2>2
<1>3. <<0, b>> \in I OBVIOUS
<1>4. <<Len(p), Run(b, p)>> \in I
  <2>1. Len(p) \in Nat BY <1>1
  <2> HIDE DEF p, I
  <2> QED BY <1>2, <1>3, <2>1, RunKeeps
<1>5. <<1, Run(b, p)>> \in I BY <1>1, <1>4
<1> QED BY <1>5

(***************************************************************************)
(* The elements in the buffer.                                             *)
(***************************************************************************)

EndOf(i) == IF i = 0 THEN 0 ELSE elements[i].end
WireOf(e) == Wires(Program[e])

\* The bytes w are in the buffer from pos on.
Holds(pos, w) == pos + Len(w) <= count /\ \A j \in 1..Len(w) : buf[pos + j] = w[j]

\* Element i is there, from the end of the one before it.
Occupies(i) ==
  /\ Regular(Program[elements[i].value])
  /\ EndOf(i) = EndOf(i - 1) + Len(WireOf(elements[i].value))
  /\ Holds(EndOf(i - 1), WireOf(elements[i].value))

Written ==
  /\ build \in {"swallows", "propagates"} /\ owner \in {0, 1}
  /\ spoiled \in BOOLEAN /\ strayed \in BOOLEAN
  /\ InBlock(Working)
  /\ elements \in Seq([value : Elements, end : Nat])
  /\ \A i \in 1..Len(elements) : Occupies(i)
  /\ EndOf(Len(elements)) <= count
  /\ ~ spoiled => count = EndOf(Len(elements))

LEMMA WorkingIs ==
  ASSUME Written
  PROVE  /\ Working.bytes = buf /\ Working.size = size /\ ~ Working.raised /\ Working.whole
         /\ buf \in Seq(Byte) /\ count \in Nat /\ size \in Nat /\ count <= size /\ size <= MaxSize
         /\ owner = 0 => size = 0
<1>1. Working.bytes = buf /\ Working.size = size BY DEF Working
<1>2. ~ Working.raised /\ Working.whole BY DEF Working
<1>3. Working \in Buffers BY DEF Written, InBlock
<1>4. buf \in Seq(Byte) /\ size \in Nat BY <1>1, <1>3 DEF Buffers
<1>5. count \in Nat BY <1>4, LenProperties DEF count
<1> QED BY <1>1, <1>2, <1>4, <1>5 DEF Written, InBlock, count

\* What a buffer in its block is like, from its parts.
LEMMA WorkingInBlock ==
  ASSUME NEW bytes \in Seq(Byte), NEW s \in Nat, Len(bytes) <= s, s <= MaxSize, owner = 0 => s = 0
  PROVE  InBlock([bytes |-> bytes, size |-> s, n |-> 1, raised |-> FALSE, whole |-> TRUE])
<1>1. [bytes |-> bytes, size |-> s, n |-> 1, raised |-> FALSE, whole |-> TRUE] \in Buffers
  <2>1. FALSE \in BOOLEAN /\ TRUE \in BOOLEAN /\ 1 \in Nat OBVIOUS
  <2> QED BY <2>1, Zenon DEF Buffers
<1> QED BY <1>1 DEF InBlock

LEMMA WireOfType ==
  ASSUME NEW e \in Elements
  PROVE  Program[e] \in Seq(StepSet) /\ WireOf(e) \in Seq(Byte) /\ Len(WireOf(e)) \in Nat
<1>1. Program[e] \in Seq(StepSet) BY ProgramIs
<1>2. WireOf(e) \in Seq(Byte) BY <1>1, WiresOf DEF WireOf
<1> QED BY <1>1, <1>2, LenProperties

\* What encode makes of the buffer.
LEMMA EncodeIs ==
  ASSUME Written, NEW e \in Values, Encode(e)
  PROVE  /\ e \in Elements /\ ~ spoiled
         /\ buf' = Run(Working, Program[e]).bytes /\ size' = Run(Working, Program[e]).size
         /\ elements' = IF Run(Working, Program[e]).whole
                        THEN Append(elements, [value |-> e, end |-> Len(buf')]) ELSE elements
         /\ spoiled' = (/\ ~ Run(Working, Program[e]).whole /\ buf' # buf
                        /\ IsSimple(e) => Run(Working, Program[e]).raised)
         /\ build' = build /\ owner' = owner /\ current' = current /\ strayed' = strayed
         /\ Extends(Working, Run(Working, Program[e]))
         /\ Run(Working, Program[e]).whole => Regular(Program[e]) /\ buf' = buf \o WireOf(e)
<1>1. e \in Elements BY ElementsAssumption
<1>2. ~ Working.raised /\ InBlock(Working) /\ Working.bytes = buf BY WorkingIs DEF Written
<1>3. Program[e] \in Seq(StepSet) BY <1>1, ProgramIs
<1> DEFINE b == Run(Working, Program[e])
<1>4. Extends(Working, b) /\ (b.whole => Regular(Program[e]) /\ b.bytes = Working.bytes \o Wires(Program[e]))
  BY <1>2, <1>3, RunIs
<1>5. /\ ~ spoiled /\ buf' = b.bytes /\ size' = b.size
      /\ elements' = IF b.whole THEN Append(elements, [value |-> e, end |-> Len(b.bytes)])
                                ELSE elements
      /\ spoiled' = (~ b.whole /\ b.bytes # buf /\ (IsSimple(e) => b.raised))
      /\ build' = build /\ owner' = owner /\ current' = current /\ strayed' = strayed
  BY Zenon DEF Encode
<1> HIDE DEF b
<1>6. buf' = b.bytes BY <1>5
<1>7. elements' = IF b.whole THEN Append(elements, [value |-> e, end |-> Len(buf')]) ELSE elements
  BY <1>5, <1>6
<1>8. spoiled' = (~ b.whole /\ buf' # buf /\ (IsSimple(e) => b.raised)) BY <1>5, <1>6, Zenon
<1>9. b.whole => Regular(Program[e]) /\ buf' = buf \o WireOf(e) BY <1>2, <1>4, <1>6 DEF WireOf
<1> QED BY <1>1, <1>4, <1>5, <1>7, <1>8, <1>9, Zenon DEF b

\* A longer buffer with the same bytes in front.
Longer == /\ buf' \in Seq(Byte) /\ Len(buf') \in Nat /\ count <= Len(buf')
          /\ \A j \in 1..count : buf'[j] = buf[j]

LEMMA HoldsLonger ==
  ASSUME Longer, count \in Nat, NEW pos \in Nat, NEW w, Len(w) \in Nat, Holds(pos, w)
  PROVE  pos + Len(w) <= count' /\ \A j \in 1..Len(w) : buf'[pos + j] = w[j]
<1>1. pos + Len(w) <= count BY DEF Holds
<1>2. pos + Len(w) <= count' BY <1>1 DEF Longer, count
<1>3. ASSUME NEW j \in 1..Len(w) PROVE buf'[pos + j] = w[j]
  <2>1. pos + j \in 1..count BY <1>1
  <2> QED BY <2>1 DEF Longer, Holds
<1> QED BY <1>2, <1>3 DEF Holds, count

LEMMA EndOfType ==
  ASSUME Written
  PROVE  /\ Len(elements) \in Nat
         /\ \A i \in 1..Len(elements) : elements[i].value \in Elements /\ elements[i].end \in Nat
         /\ \A i \in 0..Len(elements) : EndOf(i) \in Nat
<1>1. elements \in Seq([value : Elements, end : Nat]) BY DEF Written
<1>2. Len(elements) \in Nat BY <1>1, LenProperties
<1>3. \A i \in 1..Len(elements) : elements[i] \in [value : Elements, end : Nat]
  BY <1>1, ElementOfSeq
<1> QED BY <1>2, <1>3 DEF EndOf

LEMMA OccupiesLonger ==
  ASSUME Written, Longer, NEW i \in 1..Len(elements), elements'[i] = elements[i],
         i # 1 => elements'[i - 1] = elements[i - 1]
  PROVE  Occupies(i)'
<1>1. EndOf(i)' = EndOf(i) /\ EndOf(i - 1)' = EndOf(i - 1) BY DEF EndOf
<1>2. elements[i].value \in Elements /\ EndOf(i - 1) \in Nat BY EndOfType
<1> DEFINE w == WireOf(elements[i].value)
<1>3. Len(w) \in Nat BY <1>2, WireOfType
<1>4. Occupies(i) BY DEF Written
<1>5. Holds(EndOf(i - 1), w) BY <1>4 DEF Occupies
<1>6. count \in Nat BY WorkingIs
<1>7. /\ EndOf(i - 1) + Len(w) <= count'
      /\ \A j \in 1..Len(w) : buf'[EndOf(i - 1) + j] = w[j]
  <2> HIDE DEF w
  <2> QED BY <1>2, <1>3, <1>5, <1>6, HoldsLonger
<1>8. Holds(EndOf(i - 1), w)' BY <1>1, <1>7 DEF Holds
<1> QED BY <1>1, <1>4, <1>8 DEF Occupies

LEMMA EncodeKeepsWritten ==
  ASSUME Written, NEW e \in Values, Encode(e)
  PROVE  Written'
<1> DEFINE b == Run(Working, Program[e])
<1>1. /\ e \in Elements /\ ~ spoiled /\ buf' = b.bytes /\ size' = b.size
      /\ elements' = IF b.whole THEN Append(elements, [value |-> e, end |-> Len(buf')]) ELSE elements
      /\ build' = build /\ owner' = owner /\ strayed' = strayed
      /\ Extends(Working, b)
      /\ b.whole => Regular(Program[e]) /\ buf' = buf \o WireOf(e)
  BY EncodeIs
<1>2. spoiled' = (~ b.whole /\ buf' # buf /\ (IsSimple(e) => b.raised)) BY EncodeIs, Zenon
<1>3. /\ Working.bytes = buf /\ buf \in Seq(Byte) /\ count \in Nat /\ ~ Working.raised
      /\ Working.whole /\ InBlock(Working)
  BY WorkingIs DEF Written
<1>4. spoiled' \in BOOLEAN BY <1>2
<1> HIDE DEF b
<1>5. Longer /\ b.size \in Nat /\ Len(buf') <= b.size /\ b.size <= MaxSize /\ (owner = 0 => b.size = 0)
  <2>1. b.bytes \in Seq(Byte) /\ b.size \in Nat BY <1>1 DEF Extends, InBlock, Buffers
  <2>2. Len(b.bytes) \in Nat BY <2>1, LenProperties
  <2> QED BY <1>1, <1>3, <2>1, <2>2 DEF Extends, InBlock, Longer, count
<1>6. InBlock(Working)'
  <2>1. InBlock([bytes |-> buf', size |-> b.size, n |-> 1, raised |-> FALSE, whole |-> TRUE])
    BY <1>5, WorkingInBlock DEF Longer
  <2>2. Working' = [bytes |-> buf', size |-> b.size, n |-> 1, raised |-> FALSE, whole |-> TRUE]
    BY <1>1 DEF Working
  <2> QED BY <1>1, <2>1, <2>2 DEF InBlock
<1>7. /\ Len(elements) \in Nat /\ elements \in Seq([value : Elements, end : Nat])
      /\ EndOf(Len(elements)) \in Nat
  BY EndOfType DEF Written
<1>8. build' \in {"swallows", "propagates"} /\ owner' \in {0, 1} /\ strayed' \in BOOLEAN
  BY <1>1 DEF Written
<1>9. CASE b.whole
  <2> DEFINE x == [value |-> e, end |-> Len(buf')]
  <2>0. PICK n \in Nat : n = Len(elements) + 1 BY <1>7
  <2>1. Len(buf') \in Nat BY <1>5 DEF Longer
  <2>2. x \in [value : Elements, end : Nat] BY <1>1, <2>1
  <2>3. x.value = e /\ x.end = Len(buf') OBVIOUS
  <2> HIDE DEF x
  <2>4. elements' = Append(elements, x) BY <1>1, <1>9 DEF x
  <2>5. /\ elements' \in Seq([value : Elements, end : Nat]) /\ Len(elements') = n
        /\ elements'[n] = x /\ \A i \in 1..Len(elements) : elements'[i] = elements[i]
    BY <1>7, <2>0, <2>2, <2>4, AppendProperties
  <2>6. buf' = buf \o WireOf(e) /\ WireOf(e) \in Seq(Byte) /\ Len(WireOf(e)) \in Nat
    BY <1>1, <1>9, WireOfType
  <2>7. /\ Len(buf') = count + Len(WireOf(e))
        /\ \A j \in 1..Len(WireOf(e)) : buf'[count + j] = WireOf(e)[j]
    <3>1. /\ Len(buf \o WireOf(e)) = Len(buf) + Len(WireOf(e))
          /\ \A k \in 1..(Len(buf) + Len(WireOf(e))) :
               (buf \o WireOf(e))[k] = IF k <= Len(buf) THEN buf[k] ELSE WireOf(e)[k - Len(buf)]
      BY <1>3, <2>6, ConcatProperties
    <3>2. ASSUME NEW j \in 1..Len(WireOf(e)) PROVE (buf \o WireOf(e))[count + j] = WireOf(e)[j]
      <4>1. /\ count + j \in 1..(Len(buf) + Len(WireOf(e))) /\ ~ (count + j <= Len(buf))
            /\ (count + j) - Len(buf) = j
        BY <1>3, <2>6 DEF count
      <4> QED BY <3>1, <4>1
    <3> QED BY <2>6, <3>1, <3>2 DEF count
  <2>8. EndOf(Len(elements)) = count BY <1>1 DEF Written
  <2>9. EndOf(n)' = Len(buf') /\ EndOf(n - 1)' = count
    <3>1. n # 0 /\ n - 1 = Len(elements) BY <1>7, <2>0
    <3>2. EndOf(n)' = Len(buf') BY <2>3, <2>5, <3>1 DEF EndOf
    <3>3. EndOf(Len(elements)) = IF Len(elements) = 0 THEN 0 ELSE elements[Len(elements)].end
      BY DEF EndOf
    <3>4. EndOf(n - 1)' = IF Len(elements) = 0 THEN 0 ELSE elements'[Len(elements)].end
      <4>1. EndOf(n - 1)' = IF n - 1 = 0 THEN 0 ELSE elements'[n - 1].end BY <1>1, <2>5 DEF EndOf
      <4> QED BY <3>1, <4>1
    <3> QED BY <1>7, <2>5, <2>8, <3>2, <3>3, <3>4
  <2>10. Occupies(n)'
    <3>1. elements'[n].value = e BY <2>3, <2>5
    <3>2. Regular(Program[e]) BY <1>1, <1>9
    <3>3. EndOf(n)' = EndOf(n - 1)' + Len(WireOf(e)) BY <2>7, <2>9
    <3>4. EndOf(n - 1)' + Len(WireOf(e)) <= Len(buf')
          /\ \A j \in 1..Len(WireOf(e)) : buf'[EndOf(n - 1)' + j] = WireOf(e)[j]
      BY <2>1, <2>7, <2>9
    <3> QED BY <3>1, <3>2, <3>3, <3>4 DEF Occupies, Holds, count
  <2>11. ASSUME NEW i \in 1..Len(elements) PROVE Occupies(i)'
    <3>1. elements'[i] = elements[i] BY <2>5
    <3>2. i # 1 => i - 1 \in 1..Len(elements) BY <1>7
    <3>3. i # 1 => elements'[i - 1] = elements[i - 1] BY <2>5, <3>2
    <3> QED BY <1>5, <3>1, <3>3, OccupiesLonger
  <2>12. \A i \in 1..Len(elements') : Occupies(i)'
    <3>1. \A i \in 1..Len(elements') : i \in 1..Len(elements) \/ i = n BY <1>7, <2>0, <2>5
    <3> QED BY <2>10, <2>11, <3>1
  <2>13. EndOf(Len(elements))' = count'
    <3>1. EndOf(Len(elements))' = IF Len(elements') = 0 THEN 0 ELSE elements'[Len(elements')].end
      BY DEF EndOf
    <3>2. n # 0 BY <1>7, <2>0
    <3> QED BY <2>3, <2>5, <3>1, <3>2 DEF count
  <2>14. count' \in Nat BY <2>1 DEF count
  <2> QED BY <1>4, <1>6, <1>8, <2>0, <2>5, <2>12, <2>13, <2>14 DEF Written
<1>10. CASE ~ b.whole
  <2>1. elements' = elements BY <1>1, <1>10
  <2>2. \A i \in 1..Len(elements) : Occupies(i)' BY <1>5, <2>1, OccupiesLonger
  <2>3. EndOf(Len(elements))' = EndOf(Len(elements)) BY <2>1 DEF EndOf
  <2>4. EndOf(Len(elements)) = count BY <1>1 DEF Written
  <2>5. ASSUME ~ spoiled' PROVE count' = count
    <3>1. buf' = buf \/ (IsSimple(e) /\ ~ b.raised) BY <1>2, <1>10, <2>5, Zenon
    <3>2. CASE buf' = buf BY <3>2 DEF count
    <3>3. CASE IsSimple(e) /\ ~ b.raised
      <4>1. Program[e] = <<Simple(e)>> BY <1>1, <3>3, ProgramIs, StepsAre
      <4>2. b = Do(Working, Simple(e)) BY <1>3, <4>1, RunOne DEF b
      <4>3. b = PutSimple(Working, e) BY <4>2 DEF Do, Simple
      <4>4. e \in SimpleElements BY <1>1, <3>3 DEF SimpleElements
      <4>5. b.bytes = Working.bytes BY <1>3, <1>10, <3>3, <4>3, <4>4, PutSimpleIs
      <4> QED BY <1>1, <1>3, <4>5 DEF count
    <3> QED BY <3>1, <3>2, <3>3
  <2>6. EndOf(Len(elements))' <= count'
    <3>1. count <= count' BY <1>5 DEF Longer, count
    <3> QED BY <2>3, <2>4, <3>1
  <2> QED BY <1>4, <1>6, <1>7, <1>8, <2>1, <2>2, <2>3, <2>4, <2>5, <2>6 DEF Written
<1> QED BY <1>9, <1>10

\* What the methods leave alone that only read or move the read pointer.
OnlyReads == UNCHANGED <<build, buf, size, owner, elements, spoiled>> /\ strayed' \in BOOLEAN

LEMMA ReadingIs ==
  ASSUME Written,
         \/ \E typecode \in {"", "B"} : Decode(typecode)
         \/ \E method \in DOMAIN Expects : DecodeTyped(method)
         \/ \E index \in Starts : Seek(index)
  PROVE  OnlyReads
<1>1. ASSUME NEW r, LeavesAt(r) PROVE OnlyReads
  <2>1. strayed' = ~ r.ok BY <1>1, Zenon DEF LeavesAt
  <2>2. strayed' \in BOOLEAN BY <2>1
  <2> QED BY <1>1, <2>2 DEF OnlyReads, LeavesAt
<1>2. ASSUME UNCHANGED vars PROVE OnlyReads BY <1>2 DEF OnlyReads, vars, Written
<1>3. ASSUME NEW typecode, Decode(typecode) PROVE OnlyReads BY <1>1, <1>3, Zenon DEF Decode
<1>4. ASSUME NEW method, DecodeTyped(method) PROVE OnlyReads
  <2>1. (\E r : LeavesAt(r)) \/ UNCHANGED vars BY <1>4, Zenon DEF DecodeTyped, Mismatch
  <2> QED BY <1>1, <1>2, <2>1
<1>5. ASSUME NEW index, Seek(index) PROVE OnlyReads BY <1>5 DEF Seek, OnlyReads
<1> QED BY <1>3, <1>4, <1>5

LEMMA SameBytesWritten ==
  ASSUME Written, UNCHANGED <<build, buf, owner, elements, spoiled>>, strayed' \in BOOLEAN,
         InBlock(Working)'
  PROVE  Written'
<1>1. \A i : EndOf(i)' = EndOf(i) BY DEF EndOf
<1>2. count' = count BY DEF count
<1>3. \A i : Occupies(i) => Occupies(i)' BY <1>1, <1>2 DEF Occupies, Holds
<1> QED BY <1>1, <1>2, <1>3 DEF Written

LEMMA InitWritten ==
  ASSUME Init
  PROVE  Written
<1>1. size \in Nat /\ size <= MaxSize BY GBufferAssumption DEF Init
<1>2. owner \in {0, 1} /\ (owner = 0 => size = 0) BY <1>1 DEF Init
<1>3. buf \in Seq(Byte) /\ Len(buf) = 0 BY EmptySeq DEF Init
<1>4. InBlock(Working)
  <2>0. Len(buf) <= size BY <1>1, <1>3
  <2>1. InBlock([bytes |-> buf, size |-> size, n |-> 1, raised |-> FALSE, whole |-> TRUE])
    BY <1>1, <1>2, <1>3, <2>0, WorkingInBlock
  <2> QED BY <2>1 DEF Working
<1>5. elements \in Seq([value : Elements, end : Nat]) /\ Len(elements) = 0 BY EmptySeq DEF Init
<1>6. build \in {"swallows", "propagates"} /\ spoiled \in BOOLEAN /\ strayed \in BOOLEAN BY DEF Init
<1> QED BY <1>2, <1>3, <1>4, <1>5, <1>6 DEF Written, EndOf, count

LEMMA NextWritten ==
  ASSUME Written, [Next]_vars
  PROVE  Written'
<1>1. ASSUME NEW e \in Values, Encode(e) PROVE Written' BY <1>1, EncodeKeepsWritten
<1>2. ASSUME OnlyReads PROVE Written'
  <2>1. InBlock(Working)' BY <1>2 DEF OnlyReads, Written, InBlock, Working
  <2> QED BY <1>2, <2>1, SameBytesWritten DEF OnlyReads
<1>3. ASSUME Reset PROVE Written'
  <2>1. buf' = <<>> /\ size' = size /\ owner' = owner /\ build' = build BY <1>3 DEF Reset
  <2>2. size \in Nat /\ size <= MaxSize /\ (owner = 0 => size = 0) BY WorkingIs
  <2>3. buf' \in Seq(Byte) /\ Len(buf') = 0 BY <2>1, EmptySeq
  <2>4. InBlock(Working)'
    <3>1. InBlock([bytes |-> buf', size |-> size, n |-> 1, raised |-> FALSE, whole |-> TRUE])
      <4>1. Len(buf') <= size BY <2>2, <2>3
      <4> QED BY <2>2, <2>3, <4>1, WorkingInBlock
    <3>2. Working' = [bytes |-> buf', size |-> size, n |-> 1, raised |-> FALSE, whole |-> TRUE]
      BY <2>1 DEF Working
    <3> QED BY <2>1, <3>1, <3>2 DEF InBlock
  <2>5. elements' \in Seq([value : Elements, end : Nat]) /\ Len(elements') = 0
    BY <1>3, EmptySeq DEF Reset
  <2>6. spoiled' \in BOOLEAN /\ strayed' \in BOOLEAN BY <1>3 DEF Reset
  <2> QED BY <2>1, <2>3, <2>4, <2>5, <2>6 DEF Written, EndOf, count
<1>4. ASSUME NEW newsize \in Sizes, Resize(newsize) PROVE Written'
  <2>1. /\ newsize >= count /\ owner = 1 /\ newsize <= MaxSize /\ size' = newsize
        /\ UNCHANGED <<build, buf, owner, current, elements, spoiled, strayed>>
    BY <1>4 DEF Resize, CanResize
  <2>2. buf \in Seq(Byte) /\ count \in Nat BY WorkingIs
  <2>3. newsize \in Nat BY GBufferAssumption
  <2>4. InBlock(Working)'
    <3>1. InBlock([bytes |-> buf, size |-> newsize, n |-> 1, raised |-> FALSE, whole |-> TRUE])
      BY <2>1, <2>2, <2>3, WorkingInBlock DEF count
    <3>2. Working' = [bytes |-> buf, size |-> newsize, n |-> 1, raised |-> FALSE, whole |-> TRUE]
      BY <2>1 DEF Working
    <3> QED BY <2>1, <3>1, <3>2 DEF InBlock
  <2>5. strayed' \in BOOLEAN BY <2>1 DEF Written
  <2> QED BY <2>1, <2>4, <2>5, SameBytesWritten
<1>5. ASSUME UNCHANGED vars PROVE Written'
  <2>1. OnlyReads BY <1>5 DEF OnlyReads, vars, Written
  <2> QED BY <1>2, <2>1
<1> QED BY <1>1, <1>2, <1>3, <1>4, <1>5, ReadingIs DEF Next

\* The elements listed in the history are in the buffer, one behind the other, each as the
\* bytes that its method writes (glme.pyx, encodeElement and the methods it calls).
THEOREM AlwaysWritten == Spec => []Written
<1>1. Init => Written BY InitWritten
<1>2. Written /\ [Next]_vars => Written' BY NextWritten
<1> QED BY <1>1, <1>2, PTL DEF Spec

\* However deep the values are nested and whatever fails, an element that could not be
\* encoded has left nothing behind unless it has lost a part (glme.pyx, encodeInt ...
\* encodeString, which put count back).
THEOREM LeavesNothingInBetween == Spec => []NothingInBetween
<1>1. Written => NothingInBetween
  <2> SUFFICES ASSUME Written, ~ spoiled
               PROVE  count = IF elements = <<>> THEN 0 ELSE Last(elements).end
    BY DEF NothingInBetween
  <2>1. count = EndOf(Len(elements)) BY DEF Written
  <2>2. elements \in Seq([value : Elements, end : Nat]) BY DEF Written
  <2>3. Len(elements) \in Nat /\ (Len(elements) = 0 <=> elements = <<>>)
    BY <2>2, LenProperties, EmptySeq
  <2> QED BY <2>1, <2>3 DEF EndOf, Last
<1> QED BY <1>1, AlwaysWritten, PTL

(***************************************************************************)
(* Numbers go in.                                                          *)
(***************************************************************************)

\* Nothing has failed, if there is memory for more than the size reached.
Thriving(c) == c.size + Grow <= MaxSize => c.whole /\ ~ c.raised

LEMMA NumberGoesIn ==
  ASSUME NEW c, InBlock(c), ~ c.raised, Thriving(c), owner = 1, NEW w \in Numeral
  PROVE  /\ Thriving(PutNumber(c, w))
         /\ PutNumber(c, w).size + Grow <= MaxSize => PutNumber(c, w).n > 0
<1> DEFINE d == PutNumber(c, w)
<1>1. c.size \in Nat /\ Len(c.bytes) \in Nat /\ Len(c.bytes) <= c.size
      /\ Grow \in Nat /\ Grow > MaxBytes /\ MaxSize \in Nat /\ MaxBytes \in Nat
  BY LenProperties, GBufferAssumption, PowerAll DEF InBlock, Buffers
<1>2. w \in Seq(Byte) /\ Len(w) \in Nat /\ Len(w) > 0 /\ Len(w) <= MaxBytes + 1
  BY LenProperties, EmptySeq DEF Numeral
<1> SUFFICES ASSUME d.size + Grow <= MaxSize PROVE d.whole /\ ~ d.raised /\ d.n > 0
  BY DEF Thriving
<1>3. Extends(c, d) BY PutNumberIs
<1>4. d.size \in Nat /\ c.size <= d.size BY <1>3 DEF Extends, InBlock, Buffers
<1>5. c.size + Grow <= MaxSize BY <1>1, <1>4
<1>6. c.whole BY <1>5 DEF Thriving
<1>7. CASE NumberFits(w, Room(c))
  <2>1. d = Added(c, w) BY <1>7 DEF PutNumber
  <2>2. Len(w) <= c.size - Len(c.bytes) BY <1>7 DEF NumberFits, Room
  <2> HIDE DEF d
  <2> QED BY <1>2, <1>6, <2>1, <2>2, AddedIs
<1>8. CASE ~ NumberFits(w, Room(c))
  <2> DEFINE g == [c EXCEPT !.size = @ + Grow]
  <2>1. CanResize(c.size + Grow) BY <1>5 DEF CanResize
  <2>2. Extends(c, g) /\ InBlock(g) BY <2>1, GrownIs DEF Extends
  <2>3. g.bytes = c.bytes /\ g.size = c.size + Grow /\ g.raised = c.raised /\ g.whole = c.whole
    BY DEF InBlock, Buffers
  <2>4. d = PutAtOnce(g, w) BY <1>8, <2>1 DEF PutNumber
  <2> HIDE DEF g, d
  <2>5. Len(w) <= g.size - Len(g.bytes) BY <1>1, <1>2, <2>3
  <2>6. d = Added(g, w) BY <2>4, <2>5 DEF PutAtOnce, NumberFits, Room
  <2> QED BY <1>2, <1>6, <2>2, <2>3, <2>5, <2>6, AddedIs
<1> QED BY <1>7, <1>8

LEMMA SimpleGoesIn ==
  ASSUME NEW c, InBlock(c), ~ c.raised, Thriving(c), owner = 1,
         NEW e \in SimpleElements, IsNumber(e)
  PROVE  Thriving(PutSimple(c, e))
<1> DEFINE all == PutSimple(c, e)
<1> DEFINE mark == PutNumber(c, EncodedInt(MarkOf(e)))
<1> DEFINE put == PutNumber(mark, NumberOf(e))
<1> DEFINE end == IF mark.n <= 0 THEN mark ELSE put
<1>1. EncodedInt(MarkOf(e)) \in Numeral /\ NumberOf(e) \in Numeral BY SimpleIs
<1>2. Extends(c, mark) /\ Thriving(mark) /\ (mark.size + Grow <= MaxSize => mark.n > 0)
  BY <1>1, PutNumberIs, NumberGoesIn
<1>3. all = IF end.n > 0 \/ end.raised THEN end ELSE TakenBack(end, c) BY DEF PutSimple
<1>4. mark.n \in Nat /\ mark.size \in Nat /\ Grow \in Nat /\ MaxSize \in Nat
  BY <1>2, GBufferAssumption DEF Extends, InBlock, Buffers
<1>5. ASSUME ~ mark.raised
      PROVE  /\ Extends(mark, put) /\ Thriving(put)
             /\ put.size + Grow <= MaxSize => put.n > 0
  BY <1>1, <1>2, <1>5, PutNumberIs, NumberGoesIn DEF Extends
<1> HIDE DEF all, mark, put
<1>6. CASE mark.size + Grow <= MaxSize
  <2>1. mark.n > 0 /\ ~ mark.raised BY <1>2, <1>6 DEF Thriving
  <2>2. end = put BY <1>4, <2>1
  <2>3. put.size \in Nat /\ Thriving(put) /\ (put.size + Grow <= MaxSize => put.n > 0)
    BY <1>5, <2>1 DEF Extends, InBlock, Buffers
  <2>4. CASE put.n > 0 \/ put.raised
    <3>1. all = put BY <1>3, <2>2, <2>4
    <3> QED BY <2>3, <3>1 DEF all
  <2>5. CASE ~ (put.n > 0 \/ put.raised)
    <3>1. all = TakenBack(put, c) BY <1>3, <2>2, <2>5
    <3>2. all.size = put.size
      <4>1. put \in Buffers BY <1>5, <2>1 DEF Extends, InBlock
      <4> QED BY <3>1, <4>1 DEF TakenBack, Buffers
    <3> QED BY <2>3, <2>5, <3>2 DEF Thriving, all
  <2> QED BY <2>4, <2>5
<1>7. CASE ~ (mark.size + Grow <= MaxSize)
  <2>1. mark.n > 0 => ~ mark.raised BY <1>1, <1>4, PutNumberIs DEF AllOrNone, mark
  <2>2. end \in Buffers /\ mark.size <= end.size
    <3>1. CASE mark.n <= 0
      <4>1. end = mark BY <3>1
      <4> HIDE DEF end
      <4> QED BY <1>2, <1>4, <4>1 DEF Extends, InBlock
    <3>2. CASE ~ (mark.n <= 0)
      <4>1. end = put BY <3>2
      <4>2. Extends(mark, put) BY <1>4, <1>5, <2>1, <3>2
      <4> HIDE DEF end
      <4> QED BY <4>1, <4>2 DEF Extends, InBlock
    <3> QED BY <3>1, <3>2
  <2> HIDE DEF end
  <2>3. all.size = end.size BY <1>3, <2>2 DEF TakenBack, Buffers
  <2>4. end.size \in Nat BY <2>2 DEF Buffers
  <2>5. ~ (all.size + Grow <= MaxSize) BY <1>4, <1>7, <2>2, <2>3, <2>4
  <2> QED BY <2>5 DEF Thriving, all
<1> QED BY <1>6, <1>7

LEMMA ProgramGoesIn ==
  ASSUME NEW b, InBlock(b), ~ b.raised, b.whole, owner = 1, NEW p \in Seq(StepSet),
         \A i \in DOMAIN p : p[i].do = "number" \/ (p[i].do = "simple" /\ IsNumber(p[i].value))
  PROVE  Thriving(Run(b, p))
<1> DEFINE I == {x \in Nat \X Buffers : InBlock(x[2]) /\ Thriving(x[2])}
<1>1. \A i \in Nat : \A c : <<i, c>> \in I <=> InBlock(c) /\ Thriving(c) BY DEF InBlock
<1> HIDE DEF I
<1>2. DOMAIN p = 1..Len(p) /\ Len(p) \in Nat BY LenProperties
<1>3. ASSUME NEW i \in 1..Len(p), NEW c, InBlock(c), Thriving(c)
      PROVE  InBlock(Stage(c, p[i])) /\ Thriving(Stage(c, p[i]))
  <2>1. CASE c.raised
    <3>1. Stage(c, p[i]) = c BY <2>1 DEF Stage
    <3> QED BY <1>3, <3>1
  <2>2. CASE ~ c.raised
    <3>1. Stage(c, p[i]) = Do(c, p[i]) BY <2>2 DEF Stage
    <3>2. p[i] \in StepSet BY ElementOfSeq
    <3>3. InBlock(Do(c, p[i])) BY <1>3, <2>2, <3>2, DoIs DEF Extends
    <3>4. CASE p[i].do = "number" /\ p[i].bytes \in Numeral
      <4>1. Do(c, p[i]) = PutNumber(c, p[i].bytes) BY <3>4 DEF Do
      <4> QED BY <1>3, <2>2, <3>1, <3>3, <3>4, <4>1, NumberGoesIn
    <3>5. CASE p[i].do = "simple" /\ p[i].value \in SimpleElements
      <4>1. Do(c, p[i]) = PutSimple(c, p[i].value) BY <3>5 DEF Do
      <4>2. IsNumber(p[i].value) BY <1>2, <3>5
      <4> QED BY <1>3, <2>2, <3>1, <3>3, <3>5, <4>1, <4>2, SimpleGoesIn
    <3> QED BY <1>2, <3>2, <3>4, <3>5, StepCases
  <2> QED BY <2>1, <2>2
<1>4. <<0, b>> \in I BY <1>1 DEF Thriving
<1>5. \A i \in 1..Len(p) : \A c : <<i - 1, c>> \in I => <<i, Stage(c, p[i])>> \in I
  <2> SUFFICES ASSUME NEW i \in 1..Len(p), NEW c, <<i - 1, c>> \in I
               PROVE  <<i, Stage(c, p[i])>> \in I
    OBVIOUS
  <2>1. i \in Nat /\ i - 1 \in Nat BY <1>2
  <2>2. InBlock(c) /\ Thriving(c) BY <1>1, <2>1
  <2> QED BY <1>1, <1>3, <2>1, <2>2
<1>6. <<Len(p), Run(b, p)>> \in I BY <1>2, <1>4, <1>5, RunKeeps
<1> QED BY <1>1, <1>2, <1>6

\* For all values: one that contains no byte string goes in as a whole as long as there is
\* memory, since the second attempt after resize never fails (glme.pyx, __encode_uint_val,
\* __encode_int_val, __encode_float_val).
THEOREM NumbersAlwaysGoIn == Spec => NumbersGoIn
<1>1. ASSUME Written, NEW e \in Values, Encode(e), Numeric(e), owner = 1, size' + Grow <= MaxSize
      PROVE  elements' = Append(elements, [value |-> e, end |-> Len(buf')])
  <2> DEFINE b == Run(Working, Program[e])
  <2>1. /\ e \in Elements /\ size' = b.size
        /\ elements' = IF b.whole THEN Append(elements, [value |-> e, end |-> Len(buf')])
                       ELSE elements
    BY <1>1, EncodeIs
  <2>2. Program[e] \in Seq(StepSet) BY <2>1, ProgramIs
  <2>3. ~ Working.raised /\ Working.whole /\ InBlock(Working) BY <1>1, WorkingIs DEF Written
  <2>4. \A i \in DOMAIN Program[e] :
          \/ Program[e][i].do = "number"
          \/ Program[e][i].do = "simple" /\ IsNumber(Program[e][i].value)
    BY <1>1 DEF Numeric
  <2>5. Thriving(b) BY <1>1, <2>2, <2>3, <2>4, ProgramGoesIn
  <2>6. b.whole BY <1>1, <2>1, <2>5 DEF Thriving
  <2> QED BY <2>1, <2>6
<1>2. Written => (\A e \in Values :
                    Encode(e) /\ Numeric(e) /\ owner = 1 /\ size' + Grow <= MaxSize
                      => elements' = Append(elements, [value |-> e, end |-> Len(buf')]))
  BY <1>1
<1> QED BY <1>2, AlwaysWritten, PTL DEF NumbersGoIn, Spec

(***************************************************************************)
(* The codec on an empty buffer.                                           *)
(***************************************************************************)

LEMMA ShortestIs ==
  ASSUME NEW u \in Unsigned
  PROVE  Len(EncodedUint(u)) = ShortestLength(u)
<1>1. u \in Nat /\ u < Power[MaxBytes] BY NumeralUint
<1>2. CASE u < Small
  <2>1. EncodedUint(u) = <<u>> BY <1>2 DEF EncodedUint
  <2> QED BY <1>2, <2>1 DEF ShortestLength
<1>3. CASE ~ (u < Small)
  <2> DEFINE n == NumBytes(u)
  <2>1. n \in 1..MaxBytes /\ u < Power[n] /\ (n = 1 \/ u >= Power[n - 1]) BY <1>1, NumBytesProperties
  <2>2. Len(EncodedUint(u)) = n + 1 BY <1>1, <1>3, EncodedUintType, GobAssumption
  <2> HIDE DEF n
  <2>3. n \in Nat \ {0} /\ MaxBytes \in Nat BY <2>1, GobAssumption
  <2>4. u >= Power[n - 1]
    <3>1. CASE n = 1
      <4>1. Power[n - 1] = 1 BY <3>1, PowerType
      <4>2. u >= 1 BY <1>1, <1>3, GobAssumption
      <4> QED BY <4>1, <4>2
    <3> QED BY <2>1, <3>1
  <2>5. ASSUME NEW k \in 0..(MaxBytes - 1) PROVE u >= Power[k] <=> k \in 0..(n - 1)
    <3>1. k \in Nat /\ Power[k] \in Nat /\ Power[n] \in Nat /\ Power[n - 1] \in Nat
      BY <2>3, PowerType
    <3>2. CASE k <= n - 1
      <4>1. n - 1 \in Nat BY <2>3
      <4>2. Power[k] <= Power[n - 1] BY <3>1, <3>2, <4>1, PowerMonotone
      <4> QED BY <1>1, <2>4, <3>1, <3>2, <4>2
    <3>3. CASE ~ (k <= n - 1)
      <4>1. n <= k BY <2>3, <3>1, <3>3
      <4>2. Power[n] <= Power[k] BY <2>3, <3>1, <4>1, PowerMonotone
      <4> QED BY <1>1, <2>1, <3>1, <3>3, <4>2
    <3> QED BY <3>2, <3>3
  <2>6. 0..(n - 1) \subseteq 0..(MaxBytes - 1) BY <2>1, <2>3
  <2>7. {k \in 0..(MaxBytes - 1) : u >= Power[k]} = 0..(n - 1) BY <2>5, <2>6
  <2>8. Cardinality(0..(n - 1)) = n
    <3>1. Cardinality(0..(n - 1)) = IF 0 > n - 1 THEN 0 ELSE (n - 1) - 0 + 1 BY <2>3, FS_Interval
    <3> QED BY <2>3, <3>1
  <2>9. ShortestLength(u) = 1 + n BY <1>3, <2>7, <2>8 DEF ShortestLength
  <2> QED BY <2>2, <2>3, <2>9
<1> QED BY <1>2, <1>3

\* No number is there before its last byte is.
LEMMA FrontIncomplete ==
  ASSUME NEW u \in Unsigned
  PROVE  Complete(EncodedUint(u)) /\ ~ Complete(Front(EncodedUint(u)))
<1> DEFINE w == EncodedUint(u)
<1>1. u \in Nat /\ u < Power[MaxBytes] BY NumeralUint
<1>2. w \in Seq(Byte) /\ w # <<>> /\ Len(w) = Consumed(w) /\ Len(w) \in Nat /\ Len(w) > 0
  BY <1>1, EncodedUintType DEF Byte
<1> HIDE DEF w
<1>3. Front(w) \in Seq(Byte) /\ Len(Front(w)) = Len(w) - 1
      /\ \A i \in 1..(Len(w) - 1) : Front(w)[i] = w[i]
  BY <1>2, FrontLast
<1>4. ASSUME Complete(Front(w)) PROVE FALSE
  <2>1. Front(w) # <<>> /\ Consumed(Front(w)) <= Len(w) - 1 BY <1>3, <1>4 DEF Complete
  <2>2. Len(Front(w)) > 0 BY <1>2, <1>3, <2>1, EmptySeq
  <2>3. Front(w)[1] = w[1] BY <1>2, <1>3, <2>2
  <2>4. Consumed(Front(w)) = Len(w) BY <1>2, <2>3 DEF Consumed
  <2> QED BY <1>2, <2>1, <2>4
<1>5. Complete(w) BY <1>2 DEF Complete
<1> QED BY <1>4, <1>5 DEF w

\* The buffer grows for a number, as far as it can, if the number does not fit.
LEMMA GrowsIfNeeded ==
  ASSUME Written, buf = <<>>, NEW w \in Numeral
  PROVE  (PutNumber(Working, w).size = size) <=> (Len(w) <= size \/ ~ CanResize(size + Grow))
<1>1. Working.bytes = <<>> /\ Working.size = size /\ size \in Nat BY WorkingIs
<1>2. Room(Working) = size BY <1>1 DEF Room
<1>3. Len(w) \in Nat BY LenProperties DEF Numeral
<1>4. Grow \in Nat /\ Grow > 0 BY GBufferAssumption, PowerAll
<1>5. Working \in Buffers BY DEF Written, InBlock
<1>6. CASE Len(w) <= size
  <2>1. PutNumber(Working, w) = Added(Working, w) BY <1>2, <1>6 DEF PutNumber, NumberFits
  <2>2. Added(Working, w).size = size BY <1>1, <1>5 DEF Added, Buffers
  <2> QED BY <1>6, <2>1, <2>2
<1>7. CASE ~ (Len(w) <= size) /\ CanResize(size + Grow)
  <2> DEFINE g == [Working EXCEPT !.size = @ + Grow]
  <2>1. PutNumber(Working, w) = PutAtOnce(g, w) BY <1>1, <1>2, <1>7 DEF PutNumber, NumberFits
  <2>2. g \in Buffers /\ g.size = size + Grow BY <1>1, <1>4, <1>5 DEF Buffers
  <2> HIDE DEF g
  <2>3. PutAtOnce(g, w).size = g.size BY <2>2 DEF PutAtOnce, Added, Failed, Buffers
  <2>4. size + Grow # size BY <1>1, <1>4
  <2> QED BY <1>7, <2>1, <2>2, <2>3, <2>4
<1>8. CASE ~ (Len(w) <= size) /\ ~ CanResize(size + Grow)
  <2>1. PutNumber(Working, w) = FailedInCdef(Working) BY <1>1, <1>2, <1>8 DEF PutNumber, NumberFits
  <2>2. FailedInCdef(Working).size = size BY <1>1, <1>5 DEF FailedInCdef, Failed, Buffers
  <2> QED BY <1>8, <2>1, <2>2
<1> QED BY <1>6, <1>7, <1>8

\* For every radix and every longest number: whatever number an empty buffer is given is
\* as short as can be, is read back from its own bytes and from no fewer, and makes the
\* buffer grow exactly when it is longer than the buffer (gobber.c).
THEOREM CodecAlways == Spec => []Codec
<1>1. ASSUME Written, buf = <<>>, NEW u \in Unsigned
      PROVE  LET bytes == EncodedUint(u)
                 signed == IF u % 2 = 1 THEN -(u \div 2) - 1 ELSE u \div 2
             IN /\ DecodedUint(bytes \o <<0>>) = u /\ Len(bytes) = ShortestLength(u)
                /\ Complete(bytes) /\ ~ Complete(Front(bytes))
                /\ (PutNumber(Working, bytes).size = size)
                     = (Len(bytes) <= size \/ ~ CanResize(size + Grow))
                /\ DecodedDouble(EncodedDouble(u)) = u
                /\ DecodedInt(EncodedInt(signed)) = signed
  <2> DEFINE half == u \div 2
  <2> DEFINE signed == IF u % 2 = 1 THEN -half - 1 ELSE half
  <2>1. u \in Nat /\ u < Power[MaxBytes] /\ EncodedUint(u) \in Numeral BY NumeralUint
  <2>2. <<0>> \in Seq(0..(Radix - 1)) /\ <<>> \in Seq(0..(Radix - 1))
    <3>1. 0 \in 0..(Radix - 1) BY RadixType
    <3> QED BY <3>1, EmptySeq
  <2>3. DecodedUint(EncodedUint(u) \o <<0>>) = u BY <2>1, <2>2, DecodedEncoded
  <2>4. Len(EncodedUint(u)) = ShortestLength(u) BY ShortestIs
  <2>5. Complete(EncodedUint(u)) /\ ~ Complete(Front(EncodedUint(u))) BY FrontIncomplete
  <2>6. (PutNumber(Working, EncodedUint(u)).size = size)
          <=> (Len(EncodedUint(u)) <= size \/ ~ CanResize(size + Grow))
    BY <1>1, <2>1, GrowsIfNeeded
  <2>7. DecodedDouble(EncodedDouble(u)) = u
    <3>1. EncodedDouble(u) \in Seq(Byte) BY NumeralDouble DEF Numeral
    <3>2. EncodedDouble(u) \o <<>> = EncodedDouble(u) BY <3>1, ConcatEmptySeq
    <3>3. DecodedDouble(EncodedDouble(u) \o <<>>) = u BY <2>1, <2>2, DecodedEncodedDouble
    <3> QED BY <3>2, <3>3
  <2>8. half \in Nat /\ u = 2 * half + (u % 2) /\ u % 2 \in {0, 1}
    <3>1. u % 2 \in Nat /\ u % 2 < 2 /\ half \in Nat /\ u = 2 * half + (u % 2) BY <2>1, DivMod
    <3> QED BY <3>1
  <2>9. ASSUME NEW v \in Signed PROVE DecodedInt(EncodedInt(v)) = v
    <3>1. v \in Int /\ EncodedInt(v) \in Seq(Byte) BY NumeralInt DEF Numeral
    <3>2. EncodedInt(v) \o <<>> = EncodedInt(v) BY <3>1, ConcatEmptySeq
    <3>3. DecodedInt(EncodedInt(v) \o <<>>) = v BY <2>2, <3>1, DecodedEncodedInt DEF Signed
    <3> QED BY <3>2, <3>3
  <2>10. Power[MaxBytes] \in Nat BY PowerAll
  <2>11. signed \in Signed
    <3> HIDE DEF half
    <3> QED BY <2>1, <2>8, <2>10 DEF Signed
  <2> HIDE DEF signed
  <2>12. DecodedInt(EncodedInt(signed)) = signed BY <2>9, <2>11
  <2> QED BY <2>3, <2>4, <2>5, <2>6, <2>7, <2>12, Zenon DEF half, signed
<1>2. Written => Codec BY <1>1 DEF Codec, Unsigned
<1> QED BY <1>2, AlwaysWritten, PTL

(***************************************************************************)
(* Reading: numbers and bytes at a position.                               *)
(***************************************************************************)

\* All there is to say about the state while an element is read.
Readable == buf \in Seq(Byte) /\ count \in Nat /\ count = Len(buf)

LEMMA HoldsConcat ==
  ASSUME NEW pos \in Nat, NEW w \in Seq(Byte), NEW t \in Seq(Byte), Readable, Holds(pos, w \o t)
  PROVE  /\ Holds(pos, w) /\ Holds(pos + Len(w), t)
         /\ Len(w) \in Nat /\ Len(t) \in Nat /\ Len(w \o t) = Len(w) + Len(t)
         /\ pos + Len(w) \in Nat
<1>1. Len(w) \in Nat /\ Len(t) \in Nat BY LenProperties
<1>2. /\ Len(w \o t) = Len(w) + Len(t)
      /\ \A i \in 1..(Len(w) + Len(t)) : (w \o t)[i] = IF i <= Len(w) THEN w[i] ELSE t[i - Len(w)]
  BY ConcatProperties
<1> DEFINE u == w \o t
<1> HIDE DEF u
<1>3. pos + Len(u) <= count /\ \A j \in 1..Len(u) : buf[pos + j] = u[j] BY DEF Holds, u
<1>4. /\ Len(u) = Len(w) + Len(t)
      /\ \A i \in 1..(Len(w) + Len(t)) : u[i] = IF i <= Len(w) THEN w[i] ELSE t[i - Len(w)]
  BY <1>2 DEF u
<1>5. pos + Len(w) <= count /\ (pos + Len(w)) + Len(t) <= count
  BY <1>1, <1>3, <1>4 DEF Readable
<1>6. ASSUME NEW j \in 1..Len(w) PROVE buf[pos + j] = w[j]
  <2>1. j \in 1..(Len(w) + Len(t)) /\ j <= Len(w) BY <1>1
  <2> QED BY <1>3, <1>4, <2>1
<1>7. ASSUME NEW j \in 1..Len(t) PROVE buf[(pos + Len(w)) + j] = t[j]
  <2> DEFINE k == Len(w) + j
  <2>1. k \in 1..(Len(w) + Len(t)) /\ ~ (k <= Len(w)) /\ k - Len(w) = j
        /\ pos + k = (pos + Len(w)) + j
    BY <1>1
  <2> HIDE DEF k
  <2>2. buf[pos + k] = u[k] BY <1>3, <1>4, <2>1
  <2>3. u[k] = t[j] BY <1>4, <2>1
  <2> QED BY <2>1, <2>2, <2>3
<1>8. Holds(pos, w)
  <2>1. \A j \in 1..Len(w) : buf[pos + j] = w[j] BY <1>6
  <2> QED BY <1>5, <2>1 DEF Holds
<1>9. Holds(pos + Len(w), t)
  <2>1. \A j \in 1..Len(t) : buf[(pos + Len(w)) + j] = t[j] BY <1>7
  <2> QED BY <1>5, <2>1 DEF Holds
<1>10. pos + Len(w) \in Nat BY <1>1
<1> QED BY <1>1, <1>2, <1>8, <1>9, <1>10

\* The bytes from pos on begin with those that are known to be there.
LEMMA FromIs ==
  ASSUME NEW pos \in Nat, NEW w \in Seq(Byte), Readable, Holds(pos, w)
  PROVE  \E rest \in Seq(Byte) : From(pos) = w \o rest
<1> DEFINE f == From(pos)
<1>1. Len(w) \in Nat /\ pos + Len(w) <= count /\ \A j \in 1..Len(w) : buf[pos + j] = w[j]
  BY LenProperties DEF Holds
<1>2. \A i \in (pos + 1)..count : buf[i] \in Byte
  <2>1. \A i \in (pos + 1)..count : i \in 1..Len(buf) BY DEF Readable
  <2> QED BY <2>1, ElementOfSeq DEF Readable
<1>3. /\ f \in Seq(Byte) /\ Len(f) = count - pos
      /\ \A j \in 1..(count - pos) : f[j] = buf[pos + j]
  <2>0. pos + 1 \in Int /\ count \in Int BY DEF Readable
  <2>1. /\ f \in Seq(Byte)
        /\ Len(f) = IF pos + 1 <= count THEN count - (pos + 1) + 1 ELSE 0
        /\ \A j \in 1..(count - (pos + 1) + 1) : f[j] = buf[(pos + 1) + j - 1]
    BY <1>2, <2>0, SubSeqProperties DEF From
  <2> HIDE DEF f
  <2>2. Len(f) = count - pos BY <1>1, <2>1 DEF Readable
  <2>3. ASSUME NEW j \in 1..(count - pos) PROVE f[j] = buf[pos + j]
    <3>1. j \in 1..(count - (pos + 1) + 1) /\ (pos + 1) + j - 1 = pos + j BY DEF Readable
    <3> QED BY <2>1, <3>1
  <2> QED BY <2>1, <2>2, <2>3
<1> HIDE DEF f
<1> DEFINE k == Len(w)
<1>4. k \in 0..Len(f) BY <1>1, <1>3 DEF Readable
<1> DEFINE a == SubSeq(f, 1, k)
<1> DEFINE rest == SubSeq(f, k + 1, Len(f))
<1>5. a \in Seq(Byte) /\ Len(a) = k /\ rest \in Seq(Byte) /\ f = a \o rest
  BY <1>3, <1>4, SplitAt
<1>6. \A i \in 1..k : a[i] = f[i] BY <1>3, <1>4, ElementOfSplit
<1> HIDE DEF a, rest
<1>7. a = w
  <2>1. ASSUME NEW i \in 1..Len(a) PROVE a[i] = w[i]
    <3>1. i \in 1..k /\ i \in 1..(count - pos) BY <1>1, <1>5 DEF Readable
    <3> QED BY <1>1, <1>3, <1>6, <3>1
  <2> QED BY <1>5, <2>1, SeqEqual
<1> QED BY <1>5, <1>7 DEF f

\* A number at pos is read as it was written.
LEMMA UintAt ==
  ASSUME NEW pos \in Nat, NEW u \in Unsigned, Readable, Holds(pos, EncodedUint(u))
  PROVE  /\ DecodedUint(From(pos)) = u /\ After(pos) = pos + Len(EncodedUint(u))
         /\ After(pos) \in Nat /\ pos < After(pos) /\ After(pos) <= count
<1> DEFINE w == EncodedUint(u)
<1>1. u \in Nat /\ u < Power[MaxBytes] /\ w \in Numeral BY NumeralUint
<1>2. w \in Seq(Byte) /\ Len(w) \in Nat /\ Len(w) > 0 BY <1>1, LenProperties, EmptySeq DEF Numeral
<1>3. PICK rest \in Seq(Byte) : From(pos) = w \o rest BY <1>2, FromIs
<1>4. Consumed(w \o rest) = Len(w) /\ DecodedUint(w \o rest) = u
  BY <1>1, DecodedEncoded DEF Byte
<1>5. pos + Len(w) <= count BY DEF Holds
<1> HIDE DEF w
<1>6. After(pos) = pos + Len(w) BY <1>3, <1>4 DEF After
<1> QED BY <1>2, <1>3, <1>4, <1>5, <1>6 DEF w

LEMMA IntIs ==
  ASSUME NEW pos \in Nat, NEW v \in Signed, Readable, Holds(pos, EncodedInt(v))
  PROVE  /\ IntAt(pos) = v /\ After(pos) = pos + Len(EncodedInt(v))
         /\ After(pos) \in Nat /\ pos < After(pos) /\ After(pos) <= count
<1> DEFINE w == EncodedInt(v)
<1> DEFINE u == IF v < 0 THEN 2 * (-v - 1) + 1 ELSE 2 * v
<1>1. v \in Int /\ 2 * v < Power[MaxBytes] /\ 2 * (-v - 1) + 1 < Power[MaxBytes] BY DEF Signed
<1>2. u \in Unsigned BY <1>1, PowerAll DEF Unsigned
<1>3. w = EncodedUint(u) BY DEF EncodedInt
<1> HIDE DEF u
<1>4. /\ After(pos) = pos + Len(w)
      /\ After(pos) \in Nat /\ pos < After(pos) /\ After(pos) <= count
  BY <1>2, <1>3, UintAt
<1>5. w \in Seq(Byte) BY NumeralInt DEF Numeral
<1>6. PICK rest \in Seq(Byte) : From(pos) = w \o rest BY <1>5, FromIs
<1>7. DecodedInt(w \o rest) = v BY <1>1, DecodedEncodedInt DEF Byte
<1>8. IntAt(pos) = v BY <1>6, <1>7 DEF IntAt
<1> QED BY <1>4, <1>8

LEMMA FloatIs ==
  ASSUME NEW pos \in Nat, NEW u \in Unsigned, Readable, Holds(pos, EncodedDouble(u))
  PROVE  /\ DecodedDouble(From(pos)) = u /\ After(pos) = pos + Len(EncodedDouble(u))
         /\ After(pos) \in Nat /\ pos < After(pos) /\ After(pos) <= count
<1> DEFINE w == EncodedDouble(u)
<1>1. u \in Nat /\ u < Power[MaxBytes] BY NumeralUint
<1>2. Flip(u) \in Unsigned BY <1>1, FlipTwice, PowerAll DEF Unsigned
<1>3. w = EncodedUint(Flip(u)) BY DEF EncodedDouble
<1>4. /\ After(pos) = pos + Len(w)
      /\ After(pos) \in Nat /\ pos < After(pos) /\ After(pos) <= count
  BY <1>2, <1>3, UintAt
<1>5. w \in Seq(Byte) BY NumeralDouble DEF Numeral
<1>6. PICK rest \in Seq(Byte) : From(pos) = w \o rest BY <1>5, FromIs
<1>7. DecodedDouble(w \o rest) = u BY <1>1, DecodedEncodedDouble DEF Byte
<1>8. DecodedDouble(From(pos)) = u BY <1>6, <1>7
<1> QED BY <1>4, <1>8

\* Bytes behind their length.
LEMMA BytesAt ==
  ASSUME NEW pos \in Nat, NEW s \in Sendable, Readable, Holds(pos, VectorBytes(s))
  PROVE  ReadBytes(pos) = Returned(s, pos + Len(VectorBytes(s)))
<1> DEFINE l == EncodedUint(Len(s))
<1>1. l \in Seq(Byte) /\ s \in Seq(Byte) /\ Len(s) \in Unsigned BY VectorBytesType DEF Numeral
<1>2. /\ Holds(pos, l) /\ Holds(pos + Len(l), s) /\ Len(l) \in Nat /\ Len(s) \in Nat
      /\ Len(VectorBytes(s)) = Len(l) + Len(s) /\ pos + Len(l) \in Nat
  <2> HIDE DEF l
  <2> QED BY <1>1, HoldsConcat DEF VectorBytes, l
<1>3. DecodedUint(From(pos)) = Len(s) /\ After(pos) = pos + Len(l) BY <1>1, <1>2, UintAt
<1> HIDE DEF l
<1>4. PICK rest \in Seq(Byte) : From(pos + Len(l)) = s \o rest BY <1>1, <1>2, FromIs
<1>5. SubSeq(s \o rest, 1, Len(s)) = s
  <2> DEFINE t == s \o rest
  <2> DEFINE a == SubSeq(t, 1, Len(s))
  <2>1. /\ t \in Seq(Byte) /\ Len(t) = Len(s) + Len(rest) /\ Len(rest) \in Nat
        /\ \A i \in 1..(Len(s) + Len(rest)) : t[i] = IF i <= Len(s) THEN s[i] ELSE rest[i - Len(s)]
    BY <1>1, ConcatProperties, LenProperties
  <2> HIDE DEF t
  <2>2. Len(s) \in 0..Len(t) BY <1>2, <2>1
  <2>3. a \in Seq(Byte) /\ Len(a) = Len(s) /\ \A i \in 1..Len(s) : a[i] = t[i]
    BY <2>1, <2>2, SplitAt, ElementOfSplit
  <2> HIDE DEF a
  <2>4. ASSUME NEW i \in 1..Len(a) PROVE a[i] = s[i]
    <3>1. i \in 1..(Len(s) + Len(rest)) /\ i <= Len(s) BY <1>2, <2>1, <2>3
    <3> QED BY <2>1, <2>3, <3>1
  <2>5. a = s BY <1>1, <2>3, <2>4, SeqEqual
  <2> QED BY <2>5 DEF a, t
<1>6. (pos + Len(l)) + Len(s) = pos + Len(VectorBytes(s)) BY <1>2
<1> QED BY <1>3, <1>4, <1>5, <1>6 DEF ReadBytes

(***************************************************************************)
(* Reading: one after the other.                                           *)
(***************************************************************************)

LEMMA ReturnedIs ==
  ASSUME NEW r, NEW v, NEW to, r = Returned(v, to)
  PROVE  r.ok /\ r.v = v /\ r.to = to
BY DEF Returned

\* An exception that leaves the read pointer between lo and hi.
FailsAt(r, lo, hi) == ~ r.ok /\ r.to \in lo..hi

NextRead(r, reader) ==
  IF ~ r.ok THEN r
  ELSE IF reader[r.to].ok THEN Returned(Append(r.v, reader[r.to].v), reader[r.to].to)
  ELSE reader[r.to]

ManyBy(f, n, pos, reader) ==
  /\ f[0] = Returned(<<>>, pos)
  /\ \A i \in 1..n : f[i] = NextRead(f[i - 1], reader)
  /\ Many(n, pos, reader) = f[n]

LEMMA ManyIs ==
  ASSUME NEW n \in Nat, NEW pos, NEW reader
  PROVE  \E f : ManyBy(f, n, pos, reader)
<1> DEFINE Upto(k, g) ==
      g = [i \in 0..k |-> IF i = 0 THEN Returned(<<>>, pos) ELSE NextRead(g[i - 1], reader)]
<1> DEFINE T == {k \in Nat : \E g : Upto(k, g)}
<1>1. 0 \in T
  <2> DEFINE g == [i \in 0..0 |-> Returned(<<>>, pos)]
  <2>1. Upto(0, g) OBVIOUS
  <2> QED BY <2>1
<1>2. ASSUME NEW k \in Nat, k \in T PROVE k + 1 \in T
  <2>1. PICK g : Upto(k, g) BY <1>2
  <2> DEFINE h == [i \in 0..(k + 1) |-> IF i <= k THEN g[i] ELSE NextRead(g[k], reader)]
  <2>2. ASSUME NEW i \in 0..(k + 1)
        PROVE  h[i] = IF i = 0 THEN Returned(<<>>, pos) ELSE NextRead(h[i - 1], reader)
    <3>1. CASE i = 0
      <4>1. h[0] = g[0] /\ 0 \in 0..k BY <1>2
      <4> HIDE DEF h
      <4> QED BY <2>1, <3>1, <4>1
    <3>2. CASE i # 0 /\ i <= k
      <4>1. i \in 0..k /\ i - 1 \in 0..(k + 1) /\ i - 1 <= k BY <3>2
      <4>2. h[i] = g[i] /\ h[i - 1] = g[i - 1] BY <4>1
      <4> HIDE DEF h
      <4> QED BY <2>1, <3>2, <4>1, <4>2
    <3>3. CASE ~ (i <= k)
      <4>1. i = k + 1 /\ i - 1 = k /\ i # 0 /\ k \in 0..(k + 1) /\ k <= k BY <3>3
      <4>2. h[i] = NextRead(g[k], reader) /\ h[k] = g[k] BY <4>1
      <4> HIDE DEF h
      <4> QED BY <4>1, <4>2
    <3> QED BY <3>1, <3>2, <3>3
  <2>3. h = [i \in 0..(k + 1) |-> h[i]] OBVIOUS
  <2> HIDE DEF h
  <2>4. Upto(k + 1, h) BY <2>2, <2>3
  <2> HIDE DEF Upto
  <2> QED BY <2>4
<1>3. Nat \subseteq T
  <2> HIDE DEF T
  <2> QED BY <1>1, <1>2, SetInduction
<1> DEFINE G == CHOOSE g : Upto(n, g)
<1>4. Upto(n, G)
  <2>1. \E g : Upto(n, g) BY <1>3
  <2> HIDE DEF Upto
  <2> QED BY <2>1
<1>5. Many(n, pos, reader) = G[n] BY Zenon DEF Many, NextRead
<1> HIDE DEF G
<1>6. G[0] = Returned(<<>>, pos)
  <2>1. 0 \in 0..n OBVIOUS
  <2> QED BY <1>4, <2>1
<1>7. ASSUME NEW i \in 1..n PROVE G[i] = NextRead(G[i - 1], reader)
  <2>1. i \in 0..n /\ i # 0 OBVIOUS
  <2> QED BY <1>4, <2>1
<1> QED BY <1>5, <1>6, <1>7 DEF ManyBy

LEMMA OneMore ==
  ASSUME NEW S, NEW vs \in Seq(S), NEW k \in Nat, k < Len(vs)
  PROVE  Append(SubSeq(vs, 1, k), vs[k + 1]) = SubSeq(vs, 1, k + 1)
<1> DEFINE a == SubSeq(vs, 1, k)
<1> DEFINE b == SubSeq(vs, 1, k + 1)
<1>0. Len(vs) \in Nat BY LenProperties
<1>1. k \in 0..Len(vs) /\ k + 1 \in 0..Len(vs) /\ k + 1 \in 1..Len(vs) BY <1>0
<1>2. a \in Seq(S) /\ Len(a) = k /\ \A i \in 1..k : a[i] = vs[i]
  BY <1>1, SplitAt, ElementOfSplit
<1>3. b \in Seq(S) /\ Len(b) = k + 1 /\ \A i \in 1..(k + 1) : b[i] = vs[i]
  BY <1>1, SplitAt, ElementOfSplit
<1>4. vs[k + 1] \in S BY <1>1, ElementOfSeq
<1> HIDE DEF a, b
<1> DEFINE c == Append(a, vs[k + 1])
<1>5. c \in Seq(S) /\ Len(c) = k + 1 /\ (\A i \in 1..k : c[i] = a[i]) /\ c[k + 1] = vs[k + 1]
  BY <1>2, <1>4, AppendProperties
<1> HIDE DEF c
<1>6. ASSUME NEW i \in 1..Len(c) PROVE c[i] = b[i]
  <2>1. i \in 1..k \/ i = k + 1 BY <1>5
  <2> QED BY <1>2, <1>3, <1>5, <2>1
<1>7. c = b BY <1>3, <1>5, <1>6, SeqEqual
<1> QED BY <1>7 DEF a, b, c

\* Each reading gives the next of the values vs, or fails.
ReadsEach(n, reader, vs, at, lo, hi) ==
  \A i \in 1..n : \/ reader[at[i - 1]] = Returned(vs[i], at[i])
                  \/ FailsAt(reader[at[i - 1]], lo, hi)

\* All are read, or one is not.
ReadsAll(n, reader, vs, at) ==
  /\ Many(n, at[0], reader) = Returned(vs, at[n])
  /\ \A i \in 1..n : reader[at[i - 1]] = Returned(vs[i], at[i])
ReadsNotAll(n, reader, at, lo, hi) ==
  /\ FailsAt(Many(n, at[0], reader), lo, hi)
  /\ \E i \in 1..n : FailsAt(reader[at[i - 1]], lo, hi)

LEMMA ManyReads ==
  ASSUME NEW n \in Nat, NEW reader, NEW S, NEW vs \in Seq(S), Len(vs) = n, NEW at, NEW lo, NEW hi,
         ReadsEach(n, reader, vs, at, lo, hi)
  PROVE  ReadsAll(n, reader, vs, at) \/ ReadsNotAll(n, reader, at, lo, hi)
<1>0. PICK f : ManyBy(f, n, at[0], reader) BY ManyIs
<1>1. /\ f[0] = Returned(<<>>, at[0])
      /\ \A i \in 1..n : f[i] = NextRead(f[i - 1], reader)
      /\ Many(n, at[0], reader) = f[n]
  BY <1>0 DEF ManyBy
<1> DEFINE Good(k) == /\ f[k] = Returned(SubSeq(vs, 1, k), at[k])
                      /\ \A i \in 1..k : reader[at[i - 1]] = Returned(vs[i], at[i])
<1> DEFINE Bad(k) == /\ FailsAt(f[k], lo, hi)
                     /\ \E i \in 1..k : FailsAt(reader[at[i - 1]], lo, hi)
<1> DEFINE T == {k \in Nat : k <= n => Good(k) \/ Bad(k)}
<1>2. 0 \in T
  <2>1. SubSeq(vs, 1, 0) = <<>> BY SubSeqEmpty
  <2>2. \A i \in 1..0 : FALSE OBVIOUS
  <2>3. Good(0) BY <1>1, <2>1, <2>2
  <2> QED BY <2>3
<1>3. ASSUME NEW k \in Nat, k \in T PROVE k + 1 \in T
  <2> SUFFICES ASSUME k + 1 <= n PROVE Good(k + 1) \/ Bad(k + 1) OBVIOUS
  <2>0. k + 1 \in 1..n /\ (k + 1) - 1 = k /\ k < Len(vs) /\ k <= n OBVIOUS
  <2>1. f[k + 1] = NextRead(f[k], reader) BY <1>1, <2>0
  <2>2. \A i \in 1..(k + 1) : i \in 1..k \/ i = k + 1 OBVIOUS
  <2>3. CASE Good(k)
    <3>1. f[k].ok /\ f[k].v = SubSeq(vs, 1, k) /\ f[k].to = at[k]
      <4>1. f[k] = Returned(SubSeq(vs, 1, k), at[k]) BY <2>3
      <4> HIDE DEF Good
      <4> QED BY <4>1, ReturnedIs
    <3>2. CASE reader[at[k]] = Returned(vs[k + 1], at[k + 1])
      <4>1. /\ reader[at[k]].ok /\ reader[at[k]].v = vs[k + 1] /\ reader[at[k]].to = at[k + 1]
        BY <3>2, ReturnedIs
      <4>2. f[k + 1] = Returned(Append(SubSeq(vs, 1, k), vs[k + 1]), at[k + 1])
        BY <2>1, <3>1, <4>1 DEF NextRead
      <4>3. f[k + 1] = Returned(SubSeq(vs, 1, k + 1), at[k + 1]) BY <2>0, <4>2, OneMore
      <4>4. \A i \in 1..(k + 1) : reader[at[i - 1]] = Returned(vs[i], at[i])
        BY <2>0, <2>2, <2>3, <3>2
      <4> QED BY <4>3, <4>4
    <3>3. CASE FailsAt(reader[at[k]], lo, hi)
      <4>1. ~ reader[at[k]].ok BY <3>3 DEF FailsAt
      <4>2. f[k + 1] = reader[at[k]] BY <2>1, <3>1, <4>1 DEF NextRead
      <4>3. \E i \in 1..(k + 1) : FailsAt(reader[at[i - 1]], lo, hi)
        <5>1. k + 1 \in 1..(k + 1) OBVIOUS
        <5> QED BY <2>0, <3>3, <5>1
      <4> QED BY <3>3, <4>2, <4>3
    <3> QED BY <2>0, <3>2, <3>3 DEF ReadsEach
  <2>4. CASE Bad(k)
    <3>1. ~ f[k].ok BY <2>4 DEF FailsAt
    <3>2. f[k + 1] = f[k] BY <2>1, <3>1 DEF NextRead
    <3>3. \E i \in 1..(k + 1) : FailsAt(reader[at[i - 1]], lo, hi)
      <4>1. PICK i \in 1..k : FailsAt(reader[at[i - 1]], lo, hi) BY <2>4
      <4>2. i \in 1..(k + 1) OBVIOUS
      <4> QED BY <4>1, <4>2
    <3> QED BY <2>4, <3>2, <3>3
  <2> QED BY <1>3, <2>0, <2>3, <2>4
<1>4. Nat \subseteq T
  <2> HIDE DEF T
  <2> QED BY <1>2, <1>3, SetInduction
<1>5. Good(n) \/ Bad(n)
  <2>1. n \in T /\ n <= n
    <3> HIDE DEF T
    <3> QED BY <1>4
  <2> QED BY <2>1
<1>6. CASE Good(n)
  <2>1. SubSeq(vs, 1, n) = vs
    <3>1. n \in 0..Len(vs) OBVIOUS
    <3>2. /\ SubSeq(vs, 1, n) \in Seq(S) /\ Len(SubSeq(vs, 1, n)) = n
          /\ \A i \in 1..n : SubSeq(vs, 1, n)[i] = vs[i]
      BY <3>1, SplitAt, ElementOfSplit
    <3> QED BY <3>2, SeqEqual
  <2> QED BY <1>1, <1>6, <2>1 DEF ReadsAll
<1>7. CASE Bad(n) BY <1>1, <1>7 DEF ReadsNotAll
<1> QED BY <1>5, <1>6, <1>7

\* The places in the buffer where the parts of a flattened sequence begin and end.
Sections(pos, ws, at) ==
  /\ at[0] = pos /\ at[Len(ws)] = pos + Len(FlattenSeq(ws))
  /\ \A k \in 0..Len(ws) : at[k] \in Nat /\ pos <= at[k] /\ at[k] <= pos + Len(FlattenSeq(ws))
  /\ \A k \in 1..Len(ws) : /\ at[k] = at[k - 1] + Len(ws[k]) /\ Holds(at[k - 1], ws[k])
                           /\ Len(ws[k]) \in Nat /\ Len(ws[k]) <= Len(FlattenSeq(ws))

LEMMA SectionsOf ==
  ASSUME NEW pos \in Nat, NEW ws \in Seq(Seq(Byte)), Readable, Holds(pos, FlattenSeq(ws))
  PROVE  \E at : Sections(pos, ws, at)
<1>0. \E f \in [Nat -> Seq(Byte)] :
        f[0] = <<>> /\ \A k \in 1..Len(ws) : f[k] = f[k - 1] \o ws[k]
  BY FlattenFunction
<1>1. PICK f : /\ f \in [Nat -> Seq(Byte)]
               /\ f[0] = <<>> /\ \A k \in 1..Len(ws) : f[k] = f[k - 1] \o ws[k]
  BY <1>0, Zenon
<1>2. PICK n \in Nat : n = Len(ws) BY LenProperties
<1>3. FlattenSeq(ws) = f[n] BY <1>1, <1>2, FlattenIs
<1> DEFINE len == [k \in Nat |-> Len(f[k])]
<1>4. \A k \in Nat : f[k] \in Seq(Byte) /\ len[k] = Len(f[k]) /\ len[k] \in Nat
  BY <1>1, LenProperties
<1> HIDE DEF len
<1> DEFINE Before(k) == Holds(pos, f[k]) /\ len[k] <= len[n]
<1>5. ASSUME NEW k \in 1..n, Before(k)
      PROVE  /\ Before(k - 1) /\ Holds(pos + len[k - 1], ws[k])
             /\ len[k] = len[k - 1] + Len(ws[k]) /\ Len(ws[k]) \in Nat
  <2>1. k - 1 \in Nat /\ k \in Nat OBVIOUS
  <2>2. ws[k] \in Seq(Byte) BY <1>2, ElementOfSeq
  <2>3. PICK b \in Seq(Byte) : b = ws[k] BY <2>2
  <2>4. PICK a \in Seq(Byte) : a = f[k - 1] BY <1>4, <2>1
  <2>5. f[k] = a \o b BY <1>1, <1>2, <2>3, <2>4
  <2>6. Holds(pos, a \o b) BY <1>5, <2>5
  <2>7. /\ Holds(pos, a) /\ Holds(pos + Len(a), b) /\ Len(b) \in Nat /\ Len(a) \in Nat
        /\ Len(a \o b) = Len(a) + Len(b)
    BY <2>6, HoldsConcat
  <2>8. len[k] = Len(a \o b) /\ len[k - 1] = Len(a) /\ len[n] \in Nat /\ len[k] <= len[n]
    BY <1>4, <1>5, <2>1, <2>4, <2>5
  <2>9. len[k - 1] <= len[n] BY <2>7, <2>8
  <2> QED BY <2>3, <2>4, <2>7, <2>8, <2>9
<1> DEFINE T == {j \in Nat : j <= n => Before(n - j)}
<1>6. 0 \in T
  <2>1. n - 0 = n /\ len[n] \in Nat BY <1>4
  <2>2. Before(n) BY <1>3, <2>1
  <2> HIDE DEF Before
  <2> QED BY <2>1, <2>2
<1>7. ASSUME NEW j \in Nat, j \in T PROVE j + 1 \in T
  <2> HIDE DEF Before
  <2>1. ASSUME j + 1 <= n PROVE Before(n - (j + 1))
    <3>1. n - j \in 1..n /\ (n - j) - 1 = n - (j + 1) /\ j <= n BY <2>1
    <3>2. Before(n - j) BY <1>7, <3>1
    <3>3. Before((n - j) - 1) BY <1>5, <3>1, <3>2
    <3> QED BY <3>1, <3>3
  <2> QED BY <2>1
<1>8. Nat \subseteq T
  <2> HIDE DEF T
  <2> QED BY <1>6, <1>7, SetInduction
<1>9. ASSUME NEW k \in 0..n PROVE Before(k)
  <2>1. n - k \in Nat /\ n - k <= n /\ n - (n - k) = k OBVIOUS
  <2> HIDE DEF Before
  <2> QED BY <1>8, <2>1
<1> DEFINE at == [k \in 0..n |-> pos + len[k]]
<1>10. \A k \in 0..n : at[k] = pos + len[k] OBVIOUS
<1> HIDE DEF at
<1>11. len[0] = 0
  <2>1. Len(f[0]) = 0 BY <1>1, EmptySeq
  <2> QED BY <1>4, <2>1
<1>12. len[n] = Len(FlattenSeq(ws)) /\ len[n] \in Nat BY <1>3, <1>4
<1>13. ASSUME NEW k \in 0..n
       PROVE  at[k] \in Nat /\ pos <= at[k] /\ at[k] <= pos + len[n]
  <2>1. len[k] \in Nat BY <1>4
  <2>2. len[k] <= len[n] BY <1>9
  <2> QED BY <1>10, <1>12, <2>1, <2>2
<1>14. ASSUME NEW k \in 1..n
       PROVE  /\ at[k] = at[k - 1] + Len(ws[k]) /\ Holds(at[k - 1], ws[k])
              /\ Len(ws[k]) \in Nat /\ Len(ws[k]) <= len[n]
  <2>1. k \in 0..n /\ k - 1 \in 0..n /\ k - 1 \in Nat OBVIOUS
  <2>2. at[k] = pos + len[k] /\ at[k - 1] = pos + len[k - 1] BY <1>10, <2>1
  <2>3. Before(k) BY <1>9, <2>1
  <2>4. len[k] <= len[n] BY <2>3
  <2>5. /\ Holds(pos + len[k - 1], ws[k]) /\ Len(ws[k]) \in Nat
        /\ len[k] = len[k - 1] + Len(ws[k])
    <3> HIDE DEF Before
    <3> QED BY <1>5, <2>3
  <2>6. len[k - 1] \in Nat /\ len[k] \in Nat BY <1>4, <2>1
  <2> HIDE DEF Before
  <2>7. Holds(at[k - 1], ws[k]) BY <2>2, <2>5
  <2>8. at[k] = at[k - 1] + Len(ws[k]) /\ Len(ws[k]) <= len[n]
    <3>1. PICK l \in Nat : l = Len(ws[k]) BY <2>5
    <3>2. PICK a \in Nat : a = len[k - 1] BY <2>6
    <3>3. PICK b \in Nat : b = len[k] BY <2>6
    <3>4. PICK m \in Nat : m = len[n] BY <1>12
    <3>5. b = a + l BY <2>5, <3>1, <3>2, <3>3
    <3>6. b <= m BY <2>4, <3>3, <3>4
    <3>7. pos + b = (pos + a) + l /\ l <= m BY <3>5, <3>6
    <3>8. at[k] = pos + b /\ at[k - 1] = pos + a BY <2>2, <3>2, <3>3
    <3> QED BY <3>1, <3>4, <3>7, <3>8
  <2> QED BY <2>5, <2>7, <2>8
<1>15. at[0] = pos /\ at[n] = pos + len[n]
  <2>1. 0 \in 0..n /\ n \in 0..n OBVIOUS
  <2> QED BY <1>10, <1>11, <2>1
<1>16. Sections(pos, ws, at) BY <1>2, <1>12, <1>13, <1>14, <1>15 DEF Sections
<1> QED BY <1>16

\* The bytes of programs one after the other.
LEMMA WiresConcat ==
  ASSUME NEW p \in Seq(StepSet), NEW q \in Seq(StepSet)
  PROVE  Wires(p \o q) = Wires(p) \o Wires(q)
<1> DEFINE W(r) == [i \in DOMAIN r |-> Wire(r[i])]
<1>1. p \o q \in Seq(StepSet) BY ConcatType
<1>2. /\ W(p) \in Seq(Seq(Byte)) /\ Len(W(p)) = Len(p) /\ Len(p) \in Nat /\ DOMAIN p = 1..Len(p)
  BY WiresOf
<1>3. /\ W(q) \in Seq(Seq(Byte)) /\ Len(W(q)) = Len(q) /\ Len(q) \in Nat /\ DOMAIN q = 1..Len(q)
  BY WiresOf
<1>4. /\ W(p \o q) \in Seq(Seq(Byte)) /\ Len(W(p \o q)) = Len(p \o q)
      /\ DOMAIN (p \o q) = 1..Len(p \o q)
  BY <1>1, WiresOf
<1>5. /\ Len(p \o q) = Len(p) + Len(q)
      /\ \A i \in 1..(Len(p) + Len(q)) : (p \o q)[i] = IF i <= Len(p) THEN p[i] ELSE q[i - Len(p)]
  BY ConcatProperties
<1>6. \A i \in 1..Len(p) : W(p)[i] = Wire(p[i]) BY <1>2
<1>7. \A i \in 1..Len(q) : W(q)[i] = Wire(q[i]) BY <1>3
<1>8. \A i \in 1..(Len(p) + Len(q)) : W(p \o q)[i] = Wire((p \o q)[i]) BY <1>4, <1>5
<1> HIDE DEF W
<1> DEFINE u == W(p) \o W(q)
<1>9. /\ u \in Seq(Seq(Byte)) /\ Len(u) = Len(p) + Len(q)
      /\ \A i \in 1..(Len(p) + Len(q)) :
           u[i] = IF i <= Len(p) THEN W(p)[i] ELSE W(q)[i - Len(p)]
  <2>1. /\ u \in Seq(Seq(Byte)) /\ Len(u) = Len(W(p)) + Len(W(q))
        /\ \A i \in 1..(Len(W(p)) + Len(W(q))) :
             u[i] = IF i <= Len(W(p)) THEN W(p)[i] ELSE W(q)[i - Len(W(p))]
    BY <1>2, <1>3, ConcatProperties
  <2> HIDE DEF u
  <2> QED BY <1>2, <1>3, <2>1
<1> HIDE DEF u
<1>10. ASSUME NEW i \in 1..(Len(p) + Len(q)) PROVE W(p \o q)[i] = u[i]
  <2>1. CASE i <= Len(p)
    <3>1. i \in 1..Len(p) BY <2>1
    <3> QED BY <1>5, <1>6, <1>8, <1>9, <2>1, <3>1
  <2>2. CASE ~ (i <= Len(p))
    <3>1. i - Len(p) \in 1..Len(q) BY <1>2, <1>3, <2>2
    <3> QED BY <1>5, <1>7, <1>8, <1>9, <2>2, <3>1
  <2> QED BY <2>1, <2>2
<1>11. W(p \o q) = u BY <1>4, <1>5, <1>9, <1>10, SeqEqual
<1>12. FlattenSeq(u) = FlattenSeq(W(p)) \o FlattenSeq(W(q)) BY <1>2, <1>3, FlattenConcat DEF u
<1> QED BY <1>11, <1>12 DEF Wires, W

LEMMA WiresOne ==
  ASSUME NEW step \in StepSet
  PROVE  <<step>> \in Seq(StepSet) /\ Wires(<<step>>) = Wire(step)
<1>1. <<step>> \in Seq(StepSet) OBVIOUS
<1>2. [i \in DOMAIN <<step>> |-> Wire(<<step>>[i])] = <<Wire(step)>> OBVIOUS
<1>3. Wire(step) \in Seq(Byte) BY WireType
<1>4. FlattenSeq(<<Wire(step)>>) = Wire(step)
  <2>1. <<>> \in Seq(Seq(Byte)) BY EmptySeq
  <2>2. FlattenSeq(<<Wire(step)>> \o <<>>) = Wire(step) \o FlattenSeq(<<>>) BY <1>3, <2>1, FlattenCons
  <2>3. <<Wire(step)>> \o <<>> = <<Wire(step)>>
    <3>1. <<Wire(step)>> \in Seq(Seq(Byte)) BY <1>3
    <3> QED BY <3>1, ConcatEmptySeq
  <2>4. Wire(step) \o <<>> = Wire(step) BY <1>3, ConcatEmptySeq
  <2> QED BY <2>2, <2>3, <2>4, FlattenEmpty
<1> QED BY <1>1, <1>2, <1>4 DEF Wires

LEMMA WiresEmpty == Wires(<<>>) = <<>>
<1>1. [i \in DOMAIN <<>> |-> Wire(<<>>[i])] = <<>> OBVIOUS
<1> QED BY <1>1, FlattenEmpty DEF Wires

LEMMA WiresFlatten ==
  ASSUME NEW pp, pp \in Seq(Seq(StepSet))
  PROVE  /\ [i \in DOMAIN pp |-> Wires(pp[i])] \in Seq(Seq(Byte))
         /\ Len([i \in DOMAIN pp |-> Wires(pp[i])]) = Len(pp)
         /\ Wires(FlattenSeq(pp)) = FlattenSeq([i \in DOMAIN pp |-> Wires(pp[i])])
<1> DEFINE ws == [i \in DOMAIN pp |-> Wires(pp[i])]
<1>1. PICK n \in Nat : n = Len(pp) /\ DOMAIN pp = 1..n BY LenProperties
<1>2. \A i \in 1..n : pp[i] \in Seq(StepSet) BY <1>1, ElementOfSeq
<1>3. \A i \in 1..n : ws[i] = Wires(pp[i]) /\ Wires(pp[i]) \in Seq(Byte) BY <1>1, <1>2, WiresOf
<1>4. ws \in Seq(Seq(Byte)) /\ Len(ws) = n
  <2>1. ws = [i \in 1..n |-> Wires(pp[i])] BY <1>1
  <2> QED BY <1>3, <2>1
<1> HIDE DEF ws
<1>16. \E f \in [Nat -> Seq(StepSet)] :
        f[0] = <<>> /\ \A k \in 1..Len(pp) : f[k] = f[k - 1] \o pp[k]
  BY FlattenFunction
<1>5. PICK f : /\ f \in [Nat -> Seq(StepSet)]
               /\ f[0] = <<>> /\ \A k \in 1..Len(pp) : f[k] = f[k - 1] \o pp[k]
  BY <1>16, Zenon
<1>6. FlattenSeq(pp) = f[n] BY <1>1, <1>5, FlattenIs
<1> DEFINE g == [k \in Nat |-> Wires(f[k])]
<1>7. \A k \in Nat : f[k] \in Seq(StepSet) BY <1>5
<1>8. g \in [Nat -> Seq(Byte)]
  <2>1. \A k \in Nat : Wires(f[k]) \in Seq(Byte) BY <1>7, WiresOf
  <2> QED BY <2>1
<1>9. \A k \in Nat : g[k] = Wires(f[k]) OBVIOUS
<1> HIDE DEF g
<1>10. g[0] = <<>> BY <1>5, <1>9, WiresEmpty
<1>11. ASSUME NEW k \in 1..Len(ws) PROVE g[k] = g[k - 1] \o ws[k]
  <2>1. k \in 1..n /\ k \in Nat /\ k - 1 \in Nat BY <1>4
  <2>2. f[k] = f[k - 1] \o pp[k] BY <1>1, <1>5, <2>1
  <2>3. f[k - 1] \in Seq(StepSet) /\ pp[k] \in Seq(StepSet) BY <1>2, <1>7, <2>1
  <2>4. Wires(f[k - 1] \o pp[k]) = Wires(f[k - 1]) \o Wires(pp[k]) BY <2>3, WiresConcat
  <2> QED BY <1>3, <1>9, <2>1, <2>2, <2>4
<1>12. FlattenSeq(ws) = g[n]
  <2>1. FlattenSeq(ws) = g[Len(ws)] BY <1>4, <1>8, <1>10, <1>11, FlattenIs
  <2> QED BY <1>4, <2>1
<1>13. Wires(FlattenSeq(pp)) = FlattenSeq(ws) BY <1>6, <1>9, <1>12
<1> QED BY <1>1, <1>4, <1>13 DEF ws

\* The steps that raise no exception whatever happens.
RegularSteps == {step \in StepSet : step.do # "raise"}

LEMMA RegularIs ==
  ASSUME NEW p \in Seq(StepSet)
  PROVE  Regular(p) <=> p \in Seq(RegularSteps)
<1>1. DOMAIN p = 1..Len(p) /\ Len(p) \in Nat BY LenProperties
<1>2. \A i \in 1..Len(p) : p[i] \in StepSet BY ElementOfSeq
<1>3. ASSUME Regular(p) PROVE p \in Seq(RegularSteps)
  <2>1. \A i \in 1..Len(p) : p[i] \in RegularSteps BY <1>1, <1>2, <1>3 DEF Regular, RegularSteps
  <2>2. p = [i \in 1..Len(p) |-> p[i]] BY <1>1
  <2> QED BY <1>1, <2>1, <2>2
<1>4. ASSUME p \in Seq(RegularSteps) PROVE Regular(p)
  <2>1. \A i \in 1..Len(p) : p[i] \in RegularSteps BY <1>4, ElementOfSeq
  <2> QED BY <1>1, <2>1 DEF Regular, RegularSteps
<1> QED BY <1>3, <1>4

LEMMA RegularConcat ==
  ASSUME NEW p \in Seq(StepSet), NEW q \in Seq(StepSet), Regular(p \o q)
  PROVE  Regular(p) /\ Regular(q)
<1>1. p \o q \in Seq(StepSet) BY ConcatType
<1>2. p \o q \in Seq(RegularSteps) BY <1>1, RegularIs
<1>3. p \in Seq(RegularSteps) /\ q \in Seq(RegularSteps) BY <1>2, ConcatWithin
<1> QED BY <1>3, RegularIs

LEMMA RegularFlatten ==
  ASSUME NEW pp, pp \in Seq(Seq(StepSet)), Regular(FlattenSeq(pp)), NEW i \in 1..Len(pp)
  PROVE  Regular(pp[i])
<1>1. FlattenSeq(pp) \in Seq(StepSet) BY FlattenType
<1>2. FlattenSeq(pp) \in Seq(RegularSteps) BY <1>1, RegularIs
<1>3. pp[i] \in Seq(RegularSteps) BY <1>2, FlattenWithin
<1>4. pp[i] \in Seq(StepSet) BY ElementOfSeq
<1> QED BY <1>3, <1>4, RegularIs

\* What decodeElement does, with so many levels left.
LEMMA ReaderIs ==
  ASSUME Readable, NEW l \in 0..count
  PROVE  Reader[l] = [pos \in Nat |-> IF l > 0 THEN ReadWith(pos, "", Reader[l - 1]) ELSE Raised(pos)]
<1> DEFINE Body(k, r) == [pos \in Nat |-> IF k > 0 THEN ReadWith(pos, "", r) ELSE Raised(pos)]
<1> DEFINE Upto(n, g) == g = [k \in 0..n |-> Body(k, g[k - 1])]
<1> DEFINE T == {n \in Nat : \E g : Upto(n, g)}
<1>1. 0 \in T
  <2> DEFINE g == [k \in 0..0 |-> Body(0, 0)]
  <2>1. Body(0, 0) = Body(0, g[0 - 1])
    <3>1. ~ (0 > 0) OBVIOUS
    <3> QED BY <3>1, Zenon
  <2>2. Upto(0, g)
    <3>1. \A k \in 0..0 : k = 0 OBVIOUS
    <3> HIDE DEF Body
    <3>2. \A k \in 0..0 : Body(0, 0) = Body(k, g[k - 1]) BY <2>1, <3>1
    <3> QED BY <3>2
  <2> QED BY <2>2
<1>2. ASSUME NEW n \in Nat, n \in T PROVE n + 1 \in T
  <2>1. PICK g : Upto(n, g) BY <1>2
  <2> HIDE DEF Body
  <2> DEFINE h == [k \in 0..(n + 1) |-> IF k <= n THEN g[k] ELSE Body(n + 1, g[n])]
  <2>2. ASSUME NEW k \in 0..(n + 1) PROVE h[k] = Body(k, h[k - 1])
    <3>1. CASE k = 0
      <4>1. h[0] = g[0] /\ 0 \in 0..n OBVIOUS
      <4>2. g[0] = Body(0, g[0 - 1]) BY <2>1, <4>1
      <4>3. Body(0, g[0 - 1]) = Body(0, h[0 - 1])
        <5>1. ~ (0 > 0) OBVIOUS
        <5> QED BY <5>1, Zenon DEF Body
      <4> HIDE DEF h
      <4> QED BY <3>1, <4>1, <4>2, <4>3
    <3>2. CASE k # 0 /\ k <= n
      <4>1. k \in 0..n /\ k - 1 \in 0..(n + 1) /\ k - 1 <= n BY <3>2
      <4>2. h[k] = g[k] /\ h[k - 1] = g[k - 1] BY <4>1
      <4> HIDE DEF h
      <4> QED BY <2>1, <4>1, <4>2
    <3>3. CASE ~ (k <= n)
      <4>1. k = n + 1 /\ k - 1 = n /\ n \in 0..(n + 1) /\ n <= n BY <3>3
      <4>2. h[k] = Body(n + 1, g[n]) /\ h[n] = g[n] BY <4>1
      <4> HIDE DEF h
      <4> QED BY <4>1, <4>2
    <3> QED BY <3>1, <3>2, <3>3
  <2>3. h = [k \in 0..(n + 1) |-> h[k]] OBVIOUS
  <2> HIDE DEF h
  <2>4. Upto(n + 1, h) BY <2>2, <2>3
  <2> HIDE DEF Upto
  <2> QED BY <2>4
<1>3. Nat \subseteq T
  <2> HIDE DEF T
  <2> QED BY <1>1, <1>2, SetInduction
<1>4. Reader = CHOOSE g : Upto(count, g) BY DEF Reader
<1>5. Upto(count, Reader)
  <2>1. \E g : Upto(count, g) BY <1>3 DEF Readable
  <2> HIDE DEF Upto
  <2> QED BY <1>4, <2>1
<1>6. Reader[l] = Body(l, Reader[l - 1])
  <2> HIDE DEF Body
  <2> QED BY <1>5
<1> QED BY <1>6

(***************************************************************************)
(* The elements in an element.                                             *)
(***************************************************************************)

Parts(e) == IF Type(e) = "list" THEN Range(Content(e))
            ELSE IF Type(e) \in {"strdict", "intdict"} THEN {p[2] : p \in Range(Content(e))}
            ELSE {}

LEMMA PartsAre ==
  ASSUME NEW e \in Elements
  PROVE  /\ Parts(e) \subseteq Shallower(e)
         /\ Type(e) = "list" => \A x : x \in Parts(e) <=> \E i \in DOMAIN Content(e) : x = Content(e)[i]
         /\ Type(e) \in {"strdict", "intdict"} =>
              \A x : x \in Parts(e) <=> \E i \in DOMAIN Content(e) : x = Content(e)[i][2]
         /\ Type(e) \notin {"list", "strdict", "intdict"} => Parts(e) = {}
<1> DEFINE s == Content(e)
<1>1. ASSUME Type(e) = "list"
      PROVE  /\ \A x : x \in Parts(e) <=> \E i \in DOMAIN s : x = s[i]
             /\ Parts(e) \subseteq Shallower(e)
  <2>1. Parts(e) = Range(s) BY <1>1 DEF Parts
  <2>2. s \in Seq(Shallower(e)) BY <1>1, ContentType DEF Short
  <2>3. \A i \in DOMAIN s : s[i] \in Shallower(e) BY <2>2, ElementOfSeq, LenProperties
  <2> HIDE DEF s
  <2> QED BY <2>1, <2>3 DEF Range
<1>2. ASSUME Type(e) \in {"strdict", "intdict"}
      PROVE  /\ \A x : x \in Parts(e) <=> \E i \in DOMAIN s : x = s[i][2]
             /\ Parts(e) \subseteq Shallower(e)
  <2>1. Parts(e) = {p[2] : p \in Range(s)} BY <1>2 DEF Parts
  <2>2. \A i \in DOMAIN s : s[i][2] \in Shallower(e) BY <1>2, KeyStepType
  <2> HIDE DEF s
  <2> QED BY <2>1, <2>2 DEF Range
<1>3. ASSUME Type(e) \notin {"list", "strdict", "intdict"} PROVE Parts(e) = {}
  BY <1>3 DEF Parts
<1> QED BY <1>1, <1>2, <1>3

LEMMA WithinIs == \A e \in Elements : Within[e] = {e} \cup UNION {Within[x] : x \in Parts(e)}
<1> DEFINE S == SUBSET Elements
<1> DEFINE B(e, w) == {e} \cup UNION {w[x] : x \in Parts(e)}
<1> DEFINE H == [y \in Elements \X [Elements -> S] |-> B(y[1], y[2])]
<1>1. \A e \in Elements : Parts(e) \subseteq Shallower(e) /\ Shallower(e) \subseteq Elements
  BY PartsAre DEF Shallower
<1>2. H \in [Elements \X [Elements -> S] -> S]
  <2>1. ASSUME NEW e \in Elements, NEW w \in [Elements -> S] PROVE B(e, w) \in S
    BY <1>1
  <2> HIDE DEF S, B
  <2> QED BY <2>1
<1>3. DependsLocally(H, Elements, S, Depth)
  <2>1. ASSUME NEW e \in Elements, NEW w \in [Elements -> S], NEW v \in [Elements -> S],
               LocalTo(e, w, v, Elements, Depth)
        PROVE  H[<<e, w>>] = H[<<e, v>>]
    <3>1. \A x \in Parts(e) : w[x] = v[x] BY <1>1, <2>1 DEF LocalTo, Shallower
    <3>2. B(e, w) = B(e, v) BY <3>1
    <3> HIDE DEF S, B
    <3> QED BY <3>2
  <2> HIDE DEF H, S
  <2> QED BY <2>1 DEF DependsLocally
<1>4. {} \in S OBVIOUS
<1>5. Depth \in [Elements -> Nat] BY ElementsAssumption
<1>6. PICK f : Solves(f, H, Elements, S)
  <2> HIDE DEF H, S
  <2> QED BY <1>2, <1>3, <1>4, <1>5, RecursionOnDepth
<1>7. f = [e \in Elements |-> B(e, f)]
  <2> HIDE DEF S, B
  <2> QED BY <1>6 DEF Solves
<1> HIDE DEF H, S
<1> DEFINE Eq(w) == w = [e \in Elements |-> B(e, w)]
<1>8. Eq(Within)
  <2>1. Within = CHOOSE w : Eq(w) BY Zenon DEF Within, Parts
  <2>2. Eq(CHOOSE w : Eq(w))
    <3>1. Eq(f) BY <1>7
    <3> HIDE DEF Eq
    <3> QED BY <3>1
  <2> HIDE DEF Eq
  <2> QED BY <2>1, <2>2
<1>9. \A e \in Elements : Within[e] = B(e, Within)
  <2> HIDE DEF B
  <2> QED BY <1>8
<1> QED BY <1>9

LEMMA HoldsUintsIs ==
  ASSUME NEW e \in Elements
  PROVE  HoldsUints(e) <=> Type(e) = "uints" \/ \E x \in Parts(e) : HoldsUints(x)
<1>1. Within[e] = {e} \cup UNION {Within[x] : x \in Parts(e)} BY WithinIs
<1>2. \A y : y \in Within[e] <=> y = e \/ \E x \in Parts(e) : y \in Within[x] BY <1>1
<1> QED BY <1>2 DEF HoldsUints

(***************************************************************************)
(* Reading: elements.                                                      *)
(***************************************************************************)

\* Can e be read with the typecode?
Suits(e, typecode) ==
  /\ Type(e) = "uints" => typecode = "B"
  /\ Type(e) \in {"ints", "floats"} => typecode = ""
  /\ \A x \in Parts(e) : ~ HoldsUints(x)

\* What reading e from pos on comes to: its value and its end, or an exception somewhere in it.
Comes(r, e, typecode, pos) ==
  /\ Suits(e, typecode) => r = Returned(e, pos + Len(WireOf(e)))
  /\ ~ Suits(e, typecode) => FailsAt(r, pos, pos + Len(WireOf(e)))

\* e is in the buffer from pos on, and could be encoded.
Stands(e, pos) == pos \in Nat /\ Regular(Program[e]) /\ Holds(pos, WireOf(e))

LEMMA SuitsPlain ==
  ASSUME NEW e \in Elements
  PROVE  Suits(e, "") <=> ~ HoldsUints(e)
<1>1. Type(e) = "uints" => Parts(e) = {} BY PartsAre
<1>2. "" # "B" OBVIOUS
<1> QED BY <1>1, <1>2, HoldsUintsIs DEF Suits

LEMMA NumberWire ==
  ASSUME NEW w \in Numeral
  PROVE  /\ Number(w) \in StepSet /\ Wire(Number(w)) = w
         /\ <<Number(w)>> \in Seq(StepSet) /\ Wires(<<Number(w)>>) = w
<1>1. Number(w) \in StepSet BY NumberStep
<1>2. Wire(Number(w)) = w BY DEF Wire, Number
<1> QED BY <1>1, <1>2, WiresOne

\* What the mark a, and then a header, is read as.
LEMMA MarkAt ==
  ASSUME NEW pos \in Nat, NEW a \in 0..GLME_MAP, NEW t \in Seq(Byte), Readable,
         Holds(pos, EncodedInt(a) \o t)
  PROVE  /\ IntAt(pos) = a /\ After(pos) = pos + Len(EncodedInt(a)) /\ pos < After(pos)
         /\ After(pos) \in Nat /\ Holds(After(pos), t) /\ Len(t) \in Nat
         /\ Len(EncodedInt(a)) \in Nat /\ Len(EncodedInt(a) \o t) = Len(EncodedInt(a)) + Len(t)
         /\ pos + Len(EncodedInt(a) \o t) = After(pos) + Len(t)
<1> DEFINE w == EncodedInt(a)
<1>1. a \in Signed /\ w \in Seq(Byte) BY NumeralMark DEF Numeral
<1>2. /\ Holds(pos, w) /\ Holds(pos + Len(w), t) /\ Len(w) \in Nat /\ Len(t) \in Nat
      /\ Len(w \o t) = Len(w) + Len(t)
  <2> HIDE DEF w
  <2> QED BY <1>1, HoldsConcat DEF w
<1>3. IntAt(pos) = a /\ After(pos) = pos + Len(w) /\ After(pos) \in Nat /\ pos < After(pos)
  BY <1>1, <1>2, IntIs
<1> HIDE DEF w
<1>4. pos + Len(w \o t) = After(pos) + Len(t) BY <1>2, <1>3
<1> QED BY <1>2, <1>3, <1>4 DEF w

LEMMA ThreeIs ==
  ASSUME NEW S, NEW x \in S, NEW y \in S, NEW z \in S
  PROVE  /\ <<x, y>> \o <<z>> = <<x>> \o (<<y>> \o <<z>>)
         /\ <<x>> \in Seq(S) /\ <<y>> \in Seq(S) /\ <<z>> \in Seq(S)
<1>1. <<x>> \in Seq(S) /\ <<y>> \in Seq(S) /\ <<z>> \in Seq(S) OBVIOUS
<1>2. <<x, y>> = <<x>> \o <<y>>
  <2> DEFINE u == <<x>> \o <<y>>
  <2>1. Len(<<x>>) = 1 /\ Len(<<y>>) = 1 /\ <<x>>[1] = x /\ <<y>>[1] = y OBVIOUS
  <2>2. /\ u \in Seq(S) /\ Len(u) = 2
        /\ \A i \in 1..2 : u[i] = IF i <= 1 THEN <<x>>[i] ELSE <<y>>[i - 1]
    BY <1>1, <2>1, ConcatProperties
  <2> HIDE DEF u
  <2>3. u[1] = x /\ u[2] = y BY <2>1, <2>2
  <2>4. <<x, y>> \in Seq(S) /\ Len(<<x, y>>) = 2 OBVIOUS
  <2>5. ASSUME NEW i \in 1..Len(u) PROVE u[i] = <<x, y>>[i]
    <3>1. i = 1 \/ i = 2 BY <2>2
    <3> QED BY <2>3, <3>1
  <2>6. u = <<x, y>> BY <2>2, <2>4, <2>5, SeqEqual
  <2> QED BY <2>6 DEF u
<1> DEFINE a == <<x>>
<1> DEFINE b == <<y>>
<1> DEFINE c == <<z>>
<1>3. Associates(a, b, c) BY <1>1, Associative
<1> QED BY <1>1, <1>2, <1>3 DEF Associates

LEMMA HeaderWires ==
  ASSUME NEW a \in 0..GLME_MAP, NEW b \in 0..GLME_MAP, NEW S, NEW s \in Short(S)
  PROVE  Wires(Header(<<a, b>>, s)) = EncodedInt(a) \o (EncodedInt(b) \o EncodedUint(Len(s)))
<1> DEFINE x == Number(EncodedInt(a))
<1> DEFINE y == Number(EncodedInt(b))
<1> DEFINE z == Number(EncodedUint(Len(s)))
<1>1. /\ EncodedInt(a) \in Numeral /\ EncodedInt(b) \in Numeral /\ EncodedUint(Len(s)) \in Numeral
  BY NumeralMark, NumeralLength
<1>2. /\ x \in StepSet /\ Wires(<<x>>) = EncodedInt(a)
      /\ y \in StepSet /\ Wires(<<y>>) = EncodedInt(b)
      /\ z \in StepSet /\ Wires(<<z>>) = EncodedUint(Len(s))
  BY <1>1, NumberWire
<1>3. [i \in DOMAIN <<a, b>> |-> Number(EncodedInt(<<a, b>>[i]))] = <<x, y>> OBVIOUS
<1>4. Header(<<a, b>>, s) = <<x, y>> \o <<z>> BY <1>3 DEF Header
<1> HIDE DEF x, y, z
<1>5. /\ <<x, y>> \o <<z>> = <<x>> \o (<<y>> \o <<z>>)
      /\ <<x>> \in Seq(StepSet) /\ <<y>> \in Seq(StepSet) /\ <<z>> \in Seq(StepSet)
  BY <1>2, ThreeIs
<1>6. <<y>> \o <<z>> \in Seq(StepSet) BY <1>5, ConcatType
<1>7. Wires(<<y>> \o <<z>>) = Wires(<<y>>) \o Wires(<<z>>) BY <1>5, WiresConcat
<1>8. Wires(<<x>> \o (<<y>> \o <<z>>)) = Wires(<<x>>) \o Wires(<<y>> \o <<z>>)
  BY <1>5, <1>6, WiresConcat
<1> QED BY <1>2, <1>4, <1>5, <1>7, <1>8

MarkBefore(a, b, c, s) ==
  Wires(Header(<<a, b, c>>, s)) = EncodedInt(a) \o Wires(Header(<<b, c>>, s))

LEMMA HeaderThree ==
  ASSUME NEW a \in 0..GLME_MAP, NEW b \in 0..GLME_MAP, NEW c \in 0..GLME_MAP,
         NEW S, NEW s \in Short(S)
  PROVE  MarkBefore(a, b, c, s)
<1> DEFINE x == Number(EncodedInt(a))
<1>1. EncodedInt(a) \in Numeral BY NumeralMark
<1>2. x \in StepSet /\ Wires(<<x>>) = EncodedInt(a) /\ <<x>> \in Seq(StepSet)
  BY <1>1, NumberWire
<1> DEFINE f == [i \in DOMAIN <<b, c>> |-> Number(EncodedInt(<<b, c>>[i]))]
<1> DEFINE z == <<Number(EncodedUint(Len(s)))>>
<1>3. [i \in DOMAIN <<a, b, c>> |-> Number(EncodedInt(<<a, b, c>>[i]))] = <<x>> \o f
  <2>1. f = <<Number(EncodedInt(b)), Number(EncodedInt(c))>> OBVIOUS
  <2>2. [i \in DOMAIN <<a, b, c>> |-> Number(EncodedInt(<<a, b, c>>[i]))]
          = <<x, Number(EncodedInt(b)), Number(EncodedInt(c))>>
    OBVIOUS
  <2> QED BY <2>1, <2>2
<1>4. Header(<<a, b, c>>, s) = (<<x>> \o f) \o z BY <1>3 DEF Header
<1>5. Header(<<b, c>>, s) = f \o z BY DEF Header
<1>6. f \in Seq(StepSet) /\ z \in Seq(StepSet)
  <2>1. f = <<Number(EncodedInt(b)), Number(EncodedInt(c))>> OBVIOUS
  <2>2. Number(EncodedInt(b)) \in StepSet /\ Number(EncodedInt(c)) \in StepSet
        /\ Number(EncodedUint(Len(s))) \in StepSet
    BY NumeralMark, NumeralLength, NumberStep
  <2> QED BY <2>1, <2>2
<1> HIDE DEF f, z, x
<1>7. f \o z \in Seq(StepSet) BY <1>6, ConcatType
<1>8. (<<x>> \o f) \o z = <<x>> \o (f \o z) BY <1>2, <1>6, ConcatAssociative
<1>9. Wires(<<x>> \o (f \o z)) = Wires(<<x>>) \o Wires(f \o z) BY <1>2, <1>7, WiresConcat
<1> QED BY <1>2, <1>4, <1>5, <1>8, <1>9 DEF MarkBefore


\* What the header of an array and of a dictionary is read as.
HeaderIsAt(pos, a, b, s, t) ==
  /\ IntAt(pos) = a /\ IntAt(After(pos)) = b
  /\ DecodedUint(From(After(After(pos)))) = Len(s)
  /\ After(pos) \in Nat /\ After(After(pos)) \in Nat /\ After(After(After(pos))) \in Nat
  /\ pos < After(pos) /\ After(pos) < After(After(pos))
  /\ After(After(pos)) < After(After(After(pos)))
  /\ Holds(After(After(After(pos))), t) /\ Len(t) \in Nat
  /\ pos + Len(Wires(Header(<<a, b>>, s)) \o t) = After(After(After(pos))) + Len(t)
  /\ Len(t) < Len(Wires(Header(<<a, b>>, s)) \o t)

LEMMA ArrayAt ==
  ASSUME NEW pos \in Nat, NEW a \in 0..GLME_MAP, NEW b \in 0..GLME_MAP, NEW S, NEW s \in Short(S),
         NEW t \in Seq(Byte), Readable, Holds(pos, Wires(Header(<<a, b>>, s)) \o t)
  PROVE  HeaderIsAt(pos, a, b, s, t)
<1> DEFINE l == EncodedUint(Len(s))
<1> DEFINE w == EncodedInt(b) \o l
<1>1. Wires(Header(<<a, b>>, s)) = EncodedInt(a) \o w BY HeaderWires
<1>2. l \in Seq(Byte) /\ Len(s) \in Unsigned BY NumeralLength DEF Numeral
<1>3. EncodedInt(a) \in Seq(Byte) /\ EncodedInt(b) \in Seq(Byte) BY NumeralMark DEF Numeral
<1> HIDE DEF l
<1>4. w \in Seq(Byte) BY <1>2, <1>3, ConcatType
<1> DEFINE h == EncodedInt(a) \o w
<1>5. h \in Seq(Byte)
  <2> HIDE DEF w
  <2> QED BY <1>3, <1>4, ConcatType
<1>6. /\ Holds(pos, h) /\ Holds(pos + Len(h), t) /\ Len(h) \in Nat /\ Len(t) \in Nat
      /\ Len(h \o t) = Len(h) + Len(t)
  <2> HIDE DEF h
  <2>1. Holds(pos, h \o t) BY <1>1 DEF h
  <2> QED BY <1>5, <2>1, HoldsConcat
<1>7. /\ IntAt(pos) = a /\ pos < After(pos) /\ After(pos) \in Nat /\ Holds(After(pos), w)
      /\ pos + Len(h) = After(pos) + Len(w)
  <2> HIDE DEF w
  <2> QED BY <1>4, <1>6, MarkAt
<1>8. /\ IntAt(After(pos)) = b /\ After(pos) < After(After(pos)) /\ After(After(pos)) \in Nat
      /\ Holds(After(After(pos)), l) /\ After(pos) + Len(w) = After(After(pos)) + Len(l)
  BY <1>2, <1>7, MarkAt
<1>9. /\ DecodedUint(From(After(After(pos)))) = Len(s)
      /\ After(After(After(pos))) = After(After(pos)) + Len(l)
      /\ After(After(pos)) < After(After(After(pos))) /\ After(After(After(pos))) \in Nat
  BY <1>2, <1>8, UintAt DEF l
<1>10. After(After(After(pos))) = pos + Len(h) BY <1>7, <1>8, <1>9
<1> HIDE DEF h, w
<1>11. pos + Len(h \o t) = After(After(After(pos))) + Len(t) BY <1>6, <1>10
<1>12. Len(t) < Len(h \o t)
  <2>1. pos < pos + Len(h) BY <1>7, <1>8, <1>9, <1>10
  <2>2. PICK k \in Nat : k = Len(h) BY <1>6
  <2>3. PICK m \in Nat : m = Len(t) BY <1>6
  <2>4. 0 < k BY <2>1, <2>2
  <2>5. m < k + m BY <2>4
  <2> QED BY <1>6, <2>2, <2>3, <2>5
<1>13. HeaderIsAt(pos, a, b, s, t)
  BY <1>1, <1>6, <1>7, <1>8, <1>9, <1>10, <1>11, <1>12 DEF h, HeaderIsAt
<1> QED BY <1>13

\* A mark before w and t.
MarkIsAt(pos, a, w, t) ==
  /\ IntAt(pos) = a /\ pos < After(pos) /\ After(pos) \in Nat
  /\ Holds(After(pos), w \o t)
  /\ pos + Len((EncodedInt(a) \o w) \o t) = After(pos) + Len(w \o t)
  /\ Len(w \o t) \in Nat /\ Len(w \o t) < Len((EncodedInt(a) \o w) \o t)

LEMMA MarkFirst ==
  ASSUME NEW pos \in Nat, NEW a \in 0..GLME_MAP, NEW w \in Seq(Byte), NEW t \in Seq(Byte),
         Readable, Holds(pos, (EncodedInt(a) \o w) \o t)
  PROVE  MarkIsAt(pos, a, w, t)
<1>1. EncodedInt(a) \in Seq(Byte) BY NumeralMark DEF Numeral
<1>2. (EncodedInt(a) \o w) \o t = EncodedInt(a) \o (w \o t)
  <2>1. Associates(EncodedInt(a), w, t) BY <1>1, Associative
  <2> QED BY <2>1 DEF Associates
<1>3. PICK u \in Seq(Byte) : u = w \o t BY ConcatType
<1>4. Holds(pos, EncodedInt(a) \o u) BY <1>2, <1>3
<1>5. /\ IntAt(pos) = a /\ pos < After(pos) /\ After(pos) \in Nat /\ Holds(After(pos), u)
      /\ Len(u) \in Nat
      /\ pos + Len(EncodedInt(a) \o u) = After(pos) + Len(u)
      /\ Len(EncodedInt(a) \o u) = Len(EncodedInt(a)) + Len(u)
      /\ Len(EncodedInt(a)) \in Nat /\ After(pos) = pos + Len(EncodedInt(a))
  BY <1>4, MarkAt
<1>6. Len(u) < Len(EncodedInt(a) \o u) BY <1>5
<1> QED BY <1>2, <1>3, <1>5, <1>6 DEF MarkIsAt

DictIsAt(pos, a, b, c, s, t) ==
  /\ IntAt(pos) = a /\ pos < After(pos) /\ After(pos) \in Nat
  /\ Holds(After(pos), Wires(Header(<<b, c>>, s)) \o t)
  /\ pos + Len(Wires(Header(<<a, b, c>>, s)) \o t)
       = After(pos) + Len(Wires(Header(<<b, c>>, s)) \o t)
  /\ Len(Wires(Header(<<b, c>>, s)) \o t) \in Nat
  /\ Len(Wires(Header(<<b, c>>, s)) \o t) < Len(Wires(Header(<<a, b, c>>, s)) \o t)

LEMMA DictAt ==
  ASSUME NEW pos \in Nat, NEW a \in 0..GLME_MAP, NEW b \in 0..GLME_MAP, NEW c \in 0..GLME_MAP,
         NEW S, NEW s \in Short(S),
         NEW t \in Seq(Byte), Readable, Holds(pos, Wires(Header(<<a, b, c>>, s)) \o t)
  PROVE  DictIsAt(pos, a, b, c, s, t)
<1> DEFINE w == Wires(Header(<<b, c>>, s))
<1>1. Wires(Header(<<b, c>>, s)) = EncodedInt(b) \o (EncodedInt(c) \o EncodedUint(Len(s)))
  BY HeaderWires
<1>2. MarkBefore(a, b, c, s) BY HeaderThree
<1>3. /\ EncodedInt(a) \in Seq(Byte) /\ EncodedInt(b) \in Seq(Byte)
      /\ EncodedInt(c) \in Seq(Byte) /\ EncodedUint(Len(s)) \in Seq(Byte)
  BY NumeralMark, NumeralLength DEF Numeral
<1>4. EncodedInt(c) \o EncodedUint(Len(s)) \in Seq(Byte) BY <1>3, ConcatType
<1>5. w \in Seq(Byte) BY <1>1, <1>3, <1>4, ConcatType
<1>6. Wires(Header(<<a, b, c>>, s)) = EncodedInt(a) \o w BY <1>2 DEF MarkBefore
<1> HIDE DEF w
<1>7. MarkIsAt(pos, a, w, t) BY <1>3, <1>5, <1>6, MarkFirst
<1> QED BY <1>6, <1>7 DEF MarkIsAt, DictIsAt, w

\* What decodeElement does behind each mark.
LEMMA ReadByMark ==
  ASSUME NEW pos, NEW typecode, NEW reader
  PROVE  /\ IntAt(pos) = GLME_INT =>
              ReadWith(pos, typecode, reader) = Typed("int", IntReader[After(pos)])
         /\ IntAt(pos) = GLME_FLOAT =>
              ReadWith(pos, typecode, reader) = Typed("float", FloatReader[After(pos)])
         /\ IntAt(pos) = GLME_BOOLEAN =>
              ReadWith(pos, typecode, reader)
                = Returned(<<"bool", UintReader[After(pos)].v # 0>>, After(After(pos)))
         /\ IntAt(pos) = GLME_VECTOR =>
              ReadWith(pos, typecode, reader) = Typed("bytes", ReadBytes(After(pos)))
         /\ IntAt(pos) = GLME_STRING =>
              ReadWith(pos, typecode, reader) = Typed("str", ReadBytes(After(pos)))
         /\ IntAt(pos) = GLME_ARRAY =>
              ReadWith(pos, typecode, reader) = ReadArray(After(pos), typecode, reader)
         /\ IntAt(pos) = GLME_MAP =>
              ReadWith(pos, typecode, reader) = ReadDict(After(pos), reader)
<1> DEFINE m == IntAt(pos)
<1>1. /\ GLME_INT = 3 /\ GLME_FLOAT = 4 /\ GLME_BOOLEAN = 1 /\ GLME_VECTOR = 5
      /\ GLME_STRING = 6 /\ GLME_ARRAY = 10 /\ GLME_MAP = 11
  BY DEF GLME_INT, GLME_FLOAT, GLME_BOOLEAN, GLME_VECTOR, GLME_STRING, GLME_ARRAY, GLME_MAP
<1> HIDE DEF m
<1> QED BY <1>1 DEF ReadWith, m

LEMMA TypedIs ==
  ASSUME NEW type, NEW r, NEW v, NEW to, r = Returned(v, to)
  PROVE  Typed(type, r) = Returned(<<type, v>>, to)
BY ReturnedIs DEF Typed

LEMMA TypedRaised ==
  ASSUME NEW type, NEW r, NEW lo, NEW hi, FailsAt(r, lo, hi)
  PROVE  FailsAt(Typed(type, r), lo, hi)
BY Zenon DEF Typed, FailsAt

LEMMA SimpleWire ==
  ASSUME NEW e \in SimpleElements
  PROVE  WireOf(e) = SimpleBytes(e)
<1>1. e \in Elements /\ IsSimple(e) BY DEF SimpleElements
<1>2. Program[e] = <<Simple(e)>> BY <1>1, ProgramIs, StepsAre
<1>3. Simple(e) \in StepSet BY DEF StepSet
<1>4. Wires(<<Simple(e)>>) = Wire(Simple(e)) BY <1>3, WiresOne
<1>5. Wire(Simple(e)) = SimpleBytes(e) BY DEF Wire, Simple
<1> QED BY <1>2, <1>4, <1>5 DEF WireOf

\* A number, a Boolean or bytes are read as they were written.
LEMMA ReadSimple ==
  ASSUME NEW e \in SimpleElements, NEW pos, Readable, Stands(e, pos), NEW typecode, NEW reader
  PROVE  ReadWith(pos, typecode, reader) = Returned(e, pos + Len(WireOf(e)))
<1> DEFINE v == Content(e)
<1> DEFINE t == IF IsNumber(e) THEN NumberOf(e) ELSE VectorBytes(v)
<1> DEFINE at == After(pos)
<1>1. e \in Elements /\ IsSimple(e) BY DEF SimpleElements
<1>2. t \in Seq(Byte) /\ MarkOf(e) \in 0..GLME_MAP BY SimpleIs, VectorBytesType DEF Numeral
<1>3. WireOf(e) = EncodedInt(MarkOf(e)) \o t BY SimpleWire DEF SimpleBytes
<1>4. pos \in Nat /\ Holds(pos, WireOf(e)) BY DEF Stands
<1> HIDE DEF t
<1>5. /\ IntAt(pos) = MarkOf(e) /\ at \in Nat /\ Holds(at, t) /\ Len(t) \in Nat
      /\ pos + Len(WireOf(e)) = at + Len(t)
  <2>1. PICK m \in 0..GLME_MAP : m = MarkOf(e) BY <1>2
  <2>2. Holds(pos, EncodedInt(m) \o t) BY <1>3, <1>4, <2>1
  <2>3. /\ IntAt(pos) = m /\ After(pos) \in Nat /\ Holds(After(pos), t) /\ Len(t) \in Nat
        /\ pos + Len(EncodedInt(m) \o t) = After(pos) + Len(t)
    BY <1>2, <1>4, <2>2, MarkAt
  <2> QED BY <1>3, <2>1, <2>3
<1>6. e = <<Type(e), v>> BY <1>1, ContentType
<1> HIDE DEF at
<1>7. CASE Type(e) = "int"
  <2>1. t = EncodedInt(v) /\ v \in Signed /\ MarkOf(e) = GLME_INT
    BY <1>1, <1>7, ContentType DEF t, IsNumber, NumberOf, MarkOf
  <2>2. IntReader[at] = Returned(v, at + Len(t)) BY <1>5, <2>1, IntIs DEF IntReader
  <2>3. ReadWith(pos, typecode, reader) = Typed("int", IntReader[at]) BY <1>5, <2>1, ReadByMark DEF at
  <2>4. Typed("int", IntReader[at]) = Returned(<<"int", v>>, at + Len(t)) BY <2>2, TypedIs
  <2> QED BY <1>5, <1>6, <1>7, <2>3, <2>4
<1>8. CASE Type(e) = "float"
  <2>1. t = EncodedDouble(v) /\ v \in Unsigned /\ MarkOf(e) = GLME_FLOAT
    BY <1>1, <1>8, ContentType DEF t, IsNumber, NumberOf, MarkOf
  <2>2. FloatReader[at] = Returned(v, at + Len(t)) BY <1>5, <2>1, FloatIs DEF FloatReader
  <2>3. ReadWith(pos, typecode, reader) = Typed("float", FloatReader[at])
    BY <1>5, <2>1, ReadByMark DEF at
  <2>4. Typed("float", FloatReader[at]) = Returned(<<"float", v>>, at + Len(t)) BY <2>2, TypedIs
  <2> QED BY <1>5, <1>6, <1>8, <2>3, <2>4
<1>9. CASE Type(e) = "bool"
  <2> DEFINE u == IF v THEN 1 ELSE 0
  <2>1. t = EncodedUint(u) /\ v \in BOOLEAN /\ MarkOf(e) = GLME_BOOLEAN
    BY <1>1, <1>9, ContentType DEF t, IsNumber, NumberOf, MarkOf
  <2>2. u \in Unsigned BY PowerAll DEF Unsigned
  <2>3. (u # 0) = v
    <3>1. CASE v = TRUE
      <4>1. u = 1 BY <3>1, Zenon
      <4> HIDE DEF u
      <4>2. (u # 0) = TRUE BY <4>1
      <4> QED BY <3>1, <4>2, Zenon
    <3>2. CASE v = FALSE
      <4>1. u = 0 BY <3>2, Zenon
      <4> HIDE DEF u
      <4>2. (u # 0) = FALSE BY <4>1
      <4> QED BY <3>2, <4>2, Zenon
    <3> QED BY <2>1, <3>1, <3>2
  <2> HIDE DEF u
  <2>4. DecodedUint(From(at)) = u /\ After(at) = at + Len(t) BY <1>5, <2>1, <2>2, UintAt
  <2>5. UintReader[at].v = u BY <1>5, <2>4 DEF UintReader, Returned
  <2>6. ReadWith(pos, typecode, reader) = Returned(<<"bool", UintReader[at].v # 0>>, After(at))
    BY <1>5, <2>1, ReadByMark DEF at
  <2>7. (UintReader[at].v # 0) = v BY <2>3, <2>5
  <2>8. CASE v = TRUE
    <3>1. (UintReader[at].v # 0) = TRUE BY <2>7, <2>8
    <3>2. ReadWith(pos, typecode, reader) = Returned(<<"bool", TRUE>>, After(at)) BY <2>6, <3>1, Zenon
    <3>3. e = <<"bool", TRUE>> BY <1>6, <1>9, <2>8
    <3> QED BY <1>5, <2>4, <3>2, <3>3
  <2>9. CASE v = FALSE
    <3>1. (UintReader[at].v # 0) = FALSE BY <2>7, <2>9
    <3>2. ReadWith(pos, typecode, reader) = Returned(<<"bool", FALSE>>, After(at)) BY <2>6, <3>1, Zenon
    <3>3. e = <<"bool", FALSE>> BY <1>6, <1>9, <2>9
    <3> QED BY <1>5, <2>4, <3>2, <3>3
  <2> QED BY <2>1, <2>8, <2>9
<1>10. CASE Type(e) = "str"
  <2>1. t = VectorBytes(v) /\ v \in Sendable /\ MarkOf(e) = GLME_STRING
    BY <1>1, <1>10, ContentType DEF t, IsNumber, NumberOf, MarkOf
  <2>2. ReadBytes(at) = Returned(v, at + Len(t)) BY <1>5, <2>1, BytesAt
  <2>3. ReadWith(pos, typecode, reader) = Typed("str", ReadBytes(at))
    BY <1>5, <2>1, ReadByMark DEF at
  <2>4. Typed("str", ReadBytes(at)) = Returned(<<"str", v>>, at + Len(t)) BY <2>2, TypedIs
  <2> QED BY <1>5, <1>6, <1>10, <2>3, <2>4
<1>11. CASE Type(e) = "bytes"
  <2>1. t = VectorBytes(v) /\ v \in Sendable /\ MarkOf(e) = GLME_VECTOR
    BY <1>1, <1>11, ContentType DEF t, IsNumber, NumberOf, MarkOf
  <2>2. ReadBytes(at) = Returned(v, at + Len(t)) BY <1>5, <2>1, BytesAt
  <2>3. ReadWith(pos, typecode, reader) = Typed("bytes", ReadBytes(at))
    BY <1>5, <2>1, ReadByMark DEF at
  <2>4. Typed("bytes", ReadBytes(at)) = Returned(<<"bytes", v>>, at + Len(t)) BY <2>2, TypedIs
  <2> QED BY <1>5, <1>6, <1>11, <2>3, <2>4
<1> QED BY <1>1, <1>7, <1>8, <1>9, <1>10, <1>11 DEF IsSimple, IsNumber

\* Numbers one after the other.
NumberSteps(s, f) == [i \in DOMAIN s |-> Number(f[s[i]])]

Spells(f, S) == \A v \in S : f[v] \in Numeral
Understands(reader, f, S) ==
  \A v \in S, p \in Nat : Holds(p, f[v]) => reader[p] = Returned(v, p + Len(f[v]))
NumbersAre(ws, s, f) ==
  /\ ws = [i \in DOMAIN s |-> f[s[i]]] /\ ws \in Seq(Seq(Byte)) /\ Len(ws) = Len(s)
  /\ Wires(NumberSteps(s, f)) = FlattenSeq(ws)

LEMMA NumbersWires ==
  ASSUME NEW S, NEW s \in Short(S), NEW f, Spells(f, S)
  PROVE  \E ws : NumbersAre(ws, s, f)
<1> DEFINE ws == [i \in DOMAIN s |-> f[s[i]]]
<1> DEFINE p == NumberSteps(s, f)
<1>1. s \in Seq(S) /\ DOMAIN s = 1..Len(s) /\ Len(s) \in Nat BY LenProperties DEF Short
<1>2. \A i \in 1..Len(s) : f[s[i]] \in Numeral BY <1>1, ElementOfSeq DEF Spells
<1>3. ws \in Seq(Seq(Byte)) /\ Len(ws) = Len(s)
  <2>1. \A i \in 1..Len(s) : f[s[i]] \in Seq(Byte) BY <1>2 DEF Numeral
  <2>2. ws = [i \in 1..Len(s) |-> f[s[i]]] BY <1>1
  <2> QED BY <1>1, <2>1, <2>2
<1>4. DOMAIN p = DOMAIN s BY DEF NumberSteps
<1>5. \A i \in DOMAIN s : p[i] = Number(f[s[i]]) BY DEF NumberSteps
<1>6. \A i \in DOMAIN s : Wire(p[i]) = f[s[i]] BY <1>1, <1>2, <1>5, NumberWire
<1>7. [i \in DOMAIN p |-> Wire(p[i])] = ws BY <1>4, <1>6
<1>8. NumbersAre(ws, s, f) BY <1>3, <1>7 DEF Wires, NumbersAre
<1> HIDE DEF ws
<1> QED BY <1>8

LEMMA ReadNumbers ==
  ASSUME NEW S, NEW s \in Short(S), NEW f, Spells(f, S), Readable,
         NEW reader, Understands(reader, f, S),
         NEW pos \in Nat, Holds(pos, Wires(NumberSteps(s, f)))
  PROVE  Many(Len(s), pos, reader) = Returned(s, pos + Len(Wires(NumberSteps(s, f))))
<1>1. PICK ws : NumbersAre(ws, s, f) BY NumbersWires
<1>2. ws \in Seq(Seq(Byte)) /\ Len(ws) = Len(s) /\ Wires(NumberSteps(s, f)) = FlattenSeq(ws)
  BY <1>1 DEF NumbersAre
<1>3. s \in Seq(S) /\ DOMAIN s = 1..Len(s) /\ Len(s) \in Nat BY LenProperties DEF Short
<1>4. PICK at : Sections(pos, ws, at) BY <1>2, SectionsOf
<1>5. ASSUME NEW i \in 1..Len(s) PROVE reader[at[i - 1]] = Returned(s[i], at[i])
  <2>1. i - 1 \in 0..Len(ws) /\ i \in 1..Len(ws) BY <1>2, <1>3
  <2>2. at[i - 1] \in Nat /\ Holds(at[i - 1], ws[i]) /\ at[i] = at[i - 1] + Len(ws[i])
    BY <1>4, <2>1 DEF Sections
  <2>3. ws[i] = f[s[i]] /\ s[i] \in S BY <1>1, <1>3, ElementOfSeq DEF NumbersAre
  <2> QED BY <2>2, <2>3 DEF Understands
<1>6. ReadsAll(Len(s), reader, s, at) \/ ReadsNotAll(Len(s), reader, at, 0, 0)
  <2>1. ReadsEach(Len(s), reader, s, at, 0, 0) BY <1>5 DEF ReadsEach
  <2> QED BY <1>3, <2>1, ManyReads
<1>7. ~ \E i \in 1..Len(s) : FailsAt(reader[at[i - 1]], 0, 0)
  BY <1>5, ReturnedIs DEF FailsAt
<1>8. at[0] = pos /\ at[Len(s)] = pos + Len(Wires(NumberSteps(s, f))) BY <1>2, <1>4 DEF Sections
<1> QED BY <1>6, <1>7, <1>8 DEF ReadsAll, ReadsNotAll

\* The three kinds of arrays of numbers.
LEMMA ReadInts ==
  ASSUME NEW s \in Short(Signed), Readable, NEW pos \in Nat, Holds(pos, Wires(IntSteps(s)))
  PROVE  Many(Len(s), pos, IntReader) = Returned(s, pos + Len(Wires(IntSteps(s))))
<1>1. PICK f : \A v \in Signed : f[v] = EncodedInt(v)
  <2>1. \A v \in Signed : [x \in Signed |-> EncodedInt(x)][v] = EncodedInt(v) OBVIOUS
  <2> QED BY <2>1
<1>2. Spells(f, Signed) BY <1>1, NumeralInt DEF Spells
<1>3. IntSteps(s) = NumberSteps(s, f)
  <2>1. s \in Seq(Signed) /\ DOMAIN s = 1..Len(s) BY LenProperties DEF Short
  <2>2. \A i \in DOMAIN s : f[s[i]] = EncodedInt(s[i]) BY <1>1, <2>1, ElementOfSeq
  <2> QED BY <2>2 DEF IntSteps, NumberSteps
<1>4. ASSUME NEW v \in Signed, NEW p \in Nat, Holds(p, f[v])
      PROVE  IntReader[p] = Returned(v, p + Len(f[v]))
  <2>1. Holds(p, EncodedInt(v)) BY <1>1, <1>4
  <2>2. IntAt(p) = v /\ After(p) = p + Len(EncodedInt(v)) BY <2>1, IntIs
  <2>3. IntReader[p] = Returned(IntAt(p), After(p)) BY DEF IntReader
  <2> QED BY <1>1, <2>2, <2>3
<1>5. Understands(IntReader, f, Signed) BY <1>4 DEF Understands
<1> QED BY <1>2, <1>3, <1>5, ReadNumbers

LEMMA ReadUints ==
  ASSUME NEW s \in Short(Byte), Readable, NEW pos \in Nat, Holds(pos, Wires(UintSteps(s)))
  PROVE  Many(Len(s), pos, UintReader) = Returned(s, pos + Len(Wires(UintSteps(s))))
<1>1. PICK f : \A v \in Byte : f[v] = EncodedUint(v)
  <2>1. \A v \in Byte : [x \in Byte |-> EncodedUint(x)][v] = EncodedUint(v) OBVIOUS
  <2> QED BY <2>1
<1>2. Spells(f, Byte) BY <1>1, NumeralUint, ByteUnsigned DEF Spells
<1>3. UintSteps(s) = NumberSteps(s, f)
  <2>1. s \in Seq(Byte) /\ DOMAIN s = 1..Len(s) BY LenProperties DEF Short
  <2>2. \A i \in DOMAIN s : f[s[i]] = EncodedUint(s[i]) BY <1>1, <2>1, ElementOfSeq
  <2> QED BY <2>2 DEF UintSteps, NumberSteps
<1>4. ASSUME NEW v \in Byte, NEW p \in Nat, Holds(p, f[v])
      PROVE  UintReader[p] = Returned(v, p + Len(f[v]))
  <2>1. Holds(p, EncodedUint(v)) /\ v \in Unsigned BY <1>1, <1>4, ByteUnsigned
  <2>2. DecodedUint(From(p)) = v /\ After(p) = p + Len(EncodedUint(v)) BY <2>1, UintAt
  <2>3. UintReader[p] = Returned(DecodedUint(From(p)), After(p)) BY DEF UintReader
  <2> QED BY <1>1, <2>2, <2>3
<1>5. Understands(UintReader, f, Byte) BY <1>4 DEF Understands
<1> QED BY <1>2, <1>3, <1>5, ReadNumbers

LEMMA ReadFloats ==
  ASSUME NEW s \in Short(Unsigned), Readable, NEW pos \in Nat, Holds(pos, Wires(DoubleSteps(s)))
  PROVE  Many(Len(s), pos, FloatReader) = Returned(s, pos + Len(Wires(DoubleSteps(s))))
<1>1. PICK f : \A v \in Unsigned : f[v] = EncodedDouble(v)
  <2>1. \A v \in Unsigned : [x \in Unsigned |-> EncodedDouble(x)][v] = EncodedDouble(v) OBVIOUS
  <2> QED BY <2>1
<1>2. Spells(f, Unsigned) BY <1>1, NumeralDouble DEF Spells
<1>3. DoubleSteps(s) = NumberSteps(s, f)
  <2>1. s \in Seq(Unsigned) /\ DOMAIN s = 1..Len(s) BY LenProperties DEF Short
  <2>2. \A i \in DOMAIN s : f[s[i]] = EncodedDouble(s[i]) BY <1>1, <2>1, ElementOfSeq
  <2> QED BY <2>2 DEF DoubleSteps, NumberSteps
<1>4. ASSUME NEW v \in Unsigned, NEW p \in Nat, Holds(p, f[v])
      PROVE  FloatReader[p] = Returned(v, p + Len(f[v]))
  <2>1. Holds(p, EncodedDouble(v)) BY <1>1, <1>4
  <2>2. DecodedDouble(From(p)) = v /\ After(p) = p + Len(EncodedDouble(v)) BY <2>1, FloatIs
  <2>3. FloatReader[p] = Returned(DecodedDouble(From(p)), After(p)) BY DEF FloatReader
  <2> QED BY <1>1, <2>2, <2>3
<1>5. Understands(FloatReader, f, Unsigned) BY <1>4 DEF Understands
<1> QED BY <1>2, <1>3, <1>5, ReadNumbers

\* An array: its header and its parts.
IsArray(e, k, s, steps) == Program[e] = Header(<<GLME_ARRAY, k>>, s) \o steps
ArrayStands(e, pos, k, s, steps) ==
  /\ IntAt(pos) = GLME_ARRAY /\ IntAt(After(pos)) = k
  /\ DecodedUint(From(After(After(pos)))) = Len(s) /\ Len(s) \in Nat
  /\ pos \in Nat /\ After(pos) \in Nat /\ After(After(After(pos))) \in Nat
  /\ pos + Len(WireOf(e)) \in Nat
  /\ After(pos) \in pos..(pos + Len(WireOf(e)))
  /\ After(After(After(pos))) \in pos..(pos + Len(WireOf(e)))
  /\ Holds(After(After(After(pos))), Wires(steps)) /\ Regular(steps)
  /\ After(After(After(pos))) + Len(Wires(steps)) = pos + Len(WireOf(e))
  /\ Len(Wires(steps)) \in Nat /\ Len(WireOf(e)) \in Nat /\ Len(Wires(steps)) < Len(WireOf(e))

LEMMA ArrayWithin ==
  ASSUME NEW e \in Elements, NEW k \in 0..GLME_MAP, NEW S, NEW s \in Short(S),
         NEW steps \in Seq(StepSet), IsArray(e, k, s, steps), Readable, NEW pos, Stands(e, pos)
  PROVE  ArrayStands(e, pos, k, s, steps)
<1>1. GLME_ARRAY \in 0..GLME_MAP BY DEF GLME_ARRAY, GLME_MAP
<1>2. Header(<<GLME_ARRAY, k>>, s) \in Seq(StepSet)
  <2>1. <<GLME_ARRAY, k>> \in Seq(0..GLME_MAP) BY <1>1
  <2> QED BY <2>1, HeaderType
<1>3. WireOf(e) = Wires(Header(<<GLME_ARRAY, k>>, s)) \o Wires(steps)
  BY <1>2, WiresConcat DEF IsArray, WireOf
<1>4. Regular(steps) BY <1>2, RegularConcat DEF IsArray, Stands
<1>5. pos \in Nat /\ Holds(pos, WireOf(e)) /\ Len(WireOf(e)) \in Nat BY WireOfType DEF Stands
<1>6. PICK t \in Seq(Byte) : t = Wires(steps) BY WiresOf
<1>7. Holds(pos, Wires(Header(<<GLME_ARRAY, k>>, s)) \o t) BY <1>3, <1>5, <1>6
<1>8. HeaderIsAt(pos, GLME_ARRAY, k, s, t) BY <1>1, <1>5, <1>7, ArrayAt
<1>9. /\ IntAt(pos) = GLME_ARRAY /\ IntAt(After(pos)) = k
      /\ DecodedUint(From(After(After(pos)))) = Len(s)
      /\ After(pos) \in Nat /\ After(After(pos)) \in Nat /\ After(After(After(pos))) \in Nat
      /\ pos < After(pos) /\ After(pos) < After(After(pos))
      /\ After(After(pos)) < After(After(After(pos)))
      /\ Holds(After(After(After(pos))), t) /\ Len(t) \in Nat
      /\ pos + Len(WireOf(e)) = After(After(After(pos))) + Len(t)
      /\ Len(t) < Len(WireOf(e))
  BY <1>3, <1>6, <1>8 DEF HeaderIsAt
<1>10. Len(s) \in Nat BY LenProperties DEF Short
<1>11. /\ pos + Len(WireOf(e)) \in Nat
       /\ After(pos) \in pos..(pos + Len(WireOf(e)))
       /\ After(After(After(pos))) \in pos..(pos + Len(WireOf(e)))
  BY <1>5, <1>9
<1> QED BY <1>4, <1>5, <1>6, <1>9, <1>10, <1>11 DEF ArrayStands

LEMMA ReadArrayBy ==
  ASSUME NEW pos, NEW typecode, NEW reader
  PROVE  /\ IntAt(pos) = GLME_INT =>
              ReadArray(pos, typecode, reader)
                = IF typecode = ""
                  THEN Typed("ints", Many(DecodedUint(From(After(pos))), After(After(pos)), IntReader))
                  ELSE Raised(pos)
         /\ IntAt(pos) = GLME_UINT =>
              ReadArray(pos, typecode, reader)
                = IF typecode = "B"
                  THEN Typed("uints", Many(DecodedUint(From(After(pos))), After(After(pos)), UintReader))
                  ELSE Raised(After(After(pos)))
         /\ IntAt(pos) = GLME_FLOAT =>
              ReadArray(pos, typecode, reader)
                = IF typecode = ""
                  THEN Typed("floats", Many(DecodedUint(From(After(pos))), After(After(pos)), FloatReader))
                  ELSE Raised(pos)
         /\ IntAt(pos) = GLME_ANY =>
              ReadArray(pos, typecode, reader)
                = Typed("list", Many(DecodedUint(From(After(pos))), After(After(pos)), reader))
<1> DEFINE m == IntAt(pos)
<1> DEFINE n == DecodedUint(From(After(pos)))
<1> DEFINE at == After(After(pos))
<1> DEFINE ints == IF typecode = "" THEN Typed("ints", Many(n, at, IntReader)) ELSE Raised(pos)
<1> DEFINE uints == IF typecode = "B" THEN Typed("uints", Many(n, at, UintReader)) ELSE Raised(at)
<1> DEFINE floats == IF typecode = "" THEN Typed("floats", Many(n, at, FloatReader)) ELSE Raised(pos)
<1> DEFINE list == Typed("list", Many(n, at, reader))
<1>1. GLME_INT = 3 /\ GLME_UINT = 2 /\ GLME_FLOAT = 4 /\ GLME_ANY = 0
  BY DEF GLME_INT, GLME_UINT, GLME_FLOAT, GLME_ANY
<1>2. ReadArray(pos, typecode, reader)
        = CASE m = GLME_INT -> ints
            [] m = GLME_UINT -> uints
            [] m = GLME_FLOAT -> floats
            [] m = GLME_ANY -> list
  BY Zenon DEF ReadArray
<1> HIDE DEF m, ints, uints, floats, list
<1>3. /\ m = GLME_INT => ReadArray(pos, typecode, reader) = ints
      /\ m = GLME_UINT => ReadArray(pos, typecode, reader) = uints
      /\ m = GLME_FLOAT => ReadArray(pos, typecode, reader) = floats
      /\ m = GLME_ANY => ReadArray(pos, typecode, reader) = list
  BY <1>1, <1>2
<1> QED BY <1>3, Zenon DEF m, ints, uints, floats, list

LEMMA ReadListBy ==
  ASSUME NEW pos, NEW typecode, NEW reader, IntAt(pos) = GLME_ANY
  PROVE  ReadArray(pos, typecode, reader)
           = Typed("list", Many(DecodedUint(From(After(pos))), After(After(pos)), reader))
BY ReadArrayBy

LEMMA MarksAre ==
  /\ GLME_ANY \in 0..GLME_MAP /\ GLME_INT \in 0..GLME_MAP /\ GLME_UINT \in 0..GLME_MAP
  /\ GLME_FLOAT \in 0..GLME_MAP /\ GLME_STRING \in 0..GLME_MAP /\ GLME_ARRAY \in 0..GLME_MAP
  /\ GLME_MAP \in 0..GLME_MAP
BY DEF GLME_ANY, GLME_INT, GLME_UINT, GLME_FLOAT, GLME_STRING, GLME_ARRAY, GLME_MAP

LEMMA RaisedIs ==
  ASSUME NEW lo \in Nat, NEW hi \in Nat, NEW pos \in lo..hi
  PROVE  FailsAt(Raised(pos), lo, hi)
BY DEF FailsAt, Raised

\* An array of numbers is read with the typecode that suits it, and else not at all.
LEMMA ReadNumberArray ==
  ASSUME NEW e \in Elements, Type(e) \in {"ints", "uints", "floats"}, NEW pos, Readable,
         Stands(e, pos), NEW typecode \in {"", "B"}, NEW reader
  PROVE  Comes(ReadWith(pos, typecode, reader), e, typecode, pos)
<1> DEFINE v == Content(e)
<1> DEFINE at == After(pos)
<1> DEFINE first == After(After(at))
<1> DEFINE end == pos + Len(WireOf(e))
<1> DEFINE r == ReadWith(pos, typecode, reader)
<1>1. Suits(e, typecode) <=> typecode = (IF Type(e) = "uints" THEN "B" ELSE "")
  <2>1. Parts(e) = {} BY PartsAre
  <2> QED BY <2>1 DEF Suits
<1>2. e = <<Type(e), v>> BY ContentType
<1>3. CASE Type(e) = "ints"
  <2>1. v \in Short(Signed) /\ IntSteps(v) \in Seq(StepSet) BY <1>3, ContentType, ArrayStepsType
  <2>2. GLME_INT \in 0..GLME_MAP BY MarksAre
  <2>3. IsArray(e, GLME_INT, v, IntSteps(v)) BY <1>3, ProgramIs, StepsAre DEF IsArray
  <2>4. ArrayStands(e, pos, GLME_INT, v, IntSteps(v)) BY <2>1, <2>2, <2>3, ArrayWithin
  <2>5. Many(Len(v), first, IntReader) = Returned(v, end)
    <3>1. first \in Nat /\ Holds(first, Wires(IntSteps(v))) /\ first + Len(Wires(IntSteps(v))) = end
      BY <2>4 DEF ArrayStands
    <3> HIDE DEF first, v, end
    <3>2. v \in Short(Signed) BY <2>1
    <3>3. Many(Len(v), first, IntReader) = Returned(v, first + Len(Wires(IntSteps(v))))
      BY <3>1, <3>2, ReadInts
    <3> QED BY <3>1, <3>3
  <2>6. r = ReadArray(at, typecode, reader) BY <2>4, ReadByMark DEF ArrayStands
  <2>7. CASE typecode = ""
    <3>1. r = Typed("ints", Many(Len(v), first, IntReader))
      BY <2>4, <2>6, <2>7, ReadArrayBy DEF ArrayStands
    <3>2. r = Returned(<<"ints", v>>, end)
      <4> HIDE DEF first, v, end, r
      <4> QED BY <2>5, <3>1, TypedIs
    <3> QED BY <1>1, <1>2, <1>3, <2>7, <3>2 DEF Comes
  <2>8. CASE typecode = "B"
    <3>1. r = Raised(at) BY <2>4, <2>6, <2>8, ReadArrayBy DEF ArrayStands
    <3>2. at \in pos..end /\ pos \in Nat /\ end \in Nat BY <2>4 DEF ArrayStands
    <3>3. FailsAt(r, pos, end) BY <3>1, <3>2, RaisedIs
    <3> QED BY <1>1, <1>3, <2>8, <3>3 DEF Comes
  <2> QED BY <2>7, <2>8
<1>4. CASE Type(e) = "floats"
  <2>1. v \in Short(Unsigned) /\ DoubleSteps(v) \in Seq(StepSet) BY <1>4, ContentType, ArrayStepsType
  <2>2. GLME_FLOAT \in 0..GLME_MAP BY MarksAre
  <2>3. IsArray(e, GLME_FLOAT, v, DoubleSteps(v)) BY <1>4, ProgramIs, StepsAre DEF IsArray
  <2>4. ArrayStands(e, pos, GLME_FLOAT, v, DoubleSteps(v)) BY <2>1, <2>2, <2>3, ArrayWithin
  <2>5. Many(Len(v), first, FloatReader) = Returned(v, end)
    <3>1. first \in Nat /\ Holds(first, Wires(DoubleSteps(v))) /\ first + Len(Wires(DoubleSteps(v))) = end
      BY <2>4 DEF ArrayStands
    <3> HIDE DEF first, v, end
    <3>2. v \in Short(Unsigned) BY <2>1
    <3>3. Many(Len(v), first, FloatReader) = Returned(v, first + Len(Wires(DoubleSteps(v))))
      BY <3>1, <3>2, ReadFloats
    <3> QED BY <3>1, <3>3
  <2>6. r = ReadArray(at, typecode, reader) BY <2>4, ReadByMark DEF ArrayStands
  <2>7. CASE typecode = ""
    <3>1. r = Typed("floats", Many(Len(v), first, FloatReader))
      BY <2>4, <2>6, <2>7, ReadArrayBy DEF ArrayStands
    <3>2. Typed("floats", Many(Len(v), first, FloatReader)) = Returned(<<"floats", v>>, end)
      <4> HIDE DEF first, v, end
      <4>1. PICK q : q = Many(Len(v), first, FloatReader) OBVIOUS
      <4>2. q = Returned(v, end) BY <2>5, <4>1
      <4>3. Typed("floats", q) = Returned(<<"floats", v>>, end) BY ONLY <4>2, TypedIs, Zenon
      <4> QED BY <4>1, <4>3
    <3>3. r = Returned(<<"floats", v>>, end) BY <3>1, <3>2
    <3> QED BY <1>1, <1>2, <1>4, <2>7, <3>3 DEF Comes
  <2>8. CASE typecode = "B"
    <3>1. r = Raised(at) BY <2>4, <2>6, <2>8, ReadArrayBy DEF ArrayStands
    <3>2. at \in pos..end /\ pos \in Nat /\ end \in Nat BY <2>4 DEF ArrayStands
    <3>3. FailsAt(r, pos, end) BY <3>1, <3>2, RaisedIs
    <3> QED BY <1>1, <1>4, <2>8, <3>3 DEF Comes
  <2> QED BY <2>7, <2>8
<1>5. CASE Type(e) = "uints"
  <2>1. v \in Short(Byte) /\ UintSteps(v) \in Seq(StepSet) BY <1>5, ContentType, ArrayStepsType
  <2>2. GLME_UINT \in 0..GLME_MAP BY MarksAre
  <2>3. IsArray(e, GLME_UINT, v, UintSteps(v)) BY <1>5, ProgramIs, StepsAre DEF IsArray
  <2>4. ArrayStands(e, pos, GLME_UINT, v, UintSteps(v)) BY <2>1, <2>2, <2>3, ArrayWithin
  <2>5. Many(Len(v), first, UintReader) = Returned(v, end)
    <3>1. first \in Nat /\ Holds(first, Wires(UintSteps(v))) /\ first + Len(Wires(UintSteps(v))) = end
      BY <2>4 DEF ArrayStands
    <3> HIDE DEF first, v, end
    <3>2. v \in Short(Byte) BY <2>1
    <3>3. Many(Len(v), first, UintReader) = Returned(v, first + Len(Wires(UintSteps(v))))
      BY <3>1, <3>2, ReadUints
    <3> QED BY <3>1, <3>3
  <2>6. r = ReadArray(at, typecode, reader) BY <2>4, ReadByMark DEF ArrayStands
  <2>7. CASE typecode = "B"
    <3>1. r = Typed("uints", Many(Len(v), first, UintReader))
      BY <2>4, <2>6, <2>7, ReadArrayBy DEF ArrayStands
    <3>2. r = Returned(<<"uints", v>>, end)
      <4> HIDE DEF first, v, end, r
      <4> QED BY <2>5, <3>1, TypedIs
    <3> QED BY <1>1, <1>2, <1>5, <2>7, <3>2 DEF Comes
  <2>8. CASE typecode = ""
    <3>1. r = Raised(first) BY <2>4, <2>6, <2>8, ReadArrayBy DEF ArrayStands
    <3>2. first \in pos..end /\ pos \in Nat /\ end \in Nat BY <2>4 DEF ArrayStands
    <3>3. FailsAt(r, pos, end) BY <3>1, <3>2, RaisedIs
    <3> QED BY <1>1, <1>5, <2>8, <3>3 DEF Comes
  <2> QED BY <2>7, <2>8
<1> QED BY <1>3, <1>4, <1>5

\* Parts one after the other, of which those in K cannot be read.
PartsCome(reader, vs, at, K) ==
  \A i \in 1..Len(vs) : /\ i \in K => FailsAt(reader[at[i - 1]], at[i - 1], at[i])
                        /\ i \notin K => reader[at[i - 1]] = Returned(vs[i], at[i])

ManyComes(pos, reader, vs, ws, K) ==
  /\ (\A i \in 1..Len(vs) : i \notin K) =>
       Many(Len(vs), pos, reader) = Returned(vs, pos + Len(FlattenSeq(ws)))
  /\ (\E i \in 1..Len(vs) : i \in K) =>
       FailsAt(Many(Len(vs), pos, reader), pos, pos + Len(FlattenSeq(ws)))

LEMMA ManyParts ==
  ASSUME NEW S, NEW vs \in Seq(S), NEW ws, Len(ws) = Len(vs), NEW pos, NEW at, Sections(pos, ws, at),
         NEW reader, NEW K, PartsCome(reader, vs, at, K)
  PROVE  ManyComes(pos, reader, vs, ws, K)
<1> DEFINE end == pos + Len(FlattenSeq(ws))
<1> DEFINE many == Many(Len(vs), pos, reader)
<1>1. Len(vs) \in Nat BY LenProperties
<1>2. at[0] = pos /\ at[Len(vs)] = end BY DEF Sections
<1>3. \A k \in 0..Len(vs) : at[k] \in Nat /\ pos <= at[k] /\ at[k] <= end BY DEF Sections
<1>4. pos \in Nat /\ end \in Nat
  <2>1. 0 \in 0..Len(vs) /\ Len(vs) \in 0..Len(vs) BY <1>1
  <2> QED BY <1>2, <1>3, <2>1
<1> HIDE DEF end
<1>5. ASSUME NEW i \in 1..Len(vs), i \in K PROVE FailsAt(reader[at[i - 1]], pos, end)
  <2>1. i - 1 \in 0..Len(vs) /\ i \in 0..Len(vs) BY <1>1
  <2>2. at[i - 1] \in Nat /\ at[i] \in Nat /\ pos <= at[i - 1] /\ at[i] <= end BY <1>3, <2>1
  <2>3. FailsAt(reader[at[i - 1]], at[i - 1], at[i]) BY <1>5 DEF PartsCome
  <2> QED BY <1>4, <2>2, <2>3 DEF FailsAt
<1>6. ReadsEach(Len(vs), reader, vs, at, pos, end) BY <1>5 DEF ReadsEach, PartsCome
<1>7. ReadsAll(Len(vs), reader, vs, at) \/ ReadsNotAll(Len(vs), reader, at, pos, end)
  BY <1>1, <1>6, ManyReads
<1>8. ASSUME \A i \in 1..Len(vs) : i \notin K PROVE many = Returned(vs, end)
  <2>1. ASSUME NEW i \in 1..Len(vs) PROVE reader[at[i - 1]].ok
    <3>1. reader[at[i - 1]] = Returned(vs[i], at[i]) BY <1>8 DEF PartsCome
    <3> QED BY <3>1, ReturnedIs
  <2>2. ~ ReadsNotAll(Len(vs), reader, at, pos, end) BY <2>1 DEF ReadsNotAll, FailsAt
  <2> QED BY <1>2, <1>7, <2>2 DEF ReadsAll
<1>9. ASSUME NEW i \in 1..Len(vs), i \in K PROVE FailsAt(many, pos, end)
  <2>1. ~ reader[at[i - 1]].ok BY <1>5, <1>9 DEF FailsAt
  <2>2. ~ ReadsAll(Len(vs), reader, vs, at)
    <3> SUFFICES ASSUME ReadsAll(Len(vs), reader, vs, at) PROVE FALSE OBVIOUS
    <3>1. reader[at[i - 1]] = Returned(vs[i], at[i]) BY DEF ReadsAll
    <3> QED BY <2>1, <3>1, ReturnedIs
  <2> QED BY <1>2, <1>7, <2>2 DEF ReadsNotAll
<1> QED BY <1>8, <1>9 DEF ManyComes, end

\* Whoever reads the elements in e.
Knows(reader, e) ==
  \A x \in Parts(e), q \in Nat :
    Stands(x, q) /\ Len(WireOf(x)) < Len(WireOf(e)) => Comes(reader[q], x, "", q)

LEMMA KnowsIs ==
  ASSUME NEW reader, NEW e \in Elements, Knows(reader, e), NEW x \in Parts(e), NEW q \in Nat,
         Stands(x, q), Len(WireOf(x)) < Len(WireOf(e)), NEW to, to = q + Len(WireOf(x))
  PROVE  /\ HoldsUints(x) => FailsAt(reader[q], q, to)
         /\ ~ HoldsUints(x) => reader[q] = Returned(x, to)
<1>1. x \in Elements BY PartsAre DEF Shallower
<1>2. Comes(reader[q], x, "", q) BY DEF Knows
<1> QED BY <1>1, <1>2, SuitsPlain DEF Comes

\* A list is read when all elements in it are.
LEMMA ReadList ==
  ASSUME NEW e \in Elements, Type(e) = "list", NEW pos, Readable, Stands(e, pos),
         NEW typecode, NEW reader, Knows(reader, e)
  PROVE  Comes(ReadWith(pos, typecode, reader), e, typecode, pos)
<1>1. PICK s : s = Content(e) OBVIOUS
<1>2. s \in Short(Shallower(e)) /\ e = <<"list", s>> BY <1>1, ContentType
<1>3. s \in Seq(Shallower(e)) /\ DOMAIN s = 1..Len(s) /\ Len(s) \in Nat
  BY <1>2, LenProperties DEF Short
<1>4. PICK pp : pp = ListParts(s, Program) OBVIOUS
<1>5. pp \in Seq(Seq(StepSet))
  <2>1. \A x \in Shallower(e) : Program[x] \in Seq(StepSet) BY ProgramIs DEF Shallower
  <2> QED BY <1>1, <1>4, <2>1, PartsType
<1>6. FlattenSeq(pp) \in Seq(StepSet) BY <1>5, FlattenType
<1>7. IsArray(e, GLME_ANY, s, FlattenSeq(pp)) BY <1>1, <1>4, ProgramIs, StepsAre DEF IsArray
<1>8. ArrayStands(e, pos, GLME_ANY, s, FlattenSeq(pp)) BY <1>2, <1>6, <1>7, ArrayWithin, MarksAre
<1>9. PICK first \in Nat : first = After(After(After(pos))) BY <1>8 DEF ArrayStands
<1>10. PICK ws : ws = [i \in DOMAIN pp |-> Wires(pp[i])] OBVIOUS
<1>11. /\ ws \in Seq(Seq(Byte)) /\ Len(ws) = Len(pp) /\ Wires(FlattenSeq(pp)) = FlattenSeq(ws)
  BY <1>5, <1>10, WiresFlatten
<1>12. /\ Len(pp) = Len(s) /\ DOMAIN pp = 1..Len(s)
       /\ \A i \in 1..Len(s) : pp[i] = Program[s[i]]
  <2>1. pp = [i \in 1..Len(s) |-> Program[s[i]]] BY <1>3, <1>4 DEF ListParts
  <2>2. DOMAIN pp = 1..Len(pp) /\ Len(pp) \in Nat BY <1>5, LenProperties
  <2> QED BY <1>3, <2>1, <2>2
<1>13. \A i \in 1..Len(s) : ws[i] = WireOf(s[i]) BY <1>10, <1>12 DEF WireOf
<1>14. PICK at : Sections(first, ws, at) BY <1>8, <1>9, <1>11, SectionsOf DEF ArrayStands
<1> DEFINE K == {i \in 1..Len(s) : HoldsUints(s[i])}
<1>15. ASSUME NEW i \in 1..Len(s)
       PROVE  /\ s[i] \in Parts(e)
              /\ HoldsUints(s[i]) => FailsAt(reader[at[i - 1]], at[i - 1], at[i])
              /\ ~ HoldsUints(s[i]) => reader[at[i - 1]] = Returned(s[i], at[i])
  <2>1. s[i] \in Parts(e) BY <1>1, <1>3, PartsAre
  <2>2. i \in 1..Len(ws) /\ i - 1 \in 0..Len(ws) BY <1>3, <1>11, <1>12
  <2>3. /\ at[i - 1] \in Nat /\ at[i] = at[i - 1] + Len(ws[i]) /\ Holds(at[i - 1], ws[i])
        /\ Len(ws[i]) \in Nat /\ Len(ws[i]) <= Len(FlattenSeq(ws))
    BY <1>14, <2>2 DEF Sections
  <2>4. Regular(Program[s[i]])
    <3>1. i \in 1..Len(pp) /\ Regular(FlattenSeq(pp)) BY <1>8, <1>12 DEF ArrayStands
    <3>2. Regular(pp[i]) BY <1>5, <3>1, RegularFlatten
    <3> QED BY <1>12, <3>2
  <2>5. Stands(s[i], at[i - 1]) BY <1>13, <2>3, <2>4 DEF Stands
  <2>6. Len(WireOf(s[i])) < Len(WireOf(e))
    <3>1. /\ Len(FlattenSeq(ws)) < Len(WireOf(e)) /\ Len(FlattenSeq(ws)) \in Nat
          /\ Len(WireOf(e)) \in Nat
      BY <1>8, <1>11 DEF ArrayStands
    <3> QED BY <1>13, <2>3, <3>1
  <2>7. at[i] = at[i - 1] + Len(WireOf(s[i])) BY <1>13, <2>3
  <2> QED BY <2>1, <2>3, <2>5, <2>6, <2>7, KnowsIs
<1>16. PartsCome(reader, s, at, K) BY <1>15 DEF PartsCome
<1> HIDE DEF K
<1>17. ManyComes(first, reader, s, ws, K) BY <1>3, <1>11, <1>12, <1>14, <1>16, ManyParts
<1>18. PICK end \in Nat : end = pos + Len(WireOf(e)) /\ end = first + Len(FlattenSeq(ws))
  BY <1>8, <1>9, <1>11 DEF ArrayStands
<1>19. PICK many : many = Many(Len(s), first, reader) OBVIOUS
<1>20. ReadWith(pos, typecode, reader) = Typed("list", many)
  <2>1. ReadWith(pos, typecode, reader) = ReadArray(After(pos), typecode, reader)
    BY <1>8, ReadByMark DEF ArrayStands
  <2>2. /\ IntAt(After(pos)) = GLME_ANY /\ DecodedUint(From(After(After(pos)))) = Len(s)
        /\ After(After(After(pos))) = first
    BY <1>8, <1>9 DEF ArrayStands
  <2>3. ReadArray(After(pos), typecode, reader)
          = Typed("list", Many(DecodedUint(From(After(After(pos)))), After(After(After(pos))), reader))
    <3>1. IntAt(After(pos)) = GLME_ANY BY <2>2
    <3> QED BY ONLY <3>1, ReadListBy
  <2> QED BY <1>19, <2>1, <2>2, <2>3
<1>21. Suits(e, typecode) <=> \A i \in 1..Len(s) : i \notin K
  <2>1. \A x : x \in Parts(e) <=> \E i \in DOMAIN s : x = s[i]
    BY <1>1, PartsAre, Zenon
  <2>2. Suits(e, typecode) <=> \A x \in Parts(e) : ~ HoldsUints(x) BY DEF Suits
  <2>3. Suits(e, typecode) <=> \A i \in DOMAIN s : ~ HoldsUints(s[i]) BY <2>1, <2>2, Zenon
  <2> QED BY <1>3, <2>3 DEF K
<1>22. ASSUME \A i \in 1..Len(s) : i \notin K
       PROVE  ReadWith(pos, typecode, reader) = Returned(e, end)
  <2>1. many = Returned(s, end) BY <1>17, <1>18, <1>19, <1>22 DEF ManyComes
  <2>2. Typed("list", many) = Returned(<<"list", s>>, end) BY ONLY <2>1, TypedIs, Zenon
  <2> QED BY <1>2, <1>20, <2>2
<1>23. ASSUME NEW i \in 1..Len(s), i \in K
       PROVE  FailsAt(ReadWith(pos, typecode, reader), pos, end)
  <2>1. FailsAt(many, first, end) BY <1>17, <1>18, <1>19, <1>23 DEF ManyComes
  <2>2. pos \in Nat /\ first \in pos..end BY <1>8, <1>9, <1>18 DEF ArrayStands
  <2>3. FailsAt(many, pos, end) BY <1>18, <2>1, <2>2 DEF FailsAt
  <2> QED BY <1>20, <2>3, TypedRaised
<1> QED BY <1>18, <1>21, <1>22, <1>23 DEF Comes

\* A dictionary: its header and its pairs.
IsDict(e, s, steps) ==
  Program[e] = Header(<<GLME_MAP, KeyType(e), GLME_ANY>>, s) \o steps
DictStands(e, pos, s, steps) ==
  /\ IntAt(pos) = GLME_MAP /\ IntAt(After(pos)) = KeyType(e)
  /\ DecodedUint(From(After(After(After(pos))))) = Len(s)
  /\ pos \in Nat /\ After(After(After(After(pos)))) \in Nat
  /\ pos + Len(WireOf(e)) \in Nat
  /\ After(pos) \in pos..(pos + Len(WireOf(e)))
  /\ After(After(After(After(pos)))) \in pos..(pos + Len(WireOf(e)))
  /\ Holds(After(After(After(After(pos)))), Wires(steps)) /\ Regular(steps)
  /\ After(After(After(After(pos)))) + Len(Wires(steps)) = pos + Len(WireOf(e))
  /\ Len(Wires(steps)) \in Nat /\ Len(WireOf(e)) \in Nat /\ Len(Wires(steps)) < Len(WireOf(e))

LEMMA KeyTypeIs ==
  ASSUME NEW e, Type(e) \in {"strdict", "intdict"}
  PROVE  /\ KeyType(e) \in 0..GLME_MAP
         /\ Type(e) = IF KeyType(e) = GLME_STRING THEN "strdict" ELSE "intdict"
BY DEF KeyType, GLME_STRING, GLME_INT, GLME_MAP

LEMMA DictWithin ==
  ASSUME NEW e \in Elements, Type(e) \in {"strdict", "intdict"}, NEW S, NEW s \in Short(S),
         NEW steps \in Seq(StepSet), IsDict(e, s, steps), Readable, NEW pos, Stands(e, pos)
  PROVE  DictStands(e, pos, s, steps)
<1>1. PICK k \in 0..GLME_MAP : k = KeyType(e) BY KeyTypeIs
<1>2. Header(<<GLME_MAP, k, GLME_ANY>>, s) \in Seq(StepSet)
  <2>1. <<GLME_MAP, k, GLME_ANY>> \in Seq(0..GLME_MAP) BY MarksAre
  <2> QED BY <2>1, HeaderType
<1>3. WireOf(e) = Wires(Header(<<GLME_MAP, k, GLME_ANY>>, s)) \o Wires(steps)
  BY <1>1, <1>2, WiresConcat DEF IsDict, WireOf
<1>4. Regular(steps) BY <1>1, <1>2, RegularConcat DEF IsDict, Stands
<1>5. pos \in Nat /\ Holds(pos, WireOf(e)) /\ Len(WireOf(e)) \in Nat BY WireOfType DEF Stands
<1>6. PICK t \in Seq(Byte) : t = Wires(steps) BY WiresOf
<1>7. Holds(pos, Wires(Header(<<GLME_MAP, k, GLME_ANY>>, s)) \o t) BY <1>3, <1>5, <1>6
<1>8. DictIsAt(pos, GLME_MAP, k, GLME_ANY, s, t)
  <2>1. GLME_MAP \in 0..GLME_MAP /\ GLME_ANY \in 0..GLME_MAP BY MarksAre
  <2> QED BY <1>5, <1>7, <2>1, DictAt
<1>9. PICK l \in Nat : l = Len(Wires(Header(<<k, GLME_ANY>>, s)) \o t) BY <1>8 DEF DictIsAt
<1>10. /\ IntAt(pos) = GLME_MAP /\ pos < After(pos) /\ After(pos) \in Nat
       /\ pos + Len(WireOf(e)) = After(pos) + l /\ l < Len(WireOf(e))
  BY <1>3, <1>6, <1>8, <1>9 DEF DictIsAt
<1>11. PICK p \in Nat : p = After(pos) BY <1>10
<1>12. Holds(p, Wires(Header(<<k, GLME_ANY>>, s)) \o t) BY <1>8, <1>11 DEF DictIsAt
<1>13. HeaderIsAt(p, k, GLME_ANY, s, t)
  <2>1. GLME_ANY \in 0..GLME_MAP BY MarksAre
  <2> QED BY <1>12, <2>1, ArrayAt
<1>14. PICK first \in Nat : first = After(After(After(p))) BY <1>13 DEF HeaderIsAt
<1>15. /\ IntAt(p) = k /\ DecodedUint(From(After(After(p)))) = Len(s)
       /\ p < first /\ Holds(first, t) /\ Len(t) \in Nat /\ p + l = first + Len(t) /\ Len(t) < l
  <2>1. /\ After(p) \in Nat /\ After(After(p)) \in Nat
        /\ p < After(p) /\ After(p) < After(After(p)) /\ After(After(p)) < first
    BY <1>13, <1>14 DEF HeaderIsAt
  <2>2. p < first BY <2>1
  <2> QED BY <1>9, <1>13, <1>14, <2>2 DEF HeaderIsAt
<1>16. /\ pos + Len(WireOf(e)) \in Nat /\ p \in pos..(pos + Len(WireOf(e)))
       /\ first \in pos..(pos + Len(WireOf(e))) /\ first + Len(t) = pos + Len(WireOf(e))
       /\ Len(t) < Len(WireOf(e))
  BY <1>5, <1>10, <1>11, <1>15
<1> QED BY <1>1, <1>4, <1>5, <1>6, <1>10, <1>11, <1>14, <1>15, <1>16 DEF DictStands

\* A key and the element behind it.
LEMMA KeyAt ==
  ASSUME NEW e \in Elements, Type(e) \in {"strdict", "intdict"}, NEW i \in DOMAIN Content(e),
         NEW key, key = Content(e)[i][1], NEW q \in Nat, Readable, Holds(q, Wire(KeyStep(e, key)))
  PROVE  (IF Type(e) = "strdict" THEN ReadBytes(q) ELSE IntReader[q])
           = Returned(key, q + Len(Wire(KeyStep(e, key))))
<1>1. CASE Type(e) = "strdict"
  <2>1. key \in Sendable BY <1>1, KeyStepType
  <2>2. Wire(KeyStep(e, key)) = VectorBytes(key) BY <1>1 DEF KeyStep, Vector, Wire
  <2>3. ReadBytes(q) = Returned(key, q + Len(VectorBytes(key))) BY <2>1, <2>2, BytesAt
  <2> QED BY <1>1, <2>2, <2>3
<1>2. CASE Type(e) = "intdict"
  <2>1. key \in Signed BY <1>2, KeyStepType
  <2>2. Wire(KeyStep(e, key)) = EncodedInt(key) BY <1>2 DEF KeyStep, Number, Wire
  <2>3. IntAt(q) = key /\ After(q) = q + Len(EncodedInt(key)) BY <2>1, <2>2, IntIs
  <2>4. IntReader[q] = Returned(IntAt(q), After(q)) BY DEF IntReader
  <2> QED BY <1>2, <2>2, <2>3, <2>4
<1> QED BY <1>1, <1>2

LEMMA PairAt ==
  ASSUME NEW e \in Elements, Type(e) \in {"strdict", "intdict"}, NEW i \in DOMAIN Content(e),
         NEW key, key = Content(e)[i][1], NEW x \in Parts(e),
         NEW q \in Nat, Readable, Holds(q, Wire(KeyStep(e, key)) \o WireOf(x)), Regular(Program[x]),
         Len(Wire(KeyStep(e, key)) \o WireOf(x)) < Len(WireOf(e)), NEW reader, Knows(reader, e),
         NEW to, to = q + Len(Wire(KeyStep(e, key)) \o WireOf(x))
  PROVE  /\ HoldsUints(x) => FailsAt(ReadPair(Type(e), q, reader), q, to)
         /\ ~ HoldsUints(x) => ReadPair(Type(e), q, reader) = Returned(<<key, x>>, to)
<1>1. PICK k \in Seq(Byte) : k = Wire(KeyStep(e, key)) BY KeyStepType, WireType
<1>2. x \in Elements BY PartsAre DEF Shallower
<1>3. PICK w \in Seq(Byte) : w = WireOf(x) BY <1>2, WireOfType
<1>4. /\ Holds(q, k) /\ Holds(q + Len(k), w) /\ Len(k) \in Nat /\ Len(w) \in Nat
      /\ Len(k \o w) = Len(k) + Len(w) /\ q + Len(k) \in Nat
  <2>1. Holds(q, k \o w) BY <1>1, <1>3
  <2> QED BY <2>1, HoldsConcat
<1>5. PICK p \in Nat : p = q + Len(k) BY <1>4
<1>6. PICK r : r = IF Type(e) = "strdict" THEN ReadBytes(q) ELSE IntReader[q] OBVIOUS
<1>7. r = Returned(key, p)
  <2>1. Holds(q, Wire(KeyStep(e, key))) BY <1>1, <1>4
  <2> QED BY <1>1, <1>5, <1>6, <2>1, KeyAt
<1>8. r.v = key /\ r.to = p BY <1>7, ReturnedIs
<1>9. ReadPair(Type(e), q, reader)
        = IF reader[p].ok THEN Returned(<<key, reader[p].v>>, reader[p].to) ELSE reader[p]
  <2>1. ReadPair(Type(e), q, reader)
          = IF reader[r.to].ok THEN Returned(<<r.v, reader[r.to].v>>, reader[r.to].to) ELSE reader[r.to]
    BY <1>6, Zenon DEF ReadPair
  <2> QED BY <1>8, <2>1
<1>10. Stands(x, p) BY <1>3, <1>4, <1>5 DEF Stands
<1>11. to = p + Len(WireOf(x)) /\ to \in Nat /\ Len(WireOf(x)) < Len(WireOf(e)) /\ q <= p
  <2>1. Len(WireOf(e)) \in Nat BY WireOfType
  <2>2. Len(k \o w) < Len(WireOf(e)) /\ to = q + Len(k \o w) BY <1>1, <1>3
  <2> QED BY <1>3, <1>4, <1>5, <2>1, <2>2
<1>12. /\ HoldsUints(x) => FailsAt(reader[p], p, to)
       /\ ~ HoldsUints(x) => reader[p] = Returned(x, to)
  BY <1>10, <1>11, KnowsIs
<1>13. ASSUME HoldsUints(x) PROVE FailsAt(ReadPair(Type(e), q, reader), q, to)
  <2>1. FailsAt(reader[p], p, to) BY <1>12, <1>13
  <2>2. FailsAt(reader[p], q, to) BY <1>11, <2>1 DEF FailsAt
  <2> QED BY <1>9, <2>2, Zenon DEF FailsAt
<1>14. ASSUME ~ HoldsUints(x) PROVE ReadPair(Type(e), q, reader) = Returned(<<key, x>>, to)
  <2>1. reader[p] = Returned(x, to) BY <1>12, <1>14
  <2>2. reader[p].ok /\ reader[p].v = x /\ reader[p].to = to BY <2>1, ReturnedIs
  <2> QED BY <1>9, <2>2
<1> QED BY <1>13, <1>14

\* A dictionary is read when all elements in it are.
LEMMA ReadDictionary ==
  ASSUME NEW e \in Elements, Type(e) \in {"strdict", "intdict"}, NEW pos, Readable, Stands(e, pos),
         NEW typecode, NEW reader, Knows(reader, e)
  PROVE  Comes(ReadWith(pos, typecode, reader), e, typecode, pos)
<1>1. PICK s : s = Content(e) OBVIOUS
<1>2. e = <<Type(e), s>> BY <1>1, ContentType
<1>3. PICK S : s \in Short(S) BY <1>1, DictContent
<1>4. s \in Seq(S) /\ DOMAIN s = 1..Len(s) /\ Len(s) \in Nat BY <1>3, LenProperties DEF Short
<1>5. s # <<>>
  <2> SUFFICES ASSUME s = <<>> PROVE FALSE OBVIOUS
  <2>1. Program[e] = <<Number(EncodedInt(GLME_MAP)), Raise>> BY <1>1, ProgramIs, StepsAre
  <2>2. 2 \in DOMAIN Program[e] /\ Program[e][2] = Raise BY <2>1
  <2>3. Program[e][2].do # "raise" BY <2>2 DEF Stands, Regular
  <2> QED BY <2>2, <2>3 DEF Raise
<1>6. PICK pp : pp = DictParts(e, Program) OBVIOUS
<1>7. pp \in Seq(Seq(StepSet))
  <2>1. \A x \in Shallower(e) : Program[x] \in Seq(StepSet) BY ProgramIs DEF Shallower
  <2> QED BY <1>6, <2>1, PartsType
<1>8. FlattenSeq(pp) \in Seq(StepSet) BY <1>7, FlattenType
<1>9. IsDict(e, s, FlattenSeq(pp)) BY <1>1, <1>5, <1>6, ProgramIs, StepsAre DEF IsDict
<1>10. DictStands(e, pos, s, FlattenSeq(pp)) BY <1>3, <1>8, <1>9, DictWithin
<1>11. PICK first \in Nat : first = After(After(After(After(pos)))) BY <1>10 DEF DictStands
<1>12. PICK ws : ws = [i \in DOMAIN pp |-> Wires(pp[i])] OBVIOUS
<1>13. /\ ws \in Seq(Seq(Byte)) /\ Len(ws) = Len(pp) /\ Wires(FlattenSeq(pp)) = FlattenSeq(ws)
  BY <1>7, <1>12, WiresFlatten
<1>14. /\ Len(pp) = Len(s) /\ DOMAIN pp = 1..Len(s)
       /\ \A i \in 1..Len(s) : pp[i] = <<KeyStep(e, s[i][1])>> \o Program[s[i][2]]
  <2>1. pp = [i \in 1..Len(s) |-> <<KeyStep(e, s[i][1])>> \o Program[s[i][2]]]
    BY <1>1, <1>4, <1>6 DEF DictParts
  <2>2. DOMAIN pp = 1..Len(pp) /\ Len(pp) \in Nat BY <1>7, LenProperties
  <2> QED BY <1>4, <2>1, <2>2
<1>15. PICK at : Sections(first, ws, at) BY <1>10, <1>11, <1>13, SectionsOf DEF DictStands
<1> DEFINE K == {i \in 1..Len(s) : HoldsUints(s[i][2])}
<1>16. PICK pairs : pairs = [p \in Nat |-> ReadPair(Type(e), p, reader)] OBVIOUS
<1>17. ASSUME NEW i \in 1..Len(s)
       PROVE  /\ HoldsUints(s[i][2]) => FailsAt(pairs[at[i - 1]], at[i - 1], at[i])
              /\ ~ HoldsUints(s[i][2]) => pairs[at[i - 1]] = Returned(s[i], at[i])
  <2>1. PICK key : key = s[i][1] OBVIOUS
  <2>2. PICK x : x = s[i][2] OBVIOUS
  <2>3. i \in DOMAIN Content(e) /\ key = Content(e)[i][1] /\ x \in Parts(e)
    BY <1>1, <1>4, <2>1, <2>2, PartsAre
  <2>4. s[i] = <<key, x>> BY <1>1, <2>1, <2>2, <2>3, KeyStepType
  <2>5. i \in 1..Len(ws) /\ i - 1 \in 0..Len(ws) BY <1>4, <1>13, <1>14
  <2>6. /\ at[i - 1] \in Nat /\ at[i] = at[i - 1] + Len(ws[i]) /\ Holds(at[i - 1], ws[i])
        /\ Len(ws[i]) \in Nat /\ Len(ws[i]) <= Len(FlattenSeq(ws))
    BY <1>15, <2>5 DEF Sections
  <2>7. PICK k \in StepSet : k = KeyStep(e, key) BY <2>3, KeyStepType
  <2>8. x \in Elements /\ Program[x] \in Seq(StepSet)
    <3>1. x \in Elements BY <2>3, PartsAre DEF Shallower
    <3> QED BY <3>1, ProgramIs
  <2>9. pp[i] = <<k>> \o Program[x] BY <1>14, <2>1, <2>2, <2>7
  <2>10. <<k>> \in Seq(StepSet) /\ Wires(<<k>>) = Wire(k) BY <2>7, WiresOne
  <2>11. ws[i] = Wire(k) \o WireOf(x)
    <3>1. Wires(<<k>> \o Program[x]) = Wires(<<k>>) \o Wires(Program[x]) BY <2>8, <2>10, WiresConcat
    <3> QED BY <1>12, <1>14, <2>9, <2>10, <3>1 DEF WireOf
  <2>12. Regular(Program[x])
    <3>1. i \in 1..Len(pp) /\ Regular(FlattenSeq(pp)) BY <1>10, <1>14 DEF DictStands
    <3>2. Regular(pp[i]) BY <1>7, <3>1, RegularFlatten
    <3> QED BY <2>8, <2>9, <2>10, <3>2, RegularConcat
  <2>13. Len(ws[i]) < Len(WireOf(e))
    <3>1. /\ Len(FlattenSeq(ws)) < Len(WireOf(e)) /\ Len(FlattenSeq(ws)) \in Nat
          /\ Len(WireOf(e)) \in Nat
      BY <1>10, <1>13 DEF DictStands
    <3> QED BY <2>6, <3>1
  <2>14. PICK q \in Nat : q = at[i - 1] BY <2>6
  <2>15. PICK to : to = at[i] OBVIOUS
  <2>16. /\ Holds(q, Wire(KeyStep(e, key)) \o WireOf(x))
         /\ Len(Wire(KeyStep(e, key)) \o WireOf(x)) < Len(WireOf(e))
         /\ to = q + Len(Wire(KeyStep(e, key)) \o WireOf(x))
    BY <2>6, <2>7, <2>11, <2>13, <2>14, <2>15
  <2>17. /\ HoldsUints(x) => FailsAt(ReadPair(Type(e), q, reader), q, to)
         /\ ~ HoldsUints(x) => ReadPair(Type(e), q, reader) = Returned(<<key, x>>, to)
    BY <2>3, <2>12, <2>16, PairAt
  <2>18. pairs[q] = ReadPair(Type(e), q, reader) BY <1>16
  <2> QED BY <2>2, <2>4, <2>14, <2>15, <2>17, <2>18
<1>18. PartsCome(pairs, s, at, K) BY <1>17 DEF PartsCome
<1> HIDE DEF K
<1>19. ManyComes(first, pairs, s, ws, K) BY <1>4, <1>13, <1>14, <1>15, <1>18, ManyParts
<1>20. PICK end \in Nat : end = pos + Len(WireOf(e)) /\ end = first + Len(FlattenSeq(ws))
  BY <1>10, <1>11, <1>13 DEF DictStands
<1>21. PICK many : many = Many(Len(s), first, pairs) OBVIOUS
<1>22. ReadWith(pos, typecode, reader) = Typed(Type(e), many)
  <2>1. ReadWith(pos, typecode, reader) = ReadDict(After(pos), reader)
    BY <1>10, ReadByMark DEF DictStands
  <2>2. Type(e) = IF IntAt(After(pos)) = GLME_STRING THEN "strdict" ELSE "intdict"
    BY <1>10, KeyTypeIs DEF DictStands
  <2>3. /\ DecodedUint(From(After(After(After(pos))))) = Len(s)
        /\ After(After(After(After(pos)))) = first
    BY <1>10, <1>11 DEF DictStands
  <2>4. ReadDict(After(pos), reader)
          = Typed(Type(e), Many(DecodedUint(From(After(After(After(pos))))),
                                After(After(After(After(pos)))), pairs))
    BY <1>16, <2>2, Zenon DEF ReadDict
  <2> QED BY <1>21, <2>1, <2>3, <2>4
<1>23. Suits(e, typecode) <=> \A i \in 1..Len(s) : i \notin K
  <2>1. \A x : x \in Parts(e) <=> \E i \in 1..Len(s) : x = s[i][2] BY <1>1, <1>4, PartsAre
  <2>2. Suits(e, typecode) <=> \A x \in Parts(e) : ~ HoldsUints(x) BY DEF Suits
  <2> QED BY <2>1, <2>2 DEF K
<1>24. ASSUME \A i \in 1..Len(s) : i \notin K
       PROVE  ReadWith(pos, typecode, reader) = Returned(e, end)
  <2>1. many = Returned(s, end) BY <1>19, <1>20, <1>21, <1>24 DEF ManyComes
  <2>2. Typed(Type(e), many) = Returned(<<Type(e), s>>, end) BY ONLY <2>1, TypedIs, Zenon
  <2> QED BY <1>2, <1>22, <2>2
<1>25. ASSUME NEW i \in 1..Len(s), i \in K
       PROVE  FailsAt(ReadWith(pos, typecode, reader), pos, end)
  <2>1. FailsAt(many, first, end) BY <1>19, <1>20, <1>21, <1>25 DEF ManyComes
  <2>2. pos \in Nat /\ first \in pos..end BY <1>10, <1>11, <1>20 DEF DictStands
  <2>3. FailsAt(many, pos, end) BY <1>20, <2>1, <2>2 DEF FailsAt
  <2> QED BY <1>22, <2>3, TypedRaised
<1> QED BY <1>20, <1>23, <1>24, <1>25 DEF Comes

LEMMA NoneRaises ==
  ASSUME NEW e \in Elements, Type(e) = "none"
  PROVE  ~ Regular(Program[e])
<1>1. Program[e] = <<Raise>> BY ProgramIs, StepsAre
<1>2. 1 \in DOMAIN Program[e] /\ Program[e][1] = Raise BY <1>1
<1> QED BY <1>2 DEF Regular, Raise

\* Every element but an empty dictionary and None is read back with the typecode that
\* suits it.
LEMMA ReadAny ==
  ASSUME NEW e \in Elements, NEW pos, Readable, Stands(e, pos), NEW typecode \in {"", "B"},
         NEW reader, Knows(reader, e)
  PROVE  Comes(ReadWith(pos, typecode, reader), e, typecode, pos)
<1>1. CASE IsSimple(e)
  <2>1. e \in SimpleElements BY <1>1 DEF SimpleElements
  <2>2. ReadWith(pos, typecode, reader) = Returned(e, pos + Len(WireOf(e))) BY <2>1, ReadSimple
  <2>3. Type(e) \in {"int", "float", "bool", "str", "bytes"} BY <1>1 DEF IsSimple, IsNumber
  <2>4. Parts(e) = {} BY <2>3, PartsAre
  <2>5. Suits(e, typecode) BY <2>3, <2>4 DEF Suits
  <2> QED BY <2>2, <2>5 DEF Comes
<1>2. CASE Type(e) = "none"
  BY <1>2, NoneRaises DEF Stands
<1> QED BY <1>1, <1>2, ReadNumberArray, ReadList, ReadDictionary, StepsAre

\* What is neither simple nor an exception is an array or a dictionary.
LEMMA ArrayShape ==
  ASSUME NEW e \in Elements, Type(e) \in {"ints", "uints", "floats", "list"}
  PROVE  /\ \E S : Content(e) \in Short(S)
         /\ \E k \in 0..GLME_MAP, steps \in Seq(StepSet) : IsArray(e, k, Content(e), steps)
<1>1. \E S : Content(e) \in Short(S) BY ContentType
<1>2. Program[e] = Steps(e, Program) BY ProgramIs
<1>3. CASE Type(e) = "ints"
  <2>1. IntSteps(Content(e)) \in Seq(StepSet) BY <1>3, ContentType, ArrayStepsType
  <2>2. IsArray(e, GLME_INT, Content(e), IntSteps(Content(e))) BY <1>2, <1>3, StepsAre DEF IsArray
  <2> QED BY <1>1, <2>1, <2>2, MarksAre
<1>4. CASE Type(e) = "uints"
  <2>1. UintSteps(Content(e)) \in Seq(StepSet) BY <1>4, ContentType, ArrayStepsType
  <2>2. IsArray(e, GLME_UINT, Content(e), UintSteps(Content(e))) BY <1>2, <1>4, StepsAre DEF IsArray
  <2> QED BY <1>1, <2>1, <2>2, MarksAre
<1>5. CASE Type(e) = "floats"
  <2>1. DoubleSteps(Content(e)) \in Seq(StepSet) BY <1>5, ContentType, ArrayStepsType
  <2>2. IsArray(e, GLME_FLOAT, Content(e), DoubleSteps(Content(e)))
    BY <1>2, <1>5, StepsAre DEF IsArray
  <2> QED BY <1>1, <2>1, <2>2, MarksAre
<1>6. CASE Type(e) = "list"
  <2>1. PICK pp : pp = ListParts(Content(e), Program) OBVIOUS
  <2>2. pp \in Seq(Seq(StepSet))
    <3>1. \A x \in Shallower(e) : Program[x] \in Seq(StepSet) BY ProgramIs DEF Shallower
    <3> QED BY <1>6, <2>1, <3>1, PartsType
  <2>3. FlattenSeq(pp) \in Seq(StepSet) BY <2>2, FlattenType
  <2>4. IsArray(e, GLME_ANY, Content(e), FlattenSeq(pp)) BY <1>2, <1>6, <2>1, StepsAre DEF IsArray
  <2> QED BY <1>1, <2>3, <2>4, MarksAre
<1> QED BY <1>3, <1>4, <1>5, <1>6

LEMMA DictShape ==
  ASSUME NEW e \in Elements, Type(e) \in {"strdict", "intdict"}, Regular(Program[e])
  PROVE  /\ \E S : Content(e) \in Short(S)
         /\ \E steps \in Seq(StepSet) : IsDict(e, Content(e), steps)
<1>1. \E S : Content(e) \in Short(S) BY DictContent
<1>2. Content(e) # <<>>
  <2> SUFFICES ASSUME Content(e) = <<>> PROVE FALSE OBVIOUS
  <2>1. Program[e] = <<Number(EncodedInt(GLME_MAP)), Raise>> BY ProgramIs, StepsAre
  <2>2. 2 \in DOMAIN Program[e] /\ Program[e][2] = Raise BY <2>1
  <2>3. Program[e][2].do # "raise" BY <2>2 DEF Regular
  <2> QED BY <2>2, <2>3 DEF Raise
<1>3. PICK pp : pp = DictParts(e, Program) OBVIOUS
<1>4. pp \in Seq(Seq(StepSet))
  <2>1. \A x \in Shallower(e) : Program[x] \in Seq(StepSet) BY ProgramIs DEF Shallower
  <2> QED BY <1>3, <2>1, PartsType
<1>5. FlattenSeq(pp) \in Seq(StepSet) BY <1>4, FlattenType
<1>6. IsDict(e, Content(e), FlattenSeq(pp)) BY <1>2, <1>3, ProgramIs, StepsAre DEF IsDict
<1> QED BY <1>1, <1>5, <1>6

\* Every element begins with a mark.
LEMMA MarkWithin ==
  ASSUME NEW e \in Elements, NEW pos, Readable, Stands(e, pos)
  PROVE  /\ After(pos) \in pos..(pos + Len(WireOf(e)))
         /\ Len(WireOf(e)) \in Nat /\ Len(WireOf(e)) > 0
<1>1. CASE IsSimple(e)
  <2>1. e \in SimpleElements BY <1>1 DEF SimpleElements
  <2>2. PICK k \in 0..GLME_MAP : k = MarkOf(e) BY <2>1, SimpleIs
  <2>3. PICK t \in Seq(Byte) : t = IF IsNumber(e) THEN NumberOf(e) ELSE VectorBytes(Content(e))
    BY <2>1, SimpleIs, VectorBytesType DEF Numeral
  <2>4. WireOf(e) = EncodedInt(k) \o t BY <2>1, <2>2, <2>3, SimpleWire DEF SimpleBytes
  <2>5. pos \in Nat /\ Holds(pos, EncodedInt(k) \o t) BY <2>4 DEF Stands
  <2>6. /\ After(pos) \in Nat /\ pos < After(pos) /\ Len(t) \in Nat
        /\ pos + Len(EncodedInt(k) \o t) = After(pos) + Len(t)
    BY <2>5, MarkAt
  <2>7. Len(WireOf(e)) \in Nat BY WireOfType
  <2> QED BY <2>4, <2>5, <2>6, <2>7
<1>2. CASE Type(e) = "none"
  BY <1>2, NoneRaises DEF Stands
<1>3. CASE Type(e) \in {"ints", "uints", "floats", "list"}
  <2>1. PICK S : Content(e) \in Short(S) BY <1>3, ArrayShape
  <2>2. PICK k \in 0..GLME_MAP, steps \in Seq(StepSet) : IsArray(e, k, Content(e), steps)
    BY <1>3, ArrayShape
  <2>3. ArrayStands(e, pos, k, Content(e), steps) BY <2>1, <2>2, ArrayWithin
  <2> QED BY <2>3 DEF ArrayStands
<1>4. CASE Type(e) \in {"strdict", "intdict"}
  <2>1. PICK S : Content(e) \in Short(S) BY <1>4, DictContent
  <2>2. PICK steps \in Seq(StepSet) : IsDict(e, Content(e), steps) BY <1>4, DictShape DEF Stands
  <2>3. DictStands(e, pos, Content(e), steps) BY <1>4, <2>1, <2>2, DictWithin
  <2> QED BY <2>3 DEF DictStands
<1> QED BY <1>1, <1>2, <1>3, <1>4, StepsAre

\* With as many levels left as the element has bytes, there are enough.
LEMMA ReadElements ==
  ASSUME Readable
  PROVE  \A l \in 0..count : \A e \in Elements, pos \in Nat, typecode \in {"", "B"} :
           Stands(e, pos) /\ Len(WireOf(e)) <= l + 1
             => Comes(ReadWith(pos, typecode, Reader[l]), e, typecode, pos)
<1> DEFINE Reads(l) ==
      \A e \in Elements, pos \in Nat, typecode \in {"", "B"} :
        Stands(e, pos) /\ Len(WireOf(e)) <= l + 1
          => Comes(ReadWith(pos, typecode, Reader[l]), e, typecode, pos)
<1> DEFINE T == {l \in Nat : l <= count => Reads(l)}
<1> HIDE DEF Reads
<1>1. count \in Nat BY DEF Readable
<1>2. ASSUME NEW l \in Nat, l <= count, NEW e \in Elements, Len(WireOf(e)) <= l + 1,
             l > 0 => Reads(l - 1)
      PROVE  Knows(Reader[l], e)
  <2> SUFFICES ASSUME NEW x \in Parts(e), NEW q \in Nat, Stands(x, q), Len(WireOf(x)) < Len(WireOf(e))
               PROVE  Comes(Reader[l][q], x, "", q)
    BY DEF Knows
  <2> HIDE DEF Reads
  <2>1. x \in Elements BY PartsAre DEF Shallower
  <2>2. Len(WireOf(x)) \in Nat /\ Len(WireOf(e)) \in Nat BY <2>1, WireOfType
  <2>3. Len(WireOf(x)) > 0 BY <2>1, MarkWithin
  <2>4. l > 0 /\ l - 1 \in Nat /\ Len(WireOf(x)) <= (l - 1) + 1 BY <1>2, <2>2, <2>3
  <2>5. Comes(ReadWith(q, "", Reader[l - 1]), x, "", q)
    <3>1. Reads(l - 1) BY <1>2, <2>4
    <3> QED BY <2>1, <2>4, <3>1 DEF Reads
  <2>6. Reader[l][q] = ReadWith(q, "", Reader[l - 1])
    <3>1. l \in 0..count BY <1>1, <1>2
    <3> QED BY <2>4, <3>1, ReaderIs
  <2> QED BY <2>5, <2>6
<1>3. ASSUME NEW l \in Nat, l <= count, l > 0 => Reads(l - 1) PROVE Reads(l)
  <2> HIDE DEF Reads
  <2>1. ASSUME NEW e \in Elements, NEW pos \in Nat, NEW typecode \in {"", "B"},
               Stands(e, pos), Len(WireOf(e)) <= l + 1
        PROVE  Comes(ReadWith(pos, typecode, Reader[l]), e, typecode, pos)
    <3>1. Knows(Reader[l], e) BY <1>2, <1>3, <2>1
    <3> QED BY <2>1, <3>1, ReadAny
  <2> QED BY <2>1 DEF Reads
<1> HIDE DEF Reads
<1>4. 0 \in T BY <1>3
<1>5. ASSUME NEW l \in Nat, l \in T PROVE l + 1 \in T
  <2> SUFFICES ASSUME l + 1 <= count PROVE Reads(l + 1) OBVIOUS
  <2>1. Reads(l) BY <1>1, <1>5
  <2>2. (l + 1) - 1 = l /\ l + 1 \in Nat OBVIOUS
  <2> QED BY <1>3, <2>1, <2>2
<1>6. Nat \subseteq T
  <2> HIDE DEF T
  <2> QED BY <1>4, <1>5, SetInduction
<1>7. \A l \in 0..count : Reads(l) BY <1>1, <1>6
<1> QED BY <1>7 DEF Reads

(***************************************************************************)
(* The elements of a buffer come out again.                                *)
(***************************************************************************)

\* What decode is called with.
Typecodes == {"", "B"}

LEMMA ElementIsRead ==
  ASSUME Written, NEW i \in 1..Len(elements), NEW typecode \in Typecodes
  PROVE  /\ elements[i].value \in Elements
         /\ Stands(elements[i].value, EndOf(i - 1))
         /\ EndOf(i) = EndOf(i - 1) + Len(WireOf(elements[i].value))
         /\ Comes(ReadElement(EndOf(i - 1), typecode), elements[i].value, typecode, EndOf(i - 1))
<1>1. PICK e \in Elements : e = elements[i].value BY EndOfType
<1>2. PICK pos \in Nat : pos = EndOf(i - 1)
  <2>1. i - 1 \in 0..Len(elements) BY EndOfType
  <2> QED BY <2>1, EndOfType
<1>3. Readable BY WorkingIs DEF Readable, count
<1>4. Occupies(i) BY DEF Written
<1>5. Stands(e, pos) /\ EndOf(i) = pos + Len(WireOf(e)) BY <1>1, <1>2, <1>4 DEF Occupies, Stands
<1>6. count \in 0..count /\ Len(WireOf(e)) <= count + 1
  <2>1. count \in Nat BY <1>3 DEF Readable
  <2>2. Len(WireOf(e)) \in Nat BY WireOfType
  <2>3. pos + Len(WireOf(e)) <= count BY <1>5 DEF Stands, Holds
  <2> HIDE DEF count
  <2> QED BY <2>1, <2>2, <2>3
<1>7. Comes(ReadWith(pos, typecode, Reader[count]), e, typecode, pos)
  <2> HIDE DEF count
  <2> QED BY <1>3, <1>5, <1>6, ReadElements DEF Typecodes
<1> QED BY <1>1, <1>2, <1>5, <1>7 DEF ReadElement

\* However deep the values are nested and whatever became of later ones: every element
\* encoded as a whole decodes to the value it was made from and ends where the next one
\* starts (glme.pyx, encodeElement against decodeElement).
THEOREM ComesOutAsItWentIn == Spec => []RoundTrip
<1>1. Written => RoundTrip
  <2> SUFFICES ASSUME Written, NEW i \in DOMAIN elements,
                      HoldsUints(elements[i].value) => Type(elements[i].value) = "uints"
               PROVE  ReadElement(IF i = 1 THEN 0 ELSE elements[i - 1].end,
                                  IF Type(elements[i].value) = "uints" THEN "B" ELSE "")
                        = Returned(elements[i].value, elements[i].end)
    BY DEF RoundTrip
  <2>1. i \in 1..Len(elements) /\ Len(elements) \in Nat BY LenProperties DEF Written
  <2>2. PICK e : e = elements[i].value OBVIOUS
  <2>3. PICK typecode \in Typecodes : typecode = IF Type(e) = "uints" THEN "B" ELSE ""
    BY DEF Typecodes
  <2>4. /\ EndOf(i - 1) = IF i = 1 THEN 0 ELSE elements[i - 1].end
        /\ EndOf(i) = elements[i].end
    BY <2>1 DEF EndOf
  <2>5. /\ e \in Elements /\ EndOf(i) = EndOf(i - 1) + Len(WireOf(e))
        /\ Comes(ReadElement(EndOf(i - 1), typecode), e, typecode, EndOf(i - 1))
    BY <2>1, <2>2, ElementIsRead
  <2>6. Suits(e, typecode)
    <3>1. CASE Type(e) = "uints"
      <4>1. Parts(e) = {} BY <2>5, <3>1, PartsAre
      <4> QED BY <2>3, <3>1, <4>1 DEF Suits
    <3>2. CASE Type(e) # "uints"
      <4>1. ~ HoldsUints(e) BY <2>2, <3>2
      <4> QED BY <2>3, <2>5, <3>2, <4>1, SuitsPlain
    <3> QED BY <3>1, <3>2
  <2>7. ReadElement(EndOf(i - 1), typecode) = Returned(e, EndOf(i)) BY <2>5, <2>6 DEF Comes
  <2> QED BY <2>2, <2>3, <2>4, <2>7
<1> QED BY <1>1, AlwaysWritten, PTL

\* Where the read pointer is.
Placed == Written /\ current \in 0..count /\ (~ strayed => current \in Starts)

LEMMA StartsAre ==
  ASSUME Written
  PROVE  \A p : p \in Starts <=> \E i \in 0..Len(elements) : p = EndOf(i)
<1>1. Len(elements) \in Nat /\ DOMAIN elements = 1..Len(elements) BY LenProperties DEF Written
<1>2. \A p : p \in Starts <=> p = 0 \/ \E i \in 1..Len(elements) : p = elements[i].end
  BY <1>1 DEF Starts
<1> QED BY <1>1, <1>2 DEF EndOf

\* At an element, a call of decode reads it or fails in it.
LEMMA AtElementIs ==
  ASSUME Placed, AtElement, NEW typecode \in Typecodes
  PROVE  /\ ReadElement(current, typecode).to \in 0..count
         /\ ReadElement(current, typecode).ok => ReadElement(current, typecode).to \in Starts
         /\ After(current) \in 0..count
<1>1. current \in Starts /\ current < count /\ count \in Nat /\ count = EndOf(Len(elements))
  <2>1. ~ strayed /\ ~ spoiled /\ current < count BY DEF AtElement
  <2>2. count \in Nat BY WorkingIs DEF Placed
  <2> QED BY <2>1, <2>2 DEF Placed, Written
<1>2. PICK n \in Nat : n = Len(elements) BY EndOfType DEF Placed
<1>3. PICK j \in 0..n : current = EndOf(j) BY <1>1, <1>2, StartsAre DEF Placed
<1>4. j # n BY <1>1, <1>2, <1>3
<1>5. PICK i \in 1..n : j = i - 1
  <2>1. j + 1 \in 1..n /\ j = (j + 1) - 1 BY <1>4
  <2> QED BY <2>1
<1>6. PICK e : e = elements[i].value OBVIOUS
<1>7. PICK end : end = EndOf(i) OBVIOUS
<1>8. /\ e \in Elements /\ Stands(e, current) /\ end = current + Len(WireOf(e))
      /\ Comes(ReadElement(current, typecode), e, typecode, current)
  BY <1>2, <1>3, <1>5, <1>6, <1>7, ElementIsRead DEF Placed
<1>9. end \in Starts
  <2>1. i \in 0..Len(elements) BY <1>2
  <2> QED BY <1>7, <2>1, StartsAre DEF Placed
<1>10. /\ current \in Nat /\ end \in current..count
  <2>1. current \in Nat /\ end <= count BY <1>8 DEF Stands, Holds
  <2>2. Len(WireOf(e)) \in Nat BY <1>8, WireOfType
  <2> HIDE DEF count
  <2> QED BY <1>1, <1>8, <2>1, <2>2
<1>11. After(current) \in 0..count
  <2>1. Readable BY WorkingIs DEF Readable, count, Placed
  <2>2. After(current) \in current..end BY <1>8, <2>1, MarkWithin
  <2> HIDE DEF count
  <2> QED BY <1>1, <1>10, <2>2
<1>12. PICK r : r = ReadElement(current, typecode) OBVIOUS
<1>13. r = Returned(e, end) \/ FailsAt(r, current, end) BY <1>8, <1>12 DEF Comes
<1>14. CASE r = Returned(e, end)
  <2>1. r.to = end BY <1>14, ReturnedIs
  <2> HIDE DEF count
  <2> QED BY <1>1, <1>9, <1>10, <1>11, <1>12, <2>1
<1>15. CASE FailsAt(r, current, end)
  <2>1. ~ r.ok /\ r.to \in current..end BY <1>15 DEF FailsAt
  <2> HIDE DEF count
  <2> QED BY <1>1, <1>10, <1>11, <1>12, <2>1
<1> QED BY <1>13, <1>14, <1>15

\* The read pointer after a call that moves it to where it may be.
LEMMA LeavesPlaced ==
  ASSUME Placed, Written', NEW r, LeavesAt(r), r.to \in 0..count, r.ok => r.to \in Starts
  PROVE  Placed'
<1>1. /\ current' = r.to /\ strayed' = ~ r.ok /\ buf' = buf /\ elements' = elements
  BY Zenon DEF LeavesAt
<1>2. count' = count /\ Starts' = Starts BY <1>1 DEF count, Starts
<1>3. current' \in 0..count' BY <1>1, <1>2
<1>4. ~ strayed' => current' \in Starts'
  <2>1. ~ strayed' => r.ok BY <1>1, Zenon
  <2> QED BY <1>1, <1>2, <2>1
<1> QED BY <1>3, <1>4 DEF Placed

LEMMA NextPlaced ==
  ASSUME Placed, [Next]_vars
  PROVE  Placed'
<1>1. Written' BY NextWritten DEF Placed
<1>2. count \in Nat /\ Written BY WorkingIs DEF Placed
<1>3. ASSUME UNCHANGED <<buf, current, elements, strayed>> PROVE Placed'
  <2>1. count' = count /\ Starts' = Starts BY <1>3 DEF count, Starts
  <2> QED BY <1>1, <1>3, <2>1 DEF Placed
<1>4. ASSUME NEW e \in Values, Encode(e) PROVE Placed'
  <2>1. /\ elements' = elements \/ \E x : elements' = Append(elements, x)
        /\ current' = current /\ strayed' = strayed
    BY <1>2, <1>4, EncodeIs
  <2>2. Extends(Working, Run(Working, Program[e])) /\ buf' = Run(Working, Program[e]).bytes
        /\ Working.bytes = buf
    BY <1>2, <1>4, EncodeIs, WorkingIs
  <2>3. count' \in Nat /\ count <= count'
    <3>1. count' \in Nat BY <1>1, LenProperties DEF Written, InBlock, Buffers, Working, count
    <3> QED BY <2>2, <3>1 DEF Extends, InBlock, count
  <2>4. Starts \subseteq Starts'
    <3>1. elements \in Seq([value : Elements, end : Nat]) BY <1>2 DEF Written
    <3>2. CASE elements' = elements BY <3>2 DEF Starts
    <3>3. CASE \E x : elements' = Append(elements, x)
      <4>1. PICK x : elements' = Append(elements, x) BY <3>3
      <4>2. \A i \in DOMAIN elements : i \in DOMAIN elements' /\ elements'[i] = elements[i]
        BY <3>1, <4>1
      <4> QED BY <4>2 DEF Starts
    <3> QED BY <2>1, <3>2, <3>3
  <2>5. current' \in 0..count' BY <1>2, <2>1, <2>3 DEF Placed
  <2> QED BY <1>1, <2>1, <2>4, <2>5 DEF Placed
<1>5. ASSUME NEW typecode \in Typecodes, Decode(typecode) PROVE Placed'
  <2>1. AtElement /\ LeavesAt(ReadElement(current, typecode)) BY <1>5 DEF Decode
  <2>2. PICK r : r = ReadElement(current, typecode) OBVIOUS
  <2>3. r.to \in 0..count /\ (r.ok => r.to \in Starts) BY <2>1, <2>2, AtElementIs
  <2> QED BY <1>1, <2>1, <2>2, <2>3, LeavesPlaced
<1>6. ASSUME NEW method \in DOMAIN Expects, DecodeTyped(method) PROVE Placed'
  <2>1. /\ AtElement
        /\ \/ LeavesAt(ReadElement(current, "")) \/ LeavesAt(Raised(After(current)))
           \/ UNCHANGED vars
    BY <1>6, Zenon DEF DecodeTyped, Mismatch
  <2>2. PICK r : r = ReadElement(current, "") OBVIOUS
  <2>3. r.to \in 0..count /\ (r.ok => r.to \in Starts) /\ After(current) \in 0..count
    <3>1. "" \in Typecodes BY DEF Typecodes
    <3> QED BY <2>1, <2>2, <3>1, AtElementIs
  <2>4. CASE LeavesAt(ReadElement(current, "")) BY <1>1, <2>2, <2>3, <2>4, LeavesPlaced
  <2>5. CASE LeavesAt(Raised(After(current)))
    <3>1. PICK q : q = Raised(After(current)) OBVIOUS
    <3>2. ~ q.ok /\ q.to = After(current) BY <3>1 DEF Raised
    <3> QED BY <1>1, <2>3, <2>5, <3>1, <3>2, LeavesPlaced
  <2>6. CASE UNCHANGED vars BY <1>3, <2>6 DEF vars
  <2> QED BY <2>1, <2>4, <2>5, <2>6
<1>7. ASSUME NEW index \in Starts, Seek(index) PROVE Placed'
  <2>1. /\ index <= count /\ current' = index /\ buf' = buf /\ elements' = elements
        /\ index \in Starts
    BY <1>7 DEF Seek
  <2>2. index \in Nat BY <1>2, <2>1, StartsAre, EndOfType
  <2>3. count' = count /\ Starts' = Starts BY <2>1 DEF count, Starts
  <2>4. current' \in 0..count' BY <1>2, <2>1, <2>2, <2>3
  <2> QED BY <1>1, <2>1, <2>3, <2>4 DEF Placed
<1>8. ASSUME Reset PROVE Placed'
  <2>1. buf' = <<>> /\ current' = 0 BY <1>8 DEF Reset
  <2>2. count' = 0 BY <2>1, EmptySeq DEF count
  <2>3. 0 \in Starts' BY DEF Starts
  <2> QED BY <1>1, <2>1, <2>2, <2>3 DEF Placed
<1>9. ASSUME NEW newsize \in Sizes, Resize(newsize) PROVE Placed' BY <1>3, <1>9 DEF Resize
<1>10. ASSUME UNCHANGED vars PROVE Placed' BY <1>3, <1>10 DEF vars
<1> QED BY <1>4, <1>5, <1>6, <1>7, <1>8, <1>9, <1>10 DEF Next, Typecodes

LEMMA InitPlaced ==
  ASSUME Init
  PROVE  Placed
<1>1. Written BY InitWritten
<1>2. current = 0 /\ count = 0 BY EmptySeq DEF Init, count
<1>3. 0 \in Starts BY DEF Starts
<1> QED BY <1>1, <1>2, <1>3 DEF Placed

LEMMA AlwaysPlaced == Spec => []Placed
<1>1. Init => Placed BY InitPlaced
<1>2. Placed /\ [Next]_vars => Placed' BY NextPlaced
<1> QED BY <1>1, <1>2, PTL DEF Spec

\* In every sequence of calls current <= count <= size, and a buffer without a block of
\* its own holds nothing (glme.pyx, the fields of GBuffer).
THEOREM TypesAreKept == Spec => []TypeOK
<1>1. Placed => TypeOK
  <2> SUFFICES ASSUME Placed PROVE TypeOK OBVIOUS
  <2>1. /\ count \in Nat /\ size \in Nat /\ count <= size /\ size <= MaxSize
        /\ (owner = 0 => size = 0)
    BY WorkingIs DEF Placed
  <2>2. MaxSize \in Nat BY GBufferAssumption
  <2>3. size \in 0..MaxSize BY <2>1, <2>2
  <2> QED BY <2>1, <2>3 DEF TypeOK, Placed, Written
<1> QED BY <1>1, AlwaysPlaced, PTL

\* After every call but those that are known to leave it inside of an element, the read
\* pointer is at the start of one (glme.pyx, decodeInt ... decodeDict).
THEOREM CursorIsAligned == Spec => []CursorAligned
<1>1. Placed => CursorAligned BY DEF Placed, CursorAligned
<1> QED BY <1>1, AlwaysPlaced, PTL
===============================================================================

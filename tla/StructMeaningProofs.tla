-------------------------- MODULE StructMeaningProofs --------------------------
(***************************************************************************)
(* For all structures and messages: what the encoder writes is what        *)
(* ENCODING describes, byte for byte.  For those whose fields the decoder  *)
(* functions read in step with the stream: what they return is what was    *)
(* encoded, seen through the decoder's version of the structures, and they *)
(* leave the read pointer at its end.  No call fails between equal         *)
(* programs that lose no bytes.                                            *)
(***************************************************************************)
EXTENDS StructMeaning, StructCodecProofs

(***************************************************************************)
(* Parts, and functions that are recursive over them.                      *)
(***************************************************************************)

LEMMA PartIs ==
  ASSUME NEW p \in Parts
  PROVE  /\ p[1] \in DOMAIN EncFields /\ p[2] \in Structures[p[1]] /\ p = <<p[1], p[2]>>
         /\ Len(EncFields[p[1]]) \in 0..127 /\ Len(EncFields[p[1]]) \in Nat
         /\ DOMAIN EncFields[p[1]] = 1..Len(EncFields[p[1]])
         /\ \A i \in 1..Len(EncFields[p[1]]) :
              FieldOf(p, i) \in Fields /\ HasType(FieldOf(p, i), p[2][i])
<1>1. p[1] \in DOMAIN EncFields /\ p[2] \in Structures[p[1]] /\ p = <<p[1], p[2]>>
  BY DEF Parts
<1>2. EncFields[p[1]] \in Seq(Fields) BY <1>1, StreamAssumption
<1>3. DOMAIN EncFields[p[1]] = 1..Len(EncFields[p[1]]) BY <1>2, LenProperties
<1>4. /\ Len(EncFields[p[1]]) \in 0..127
      /\ \A i \in 1..Len(EncFields[p[1]]) : EncFields[p[1]][i] \in Fields
      /\ \A v \in Structures[p[1]] : \A i \in 1..Len(EncFields[p[1]]) :
           HasType(EncFields[p[1]][i], v[i])
  BY <1>1, EncFieldType
<1> QED BY <1>1, <1>2, <1>3, <1>4, LenProperties DEF FieldOf

LEMMA PartIn ==
  ASSUME NEW t \in DOMAIN EncFields, NEW v \in Structures[t]
  PROVE  <<t, v>> \in Parts
BY DEF Parts

LEMMA PresentIn ==
  ASSUME NEW p \in Parts
  PROVE  Present(p) \subseteq 1..Len(EncFields[p[1]]) /\ Structs(p) \subseteq Present(p)
BY PartIs DEF Present, Structs

\* A structure in a structure is a part, and nested less deep.
LEMMA InnerIs ==
  ASSUME NEW p \in Parts, NEW i \in Structs(p)
  PROVE  /\ Inner(p, i) \in Parts
         /\ Depth[Inner(p, i)] \in Nat /\ Depth[p] \in Nat /\ Depth[Inner(p, i)] < Depth[p]
<1>1. i \in 1..Len(EncFields[p[1]]) /\ IsStruct(FieldOf(p, i)) /\ ~ Omitted(FieldOf(p, i), p[2][i])
  BY PresentIn DEF Structs, Present
<1>2. p[1] \in DOMAIN EncFields /\ HasType(FieldOf(p, i), p[2][i]) BY <1>1, PartIs
<1>3. FieldOf(p, i).typeid \in DOMAIN EncFields
  BY <1>1, <1>2, EncFieldType DEF FieldOf
<1>4. p[2][i] \in Structures[FieldOf(p, i).typeid]
  <2>1. FieldOf(p, i).kind \in {"struct", "pointer"} BY <1>1 DEF IsStruct
  <2>2. p[2][i] # <<>> BY <1>1, <2>1 DEF Omitted
  <2> QED BY <1>2, <2>1, <2>2 DEF HasType
<1>5. Inner(p, i) \in Parts BY <1>3, <1>4, PartIn DEF Inner
<1> QED BY <1>5, NestingAssumption

\* The parts nested less than n deep.
Level(n) == {p \in Parts : Depth[p] < n}

LEMMA LevelInner ==
  ASSUME NEW n \in Nat, NEW p \in Level(n + 1), NEW i \in Structs(p)
  PROVE  Inner(p, i) \in Level(n) /\ Inner(p, i) \in Level(n + 1) /\ p \in Parts
<1>1. p \in Parts /\ Depth[p] < n + 1 BY DEF Level
<1>2. Inner(p, i) \in Parts /\ Depth[Inner(p, i)] \in Nat /\ Depth[p] \in Nat
      /\ Depth[Inner(p, i)] < Depth[p]
  BY <1>1, InnerIs
<1>3. Depth[Inner(p, i)] < n /\ Depth[Inner(p, i)] < n + 1 BY <1>1, <1>2
<1> QED BY <1>1, <1>2, <1>3 DEF Level

LEMMA LevelZero == Level(0) = {}
BY NestingAssumption DEF Level

LEMMA LevelOf ==
  ASSUME NEW p \in Parts
  PROVE  Depth[p] + 1 \in Nat /\ p \in Level(Depth[p] + 1)
BY NestingAssumption DEF Level

LEMMA LevelsGrow ==
  ASSUME NEW m \in Nat, NEW n \in Nat, m <= n
  PROVE  Level(m) \subseteq Level(n)
BY NestingAssumption DEF Level

\* One level of the three functions, with what they give for the structures in it from f.
WireOf(f, p) ==
  LET element(i) ==
        IF i \in Structs(p)
        THEN <<TypeMark(FieldOf(p, i).typeid)>> \o f[Inner(p, i)]
        ELSE Element(FieldOf(p, i), p[2][i])
  IN FlattenSeq([i \in DOMAIN EncFields[p[1]] |->
                   IF i \in Present(p) THEN <<i - Previous(p, i)>> \o element(i) ELSE <<>>])
     \o <<0>>

LosslessOf(f, p) ==
  \A i \in Present(p) :
    /\ i \in DOMAIN DecFields[p[1]]
    /\ Fits(FieldOf(p, i), DecFields[p[1]][i])
    /\ i \in Structs(p) => f[Inner(p, i)]

SeenOf(f, p) ==
  [i \in 1..Len(DecFields[p[1]]) |->
     IF i \notin Present(p) THEN Absent(DecFields[p[1]][i])
     ELSE IF i \in Structs(p) THEN f[Inner(p, i)]
     ELSE Fitted(DecFields[p[1]][i], p[2][i])]

LEMMA Local ==
  ASSUME NEW f, NEW g, NEW p \in Parts,
         \A i \in Structs(p) : f[Inner(p, i)] = g[Inner(p, i)]
  PROVE  /\ WireOf(f, p) = WireOf(g, p)
         /\ LosslessOf(f, p) = LosslessOf(g, p)
         /\ SeenOf(f, p) = SeenOf(g, p)
<1>1. WireOf(f, p) = WireOf(g, p) BY DEF WireOf
<1>2. LosslessOf(f, p) = LosslessOf(g, p) BY DEF LosslessOf
<1>3. SeenOf(f, p) = SeenOf(g, p) BY DEF SeenOf
<1> QED BY <1>1, <1>2, <1>3

\* All three at once.
WireIn(f) == [p \in Parts |-> f[p].wire]
LosslessIn(f) == [p \in Parts |-> f[p].lossless]
SeenIn(f) == [p \in Parts |-> f[p].seen]

MeaningOf(f, p) ==
  [wire |-> WireOf(WireIn(f), p), lossless |-> LosslessOf(LosslessIn(f), p),
   seen |-> SeenOf(SeenIn(f), p)]

LEMMA MeaningLocal ==
  ASSUME NEW f, NEW g, NEW p \in Parts,
         \A i \in Structs(p) : f[Inner(p, i)] = g[Inner(p, i)]
  PROVE  MeaningOf(f, p) = MeaningOf(g, p)
<1>1. ASSUME NEW i \in Structs(p)
      PROVE  /\ WireIn(f)[Inner(p, i)] = WireIn(g)[Inner(p, i)]
             /\ LosslessIn(f)[Inner(p, i)] = LosslessIn(g)[Inner(p, i)]
             /\ SeenIn(f)[Inner(p, i)] = SeenIn(g)[Inner(p, i)]
  <2>1. Inner(p, i) \in Parts BY InnerIs
  <2> QED BY <2>1 DEF WireIn, LosslessIn, SeenIn
<1>2. /\ WireOf(WireIn(f), p) = WireOf(WireIn(g), p)
      /\ LosslessOf(LosslessIn(f), p) = LosslessOf(LosslessIn(g), p)
      /\ SeenOf(SeenIn(f), p) = SeenOf(SeenIn(g), p)
  BY <1>1, Local
<1> QED BY <1>2 DEF MeaningOf

MeaningStep(n, f) == f = [p \in Level(n) |-> MeaningOf(f, p)]

LEMMA MeaningUp ==
  ASSUME NEW n \in Nat, NEW f, MeaningStep(n, f)
  PROVE  \E g : MeaningStep(n + 1, g)
<1> DEFINE g == [p \in Level(n + 1) |-> MeaningOf(f, p)]
<1>1. ASSUME NEW p \in Level(n + 1) PROVE MeaningOf(f, p) = MeaningOf(g, p)
  <2>1. ASSUME NEW i \in Structs(p) PROVE f[Inner(p, i)] = g[Inner(p, i)]
    <3>1. Inner(p, i) \in Level(n) /\ Inner(p, i) \in Level(n + 1) BY LevelInner
    <3>2. f[Inner(p, i)] = MeaningOf(f, Inner(p, i)) BY <3>1 DEF MeaningStep
    <3>3. g[Inner(p, i)] = MeaningOf(f, Inner(p, i)) BY <3>1
    <3> QED BY <3>2, <3>3
  <2>2. p \in Parts BY DEF Level
  <2> HIDE DEF g
  <2> QED BY <2>1, <2>2, MeaningLocal
<1>2. g = [p \in Level(n + 1) |-> MeaningOf(g, p)] BY <1>1
<1> HIDE DEF g
<1> QED BY <1>2 DEF MeaningStep

LEMMA MeaningExists == \A n \in Nat : \E f : MeaningStep(n, f)
<1> DEFINE T == {n \in Nat : \E f : MeaningStep(n, f)}
<1>1. 0 \in T
  <2>1. MeaningStep(0, [p \in Level(0) |-> 0]) BY LevelZero DEF MeaningStep
  <2> QED BY <2>1
<1>2. ASSUME NEW n \in Nat, n \in T PROVE n + 1 \in T
  BY <1>2, MeaningUp
<1>3. Nat \subseteq T
  <2> HIDE DEF T
  <2> QED BY <1>1, <1>2, SetInduction
<1> QED BY <1>3

LEMMA MeaningSame ==
  ASSUME NEW m \in Nat, NEW n \in Nat, m <= n,
         NEW f, MeaningStep(m, f), NEW g, MeaningStep(n, g)
  PROVE  \A p \in Level(m) : f[p] = g[p]
<1> DEFINE U == {k \in Nat : k <= m => \A p \in Level(k) : f[p] = g[p]}
<1>1. 0 \in U BY LevelZero
<1>2. ASSUME NEW k \in Nat, k \in U PROVE k + 1 \in U
  <2> SUFFICES ASSUME k + 1 <= m, NEW p \in Level(k + 1) PROVE f[p] = g[p] OBVIOUS
  <2>1. k <= m /\ k + 1 \in Nat /\ k + 1 <= n OBVIOUS
  <2>2. p \in Level(m) /\ p \in Level(n) /\ p \in Parts BY <2>1, LevelsGrow DEF Level
  <2>3. f[p] = MeaningOf(f, p) /\ g[p] = MeaningOf(g, p) BY <2>2 DEF MeaningStep
  <2>4. \A i \in Structs(p) : f[Inner(p, i)] = g[Inner(p, i)] BY <1>2, <2>1, LevelInner
  <2>5. MeaningOf(f, p) = MeaningOf(g, p) BY <2>2, <2>4, MeaningLocal
  <2> QED BY <2>3, <2>5
<1>3. Nat \subseteq U
  <2> HIDE DEF U
  <2> QED BY <1>1, <1>2, SetInduction
<1> QED BY <1>3

\* There are functions that are at every part what their definitions say.
LEMMA MeaningIs == \E w : \A p \in Parts : w[p] = MeaningOf(w, p)
<1> DEFINE part(n) == CHOOSE f : MeaningStep(n, f)
<1> DEFINE w == [p \in Parts |-> part(Depth[p] + 1)[p]]
<1>1. \A n \in Nat : MeaningStep(n, part(n)) BY MeaningExists
<1> HIDE DEF part
<1>2. ASSUME NEW p \in Parts PROVE w[p] = MeaningOf(w, p)
  <2> DEFINE n == Depth[p] + 1
  <2>1. n \in Nat /\ p \in Level(n) BY LevelOf
  <2>2. part(n)[p] = MeaningOf(part(n), p) BY <1>1, <2>1 DEF MeaningStep
  <2>3. ASSUME NEW i \in Structs(p) PROVE w[Inner(p, i)] = part(n)[Inner(p, i)]
    <3> DEFINE q == Inner(p, i)
    <3> DEFINE m == Depth[q] + 1
    <3>1. q \in Parts /\ m <= n BY InnerIs
    <3>2. m \in Nat /\ q \in Level(m) BY <3>1, LevelOf
    <3>3. w[q] = part(m)[q] BY <3>1
    <3> HIDE DEF m, n, q, w
    <3>4. part(m)[q] = part(n)[q] BY <1>1, <2>1, <3>1, <3>2, MeaningSame
    <3> QED BY <3>3, <3>4 DEF q
  <2>4. w[p] = part(n)[p] OBVIOUS
  <2> HIDE DEF n, w
  <2>5. MeaningOf(w, p) = MeaningOf(part(n), p) BY <2>3, MeaningLocal
  <2> QED BY <2>2, <2>4, <2>5
<1> HIDE DEF w
<1> QED BY <1>2

LEMMA MeaningParts ==
  ASSUME NEW w, NEW p, w[p] = MeaningOf(w, p)
  PROVE  /\ w[p].wire = WireOf(WireIn(w), p)
         /\ w[p].lossless = LosslessOf(LosslessIn(w), p)
         /\ w[p].seen = SeenOf(SeenIn(w), p)
<1> DEFINE a == WireOf(WireIn(w), p)
<1> DEFINE b == LosslessOf(LosslessIn(w), p)
<1> DEFINE c == SeenOf(SeenIn(w), p)
<1> DEFINE r == [wire |-> a, lossless |-> b, seen |-> c]
<1>1. w[p] = r BY DEF MeaningOf
<1>2. r.wire = a /\ r.lossless = b /\ r.seen = c
  <2> HIDE DEF a, b, c
  <2> QED BY Zenon
<1> HIDE DEF a, b, c, r
<1>3. w[p].wire = a /\ w[p].lossless = b /\ w[p].seen = c BY <1>1, <1>2, Zenon
<1> QED BY <1>3 DEF a, b, c

\* So each of the three functions is what its definition says.
LEMMA WireIs == WireStruct = [p \in Parts |-> WireOf(WireStruct, p)]
<1> DEFINE Eq(f) == f = [p \in Parts |-> WireOf(f, p)]
<1>1. PICK w : \A p \in Parts : w[p] = MeaningOf(w, p) BY MeaningIs
<1>2. \A p \in Parts : w[p].wire = WireOf(WireIn(w), p) BY <1>1, MeaningParts
<1>3. WireIn(w) = [p \in Parts |-> WireOf(WireIn(w), p)] BY <1>2 DEF WireIn
<1>4. Eq(WireIn(w)) BY <1>3
<1>5. WireStruct = CHOOSE f : Eq(f) BY DEF WireStruct, WireOf
<1>6. Eq(CHOOSE f : Eq(f))
  <2> HIDE DEF Eq
  <2> QED BY <1>4
<1> QED BY <1>5, <1>6

LEMMA LosslessIs == Lossless = [p \in Parts |-> LosslessOf(Lossless, p)]
<1> DEFINE Eq(f) == f = [p \in Parts |-> LosslessOf(f, p)]
<1>1. PICK w : \A p \in Parts : w[p] = MeaningOf(w, p) BY MeaningIs
<1>2. \A p \in Parts : w[p].lossless = LosslessOf(LosslessIn(w), p) BY <1>1, MeaningParts
<1>3. LosslessIn(w) = [p \in Parts |-> LosslessOf(LosslessIn(w), p)] BY <1>2 DEF LosslessIn
<1>4. Eq(LosslessIn(w)) BY <1>3
<1>5. Lossless = CHOOSE f : Eq(f) BY DEF Lossless, LosslessOf
<1>6. Eq(CHOOSE f : Eq(f))
  <2> HIDE DEF Eq
  <2> QED BY <1>4
<1> QED BY <1>5, <1>6

LEMMA SeenIs == Seen = [p \in Parts |-> SeenOf(Seen, p)]
<1> DEFINE Eq(f) == f = [p \in Parts |-> SeenOf(f, p)]
<1>1. PICK w : \A p \in Parts : w[p] = MeaningOf(w, p) BY MeaningIs
<1>2. \A p \in Parts : w[p].seen = SeenOf(SeenIn(w), p) BY <1>1, MeaningParts
<1>3. SeenIn(w) = [p \in Parts |-> SeenOf(SeenIn(w), p)] BY <1>2 DEF SeenIn
<1>4. Eq(SeenIn(w)) BY <1>3
<1>5. Seen = CHOOSE f : Eq(f) BY DEF Seen, SeenOf
<1>6. Eq(CHOOSE f : Eq(f))
  <2> HIDE DEF Eq
  <2> QED BY <1>4
<1> QED BY <1>5, <1>6

(***************************************************************************)
(* Distances.                                                              *)
(***************************************************************************)

LEMMA MaxIs ==
  ASSUME NEW n \in Nat, NEW T, T \subseteq 0..n, T # {}
  PROVE  Max(T) \in T /\ \A y \in T : y <= Max(T)
<1> DEFINE U == {k \in Nat : \E x \in T : k = n - x}
<1>1. PICK x \in T : TRUE OBVIOUS
<1>2. n - x \in U BY <1>1
<1>3. PICK k \in U : \A y \in U : k <= y BY <1>2, LeastElement
<1>4. PICK z \in T : k = n - z BY <1>3
<1>5. ASSUME NEW y \in T PROVE y <= z
  <2>1. n - y \in U OBVIOUS
  <2>2. n - z <= n - y BY <1>3, <1>4, <2>1
  <2>3. y \in 0..n /\ z \in 0..n OBVIOUS
  <2> QED BY <2>2, <2>3
<1>6. \E x1 \in T : \A y \in T : x1 >= y BY <1>5
<1>7. Max(T) \in T /\ \A y \in T : Max(T) >= y BY <1>6 DEF Max
<1>8. \A y \in T : y \in Int OBVIOUS
<1> QED BY <1>7, <1>8

\* The field before the first is 0; the distance to the last field sent grows with each
\* field that is not, and is 1 behind one that is.
LEMMA PreviousIs ==
  ASSUME NEW p \in Parts, NEW i \in Nat \ {0}
  PROVE  /\ Previous(p, i) \in 0..(i - 1)
         /\ Previous(p, 1) = 0
         /\ i \notin Present(p) => Previous(p, i + 1) = Previous(p, i)
         /\ i \in Present(p) => Previous(p, i + 1) = i
<1> DEFINE Before(n) == {0} \cup {j \in Present(p) : j < n}
<1>1. \A n : Previous(p, n) = Max(Before(n)) BY DEF Previous
<1>2. Present(p) \subseteq Nat \ {0}
  <2>1. Len(EncFields[p[1]]) \in Nat BY PartIs
  <2> QED BY <2>1, PresentIn
<1>3. ASSUME NEW n \in Nat \ {0} PROVE Before(n) \subseteq 0..(n - 1) /\ Before(n) # {} /\ n - 1 \in Nat
  BY <1>2
<1>4. ASSUME NEW n \in Nat \ {0}
      PROVE  Previous(p, n) \in Before(n) /\ \A y \in Before(n) : y <= Previous(p, n)
  <2>1. Before(n) \subseteq 0..(n - 1) /\ Before(n) # {} /\ n - 1 \in Nat BY <1>3
  <2> HIDE DEF Before
  <2> QED BY <1>1, <2>1, MaxIs
<1>5. Previous(p, i) \in 0..(i - 1)
  <2>1. Before(i) \subseteq 0..(i - 1) BY <1>3
  <2> HIDE DEF Before
  <2> QED BY <1>4, <2>1
<1>6. Previous(p, 1) = 0
  <2>1. Before(1) \subseteq 0..0 BY <1>2
  <2>2. Previous(p, 1) \in Before(1) BY <1>4
  <2> HIDE DEF Before
  <2> QED BY <2>1, <2>2
<1>7. ASSUME i \notin Present(p) PROVE Previous(p, i + 1) = Previous(p, i)
  <2>1. Before(i + 1) = Before(i) BY <1>2, <1>7
  <2> HIDE DEF Before
  <2> QED BY <1>1, <2>1
<1>8. ASSUME i \in Present(p) PROVE Previous(p, i + 1) = i
  <2>1. i \in Before(i + 1) /\ \A y \in Before(i + 1) : y <= i BY <1>2, <1>8
  <2>2. i + 1 \in Nat \ {0} OBVIOUS
  <2>3. Before(i + 1) \subseteq 0..i BY <1>2
  <2> HIDE DEF Before
  <2>4. Previous(p, i + 1) \in Before(i + 1) /\ i <= Previous(p, i + 1) BY <1>4, <2>1, <2>2
  <2>5. Previous(p, i + 1) <= i /\ Previous(p, i + 1) \in 0..i BY <2>1, <2>3, <2>4
  <2> QED BY <2>4, <2>5
<1> QED BY <1>5, <1>6, <1>7, <1>8

(***************************************************************************)
(* The bytes of a part, field by field.                                    *)
(***************************************************************************)

ElementOf(p, i) ==
  IF i \in Structs(p)
  THEN <<TypeMark(FieldOf(p, i).typeid)>> \o WireStruct[Inner(p, i)]
  ELSE Element(FieldOf(p, i), p[2][i])

Piece(p, i) == IF i \in Present(p) THEN <<i - Previous(p, i)>> \o ElementOf(p, i) ELSE <<>>
Pieces(p) == [i \in DOMAIN EncFields[p[1]] |-> Piece(p, i)]

LEMMA WirePieces ==
  ASSUME NEW p \in Parts
  PROVE  WireStruct[p] = FlattenSeq(Pieces(p)) \o <<0>>
<1>1. WireStruct[p] = WireOf(WireStruct, p)
  <2> DEFINE w == [q \in Parts |-> WireOf(WireStruct, q)]
  <2>1. w[p] = WireOf(WireStruct, p) OBVIOUS
  <2>2. WireStruct = w BY WireIs
  <2> HIDE DEF w
  <2> QED BY <2>1, <2>2
<1> QED BY <1>1 DEF WireOf, Pieces, Piece, ElementOf

LEMMA DistanceType ==
  ASSUME NEW p \in Parts, NEW i \in 1..Len(EncFields[p[1]])
  PROVE  i - Previous(p, i) \in Byte /\ i - Previous(p, i) \in 1..i
<1> DEFINE n == Len(EncFields[p[1]])
<1>1. n \in 0..127 BY PartIs
<1>2. Previous(p, i) \in 0..(i - 1) BY PreviousIs
<1> DEFINE d == Previous(p, i)
<1>3. i \in 1..n /\ d \in 0..(i - 1) BY <1>2
<1> HIDE DEF n, d
<1>4. i - d \in 1..127 /\ i - d \in 1..i BY <1>1, <1>3
<1> QED BY <1>4 DEF Byte, d

\* One piece, given that the structures nested in the part are bytes.
LEMMA PieceFrom ==
  ASSUME NEW p \in Parts, \A i \in Structs(p) : WireStruct[Inner(p, i)] \in Seq(Byte),
         NEW i \in 1..Len(EncFields[p[1]])
  PROVE  Piece(p, i) \in Seq(Byte) /\ (i \in Present(p) => ElementOf(p, i) \in Seq(Byte))
<1>1. FieldOf(p, i) \in Fields /\ HasType(FieldOf(p, i), p[2][i]) BY PartIs
<1>2. ASSUME i \in Present(p) PROVE ElementOf(p, i) \in Seq(Byte)
  <2>1. CASE i \in Structs(p)
    <3>1. TypeMark(FieldOf(p, i).typeid) \in Byte BY <1>1, FieldType
    <3> DEFINE w == WireStruct[Inner(p, i)]
    <3>2. w \in Seq(Byte) BY <2>1
    <3>3. <<TypeMark(FieldOf(p, i).typeid)>> \o w \in Seq(Byte)
      <4> HIDE DEF w
      <4> QED BY <3>1, <3>2, ConsProperties
    <3> QED BY <2>1, <3>3 DEF ElementOf
  <2>2. CASE i \notin Structs(p)
    <3>1. ~ IsStruct(FieldOf(p, i)) BY <1>2, <2>2 DEF Structs
    <3>2. Element(FieldOf(p, i), p[2][i]) \in Seq(Byte) BY <1>1, <3>1, ElementType
    <3> QED BY <2>2, <3>2 DEF ElementOf
  <2> QED BY <2>1, <2>2
<1>3. CASE i \in Present(p)
  <2>1. i - Previous(p, i) \in Byte BY DistanceType
  <2> DEFINE d == i - Previous(p, i)
  <2> DEFINE e == ElementOf(p, i)
  <2>2. d \in Byte /\ e \in Seq(Byte) BY <1>2, <1>3, <2>1
  <2>3. Piece(p, i) = <<d>> \o e BY <1>3 DEF Piece
  <2> HIDE DEF d, e
  <2>4. <<d>> \o e \in Seq(Byte) BY <2>2, ConsProperties
  <2> QED BY <1>2, <1>3, <2>3, <2>4
<1>4. CASE i \notin Present(p)
  <2>1. Piece(p, i) = <<>> BY <1>4 DEF Piece
  <2> QED BY <1>4, <2>1, EmptySeq
<1> QED BY <1>3, <1>4

LEMMA PiecesFrom ==
  ASSUME NEW p \in Parts, \A i \in Structs(p) : WireStruct[Inner(p, i)] \in Seq(Byte)
  PROVE  Pieces(p) \in Seq(Seq(Byte)) /\ Len(Pieces(p)) = Len(EncFields[p[1]])
<1> DEFINE n == Len(EncFields[p[1]])
<1>1. n \in Nat /\ DOMAIN EncFields[p[1]] = 1..n BY PartIs
<1>2. \A i \in 1..n : Piece(p, i) \in Seq(Byte) BY PieceFrom
<1>3. Pieces(p) = [i \in 1..n |-> Piece(p, i)] BY <1>1 DEF Pieces
<1> HIDE DEF n
<1>4. Pieces(p) \in [1..n -> Seq(Byte)] BY <1>2, <1>3
<1>5. Pieces(p) \in Seq(Seq(Byte)) /\ Len(Pieces(p)) = n BY <1>1, <1>4
<1> QED BY <1>5 DEF n

\* A part is encoded as bytes.
LEMMA WireType == \A p \in Parts : WireStruct[p] \in Seq(Byte)
<1> DEFINE T == {n \in Nat : \A p \in Level(n) : WireStruct[p] \in Seq(Byte)}
<1>1. 0 \in T BY LevelZero
<1>2. ASSUME NEW n \in Nat, n \in T PROVE n + 1 \in T
  <2> SUFFICES ASSUME NEW p \in Level(n + 1) PROVE WireStruct[p] \in Seq(Byte) OBVIOUS
  <2>1. p \in Parts BY DEF Level
  <2>2. \A i \in Structs(p) : WireStruct[Inner(p, i)] \in Seq(Byte) BY <1>2, LevelInner
  <2>3. Pieces(p) \in Seq(Seq(Byte)) BY <2>1, <2>2, PiecesFrom
  <2>4. FlattenSeq(Pieces(p)) \in Seq(Byte) BY <2>3, FlattenType
  <2>5. <<0>> \in Seq(Byte) BY DEF Byte
  <2> DEFINE w == FlattenSeq(Pieces(p))
  <2>6. WireStruct[p] = w \o <<0>> BY <2>1, WirePieces
  <2> HIDE DEF w
  <2>7. w \in Seq(Byte) BY <2>4 DEF w
  <2> QED BY <2>5, <2>6, <2>7, ConcatProperties
<1>3. Nat \subseteq T
  <2> HIDE DEF T
  <2> QED BY <1>1, <1>2, SetInduction
<1> QED BY <1>3, LevelOf

LEMMA PieceType ==
  ASSUME NEW p \in Parts
  PROVE  /\ Pieces(p) \in Seq(Seq(Byte)) /\ Len(Pieces(p)) = Len(EncFields[p[1]])
         /\ \A i \in 1..Len(EncFields[p[1]]) :
              /\ Pieces(p)[i] = Piece(p, i) /\ Piece(p, i) \in Seq(Byte)
              /\ i \in Present(p) => ElementOf(p, i) \in Seq(Byte)
<1>1. \A i \in Structs(p) : WireStruct[Inner(p, i)] \in Seq(Byte) BY InnerIs, WireType
<1>2. Pieces(p) \in Seq(Seq(Byte)) /\ Len(Pieces(p)) = Len(EncFields[p[1]]) BY <1>1, PiecesFrom
<1>3. \A i \in 1..Len(EncFields[p[1]]) : Pieces(p)[i] = Piece(p, i) BY PartIs DEF Pieces
<1>4. ASSUME NEW i \in 1..Len(EncFields[p[1]])
      PROVE  Piece(p, i) \in Seq(Byte) /\ (i \in Present(p) => ElementOf(p, i) \in Seq(Byte))
  BY <1>1, PieceFrom
<1> QED BY <1>2, <1>3, <1>4

\* What the fields from the i-th on put into the buffer, with the end mark.
Rest(p, i) == FlattenSeq(SubSeq(Pieces(p), i, Len(EncFields[p[1]]))) \o <<0>>

LEMMA RestPieces ==
  ASSUME NEW p \in Parts, NEW i \in Nat \ {0}
  PROVE  /\ SubSeq(Pieces(p), i, Len(EncFields[p[1]])) \in Seq(Seq(Byte))
         /\ FlattenSeq(SubSeq(Pieces(p), i, Len(EncFields[p[1]]))) \in Seq(Byte)
<1> DEFINE n == Len(EncFields[p[1]])
<1> DEFINE ps == Pieces(p)
<1>1. ps \in Seq(Seq(Byte)) /\ Len(ps) = n /\ n \in Nat BY PieceType, PartIs
<1> HIDE DEF n, ps
<1>2. ASSUME NEW k \in i..n PROVE ps[k] \in Seq(Byte)
  <2>1. k \in 1..Len(ps) BY <1>1
  <2> QED BY <1>1, <2>1, ElementOfSeq
<1>3. SubSeq(ps, i, n) \in Seq(Seq(Byte)) BY <1>1, <1>2, SubSeqProperties
<1>4. FlattenSeq(SubSeq(ps, i, n)) \in Seq(Byte) BY <1>3, FlattenType
<1> QED BY <1>3, <1>4 DEF n, ps

LEMMA EndMarkIs == <<0>> \in Seq(Byte) /\ Len(<<0>>) = 1 /\ <<0>>[1] = 0
BY DEF Byte

LEMMA RestType ==
  ASSUME NEW p \in Parts, NEW i \in Nat \ {0}
  PROVE  Rest(p, i) \in Seq(Byte) /\ Rest(p, i) # <<>>
<1> DEFINE w == FlattenSeq(SubSeq(Pieces(p), i, Len(EncFields[p[1]])))
<1> DEFINE z == <<0>>
<1>1. w \in Seq(Byte) BY RestPieces
<1>2. z \in Seq(Byte) /\ Len(z) = 1 BY EndMarkIs
<1>3. Rest(p, i) = w \o z BY DEF Rest
<1> HIDE DEF w, z
<1>4. w \o z \in Seq(Byte) /\ Len(w \o z) = Len(w) + 1 BY <1>1, <1>2, ConcatProperties
<1>5. Len(w) \in Nat BY <1>1, LenProperties
<1>6. w \o z # <<>>
  <2>1. Len(w \o z) # 0 BY <1>4, <1>5
  <2> QED BY <2>1, EmptySeq
<1> QED BY <1>3, <1>4, <1>6

LEMMA RestWhole ==
  ASSUME NEW p \in Parts
  PROVE  Rest(p, 1) = WireStruct[p]
<1>1. SubSeq(Pieces(p), 1, Len(EncFields[p[1]])) = Pieces(p) BY PieceType, SubSeqFull
<1> QED BY <1>1, WirePieces DEF Rest

LEMMA RestEnd ==
  ASSUME NEW p \in Parts, NEW i \in Nat \ {0}, i > Len(EncFields[p[1]])
  PROVE  Rest(p, i) = <<0>>
<1>1. Len(EncFields[p[1]]) \in Nat BY PartIs
<1>2. SubSeq(Pieces(p), i, Len(EncFields[p[1]])) = <<>> BY <1>1, SubSeqEmpty
<1>3. <<>> \o <<0>> = <<0>> BY EndMarkIs, ConcatEmptySeq
<1> QED BY <1>2, <1>3, FlattenEmpty DEF Rest

LEMMA RestStep ==
  ASSUME NEW p \in Parts, NEW i \in 1..Len(EncFields[p[1]])
  PROVE  Rest(p, i) = Piece(p, i) \o Rest(p, i + 1)
<1> DEFINE n == Len(EncFields[p[1]])
<1> DEFINE ps == Pieces(p)
<1> DEFINE tail == SubSeq(ps, i + 1, n)
<1> DEFINE w == FlattenSeq(tail)
<1> DEFINE x == Piece(p, i)
<1> DEFINE z == <<0>>
<1>1. ps \in Seq(Seq(Byte)) /\ Len(ps) = n /\ n \in Nat /\ ps[i] = x /\ x \in Seq(Byte)
  BY PieceType, PartIs
<1>2. tail \in Seq(Seq(Byte)) /\ w \in Seq(Byte)
  <2>1. i + 1 \in Nat \ {0} OBVIOUS
  <2> QED BY <2>1, RestPieces
<1>3. z \in Seq(Byte) BY EndMarkIs
<1>4. Rest(p, i) = FlattenSeq(SubSeq(ps, i, n)) \o z /\ Rest(p, i + 1) = w \o z BY DEF Rest
<1>5. SubSeq(ps, i, n) = <<ps[i]>> \o tail
  <2>1. i \in 1..n OBVIOUS
  <2> HIDE DEF n, ps
  <2>2. i \in 1..Len(ps) /\ n \in i..Len(ps) BY <1>1, <2>1
  <2> QED BY <1>1, <2>2, SubSeqRecursiveFirst
<1> HIDE DEF ps, tail, x, z, w
<1>6. FlattenSeq(SubSeq(ps, i, n)) = x \o w BY <1>1, <1>2, <1>5, FlattenCons DEF w
<1>7. Associates(x, w, z) BY <1>1, <1>2, <1>3, Associative
<1>8. (x \o w) \o z = x \o (w \o z) BY <1>7 DEF Associates
<1> QED BY <1>4, <1>6, <1>8 DEF x

\* A field that is not sent adds nothing.
LEMMA RestOmitted ==
  ASSUME NEW p \in Parts, NEW i \in Nat \ {0}, i \notin Present(p)
  PROVE  Rest(p, i) = Rest(p, i + 1)
<1>1. CASE i \in 1..Len(EncFields[p[1]])
  <2>1. Piece(p, i) = <<>> BY DEF Piece
  <2>2. i + 1 \in Nat \ {0} OBVIOUS
  <2>3. Rest(p, i + 1) \in Seq(Byte) BY <2>2, RestType
  <2>4. <<>> \o Rest(p, i + 1) = Rest(p, i + 1) BY <2>3, ConcatEmptySeq
  <2>5. Rest(p, i) = Piece(p, i) \o Rest(p, i + 1) BY <1>1, RestStep
  <2> QED BY <2>1, <2>4, <2>5
<1>2. CASE i \notin 1..Len(EncFields[p[1]])
  <2>1. Len(EncFields[p[1]]) \in Nat BY PartIs
  <2>2. i > Len(EncFields[p[1]]) /\ i + 1 > Len(EncFields[p[1]]) BY <1>2, <2>1
  <2> QED BY <2>2, RestEnd
<1> QED BY <1>1, <1>2

\* A field that is sent adds its distance and its element.
LEMMA RestPresent ==
  ASSUME NEW p \in Parts, NEW i \in Present(p)
  PROVE  /\ i \in 1..Len(EncFields[p[1]]) /\ i \in Nat \ {0}
         /\ i - Previous(p, i) \in Byte /\ i - Previous(p, i) # 0
         /\ ElementOf(p, i) \in Seq(Byte) /\ Rest(p, i + 1) \in Seq(Byte)
         /\ Rest(p, i) = <<i - Previous(p, i)>> \o (ElementOf(p, i) \o Rest(p, i + 1))
<1>1. i \in 1..Len(EncFields[p[1]]) BY PresentIn
<1>2. i \in Nat \ {0} /\ i + 1 \in Nat \ {0}
  <2>1. Len(EncFields[p[1]]) \in Nat BY PartIs
  <2> QED BY <1>1, <2>1
<1> DEFINE d == i - Previous(p, i)
<1> DEFINE e == ElementOf(p, i)
<1> DEFINE r == Rest(p, i + 1)
<1>3. d \in Byte /\ d \in 1..i BY <1>1, DistanceType
<1>4. e \in Seq(Byte) BY <1>1, PieceType
<1>5. r \in Seq(Byte) BY <1>2, RestType
<1>6. Rest(p, i) = (<<d>> \o e) \o r BY <1>1, RestStep DEF Piece
<1> HIDE DEF d, e, r
<1> DEFINE h == <<d>>
<1>7. h \in Seq(Byte) BY <1>3
<1> HIDE DEF h
<1>8. Associates(h, e, r) BY <1>4, <1>5, <1>7, Associative
<1>9. (h \o e) \o r = h \o (e \o r) BY <1>8 DEF Associates
<1>10. Rest(p, i) = h \o (e \o r) BY <1>6, <1>9 DEF h
<1>11. d # 0 BY <1>3, <1>2
<1> QED BY <1>1, <1>2, <1>3, <1>4, <1>5, <1>10, <1>11 DEF d, e, r, h

(***************************************************************************)
(* A stack of places in parts, each in a field of the one below: what the  *)
(* functions on the C stack still have to put into the buffer, or to take  *)
(* out of it.                                                              *)
(***************************************************************************)

Place(p, n) == [part |-> p, fld |-> n]
PlaceSet == [part : Parts, fld : Nat \ {0}]

\* Behind the field a place is in, and behind the fields of all places of a stack.
After(x) == Rest(x.part, x.fld + 1)
Behind(pl) == FlattenSeq([j \in 1..Len(pl) |-> After(pl[Len(pl) + 1 - j])])

\* From the field of the top on.
Todo(pl, x) == Rest(x.part, x.fld) \o Behind(pl)

Onward(x) == Place(x.part, x.fld + 1)

LEMMA PlaceType ==
  ASSUME NEW x \in PlaceSet
  PROVE  /\ x.part \in Parts /\ x.fld \in Nat \ {0} /\ x.fld + 1 \in Nat \ {0}
         /\ After(x) \in Seq(Byte) /\ Onward(x) \in PlaceSet
         /\ Rest(x.part, x.fld) \in Seq(Byte)
<1>1. x.part \in Parts /\ x.fld \in Nat \ {0} BY DEF PlaceSet
<1>2. x.fld + 1 \in Nat \ {0} BY <1>1
<1>3. Rest(x.part, x.fld) \in Seq(Byte) /\ After(x) \in Seq(Byte) BY <1>1, <1>2, RestType DEF After
<1> QED BY <1>1, <1>2, <1>3 DEF Onward, Place, PlaceSet

LEMMA BehindParts ==
  ASSUME NEW pl \in Seq(PlaceSet)
  PROVE  /\ [j \in 1..Len(pl) |-> After(pl[Len(pl) + 1 - j])] \in Seq(Seq(Byte))
         /\ Behind(pl) \in Seq(Byte)
<1> DEFINE n == Len(pl)
<1> DEFINE rev == [j \in 1..n |-> After(pl[n + 1 - j])]
<1>1. n \in Nat BY LenProperties
<1>2. ASSUME NEW j \in 1..n PROVE After(pl[n + 1 - j]) \in Seq(Byte)
  <2>1. n + 1 - j \in 1..n BY <1>1
  <2>2. pl[n + 1 - j] \in PlaceSet BY <2>1, ElementOfSeq
  <2> QED BY <2>2, PlaceType
<1> HIDE DEF n
<1>3. rev \in [1..n -> Seq(Byte)] BY <1>2
<1>4. rev \in Seq(Seq(Byte)) BY <1>1, <1>3
<1>5. FlattenSeq(rev) \in Seq(Byte) BY <1>4, FlattenType
<1> QED BY <1>4, <1>5 DEF Behind, n

LEMMA BehindEmpty == Behind(<<>>) = <<>>
<1> DEFINE rev == [j \in 1..Len(<<>>) |-> After(<<>>[Len(<<>>) + 1 - j])]
<1>1. <<>> \in Seq(PlaceSet) /\ Len(<<>>) = 0 BY EmptySeq
<1>2. rev \in Seq(Seq(Byte)) /\ Len(rev) = 0
  <2>1. rev \in Seq(Seq(Byte)) BY <1>1, BehindParts
  <2> QED BY <1>1, <2>1
<1>3. Behind(<<>>) = FlattenSeq(rev) BY DEF Behind
<1> HIDE DEF rev
<1>4. rev = <<>> BY <1>2, EmptySeq
<1> QED BY <1>3, <1>4, FlattenEmpty

LEMMA BehindAppend ==
  ASSUME NEW pl \in Seq(PlaceSet), NEW x \in PlaceSet
  PROVE  Behind(Append(pl, x)) = After(x) \o Behind(pl)
<1> DEFINE n == Len(pl)
<1> DEFINE all == Append(pl, x)
<1> DEFINE rev(s) == [j \in 1..Len(s) |-> After(s[Len(s) + 1 - j])]
<1> DEFINE longer == <<After(x)>> \o rev(pl)
<1>1. all \in Seq(PlaceSet) /\ Len(all) = n + 1 /\ all[n + 1] = x /\ n \in Nat
      /\ \A i \in 1..n : all[i] = pl[i]
  BY AppendProperties, LenProperties
<1>2. rev(all) \in Seq(Seq(Byte)) /\ rev(pl) \in Seq(Seq(Byte)) BY <1>1, BehindParts
<1>3. Behind(all) = FlattenSeq(rev(all)) /\ Behind(pl) = FlattenSeq(rev(pl)) BY DEF Behind
<1>4. After(x) \in Seq(Byte) BY PlaceType
<1>5. Len(rev(all)) = n + 1 /\ Len(rev(pl)) = n BY <1>1
<1>6. /\ longer \in Seq(Seq(Byte)) /\ Len(longer) = n + 1 /\ longer[1] = After(x)
      /\ \A i \in 1..n : longer[i + 1] = rev(pl)[i]
  <2> DEFINE r == rev(pl)
  <2>1. r \in Seq(Seq(Byte)) /\ Len(r) = n BY <1>2, <1>5
  <2> HIDE DEF r
  <2>2. <<After(x)>> \o r \in Seq(Seq(Byte)) /\ Len(<<After(x)>> \o r) = n + 1
        /\ (<<After(x)>> \o r)[1] = After(x)
        /\ \A i \in 1..n : (<<After(x)>> \o r)[i + 1] = r[i]
    BY <1>4, <2>1, ConsProperties
  <2> QED BY <2>2 DEF r
<1>7. ASSUME NEW i \in 1..(n + 1) PROVE rev(all)[i] = longer[i]
  <2>1. rev(all)[i] = After(all[n + 2 - i])
    <3>1. i \in 1..Len(all) /\ Len(all) + 1 - i = n + 2 - i BY <1>1
    <3> HIDE DEF all
    <3> QED BY <3>1
  <2>2. CASE i = 1
    <3>1. n + 2 - i = n + 1 BY <1>1, <2>2
    <3> HIDE DEF longer, rev, all
    <3> QED BY <1>1, <1>6, <2>1, <2>2, <3>1
  <2>3. CASE i # 1
    <3> DEFINE k == i - 1
    <3>1. k \in 1..n /\ i = k + 1 /\ n + 1 - k \in 1..n /\ n + 2 - i = n + 1 - k BY <1>1, <2>3
    <3>2. rev(pl)[k] = After(pl[n + 1 - k]) BY <3>1
    <3> HIDE DEF longer, rev, all, k
    <3>3. longer[i] = rev(pl)[k] BY <1>6, <3>1
    <3>4. all[n + 1 - k] = pl[n + 1 - k] BY <1>1, <3>1
    <3> QED BY <2>1, <3>1, <3>2, <3>3, <3>4
  <2> QED BY <2>2, <2>3
<1>8. rev(all) = longer
  <2> HIDE DEF longer, rev, all
  <2> QED BY <1>2, <1>5, <1>6, <1>7, SeqEqual
<1>9. FlattenSeq(longer) = After(x) \o FlattenSeq(rev(pl))
  <2> HIDE DEF rev
  <2> QED BY <1>2, <1>4, FlattenCons
<1> HIDE DEF longer, rev, all
<1>10. Behind(all) = After(x) \o Behind(pl) BY <1>3, <1>8, <1>9
<1> QED BY <1>10 DEF all

LEMMA TodoType ==
  ASSUME NEW pl \in Seq(PlaceSet), NEW x \in PlaceSet
  PROVE  Todo(pl, x) \in Seq(Byte) /\ Todo(pl, x) # <<>>
<1>1. Rest(x.part, x.fld) \in Seq(Byte) /\ Rest(x.part, x.fld) # <<>> BY PlaceType, RestType
<1>2. Behind(pl) \in Seq(Byte) BY BehindParts
<1> DEFINE r == Rest(x.part, x.fld)
<1> DEFINE b == Behind(pl)
<1>3. r \in Seq(Byte) /\ r # <<>> /\ b \in Seq(Byte) /\ Todo(pl, x) = r \o b
  BY <1>1, <1>2 DEF Todo
<1> HIDE DEF r, b
<1>4. r \o b \in Seq(Byte) BY <1>3, ConcatProperties
<1>5. r \o b # <<>> BY <1>3, ConcatEqualIffEmpty
<1> QED BY <1>3, <1>4, <1>5

\* Nothing is due for a field that is not sent.
LEMMA TodoOmitted ==
  ASSUME NEW pl \in Seq(PlaceSet), NEW x \in PlaceSet, x.fld \notin Present(x.part)
  PROVE  Todo(pl, x) = Todo(pl, Onward(x))
<1>1. Rest(x.part, x.fld) = Rest(x.part, x.fld + 1) BY PlaceType, RestOmitted
<1> QED BY <1>1 DEF Todo, Onward, Place

\* A field that is sent: the distance, the element, and the fields behind it.
LEMMA TodoPresent ==
  ASSUME NEW pl \in Seq(PlaceSet), NEW x \in PlaceSet, x.fld \in Present(x.part)
  PROVE  /\ x.fld - Previous(x.part, x.fld) \in Byte
         /\ ElementOf(x.part, x.fld) \in Seq(Byte)
         /\ ElementOf(x.part, x.fld) \o Todo(pl, Onward(x)) \in Seq(Byte)
         /\ Todo(pl, x) = <<x.fld - Previous(x.part, x.fld)>>
                            \o (ElementOf(x.part, x.fld) \o Todo(pl, Onward(x)))
<1> DEFINE d == x.fld - Previous(x.part, x.fld)
<1> DEFINE e == ElementOf(x.part, x.fld)
<1> DEFINE r == Rest(x.part, x.fld + 1)
<1> DEFINE b == Behind(pl)
<1> DEFINE h == <<d>>
<1>1. d \in Byte /\ e \in Seq(Byte) /\ r \in Seq(Byte) /\ Rest(x.part, x.fld) = h \o (e \o r)
  BY PlaceType, RestPresent
<1>2. b \in Seq(Byte) BY BehindParts
<1>3. h \in Seq(Byte) BY <1>1
<1>4. Todo(pl, x) = (h \o (e \o r)) \o b /\ Todo(pl, Onward(x)) = r \o b
  BY <1>1 DEF Todo, Onward, Place
<1> HIDE DEF d, e, r, b, h
<1> DEFINE er == e \o r
<1> DEFINE rb == r \o b
<1>5. er \in Seq(Byte) /\ rb \in Seq(Byte) /\ e \o rb \in Seq(Byte) BY <1>1, <1>2, ConcatProperties
<1>6. Associates(h, er, b)
  <2> HIDE DEF er
  <2> QED BY <1>2, <1>3, <1>5, Associative
<1>7. Associates(e, r, b) BY <1>1, <1>2, Associative
<1>8. (h \o er) \o b = h \o (er \o b)
  <2> HIDE DEF er
  <2> QED BY <1>6 DEF Associates
<1>9. er \o b = e \o rb BY <1>7 DEF Associates
<1>10. Todo(pl, x) = h \o (e \o rb) BY <1>4, <1>8, <1>9
<1> QED BY <1>1, <1>4, <1>5, <1>10 DEF d, e, h

\* A field that is a structure: the distance, the type mark, and all of the structure
\* with the fields behind it in the places below.
LEMMA TodoStruct ==
  ASSUME NEW pl \in Seq(PlaceSet), NEW x \in PlaceSet, x.fld \in Structs(x.part)
  PROVE  /\ Place(Inner(x.part, x.fld), 1) \in PlaceSet
         /\ TypeMark(FieldOf(x.part, x.fld).typeid) \in Byte
         /\ ElementOf(x.part, x.fld) \o Todo(pl, Onward(x)) =
              <<TypeMark(FieldOf(x.part, x.fld).typeid)>>
                \o Todo(Append(pl, x), Place(Inner(x.part, x.fld), 1))
<1> DEFINE q == Inner(x.part, x.fld)
<1> DEFINE t == TypeMark(FieldOf(x.part, x.fld).typeid)
<1> DEFINE w == WireStruct[q]
<1> DEFINE m == <<t>>
<1> DEFINE r == Todo(pl, Onward(x))
<1>1. x.part \in Parts /\ x.fld \in Nat \ {0} BY PlaceType
<1>2. q \in Parts BY <1>1, InnerIs
<1>3. Place(q, 1) \in PlaceSet BY <1>2 DEF Place, PlaceSet
<1>4. t \in Byte
  <2>1. x.fld \in 1..Len(EncFields[x.part[1]]) BY <1>1, PresentIn
  <2>2. FieldOf(x.part, x.fld) \in Fields BY <1>1, <2>1, PartIs
  <2> QED BY <2>2, FieldType
<1>5. w \in Seq(Byte) BY <1>2, WireType
<1>6. r \in Seq(Byte) BY PlaceType, TodoType
<1>7. m \in Seq(Byte) BY <1>4
<1>8. ElementOf(x.part, x.fld) = m \o w BY DEF ElementOf
<1>9. Todo(Append(pl, x), Place(q, 1)) = w \o r
  <2>1. Rest(q, 1) = w BY <1>2, RestWhole
  <2>2. Behind(Append(pl, x)) = After(x) \o Behind(pl) BY BehindAppend
  <2>3. r = After(x) \o Behind(pl) BY DEF Todo, Onward, Place, After
  <2> QED BY <2>1, <2>2, <2>3 DEF Todo, Place
<1> HIDE DEF m, w, r, q
<1>10. Associates(m, w, r) BY <1>5, <1>6, <1>7, Associative
<1>11. (m \o w) \o r = m \o (w \o r) BY <1>10 DEF Associates
<1> QED BY <1>3, <1>4, <1>8, <1>9, <1>11 DEF m, r, q

\* The end of a structure: the end mark, and what is due for the places below.
LEMMA TodoEnd ==
  ASSUME NEW pl \in Seq(PlaceSet), NEW x \in PlaceSet, x.fld > Len(EncFields[x.part[1]])
  PROVE  Todo(pl, x) = <<0>> \o Behind(pl)
BY PlaceType, RestEnd DEF Todo

LEMMA BehindIs ==
  ASSUME NEW pl \in Seq(PlaceSet), NEW x \in PlaceSet
  PROVE  Behind(Append(pl, x)) = Todo(pl, Onward(x))
BY BehindAppend DEF Todo, Onward, Place, After

(***************************************************************************)
(* What a buffer holds behind a position, when more is written to it.      *)
(***************************************************************************)

LEMMA AfterConcat ==
  ASSUME NEW S, NEW s \in Seq(S), NEW t \in Seq(S), NEW k \in 0..Len(s)
  PROVE  /\ s \o t \in Seq(S) /\ Len(s \o t) = Len(s) + Len(t) /\ k \in 0..Len(s \o t)
         /\ SubSeq(s \o t, k + 1, Len(s \o t)) = SubSeq(s, k + 1, Len(s)) \o t
<1> DEFINE a == SubSeq(s, 1, k)
<1> DEFINE b == SubSeq(s, k + 1, Len(s))
<1> DEFINE w == s \o t
<1> DEFINE c == SubSeq(w, 1, k)
<1> DEFINE d == SubSeq(w, k + 1, Len(w))
<1>1. a \in Seq(S) /\ Len(a) = k /\ b \in Seq(S) /\ a \o b = s BY SplitAt
<1>2. w \in Seq(S) /\ Len(w) = Len(s) + Len(t) BY ConcatProperties
<1>3. k \in 0..Len(w)
  <2>1. Len(s) \in Nat /\ Len(t) \in Nat BY LenProperties
  <2> HIDE DEF w
  <2> QED BY <1>2, <2>1
<1>4. c \in Seq(S) /\ Len(c) = k /\ d \in Seq(S) /\ c \o d = w
  <2> HIDE DEF w
  <2> QED BY <1>2, <1>3, SplitAt
<1>5. w = (a \o b) \o t BY <1>1
<1> HIDE DEF a, b, w, c, d
<1>6. Associates(a, b, t) BY <1>1, Associative
<1> DEFINE bt == b \o t
<1>7. w = a \o bt BY <1>5, <1>6 DEF Associates
<1>8. bt \in Seq(S) BY <1>1, ConcatProperties
<1> HIDE DEF bt
<1>9. d = bt BY <1>1, <1>4, <1>7, <1>8, ConcatEqual
<1> QED BY <1>2, <1>3, <1>9 DEF w, d, b, bt

LEMMA PairIs == \A a, b : <<a>> \o <<b>> = <<a, b>>
<1> SUFFICES ASSUME NEW a, NEW b PROVE <<a>> \o <<b>> = <<a, b>>
    OBVIOUS
<1> DEFINE S == {a, b}
<1> DEFINE x == <<a>>
<1> DEFINE y == <<b>>
<1> DEFINE z == <<a, b>>
<1> DEFINE u == x \o y
<1>1. /\ x \in Seq(S) /\ Len(x) = 1 /\ x[1] = a
      /\ y \in Seq(S) /\ Len(y) = 1 /\ y[1] = b
      /\ z \in Seq(S) /\ Len(z) = 2 /\ z[1] = a /\ z[2] = b
  OBVIOUS
<1> HIDE DEF S, x, y, z
<1>2. /\ u \in Seq(S) /\ Len(u) = 2
      /\ \A i \in 1..2 : u[i] = IF i <= 1 THEN x[i] ELSE y[i - 1]
  BY <1>1, ConcatProperties
<1> HIDE DEF u
<1>3. u[1] = a /\ u[2] = b BY <1>1, <1>2
<1>4. \A i \in 1..Len(u) : u[i] = z[i] BY <1>1, <1>2, <1>3
<1>5. u = z BY <1>1, <1>2, <1>4, SeqEqual
<1> QED BY <1>5 DEF u, x, y, z

LEMMA SliceKept ==
  ASSUME NEW S, NEW s \in Seq(S), NEW t \in Seq(S), NEW i \in Nat, NEW j \in Nat, i < j,
         j <= Len(s)
  PROVE  SubSeq(s \o t, i + 1, j) = SubSeq(s, i + 1, j)
<1>1. Len(s) \in Nat BY LenProperties
<1>2. i + 1 \in 1..Len(s) /\ j \in 1..Len(s) BY <1>1
<1> QED BY <1>2, SubSeqOfConcat1

(***************************************************************************)
(* The frames of the encoder functions as places.                          *)
(***************************************************************************)

FramePart(f) == <<f.typeid, f.value>>
FramePlace(f) == Place(FramePart(f), f.fld)
Places(s) == [i \in 1..Len(s) |-> FramePlace(s[i])]

\* The distance of a frame is that of its field from the last field sent, and the
\* functions below the top are in the structure the one above writes.
FramesMean(s) ==
  \A i \in 1..Len(s) :
    /\ s[i].delta = s[i].fld - Previous(FramePart(s[i]), s[i].fld)
    /\ i < Len(s) => s[i].fld \in Structs(FramePart(s[i]))

LEMMA FrameIs ==
  ASSUME NEW f \in EncFrames, EncFrameOK(f)
  PROVE  /\ FramePart(f) \in Parts /\ FramePlace(f) \in PlaceSet
         /\ FramePlace(f).part = FramePart(f) /\ FramePlace(f).fld = f.fld
         /\ f.fld \in Nat \ {0} /\ FramePart(f)[1] = f.typeid /\ FramePart(f)[2] = f.value
<1>1. f.typeid \in DOMAIN EncFields /\ f.fld \in Nat BY DEF EncFrames
<1>2. f.value \in Structures[f.typeid] /\ f.fld \in 1..(Len(EncFields[f.typeid]) + 1)
  BY DEF EncFrameOK
<1>3. FramePart(f) \in Parts BY <1>1, <1>2, PartIn DEF FramePart
<1>4. f.fld \in Nat \ {0} BY <1>1, <1>2
<1> QED BY <1>3, <1>4 DEF FramePlace, Place, PlaceSet, FramePart

LEMMA PlacesType ==
  ASSUME NEW s, EncStackOK(s)
  PROVE  Places(s) \in Seq(PlaceSet) /\ Len(Places(s)) = Len(s)
<1>1. s \in Seq(EncFrames) /\ Len(s) \in Nat BY LenProperties DEF EncStackOK
<1>2. ASSUME NEW i \in 1..Len(s) PROVE FramePlace(s[i]) \in PlaceSet
  <2>1. s[i] \in EncFrames BY <1>1, ElementOfSeq
  <2>2. EncFrameOK(s[i]) BY DEF EncStackOK
  <2> QED BY <2>1, <2>2, FrameIs
<1> DEFINE n == Len(s)
<1>3. Places(s) = [i \in 1..n |-> FramePlace(s[i])] BY DEF Places
<1> HIDE DEF n
<1>4. Places(s) \in [1..n -> PlaceSet] BY <1>2, <1>3 DEF n
<1>5. Places(s) \in Seq(PlaceSet) /\ Len(Places(s)) = n BY <1>1, <1>4 DEF n
<1> QED BY <1>5 DEF n

LEMMA PlacesEmpty == Places(<<>>) = <<>>
<1>1. Len(<<>>) = 0 /\ EncStackOK(<<>>) BY EmptySeq, EncEmptyOK
<1>2. Places(<<>>) \in Seq(PlaceSet) /\ Len(Places(<<>>)) = 0 BY <1>1, PlacesType
<1> QED BY <1>2, EmptySeq

LEMMA PlacesAppend ==
  ASSUME NEW s, EncStackOK(s), NEW f \in EncFrames, EncFrameOK(f)
  PROVE  Places(Append(s, f)) = Append(Places(s), FramePlace(f))
<1> DEFINE n == Len(s)
<1> DEFINE all == Append(s, f)
<1>1. s \in Seq(EncFrames) /\ n \in Nat BY LenProperties DEF EncStackOK
<1>2. all \in Seq(EncFrames) /\ Len(all) = n + 1 /\ all[n + 1] = f /\ \A i \in 1..n : all[i] = s[i]
  BY <1>1, AppendProperties
<1>3. Places(s) \in Seq(PlaceSet) /\ Len(Places(s)) = n BY PlacesType
<1>4. FramePlace(f) \in PlaceSet BY FrameIs
<1> DEFINE b == Append(Places(s), FramePlace(f))
<1>5. b \in Seq(PlaceSet) /\ Len(b) = n + 1 /\ b[n + 1] = FramePlace(f)
      /\ \A i \in 1..n : b[i] = Places(s)[i]
  BY <1>3, <1>4, AppendProperties
<1> HIDE DEF all, b
<1>6. Places(all) = [i \in 1..(n + 1) |-> FramePlace(all[i])] BY <1>2 DEF Places
<1>7. \A i \in 1..n : Places(s)[i] = FramePlace(s[i]) BY DEF Places
<1> HIDE DEF n
<1>8. ASSUME NEW i \in 1..(n + 1) PROVE FramePlace(all[i]) = b[i]
  <2>1. CASE i = n + 1 BY <1>2, <1>5, <2>1
  <2>2. CASE i # n + 1
    <3>1. i \in 1..n BY <1>1, <2>2
    <3> QED BY <1>2, <1>5, <1>7, <3>1
  <2> QED BY <2>1, <2>2
<1>9. Places(all) = [i \in 1..(n + 1) |-> b[i]] BY <1>6, <1>8
<1>10. b = [i \in 1..(n + 1) |-> b[i]]
  <2>1. Len(b) = n + 1 /\ b \in Seq(PlaceSet) BY <1>5
  <2> QED BY <1>1, <2>1
<1> QED BY <1>9, <1>10 DEF all, b

\* What is still to be written for a message: from the field of the top function on.
Due(s) == Todo(Places(Front(s)), FramePlace(Last(s)))

\* A stack below its top, and the top.
LEMMA StackTop ==
  ASSUME NEW s, EncStackOK(s), s # <<>>
  PROVE  /\ EncStackOK(Front(s)) /\ Last(s) \in EncFrames /\ EncFrameOK(Last(s))
         /\ Places(Front(s)) \in Seq(PlaceSet) /\ FramePlace(Last(s)) \in PlaceSet
         /\ s = Append(Front(s), Last(s)) /\ Len(s) \in Nat \ {0} /\ Len(Front(s)) = Len(s) - 1
<1>1. s \in Seq(EncFrames) BY DEF EncStackOK
<1>2. Last(s) \in EncFrames /\ EncFrameOK(Last(s)) BY EncTop
<1>3. s = Append(Front(s), Last(s)) /\ Front(s) \in Seq(EncFrames) /\ Len(s) \in Nat \ {0}
      /\ Len(Front(s)) = Len(s) - 1
  BY <1>1, FrontLast
<1>4. EncStackOK(Front(s))
  <2>1. CASE Len(s) = 1
    <3>1. Front(s) = <<>> BY <1>3, <2>1, EmptySeq
    <3> QED BY <3>1, EncEmptyOK
  <2>2. CASE Len(s) # 1 BY <2>2, EncPopOK
  <2> QED BY <2>1, <2>2
<1>5. Places(Front(s)) \in Seq(PlaceSet) BY <1>4, PlacesType
<1>6. FramePlace(Last(s)) \in PlaceSet BY <1>2, FrameIs
<1> QED BY <1>2, <1>3, <1>4, <1>5, <1>6

\* A stack with a frame put on it, as a stack below its top, and the top.
LEMMA StackPut ==
  ASSUME NEW s \in Seq(EncFrames), NEW f \in EncFrames
  PROVE  Due(Append(s, f)) = Todo(Places(s), FramePlace(f))
<1>1. Front(Append(s, f)) = s /\ Last(Append(s, f)) = f BY AppendFrontLast
<1> QED BY <1>1 DEF Due

LEMMA DueType ==
  ASSUME NEW s, EncStackOK(s), s # <<>>
  PROVE  Due(s) \in Seq(Byte) /\ Due(s) # <<>>
BY StackTop, TodoType DEF Due

\* The next field of the top function: one place on.
LEMMA NextDue ==
  ASSUME NEW s, EncStackOK(s), s # <<>>, InFieldE(Last(s)), NEW d \in 1..(Last(s).fld + 1)
  PROVE  /\ Due(ENext(s, d)) = Todo(Places(Front(s)), Onward(FramePlace(Last(s))))
         /\ ENext(s, d) = Append(Front(s), [Last(s) EXCEPT !.fld = @ + 1, !.delta = d])
<1> DEFINE f == Last(s)
<1> DEFINE g == [f EXCEPT !.fld = f.fld + 1, !.delta = d]
<1>1. s \in Seq(EncFrames) /\ Front(s) \in Seq(EncFrames) BY FrontLast DEF EncStackOK
<1>2. f \in EncFrames /\ EncFrameOK(f) BY EncTop
<1>3. ENext(s, d) = [s EXCEPT ![Len(s)] = g] BY DEF ENext
<1> HIDE DEF f
<1>4. f.fld \in Nat \ {0} /\ f.fld + 1 \in Nat /\ d \in Nat BY <1>2, FrameIs DEF f
<1>5. g \in EncFrames /\ g.typeid = f.typeid /\ g.value = f.value /\ g.fld = f.fld + 1 /\ g.delta = d
  BY <1>2, <1>4 DEF EncFrames
<1> HIDE DEF g
<1>6. ENext(s, d) = Append(Front(s), g) BY <1>1, <1>3, <1>5, LastReplaced
<1>7. FramePlace(g) = Onward(FramePlace(f)) BY <1>5 DEF FramePlace, FramePart, Onward, Place
<1>8. Due(ENext(s, d)) = Todo(Places(Front(s)), FramePlace(g)) BY <1>1, <1>5, <1>6, StackPut
<1>9. g = [Last(s) EXCEPT !.fld = @ + 1, !.delta = d] BY DEF g, f
<1> QED BY <1>6, <1>7, <1>8, <1>9 DEF f

\* A stack that differs from one that means what it says in its top only.
LEMMA MeanFront ==
  ASSUME NEW s, EncStackOK(s), s # <<>>, FramesMean(s)
  PROVE  /\ FramesMean(Front(s))
         /\ Last(s).delta = Last(s).fld - Previous(FramePart(Last(s)), Last(s).fld)
         /\ Front(s) # <<>> => Last(Front(s)).fld \in Structs(FramePart(Last(Front(s))))
<1> DEFINE a == Front(s)
<1> DEFINE e == Last(s)
<1>1. s \in Seq(EncFrames) /\ a \in Seq(EncFrames) /\ s = Append(a, e) /\ e \in EncFrames
      /\ Len(s) \in Nat \ {0} /\ Len(a) = Len(s) - 1
  BY FrontLast DEF EncStackOK
<1>2. e = s[Len(s)] BY DEF Last
<1> HIDE DEF a, e
<1>3. \A i \in 1..Len(a) : s[i] = a[i] BY <1>1, AppendProperties
<1>4. \A i \in 1..Len(a) : i \in 1..Len(s) /\ i < Len(s) BY <1>1
<1>5. \A i \in 1..Len(a) :
        /\ a[i].delta = a[i].fld - Previous(FramePart(a[i]), a[i].fld)
        /\ a[i].fld \in Structs(FramePart(a[i]))
  BY <1>3, <1>4 DEF FramesMean
<1>6. FramesMean(a) BY <1>5 DEF FramesMean
<1>7. e.delta = e.fld - Previous(FramePart(e), e.fld)
  <2>1. Len(s) \in 1..Len(s) BY <1>1
  <2> QED BY <1>2, <2>1 DEF FramesMean
<1>8. ASSUME a # <<>> PROVE Last(a).fld \in Structs(FramePart(Last(a)))
  <2>1. Len(a) \in 1..Len(a)
    <3>1. Len(a) \in Nat \ {0} BY <1>1, <1>8, FrontLast
    <3> QED BY <3>1
  <2> QED BY <1>5, <2>1 DEF Last
<1> QED BY <1>6, <1>7, <1>8 DEF a, e

LEMMA MeanPut ==
  ASSUME NEW s, EncStackOK(s), FramesMean(s), NEW f \in EncFrames,
         f.delta = f.fld - Previous(FramePart(f), f.fld),
         s # <<>> => Last(s).fld \in Structs(FramePart(Last(s)))
  PROVE  FramesMean(Append(s, f))
<1> DEFINE n == Len(s)
<1> DEFINE all == Append(s, f)
<1>1. s \in Seq(EncFrames) /\ n \in Nat BY LenProperties DEF EncStackOK
<1>2. all \in Seq(EncFrames) /\ Len(all) = n + 1 /\ all[n + 1] = f /\ \A i \in 1..n : all[i] = s[i]
  BY <1>1, AppendProperties
<1> HIDE DEF all
<1>3. ASSUME NEW i \in 1..(n + 1)
      PROVE  /\ all[i].delta = all[i].fld - Previous(FramePart(all[i]), all[i].fld)
             /\ i < n + 1 => all[i].fld \in Structs(FramePart(all[i]))
  <2>1. CASE i = n + 1 BY <1>1, <1>2, <2>1
  <2>2. CASE i = n
    <3>1. i \in 1..n /\ n # 0 BY <1>1, <2>2
    <3>2. s # <<>> BY <1>1, <3>1, EmptySeq
    <3>3. Last(s) = s[i] BY <2>2 DEF Last
    <3> QED BY <1>2, <3>1, <3>2, <3>3 DEF FramesMean
  <2>3. CASE i < n
    <3>1. i \in 1..n BY <1>1, <2>3
    <3> QED BY <1>2, <2>3, <3>1 DEF FramesMean
  <2> QED BY <1>1, <2>1, <2>2, <2>3
<1> QED BY <1>2, <1>3 DEF FramesMean, all

\* The distance of the next field: one more behind a field that is not sent, 1 behind one
\* that is.
LEMMA MeanNext ==
  ASSUME NEW s, EncStackOK(s), s # <<>>, FramesMean(s), InFieldE(Last(s)),
         NEW d \in 1..(Last(s).fld + 1),
         d = IF Last(s).fld \in Present(FramePart(Last(s))) THEN 1 ELSE Last(s).delta + 1
  PROVE  FramesMean(ENext(s, d))
<1> DEFINE f == Last(s)
<1> DEFINE p == FramePart(f)
<1> DEFINE g == [f EXCEPT !.fld = f.fld + 1, !.delta = d]
<1>1. f \in EncFrames /\ EncFrameOK(f) /\ EncStackOK(Front(s)) BY StackTop
<1>2. f.delta = f.fld - Previous(p, f.fld) /\ FramesMean(Front(s))
      /\ (Front(s) # <<>> => Last(Front(s)).fld \in Structs(FramePart(Last(Front(s)))))
  BY MeanFront
<1>3. ENext(s, d) = Append(Front(s), g) BY NextDue
<1>4. p \in Parts /\ f.fld \in Nat \ {0} BY <1>1, FrameIs
<1>5. d = IF f.fld \in Present(p) THEN 1 ELSE f.delta + 1 OBVIOUS
<1>s. d \in 1..(f.fld + 1) OBVIOUS
<1> HIDE DEF f
<1>6. g \in EncFrames /\ g.typeid = f.typeid /\ g.value = f.value /\ g.fld = f.fld + 1 /\ g.delta = d
  <2>1. f.fld + 1 \in Nat /\ d \in Nat BY <1>4, <1>s
  <2> QED BY <1>1, <2>1 DEF EncFrames
<1>7. FramePart(g) = p BY <1>6 DEF FramePart
<1> HIDE DEF p
<1>8. /\ Previous(p, f.fld) \in 0..(f.fld - 1)
      /\ f.fld \notin Present(p) => Previous(p, f.fld + 1) = Previous(p, f.fld)
      /\ f.fld \in Present(p) => Previous(p, f.fld + 1) = f.fld
  BY <1>4, PreviousIs
<1> DEFINE q == Previous(p, f.fld + 1)
<1> DEFINE q0 == Previous(p, f.fld)
<1>8a. /\ q0 \in 0..(f.fld - 1) /\ (f.fld \notin Present(p) => q = q0)
       /\ (f.fld \in Present(p) => q = f.fld) /\ f.delta = f.fld - q0
  BY <1>2, <1>8
<1> HIDE DEF q0, q
<1>9. d = (f.fld + 1) - q
  <2>1. CASE f.fld \in Present(p) BY <1>4, <1>5, <1>8a, <2>1
  <2>2. CASE f.fld \notin Present(p)
    <3>1. d = f.delta + 1 /\ q = q0 /\ f.delta = f.fld - q0 BY <1>5, <1>8a, <2>2
    <3> QED BY <1>4, <1>8a, <3>1
  <2> QED BY <2>1, <2>2
<1> HIDE DEF g
<1>10. g.delta = g.fld - Previous(FramePart(g), g.fld)
  <2>1. g.fld = f.fld + 1 /\ FramePart(g) = p /\ g.delta = d BY <1>6, <1>7
  <2>2. g.delta = (f.fld + 1) - Previous(p, f.fld + 1) BY <1>9, <2>1 DEF q
  <2> QED BY <2>1, <2>2, Zenon
<1> QED BY <1>1, <1>2, <1>3, <1>6, <1>10, MeanPut

\* A function that has just been called is at its first field, at distance 1.
LEMMA CalledFrame ==
  ASSUME NEW t \in DOMAIN EncFields, NEW v \in Structures[t]
  PROVE  LET f == EncoderFrame(t, v)
         IN  /\ f \in EncFrames /\ EncFrameOK(f) /\ FramePlace(f) = Place(<<t, v>>, 1)
             /\ f.delta = f.fld - Previous(FramePart(f), f.fld) /\ <<t, v>> \in Parts
<1> DEFINE f == EncoderFrame(t, v)
<1>1. f.typeid = t /\ f.value = v /\ f.fld = 1 /\ f.delta = 1 /\ f \in EncFrames
  BY DEF EncoderFrame, EncFrames
<1>2. Len(EncFields[t]) \in 0..127 BY EncFieldType
<1> HIDE DEF f
<1>3. EncFrameOK(f) BY <1>1, <1>2 DEF EncFrameOK
<1>4. <<t, v>> \in Parts BY PartIn
<1>5. Previous(<<t, v>>, 1) = 0 BY <1>4, PreviousIs
<1>6. FramePlace(f) = Place(<<t, v>>, 1) /\ FramePart(f) = <<t, v>>
  BY <1>1 DEF FramePlace, FramePart
<1>7. f.delta = f.fld - Previous(FramePart(f), f.fld) BY <1>1, <1>5, <1>6
<1> QED BY <1>1, <1>3, <1>4, <1>6, <1>7 DEF f

(***************************************************************************)
(* The messages in the buffer.                                             *)
(***************************************************************************)

Whole(m) == <<TypeMark(m.typeid)>> \o WireStruct[PartOf(m)]
EndOf(fin) == IF fin = <<>> THEN 0 ELSE Last(fin).end
Begun(st, fin) == SubSeq(st, EndOf(fin) + 1, Len(st))

Stored(st, r) ==
  r.at < r.end /\ r.end <= Len(st) /\ SubSeq(st, r.at + 1, r.end) = Whole(r.msg)
AllStored(st, fin) == \A k \in 1..Len(fin) : Stored(st, fin[k])

\* One message starts where the one before it ends.
Chained(s) == \A k \in 1..Len(s) : s[k].at = IF k = 1 THEN 0 ELSE s[k - 1].end

CutShort(bytes) ==
  \E m \in Messages : \E rest \in Seq(Byte) : rest # <<>> /\ bytes \o rest = Whole(m)

LEMMA MessageIs ==
  ASSUME NEW m \in Messages
  PROVE  /\ PartOf(m) \in Parts /\ TypeMark(m.typeid) \in Byte
         /\ Whole(m) \in Seq(Byte) /\ Whole(m) # <<>>
         /\ Whole(m) = <<TypeMark(m.typeid)>> \o Todo(<<>>, Place(PartOf(m), 1))
         /\ Place(PartOf(m), 1) \in PlaceSet
<1>1. m.typeid \in DOMAIN EncFields /\ m.value \in Structures[m.typeid] BY MessagesAssumption
<1>2. PartOf(m) \in Parts BY <1>1, PartIn DEF PartOf
<1>3. TypeMark(m.typeid) \in Byte
  <2>1. m.typeid \in 1..63 BY <1>1, StreamAssumption
  <2> QED BY <2>1 DEF TypeMark, Zigzag, Byte
<1> DEFINE w == WireStruct[PartOf(m)]
<1> DEFINE t == TypeMark(m.typeid)
<1>4. w \in Seq(Byte) /\ t \in Byte BY <1>2, <1>3, WireType
<1>5. Todo(<<>>, Place(PartOf(m), 1)) = w \o <<>> BY <1>2, RestWhole, BehindEmpty DEF Todo, Place
<1>6. Whole(m) = <<t>> \o w BY DEF Whole
<1> HIDE DEF w, t
<1>7. <<t>> \o w \in Seq(Byte) /\ <<t>> \o w # <<>> BY <1>4, ConsProperties
<1>8. w \o <<>> = w BY <1>4, ConcatEmptySeq
<1>9. Place(PartOf(m), 1) \in PlaceSet BY <1>2 DEF Place, PlaceSet
<1> QED BY <1>2, <1>4, <1>5, <1>6, <1>7, <1>8, <1>9 DEF w, t

\* The end of the complete messages is a position in the bytes.
LEMMA EndIs ==
  ASSUME NEW st \in Seq(Byte), NEW fin \in Seq(SentRecords), AllStored(st, fin)
  PROVE  /\ EndOf(fin) \in 0..Len(st) /\ EndOf(fin) \in Nat
         /\ Begun(st, fin) \in Seq(Byte) /\ Len(Begun(st, fin)) = Len(st) - EndOf(fin)
<1>1. Len(st) \in Nat BY LenProperties
<1>2. EndOf(fin) \in 0..Len(st)
  <2>1. CASE fin = <<>> BY <1>1, <2>1 DEF EndOf
  <2>2. CASE fin # <<>>
    <3>1. Len(fin) \in Nat \ {0} /\ Last(fin) \in SentRecords BY <2>2, FrontLast
    <3>2. Len(fin) \in 1..Len(fin) /\ Last(fin) = fin[Len(fin)] BY <3>1 DEF Last
    <3>3. Last(fin).end \in Nat BY <3>1 DEF SentRecords
    <3>4. Last(fin).end <= Len(st) BY <3>2 DEF AllStored, Stored
    <3> QED BY <1>1, <2>2, <3>3, <3>4 DEF EndOf
  <2> QED BY <2>1, <2>2
<1>3. Begun(st, fin) \in Seq(Byte) /\ Len(Begun(st, fin)) = Len(st) - EndOf(fin)
  BY <1>2, SplitAt DEF Begun
<1> QED BY <1>1, <1>2, <1>3

\* Writing more changes no message that is complete.
LEMMA WritesKeep ==
  ASSUME NEW st \in Seq(Byte), NEW fin \in Seq(SentRecords), AllStored(st, fin),
         NEW w \in Seq(Byte)
  PROVE  /\ st \o w \in Seq(Byte) /\ AllStored(st \o w, fin)
         /\ Begun(st \o w, fin) = Begun(st, fin) \o w
<1>1. Len(st) \in Nat /\ Len(w) \in Nat /\ st \o w \in Seq(Byte) /\ Len(st \o w) = Len(st) + Len(w)
  BY LenProperties, ConcatProperties
<1>2. EndOf(fin) \in 0..Len(st) BY EndIs
<1>3. Begun(st \o w, fin) = Begun(st, fin) \o w BY <1>2, AfterConcat DEF Begun
<1>4. ASSUME NEW k \in 1..Len(fin) PROVE Stored(st \o w, fin[k])
  <2> DEFINE r == fin[k]
  <2>1. r \in SentRecords BY ElementOfSeq
  <2>2. r.at \in Nat /\ r.end \in Nat BY <2>1 DEF SentRecords
  <2>3. r.at < r.end /\ r.end <= Len(st) /\ SubSeq(st, r.at + 1, r.end) = Whole(r.msg)
    BY DEF AllStored, Stored
  <2> HIDE DEF r
  <2>4. SubSeq(st \o w, r.at + 1, r.end) = SubSeq(st, r.at + 1, r.end) BY <2>2, <2>3, SliceKept
  <2>5. r.end <= Len(st \o w) BY <1>1, <2>2, <2>3
  <2> QED BY <2>3, <2>4, <2>5 DEF Stored, r
<1> QED BY <1>1, <1>3, <1>4 DEF AllStored

\* A message that is complete joins the others.
LEMMA OneMore ==
  ASSUME NEW st \in Seq(Byte), NEW fin \in Seq(SentRecords), AllStored(st, fin),
         NEW r \in SentRecords, r.at = EndOf(fin), r.end = Len(st),
         Begun(st, fin) = Whole(r.msg)
  PROVE  AllStored(st, Append(fin, r)) /\ Begun(st, Append(fin, r)) = <<>>
<1> DEFINE all == Append(fin, r)
<1>1. all \in Seq(SentRecords) /\ Len(all) = Len(fin) + 1 /\ all[Len(fin) + 1] = r
      /\ \A k \in 1..Len(fin) : all[k] = fin[k]
  BY AppendProperties
<1>2. Last(all) = r /\ all # <<>> BY AppendFrontLast, AppendProperties
<1> HIDE DEF all
<1>3. Stored(st, r)
  <2>1. r.msg \in Messages BY DEF SentRecords
  <2>2. Whole(r.msg) \in Seq(Byte) /\ Whole(r.msg) # <<>> BY <2>1, MessageIs
  <2>3. Len(Begun(st, fin)) = Len(st) - EndOf(fin) /\ EndOf(fin) \in 0..Len(st) BY EndIs
  <2>4. Len(Whole(r.msg)) # 0 BY <2>2, EmptySeq
  <2>5. Len(st) \in Nat BY LenProperties
  <2>6. r.at < r.end BY <2>3, <2>4, <2>5
  <2>7. SubSeq(st, r.at + 1, r.end) = Whole(r.msg) BY DEF Begun
  <2> QED BY <2>5, <2>6, <2>7 DEF Stored
<1>4. Len(fin) \in Nat BY LenProperties
<1>5. ASSUME NEW k \in 1..Len(all) PROVE Stored(st, all[k])
  <2>1. CASE k = Len(fin) + 1 BY <1>1, <1>3, <2>1
  <2>2. CASE k # Len(fin) + 1
    <3>1. k \in 1..Len(fin) BY <1>1, <1>4, <2>2
    <3> QED BY <1>1, <3>1 DEF AllStored
  <2> QED BY <2>1, <2>2
<1>6. EndOf(all) = Len(st) BY <1>2 DEF EndOf
<1>7. Begun(st, all) = <<>> BY <1>6, AfterAll DEF Begun
<1> QED BY <1>5, <1>7 DEF AllStored, all

\* The start of a message that joins the others, and the end that the last one gets.
LEMMA ChainedMore ==
  ASSUME NEW fin \in Seq(SentRecords), NEW r \in SentRecords
  PROVE  Chained(Append(fin, r)) <=> Chained(fin) /\ r.at = EndOf(fin)
<1> DEFINE all == Append(fin, r)
<1> DEFINE n == Len(fin)
<1> DEFINE LinkOf(s, k) == s[k].at = IF k = 1 THEN 0 ELSE s[k - 1].end
<1>1. all \in Seq(SentRecords) /\ Len(all) = n + 1 /\ all[n + 1] = r /\ \A k \in 1..n : all[k] = fin[k]
  BY AppendProperties
<1>2. n \in Nat BY LenProperties
<1>5. fin = <<>> <=> n = 0 BY EmptySeq
<1>6. Last(fin) = fin[n] BY DEF Last
<1>7. Chained(all) <=> \A k \in 1..Len(all) : LinkOf(all, k) BY DEF Chained
<1>8. Chained(fin) <=> \A k \in 1..n : LinkOf(fin, k) BY DEF Chained
<1> HIDE DEF all, n
<1>3. \A k \in 1..n : LinkOf(all, k) <=> LinkOf(fin, k)
  <2> SUFFICES ASSUME NEW k \in 1..n PROVE LinkOf(all, k) <=> LinkOf(fin, k) OBVIOUS
  <2>1. all[k] = fin[k] BY <1>1
  <2>2. k # 1 => k - 1 \in 1..n BY <1>2
  <2>3. k # 1 => all[k - 1] = fin[k - 1] BY <1>1, <2>2
  <2> QED BY <2>1, <2>3
<1>4. LinkOf(all, n + 1) <=> r.at = EndOf(fin)
  <2>1. CASE n = 0 BY <1>1, <1>5, <2>1 DEF EndOf
  <2>2. CASE n # 0
    <3>1. n \in 1..n /\ n + 1 # 1 /\ n + 1 - 1 = n BY <1>2, <2>2
    <3>2. all[n + 1 - 1] = fin[n] BY <1>1, <3>1
    <3>3. LinkOf(all, n + 1) <=> r.at = fin[n].end BY <1>1, <3>1, <3>2
    <3> QED BY <1>5, <1>6, <2>2, <3>3 DEF EndOf
  <2> QED BY <2>1, <2>2
<1> HIDE DEF LinkOf
<1>9. 1..Len(all) = (1..n) \cup {n + 1} BY <1>1, <1>2
<1> QED BY <1>3, <1>4, <1>7, <1>8, <1>9 DEF all

(***************************************************************************)
(* The encoder: at any time, what it has written of a message and what it  *)
(* has still to write are together what ENCODING describes.                *)
(***************************************************************************)

Finished == IF estack = <<>> THEN sent ELSE Front(sent)

WireInv ==
  /\ FramesMean(estack)
  /\ AllStored(stream, Finished)
  /\ Chained(sent)
  /\ estack # <<>> =>
       /\ Last(sent).end = 0
       /\ Begun(stream, Finished) \o Due(estack) = Whole(Last(sent).msg)
  /\ estack = <<>> /\ enc = "open" => Begun(stream, Finished) = <<>>
  /\ enc = "failed" => CutShort(Begun(stream, Finished))

\* The invariant gives the property: a message with an end is complete.
LEMMA WireSuffices ==
  ASSUME EncInv, WireInv
  PROVE  WireFormat
<1>1. sent \in Seq(SentRecords) BY DEF EncInv
<1>2. Len(sent) \in Nat /\ DOMAIN sent = 1..Len(sent) BY <1>1, LenProperties
<1>3. ASSUME NEW k \in DOMAIN sent, sent[k].end # 0
      PROVE  SubSeq(stream, sent[k].at + 1, sent[k].end) =
               <<TypeMark(sent[k].msg.typeid)>> \o WireStruct[PartOf(sent[k].msg)]
  <2>1. Stored(stream, sent[k])
    <3>1. CASE estack = <<>> BY <1>2, <3>1 DEF WireInv, Finished, AllStored
    <3>2. CASE estack # <<>>
      <4> DEFINE f == Front(sent)
      <4>1. sent # <<>> /\ Last(sent).end = 0 BY <3>2 DEF EncInv, WireInv
      <4>2. f \in Seq(SentRecords) /\ Len(f) = Len(sent) - 1 /\ sent = Append(f, Last(sent))
            /\ Last(sent) \in SentRecords
        BY <1>1, <4>1, FrontLast
      <4>3. AllStored(stream, f) BY <3>2 DEF WireInv, Finished
      <4> HIDE DEF f
      <4>4. \A i \in 1..Len(f) : sent[i] = f[i] BY <4>2, AppendProperties
      <4>5. k # Len(sent) BY <1>3, <4>1 DEF Last
      <4>6. k \in 1..Len(f) BY <1>2, <4>2, <4>5
      <4> QED BY <4>3, <4>4, <4>6 DEF AllStored
    <3> QED BY <3>1, <3>2
  <2> QED BY <2>1 DEF Stored, Whole
<1> QED BY <1>3 DEF WireFormat

\* The part and the field the encoder is in.
LEMMA FieldIs ==
  ASSUME EncInv, WireInv, InEncField
  PROVE  LET x == FramePlace(Last(estack))
         IN  /\ x \in PlaceSet /\ ETop = Last(estack) /\ x.part \in Parts
             /\ x.part = FramePart(Last(estack)) /\ x.fld = Last(estack).fld
             /\ EField = FieldOf(x.part, x.fld) /\ EValue = x.part[2][x.fld]
             /\ x.fld \in Present(x.part) <=> ~ Omitted(EField, EValue)
             /\ x.fld \in Structs(x.part) <=> ~ Omitted(EField, EValue) /\ IsStruct(EField)
             /\ ETop.delta = x.fld - Previous(x.part, x.fld)
             /\ estack # <<>> /\ EncStackOK(estack) /\ FramesMean(estack)
             /\ InFieldE(Last(estack))
<1> DEFINE f == Last(estack)
<1> DEFINE x == FramePlace(f)
<1>1. EncStackOK(estack) /\ estack # <<>> /\ InFieldE(f) BY EncFieldIs
<1>2. ETop = f BY DEF ETop
<1>3. f \in EncFrames /\ EncFrameOK(f) BY <1>1, EncTop
<1>4. EField = EncFields[f.typeid][f.fld] /\ EValue = f.value[f.fld]
  BY <1>2 DEF EField, EFields, EValue
<1>5. FramesMean(estack) BY DEF WireInv
<1>6. f.delta = f.fld - Previous(FramePart(f), f.fld) BY <1>1, <1>5, MeanFront
<1> HIDE DEF f
<1>7. x \in PlaceSet /\ x.part \in Parts /\ x.part = FramePart(f) /\ x.fld = f.fld
      /\ x.part[1] = f.typeid /\ x.part[2] = f.value /\ x.fld \in Nat \ {0}
  BY <1>3, FrameIs
<1> HIDE DEF x
<1>8. EField = FieldOf(x.part, x.fld) /\ EValue = x.part[2][x.fld] BY <1>4, <1>7 DEF FieldOf
<1>9. x.fld \in DOMAIN EncFields[x.part[1]]
  <2>1. DOMAIN EncFields[x.part[1]] = 1..Len(EncFields[x.part[1]])
        /\ Len(EncFields[x.part[1]]) \in Nat
    BY <1>7, PartIs
  <2>2. x.fld <= Len(EncFields[x.part[1]]) BY <1>1, <1>7 DEF InFieldE
  <2> QED BY <1>7, <2>1, <2>2
<1>10. x.fld \in Present(x.part) <=> ~ Omitted(EField, EValue) BY <1>8, <1>9 DEF Present
<1>11. x.fld \in Structs(x.part) <=> ~ Omitted(EField, EValue) /\ IsStruct(EField)
  BY <1>8, <1>10 DEF Structs
<1>12. ETop.delta = x.fld - Previous(x.part, x.fld) BY <1>2, <1>6, <1>7
<1> QED BY <1>1, <1>2, <1>5, <1>7, <1>8, <1>10, <1>11, <1>12 DEF x, f

\* A step inside a message: what it writes is the beginning of what was due.
LEMMA InMessage ==
  ASSUME EncInv, WireInv, EncInv', estack # <<>>, estack' # <<>>, enc = "open", enc' = enc,
         sent' = sent, FramesMean(estack'), NEW w \in Seq(Byte), stream' = stream \o w,
         Due(estack) = w \o Due(estack')
  PROVE  WireInv'
<1> DEFINE fin == Front(sent)
<1> DEFINE b == Begun(stream, fin)
<1> DEFINE d == Due(estack')
<1>1. Finished = fin /\ Finished' = fin BY DEF Finished
<1>2. stream \in Seq(Byte) /\ sent \in Seq(SentRecords) /\ sent # <<>> BY DEF EncInv
<1>3. fin \in Seq(SentRecords) BY <1>2, FrontLast
<1>4. AllStored(stream, fin) BY <1>1 DEF WireInv
<1>5. b \o Due(estack) = Whole(Last(sent).msg) BY <1>1 DEF WireInv
<1> HIDE DEF fin
<1>6. b \in Seq(Byte) BY <1>2, <1>3, <1>4, EndIs
<1>7. AllStored(stream \o w, fin) /\ Begun(stream \o w, fin) = b \o w
  BY <1>2, <1>3, <1>4, WritesKeep
<1>8. d \in Seq(Byte)
  <2>1. EncStackOK(estack') BY DEF EncInv
  <2> QED BY <2>1, DueType
<1>9. b \o (w \o d) = Whole(Last(sent).msg) BY <1>5
<1> HIDE DEF b, d
<1>10. Associates(b, w, d) BY <1>6, <1>8, Associative
<1>11. (b \o w) \o d = Whole(Last(sent).msg) BY <1>9, <1>10 DEF Associates
<1>12. Begun(stream', fin) \o d = Whole(Last(sent').msg) BY <1>7, <1>11
<1>13. AllStored(stream', fin) BY <1>7
<1>14. Chained(sent') BY DEF WireInv
<1>15. Last(sent').end = 0 BY DEF WireInv
<1> QED BY <1>1, <1>12, <1>13, <1>14, <1>15 DEF WireInv, d

LEMMA WireStart ==
  ASSUME EncInv, WireInv, EncInv', NEW m \in Messages, EncodeStruct(m)
  PROVE  WireInv'
<1>1. stream \in Seq(Byte) /\ sent \in Seq(SentRecords) /\ estack = <<>> /\ enc = "open"
  BY DEF EncInv, EncodeStruct
<1>2. AllStored(stream, sent) /\ Begun(stream, sent) = <<>> /\ Chained(sent)
  BY <1>1 DEF WireInv, Finished
<1>3. Whole(m) \in Seq(Byte) /\ Whole(m) # <<>> /\ TypeMark(m.typeid) \in Byte BY MessageIs
<1>4. CASE m.named \/ HasHandler(ebase, m.typeid)
  <2> DEFINE r == [msg |-> m, at |-> Len(stream), end |-> 0]
  <2> DEFINE f == EncoderFrame(m.typeid, m.value)
  <2> DEFINE t == TypeMark(m.typeid)
  <2> DEFINE h == <<t>>
  <2>1. stream' = Append(stream, t) /\ estack' = <<f>> /\ enc' = enc /\ sent' = Append(sent, r)
    BY <1>4 DEF EncodeStruct
  <2>2. m.typeid \in DOMAIN EncFields /\ m.value \in Structures[m.typeid] BY MessagesAssumption
  <2>3. f \in EncFrames /\ FramePlace(f) = Place(PartOf(m), 1)
        /\ f.delta = f.fld - Previous(FramePart(f), f.fld)
    BY <2>2, CalledFrame DEF PartOf
  <2>4. r \in SentRecords /\ r.msg = m /\ r.end = 0 /\ r.at = Len(stream)
    BY <1>1, LenProperties DEF SentRecords
  <2>5. h \in Seq(Byte) BY <1>3
  <2>6. stream' = stream \o h BY <1>1, <1>3, <2>1, AppendIsConcat
  <2> HIDE DEF r, f, h
  <2>7. estack' = Append(<<>>, f) BY <2>1
  <2>8. estack' # <<>> BY <2>1
  <2>9. Front(sent') = sent /\ Last(sent') = r BY <1>1, <2>1, <2>4, AppendFrontLast
  <2>10. Finished' = sent BY <2>8, <2>9 DEF Finished
  <2>11. FramesMean(estack')
    <3>1. EncStackOK(<<>>) /\ FramesMean(<<>>)
      <4>1. Len(<<>>) = 0 BY EmptySeq
      <4>2. \A i \in 1..0 : FALSE OBVIOUS
      <4> QED BY <4>1, <4>2, EncEmptyOK DEF FramesMean
    <3> QED BY <2>3, <2>7, <3>1, MeanPut
  <2>12. AllStored(stream', sent) /\ Begun(stream', sent) = Begun(stream, sent) \o h
    BY <1>1, <1>2, <2>5, <2>6, WritesKeep
  <2>13. Begun(stream', sent) = h
    <3>1. <<>> \o h = h BY <2>5, ConcatEmptySeq
    <3> QED BY <1>2, <2>12, <3>1
  <2>14. Due(estack') = Todo(<<>>, Place(PartOf(m), 1))
    <3>1. <<>> \in Seq(EncFrames) BY EmptySeq
    <3> QED BY <2>3, <2>7, <3>1, StackPut, PlacesEmpty
  <2>15. h \o Due(estack') = Whole(m) BY <2>14, MessageIs DEF h
  <2>16. Chained(sent')
    <3>1. Len(Begun(stream, sent)) = Len(stream) - EndOf(sent) /\ EndOf(sent) \in 0..Len(stream)
      BY <1>1, <1>2, EndIs
    <3>2. Len(<<>>) = 0 /\ Len(stream) \in Nat BY <1>1, EmptySeq, LenProperties
    <3>3. r.at = EndOf(sent) BY <1>2, <2>4, <3>1, <3>2
    <3> QED BY <1>1, <1>2, <2>1, <2>4, <3>3, ChainedMore
  <2>17. enc' = "open" BY <1>1, <2>1
  <2> QED BY <2>4, <2>8, <2>9, <2>10, <2>11, <2>12, <2>13, <2>15, <2>16, <2>17 DEF WireInv
<1>5. CASE ~ (m.named \/ HasHandler(ebase, m.typeid))
  <2>1. enc' = "failed" /\ stream' = stream /\ estack' = estack /\ sent' = sent
    BY <1>5 DEF EncodeStruct
  <2>2. Finished' = sent BY <1>1, <2>1 DEF Finished
  <2>3. <<>> \o Whole(m) = Whole(m) BY <1>3, ConcatEmptySeq
  <2>4. CutShort(<<>>) BY <1>3, <2>3 DEF CutShort
  <2>5. FramesMean(estack') BY <2>1 DEF WireInv
  <2> QED BY <1>1, <1>2, <2>1, <2>2, <2>4, <2>5 DEF WireInv
<1> QED BY <1>4, <1>5

LEMMA WireOmit ==
  ASSUME EncInv, WireInv, EncInv', EncodeOmitted
  PROVE  WireInv'
<1> DEFINE x == FramePlace(Last(estack))
<1> DEFINE d == Last(estack).delta + 1
<1>1. InEncField /\ Omitted(EField, EValue) /\ enc = "open" BY DEF EncodeOmitted, InEncField
<1>2. /\ x \in PlaceSet /\ x.part = FramePart(Last(estack)) /\ x.fld = Last(estack).fld
      /\ x.fld \notin Present(x.part) /\ ETop = Last(estack)
      /\ estack # <<>> /\ EncStackOK(estack) /\ FramesMean(estack) /\ InFieldE(Last(estack))
  BY <1>1, FieldIs
<1>3. estack' = ENext(estack, d) /\ stream' = stream /\ enc' = enc /\ sent' = sent
  BY <1>2 DEF EncodeOmitted
<1>4. d \in 1..(Last(estack).fld + 1)
  <2> DEFINE e == Last(estack).delta
  <2> DEFINE n == Last(estack).fld
  <2>1. Last(estack) \in EncFrames /\ EncFrameOK(Last(estack)) BY <1>2, EncTop
  <2>2. e \in 1..n /\ n \in Nat BY <2>1 DEF EncFrames, EncFrameOK
  <2> HIDE DEF e, n
  <2>3. e + 1 \in 1..(n + 1) BY <2>2
  <2> QED BY <2>3 DEF e, n
<1>5. FramesMean(estack') BY <1>2, <1>3, <1>4, MeanNext
<1>6. Due(estack') = Todo(Places(Front(estack)), Onward(x)) /\ estack' # <<>>
  BY <1>2, <1>3, <1>4, NextDue, EncNextOK
<1>7. Due(estack) = Due(estack')
  <2>1. Places(Front(estack)) \in Seq(PlaceSet) BY <1>2, StackTop
  <2> HIDE DEF x
  <2>2. Todo(Places(Front(estack)), x) = Todo(Places(Front(estack)), Onward(x))
    BY <1>2, <2>1, TodoOmitted
  <2> QED BY <1>6, <2>2 DEF Due, x
<1>8. stream' = stream \o <<>> /\ Due(estack) = <<>> \o Due(estack') /\ <<>> \in Seq(Byte)
  <2>1. stream \in Seq(Byte) BY DEF EncInv
  <2>2. Due(estack) \in Seq(Byte) BY <1>2, DueType
  <2> QED BY <1>3, <1>7, <2>1, <2>2, ConcatEmptySeq, EmptySeq
<1> HIDE DEF d
<1> QED BY <1>1, <1>2, <1>3, <1>5, <1>6, <1>8, InMessage

LEMMA WireElement ==
  ASSUME EncInv, WireInv, EncInv', EncodeElement
  PROVE  WireInv'
<1> DEFINE x == FramePlace(Last(estack))
<1> DEFINE pl == Places(Front(estack))
<1> DEFINE d == ETop.delta
<1> DEFINE e == Element(EField, EValue)
<1> DEFINE h == <<d>>
<1> DEFINE w == h \o e
<1> DEFINE r == Todo(pl, Onward(x))
<1>1. InEncField /\ ~ Omitted(EField, EValue) /\ ~ IsStruct(EField) /\ enc = "open"
  BY DEF EncodeElement, InEncField
<1>2. /\ x \in PlaceSet /\ x.part = FramePart(Last(estack)) /\ x.fld = Last(estack).fld
      /\ x.fld \in Present(x.part) /\ x.fld \notin Structs(x.part)
      /\ EField = FieldOf(x.part, x.fld) /\ EValue = x.part[2][x.fld]
      /\ d = x.fld - Previous(x.part, x.fld)
      /\ estack # <<>> /\ EncStackOK(estack) /\ FramesMean(estack) /\ InFieldE(Last(estack))
  BY <1>1, FieldIs
<1>3. estack' = ENext(estack, 1) /\ stream' = Append(stream, d) \o e /\ enc' = enc /\ sent' = sent
  BY DEF EncodeElement
<1>4. 1 \in 1..(Last(estack).fld + 1)
  <2>1. Last(estack).fld \in Nat \ {0} BY <1>2, EncTop, FrameIs
  <2> QED BY <2>1
<1>5. FramesMean(estack') BY <1>2, <1>3, <1>4, MeanNext
<1>6. Due(estack') = r /\ estack' # <<>>
  BY <1>2, <1>3, <1>4, NextDue, EncNextOK
<1>7. pl \in Seq(PlaceSet) /\ Due(estack) = Todo(pl, x) BY <1>2, StackTop DEF Due
<1>8. ElementOf(x.part, x.fld) = e BY <1>2 DEF ElementOf
<1>9. d \in Byte /\ e \in Seq(Byte) /\ Todo(pl, x) = h \o (e \o r)
  <2> HIDE DEF x, pl
  <2> QED BY <1>2, <1>7, <1>8, TodoPresent DEF h, e
<1>10. r \in Seq(Byte)
  <2> HIDE DEF x, pl
  <2> QED BY <1>2, <1>7, PlaceType, TodoType
<1>11. h \in Seq(Byte) /\ stream \in Seq(Byte) BY <1>9 DEF EncInv
<1>12. Append(stream, d) = stream \o h BY <1>9, <1>11, AppendIsConcat
<1> HIDE DEF d, e, h, r, x, pl
<1>13. Associates(stream, h, e) /\ Associates(h, e, r) BY <1>9, <1>10, <1>11, Associative
<1>14. w \in Seq(Byte) BY <1>9, <1>11, ConcatProperties
<1>15. stream' = stream \o w BY <1>3, <1>12, <1>13 DEF Associates
<1>16. Due(estack) = w \o Due(estack') BY <1>6, <1>7, <1>9, <1>13 DEF Associates
<1> HIDE DEF w
<1> QED BY <1>1, <1>2, <1>3, <1>5, <1>6, <1>14, <1>15, <1>16, InMessage

LEMMA WireStructField ==
  ASSUME EncInv, WireInv, EncInv', EncodeStructField
  PROVE  WireInv'
<1> DEFINE x == FramePlace(Last(estack))
<1> DEFINE pl == Places(Front(estack))
<1> DEFINE d == ETop.delta
<1> DEFINE t == TypeMark(EField.typeid)
<1> DEFINE f == EncoderFrame(EField.typeid, EValue)
<1> DEFINE h == <<d>>
<1> DEFINE m == <<t>>
<1> DEFINE r == Todo(Append(pl, x), Place(Inner(x.part, x.fld), 1))
<1>1. InEncField /\ ~ Omitted(EField, EValue) /\ IsStruct(EField) /\ enc = "open"
  BY DEF EncodeStructField, InEncField
<1>2. /\ x \in PlaceSet /\ x.part = FramePart(Last(estack)) /\ x.fld = Last(estack).fld
      /\ x.fld \in Present(x.part) /\ x.fld \in Structs(x.part) /\ x.part \in Parts
      /\ EField = FieldOf(x.part, x.fld) /\ EValue = x.part[2][x.fld]
      /\ d = x.fld - Previous(x.part, x.fld)
      /\ estack # <<>> /\ EncStackOK(estack) /\ FramesMean(estack) /\ InFieldE(Last(estack))
  BY <1>1, FieldIs
<1>3. pl \in Seq(PlaceSet) /\ Due(estack) = Todo(pl, x) BY <1>2, StackTop DEF Due
<1>4. Inner(x.part, x.fld) = <<EField.typeid, EValue>> BY <1>2 DEF Inner
<1>5. <<EField.typeid, EValue>> \in Parts BY <1>2, <1>4, InnerIs
<1>6. EField.typeid \in DOMAIN EncFields /\ EValue \in Structures[EField.typeid]
  BY <1>5, PartIs
<1>7. /\ f \in EncFrames /\ EncFrameOK(f) /\ FramePlace(f) = Place(<<EField.typeid, EValue>>, 1)
      /\ f.delta = f.fld - Previous(FramePart(f), f.fld)
  BY <1>6, CalledFrame
<1>8. d \in Byte /\ t \in Byte /\ Due(estack) = h \o (m \o r)
  <2> HIDE DEF pl
  <2>1. TypeMark(FieldOf(x.part, x.fld).typeid) = t BY <1>2
  <2> HIDE DEF x
  <2> QED BY <1>2, <1>3, <2>1, TodoPresent, TodoStruct DEF h, m, r
<1>9. r \in Seq(Byte)
  <2>1. Place(Inner(x.part, x.fld), 1) \in PlaceSet
    <3> HIDE DEF x, pl
    <3> QED BY <1>2, <1>3, TodoStruct
  <2>2. Append(pl, x) \in Seq(PlaceSet)
    <3> HIDE DEF x, pl
    <3> QED BY <1>2, <1>3, AppendProperties
  <2> HIDE DEF x, pl
  <2> QED BY <2>1, <2>2, TodoType
<1>10. h \in Seq(Byte) /\ m \in Seq(Byte) /\ stream \in Seq(Byte) /\ sent \in Seq(SentRecords)
      /\ sent # <<>>
  BY <1>2, <1>8 DEF EncInv
<1>11. CASE EField.named \/ HasHandler(ebase, EField.typeid)
  <2>1. stream' = stream \o <<d, t>> /\ estack' = Append(estack, f) /\ enc' = enc /\ sent' = sent
    BY <1>11 DEF EncodeStructField
  <2> DEFINE w == <<d, t>>
  <2>2. w = h \o m /\ w \in Seq(Byte)
    <3>1. w \in Seq(Byte) BY <1>8
    <3> QED BY <3>1, PairIs
  <2>3. estack \in Seq(EncFrames) BY <1>2 DEF EncStackOK
  <2>4. FramesMean(estack')
    <3> HIDE DEF f
    <3> QED BY <1>2, <1>7, <2>1, MeanPut
  <2>5. estack' # <<>>
    <3> HIDE DEF f
    <3> QED BY <1>7, <2>1, <2>3, AppendProperties
  <2>6. Due(estack') = r
    <3>1. estack = Append(Front(estack), Last(estack)) /\ EncStackOK(Front(estack))
          /\ Last(estack) \in EncFrames /\ EncFrameOK(Last(estack))
      BY <1>2, StackTop
    <3>2. Places(Append(Front(estack), Last(estack))) = Append(pl, x) BY <3>1, PlacesAppend
    <3>3. Places(estack) = Append(pl, x) BY <3>1, <3>2
    <3>4. Due(Append(estack, f)) = Todo(Places(estack), FramePlace(f)) BY <1>7, <2>3, StackPut
    <3> QED BY <1>4, <1>7, <2>1, <3>3, <3>4
  <2> HIDE DEF d, t, f, h, m, r, x, pl, w
  <2>7. Associates(h, m, r) BY <1>9, <1>10, Associative
  <2>8. Due(estack) = w \o Due(estack') BY <1>8, <2>2, <2>6, <2>7 DEF Associates
  <2>9. stream' = stream \o w BY <2>1 DEF w
  <2> QED BY <1>1, <1>2, <2>1, <2>2, <2>4, <2>5, <2>8, <2>9, InMessage
<1>12. CASE ~ (EField.named \/ HasHandler(ebase, EField.typeid))
  <2> DEFINE fin == Front(sent)
  <2> DEFINE msg == Last(sent).msg
  <2> DEFINE b == Begun(stream, fin)
  <2> DEFINE rest == m \o r
  <2>1. stream' = Append(stream, d) /\ estack' = <<>> /\ enc' = "failed" /\ sent' = fin
    BY <1>12 DEF EncodeStructField
  <2>2. Finished = fin /\ Finished' = fin BY <1>2, <2>1 DEF Finished
  <2>3. AllStored(stream, fin) /\ b \o Due(estack) = Whole(msg) /\ Chained(sent)
    BY <1>2, <2>2 DEF WireInv
  <2>4. fin \in Seq(SentRecords) /\ Last(sent) \in SentRecords /\ sent = Append(fin, Last(sent))
    BY <1>10, FrontLast
  <2>5. msg \in Messages BY <2>4 DEF SentRecords
  <2>6. stream' = stream \o h BY <1>8, <1>10, <2>1, AppendIsConcat
  <2>12. FramesMean(<<>>)
    <3>1. Len(<<>>) = 0 BY EmptySeq
    <3>2. \A i \in 1..0 : FALSE OBVIOUS
    <3> QED BY <3>1, <3>2 DEF FramesMean
  <2> HIDE DEF fin, msg, d, t, f, h, r, x, pl
  <2>7. AllStored(stream', fin) /\ Begun(stream', fin) = b \o h /\ b \in Seq(Byte)
    BY <1>10, <2>3, <2>4, <2>6, WritesKeep, EndIs
  <2>8. rest \in Seq(Byte) /\ rest # <<>> BY <1>8, <1>9, ConsProperties
  <2> HIDE DEF b, rest, m
  <2>9. Associates(b, h, rest) BY <1>10, <2>7, <2>8, Associative
  <2>10. b \o (h \o rest) = Whole(msg) BY <1>8, <2>3 DEF rest
  <2>11. (b \o h) \o rest = Whole(msg) BY <2>9, <2>10 DEF Associates
  <2>13. CutShort(Begun(stream', fin)) BY <2>5, <2>7, <2>8, <2>11 DEF CutShort
  <2>14. Chained(fin) BY <2>3, <2>4, ChainedMore
  <2> QED BY <2>1, <2>2, <2>7, <2>12, <2>13, <2>14 DEF WireInv
<1> QED BY <1>11, <1>12

LEMMA WireEnd ==
  ASSUME EncInv, WireInv, EncInv', EncodeEndStruct
  PROVE  WireInv'
<1> DEFINE x == FramePlace(Last(estack))
<1> DEFINE s == Front(estack)
<1> DEFINE z == <<0>>
<1>1. enc = "open" /\ enc' = "open" /\ estack # <<>> /\ EncStackOK(estack)
      /\ stream \in Seq(Byte) /\ sent \in Seq(SentRecords) /\ sent # <<>> /\ FramesMean(estack)
  BY DEF EncodeEndStruct, EncInv, WireInv
<1>2. z \in Seq(Byte) BY EndMarkIs
<1>3. stream' = stream \o z
  <2>1. stream' = Append(stream, 0) /\ 0 \in Byte BY DEF EncodeEndStruct, Byte
  <2> QED BY <1>1, <2>1, AppendIsConcat
<1>4. /\ EncStackOK(s) /\ Last(estack) \in EncFrames /\ EncFrameOK(Last(estack))
      /\ Places(s) \in Seq(PlaceSet) /\ x \in PlaceSet /\ Len(estack) \in Nat \ {0}
      /\ Len(s) = Len(estack) - 1
  BY <1>1, StackTop
<1>5. Due(estack) = z \o Behind(Places(s))
  <2>1. x.fld > Len(EncFields[x.part[1]])
    <3>1. ETop = Last(estack) BY DEF ETop
    <3>2. Last(estack).fld > Len(EncFields[Last(estack).typeid])
      BY <3>1 DEF EncodeEndStruct, EFields
    <3> QED BY <1>4, <3>2, FrameIs
  <2> HIDE DEF x
  <2>2. Todo(Places(s), x) = z \o Behind(Places(s)) BY <1>4, <2>1, TodoEnd
  <2> QED BY <2>2 DEF Due, x
<1>6. CASE Len(estack) = 1
  <2> DEFINE fin == Front(sent)
  <2> DEFINE last == Last(sent)
  <2> DEFINE e == Len(stream) + 1
  <2> DEFINE r == [last EXCEPT !.end = e]
  <2> DEFINE b == Begun(stream, fin)
  <2>1. s = <<>> BY <1>4, <1>6, EmptySeq
  <2>2. Due(estack) = z
    <3>1. Behind(Places(s)) = <<>> BY <2>1, PlacesEmpty, BehindEmpty
    <3> QED BY <1>2, <1>5, <3>1, ConcatEmptySeq
  <2>3. fin \in Seq(SentRecords) /\ last \in SentRecords /\ sent = Append(fin, last)
        /\ Len(sent) \in Nat \ {0} /\ last = sent[Len(sent)]
    BY <1>1, FrontLast DEF Last
  <2>4. Finished = fin BY <1>1 DEF Finished
  <2>5. AllStored(stream, fin) /\ b \o z = Whole(last.msg) /\ Chained(sent)
    BY <1>1, <2>2, <2>4 DEF WireInv
  <2>6. estack' = <<>> /\ sent' = [sent EXCEPT ![Len(sent)].end = e]
    BY <1>6 DEF EncodeEndStruct
  <2>7. e \in Nat /\ e = Len(stream) + 1 /\ Len(stream') = e
    <3>1. Len(stream) \in Nat BY <1>1, LenProperties
    <3>2. Len(z) = 1 BY EndMarkIs
    <3> QED BY <1>1, <1>2, <1>3, <3>1, <3>2, ConcatProperties
  <2>8. sent' = [sent EXCEPT ![Len(sent)] = [sent[Len(sent)] EXCEPT !.end = e]]
    <3> HIDE DEF e
    <3> QED BY <2>6
  <2>9. sent' = [sent EXCEPT ![Len(sent)] = r]
    <3>1. r = [sent[Len(sent)] EXCEPT !.end = e] BY <2>3
    <3> QED BY <2>8, <3>1
  <2> HIDE DEF e, fin, last
  <2>10. r \in SentRecords /\ r.msg = last.msg /\ r.at = last.at /\ r.end = e
    BY <2>3, <2>7 DEF SentRecords
  <2> HIDE DEF r
  <2>11. sent' = Append(fin, r) BY <1>1, <2>9, <2>10, LastReplaced DEF fin
  <2>12. AllStored(stream', fin) /\ Begun(stream', fin) = b \o z /\ stream' \in Seq(Byte)
    BY <1>1, <1>2, <1>3, <2>3, <2>5, WritesKeep
  <2>13. Chained(fin) /\ r.at = EndOf(fin) BY <2>3, <2>5, <2>10, ChainedMore
  <2>14. Chained(sent') BY <2>3, <2>10, <2>11, <2>13, ChainedMore
  <2>15. Begun(stream', fin) = Whole(r.msg) BY <2>5, <2>10, <2>12
  <2>16. AllStored(stream', sent') /\ Begun(stream', sent') = <<>>
    BY <2>3, <2>7, <2>10, <2>11, <2>12, <2>13, <2>15, OneMore
  <2>17. Finished' = sent' BY <2>6 DEF Finished
  <2>18. FramesMean(<<>>)
    <3>1. Len(<<>>) = 0 BY EmptySeq
    <3>2. \A i \in 1..0 : FALSE OBVIOUS
    <3> QED BY <3>1, <3>2 DEF FramesMean
  <2> QED BY <1>1, <2>6, <2>14, <2>16, <2>17, <2>18 DEF WireInv
<1>7. CASE Len(estack) # 1
  <2> DEFINE y == FramePlace(Last(s))
  <2> DEFINE below == Places(Front(s))
  <2>1. estack' = ENext(s, 1) /\ sent' = sent BY <1>7 DEF EncodeEndStruct
  <2>2. s # <<>> /\ InFieldE(Last(s)) BY <1>1, <1>7, EncPopOK
  <2>3. FramesMean(s) /\ Last(s).fld \in Structs(FramePart(Last(s))) BY <1>1, <2>2, MeanFront
  <2> HIDE DEF s
  <2>4. /\ Last(s) \in EncFrames /\ EncFrameOK(Last(s)) /\ s = Append(Front(s), Last(s))
        /\ EncStackOK(Front(s)) /\ below \in Seq(PlaceSet) /\ y \in PlaceSet
    BY <1>4, <2>2, StackTop
  <2>5. FramePart(Last(s)) \in Parts /\ Last(s).fld \in Nat \ {0} BY <2>4, FrameIs
  <2>6. 1 \in 1..(Last(s).fld + 1) BY <2>5
  <2>7. Last(s).fld \in Present(FramePart(Last(s))) BY <2>3, <2>5, PresentIn
  <2>8. FramesMean(estack') BY <1>4, <2>1, <2>2, <2>3, <2>6, <2>7, MeanNext
  <2>9. Due(estack') = Todo(below, Onward(y)) /\ estack' # <<>>
    BY <1>4, <2>1, <2>2, <2>6, NextDue, EncNextOK
  <2>10. Places(s) = Append(below, y)
    <3>1. Places(Append(Front(s), Last(s))) = Append(below, y) BY <2>4, PlacesAppend
    <3> QED BY <2>4, <3>1
  <2> HIDE DEF below, y
  <2>11. Behind(Places(s)) = Due(estack') BY <2>4, <2>9, <2>10, BehindIs
  <2>12. Due(estack) = z \o Due(estack') BY <1>5, <2>11
  <2> HIDE DEF z
  <2> QED BY <1>1, <1>2, <1>3, <2>1, <2>8, <2>9, <2>12, InMessage
<1> QED BY <1>6, <1>7

LEMMA WireInit == Init => WireInv
<1> SUFFICES ASSUME Init PROVE WireInv OBVIOUS
<1>1. stream = <<>> /\ enc = "open" /\ estack = <<>> /\ sent = <<>> BY DEF Init, EncInit
<1>2. Len(<<>>) = 0 BY EmptySeq
<1>3. \A i \in 1..0 : FALSE OBVIOUS
<1>4. FramesMean(<<>>) BY <1>2, <1>3 DEF FramesMean
<1>5. AllStored(<<>>, <<>>) /\ Chained(<<>>) BY <1>2, <1>3 DEF AllStored, Chained
<1>6. Begun(<<>>, <<>>) = <<>>
  <2>1. <<>> \in Seq(Byte) BY EmptySeq
  <2>2. SubSeq(<<>>, Len(<<>>) + 1, Len(<<>>)) = <<>> BY <2>1, AfterAll
  <2> QED BY <1>2, <2>2 DEF Begun, EndOf
<1>7. Finished = <<>> BY <1>1 DEF Finished
<1> QED BY <1>1, <1>4, <1>5, <1>6, <1>7 DEF WireInv

\* Only the encoder's actions touch what the invariant is about.
LEMMA WireStays ==
  ASSUME WireInv, UNCHANGED <<stream, enc, estack, sent>>
  PROVE  WireInv'
<1>1. Finished' = Finished BY DEF Finished
<1> QED BY <1>1 DEF WireInv

LEMMA WireNext ==
  ASSUME EncInv, EncInv', WireInv, [Next]_vars
  PROVE  WireInv'
<1>1. CASE Encode
  <2>1. CASE \E m \in Messages : EncodeStruct(m) BY <2>1, WireStart
  <2>2. CASE EncodeOmitted BY <2>2, WireOmit
  <2>3. CASE EncodeElement BY <2>3, WireElement
  <2>4. CASE EncodeStructField BY <2>4, WireStructField
  <2>5. CASE EncodeEndStruct BY <2>5, WireEnd
  <2> QED BY <1>1, <2>1, <2>2, <2>3, <2>4, <2>5 DEF Encode, EncNext
<1>2. CASE UNCHANGED <<stream, enc, estack, sent>> BY <1>2, WireStays
<1>3. CASE Deliver BY <1>2, <1>3 DEF Deliver, encVars
<1>4. CASE Call BY <1>2, <1>4 DEF Call, encVars
<1>5. CASE Decode BY <1>2, <1>5 DEF Decode, DecNext, encVars
<1>6. CASE ChangeHandlers BY <1>2, <1>6 DEF ChangeHandlers
<1>7. CASE UNCHANGED vars BY <1>2, <1>7 DEF vars, encVars
<1> QED BY <1>1, <1>3, <1>4, <1>5, <1>6, <1>7 DEF Next

LEMMA WireAlways == Spec => []WireInv
<1>1. Spec => []EncInv
  <2>1. CodecInv => EncInv BY DEF CodecInv
  <2> QED BY CodecAlways, <2>1, PTL
<1>2. EncInv /\ EncInv' /\ WireInv /\ [Next]_vars => WireInv' BY WireNext
<1> QED BY <1>1, <1>2, WireInit, PTL DEF Spec

\* For all structures, values, registries and numbers of messages: every message that
\* was encoded completely is, in the buffer, exactly the bytes ENCODING's grammar gives
\* for it (encoder.c, glme_encode_struct and glme_encode_field).
THEOREM EncodesWireFormat == Spec => []WireFormat
<1>1. Spec => []EncInv
  <2>1. CodecInv => EncInv BY DEF CodecInv
  <2> QED BY CodecAlways, <2>1, PTL
<1>2. EncInv /\ WireInv => WireFormat BY WireSuffices
<1> QED BY <1>1, <1>2, WireAlways, PTL

(***************************************************************************)
(* Reading.                                                                *)
(***************************************************************************)

\* The bytes between the positions k and e, with those missing behind them, are w.
Ahead(k, e, rest, w) ==
  k <= e /\ e <= Len(stream) /\ SubSeq(stream, k + 1, e) \o rest = w

\* None of them is missing in front of the end of what arrived.
Covers(e, rest) == rest = <<>> \/ e = Len(stream)

LEMMA Between ==
  ASSUME DecInv, NEW k \in Nat, NEW e \in Nat, k <= e, e <= Len(stream)
  PROVE  /\ SubSeq(stream, k + 1, e) \in Seq(Byte) /\ Len(SubSeq(stream, k + 1, e)) = e - k
         /\ \A i \in 1..(e - k) : SubSeq(stream, k + 1, e)[i] = stream[k + i]
<1>1. stream \in Seq(Byte) /\ Len(stream) \in Nat BY DecTypes DEF DecInv
<1>2. CASE k < e
  <2>1. k + 1 \in 1..Len(stream) /\ e \in 1..Len(stream) /\ k + 1 <= e BY <1>1, <1>2
  <2> DEFINE s == SubSeq(stream, k + 1, e)
  <2>2. s \in Seq(Byte) /\ Len(s) = e - (k + 1) + 1
        /\ \A i \in 1..(e - (k + 1) + 1) : s[i] = stream[(k + 1) + i - 1]
    BY <1>1, <2>1, SubSeqProperties
  <2> HIDE DEF s
  <2>3. Len(s) = e - k /\ \A i \in 1..(e - k) : s[i] = stream[k + i] BY <2>2
  <2> QED BY <2>2, <2>3 DEF s
<1>3. CASE k = e
  <2>1. SubSeq(stream, k + 1, e) = <<>> BY <1>1, <1>3, SubSeqEmpty
  <2> QED BY <1>3, <2>1
<1> QED BY <1>2, <1>3

\* A byte that has arrived is the one that is due there.
LEMMA Arrived ==
  ASSUME DecInv, NEW k \in Nat, NEW e \in Nat, NEW rest \in Seq(Byte), NEW w \in Seq(Byte),
         Ahead(k, e, rest, w), Covers(e, rest), NEW i \in 1..Len(w), k + i <= count
  PROVE  stream[k + i] = w[i] /\ w[i] \in Byte /\ k + i <= e
<1> DEFINE s == SubSeq(stream, k + 1, e)
<1>1. s \in Seq(Byte) /\ Len(s) = e - k /\ \A j \in 1..(e - k) : s[j] = stream[k + j]
  BY Between DEF Ahead
<1>2. s \o rest = w BY DEF Ahead
<1>3. Len(w) \in Nat /\ i \in Nat /\ Len(stream) \in Nat /\ count <= Len(stream) /\ count \in Nat
  BY DecTypes, LenProperties
<1> HIDE DEF s
<1>4. i \in 1..Len(s)
  <2>1. CASE rest = <<>>
    <3>1. s = w BY <1>1, <1>2, <2>1, ConcatEmptySeq
    <3> QED BY <3>1
  <2>2. CASE e = Len(stream) BY <1>1, <1>3, <2>2
  <2> QED BY <2>1, <2>2 DEF Covers
<1>5. w[i] = s[i] BY <1>1, <1>2, <1>4, ConcatProperties
<1>6. w[i] \in Byte BY ElementOfSeq
<1>7. k + i <= e BY <1>1, <1>3, <1>4
<1> QED BY <1>1, <1>4, <1>5, <1>6, <1>7

\* Bytes that have all arrived can be skipped.
LEMMA Skip ==
  ASSUME DecInv, NEW k \in Nat, NEW e \in Nat, NEW rest \in Seq(Byte),
         NEW w \in Seq(Byte), NEW t \in Seq(Byte),
         Ahead(k, e, rest, w \o t), Covers(e, rest), k + Len(w) <= count
  PROVE  Ahead(k + Len(w), e, rest, t) /\ SubSeq(stream, k + 1, k + Len(w)) = w
<1> DEFINE s == SubSeq(stream, k + 1, e)
<1> DEFINE n == Len(w)
<1> DEFINE a == SubSeq(stream, k + 1, k + n)
<1> DEFINE b == SubSeq(stream, (k + n) + 1, e)
<1>1. s \in Seq(Byte) /\ Len(s) = e - k BY Between DEF Ahead
<1>2. s \o rest = w \o t BY DEF Ahead
<1>3. /\ n \in Nat /\ Len(stream) \in Nat /\ count <= Len(stream) /\ count \in Nat
      /\ stream \in Seq(Byte) /\ k <= e /\ e <= Len(stream) /\ k + n <= count
  BY DecTypes, LenProperties DEF DecInv, Ahead
<1> HIDE DEF s
<1>4. n <= Len(s)
  <2>1. CASE rest = <<>>
    <3>1. s = w \o t BY <1>1, <1>2, <2>1, ConcatEmptySeq
    <3>2. Len(w \o t) = Len(w) + Len(t) /\ Len(t) \in Nat BY ConcatProperties, LenProperties
    <3> QED BY <1>3, <3>1, <3>2
  <2>2. CASE e = Len(stream) BY <1>1, <1>3, <2>2
  <2> QED BY <2>1, <2>2 DEF Covers
<1>5. k + n <= e /\ k + n \in Nat BY <1>1, <1>3, <1>4
<1> HIDE DEF n
<1>6. a \in Seq(Byte) /\ Len(a) = n /\ b \in Seq(Byte)
  <2>0. k + n \in Nat /\ k <= k + n /\ k + n <= Len(stream) BY <1>3, <1>5
  <2>1. a \in Seq(Byte) /\ Len(a) = (k + n) - k BY <2>0, Between, Zenon
  <2>2. b \in Seq(Byte) BY <1>3, <1>5, Between
  <2> QED BY <1>3, <2>1, <2>2
<1>7. a \o b = s
  <2>1. k + 1 \in 1..(Len(stream) + 1) /\ k + n \in (k + 1) - 1..Len(stream)
        /\ e \in (k + n)..Len(stream)
    BY <1>3, <1>5
  <2> QED BY <1>3, <2>1, ConcatAdjacentSubSeq DEF s
<1>8. n \in 0..Len(s) /\ Len(s) \in Nat BY <1>1, <1>3, <1>4, LenProperties
<1> DEFINE c == SubSeq(s, 1, n)
<1> DEFINE d == SubSeq(s, n + 1, Len(s))
<1>9. c \in Seq(Byte) /\ Len(c) = n /\ d \in Seq(Byte) /\ c \o d = s BY <1>1, <1>8, SplitAt
<1>10. c = w /\ d \o rest = t BY <1>1, <1>2, <1>4, ConcatTaken DEF n
<1> HIDE DEF a, b, c, d
<1>11. a = c /\ b = d BY <1>6, <1>7, <1>9, ConcatEqual
<1>12. b \o rest = t /\ a = w BY <1>10, <1>11
<1> QED BY <1>3, <1>5, <1>12 DEF Ahead, a, b, n

(***************************************************************************)
(* The distance that comes next.                                           *)
(***************************************************************************)

\* Fields that are not sent add nothing, and the last field sent stays the same.
LEMMA RestFrom ==
  ASSUME NEW p \in Parts, NEW i \in Nat \ {0}
  PROVE  \A n \in Nat : (\A j \in Present(p) : j < i \/ j >= i + n) =>
           Rest(p, i + n) = Rest(p, i) /\ Previous(p, i + n) = Previous(p, i)
<1> DEFINE Skipped(n) == \A j \in Present(p) : j < i \/ j >= i + n
<1> DEFINE Same(n) == Rest(p, i + n) = Rest(p, i) /\ Previous(p, i + n) = Previous(p, i)
<1> DEFINE T == {n \in Nat : Skipped(n) => Same(n)}
<1>0. Present(p) \subseteq Nat BY PresentIn
<1>1. 0 \in T
  <2>1. i + 0 = i OBVIOUS
  <2> QED BY <2>1
<1>2. \A n \in Nat : n \in T => n + 1 \in T
  <2> SUFFICES ASSUME NEW n \in Nat, Skipped(n) => Same(n), Skipped(n + 1) PROVE Same(n + 1)
      OBVIOUS
  <2>1. Skipped(n)
    <3>1. \A j \in Present(p) : j >= i + (n + 1) => j >= i + n BY <1>0
    <3> QED BY <3>1
  <2> DEFINE k == i + n
  <2>2. k \in Nat \ {0} /\ i + (n + 1) = k + 1 OBVIOUS
  <2>3. k \notin Present(p)
    <3>1. ~ (k < i) /\ ~ (k >= i + (n + 1)) OBVIOUS
    <3> QED BY <3>1
  <2>4. Rest(p, k) = Rest(p, i) /\ Previous(p, k) = Previous(p, i) BY <2>1
  <2> HIDE DEF k, Skipped
  <2>5. Rest(p, k) = Rest(p, k + 1) /\ Previous(p, k + 1) = Previous(p, k)
    BY <2>2, <2>3, RestOmitted, PreviousIs
  <2> QED BY <2>2, <2>4, <2>5, Zenon
<1> HIDE DEF T
<1>3. Nat \subseteq T BY <1>1, <1>2, SetInduction
<1> QED BY <1>3 DEF T

\* What comes next is the end mark when no field is left that is sent, and otherwise the
\* distance to the first of them.
LEMMA FirstDue ==
  ASSUME NEW pl \in Seq(PlaceSet), NEW x \in PlaceSet
  PROVE  \/ /\ Todo(pl, x)[1] = 0 /\ Todo(pl, x) = <<0>> \o Behind(pl)
            /\ \A j \in Present(x.part) : j < x.fld
         \/ \E j \in Present(x.part) :
              /\ j \in Nat /\ j >= x.fld /\ (x.fld \in Present(x.part) => j = x.fld)
              /\ Todo(pl, x)[1] = j - Previous(x.part, x.fld)
<1> DEFINE p == x.part
<1> DEFINE i == x.fld
<1> DEFINE L == {j \in Present(p) : j >= i}
<1>1. p \in Parts /\ i \in Nat \ {0} BY PlaceType
<1>2. Present(p) \subseteq 1..Len(EncFields[p[1]]) /\ Len(EncFields[p[1]]) \in Nat
  BY <1>1, PresentIn, PartIs
<1>b. Behind(pl) \in Seq(Byte) BY BehindParts
<1>t. Todo(pl, x) = Rest(p, i) \o Behind(pl) BY DEF Todo
<1> HIDE DEF p, i
<1>3. CASE L = {}
  <2>1. \A j \in Present(p) : j < i BY <1>1, <1>2, <1>3
  <2> DEFINE n == Len(EncFields[p[1]])
  <2>2. i + n \in Nat \ {0} /\ i + n > Len(EncFields[p[1]]) BY <1>1, <1>2
  <2>3. Rest(p, i + n) = Rest(p, i) BY <1>1, <1>2, <2>1, RestFrom
  <2>4. Rest(p, i + n) = <<0>> BY <1>1, <2>2, RestEnd
  <2>5. Todo(pl, x) = <<0>> \o Behind(pl) BY <1>t, <2>3, <2>4, Zenon
  <2>6. (<<0>> \o Behind(pl))[1] = 0 BY <1>b, ConsProperties
  <2> QED BY <2>1, <2>5, <2>6 DEF p, i
<1>4. CASE L # {}
  <2>1. L \subseteq Nat BY <1>2
  <2>2. PICK j \in L : \A y \in L : j <= y BY <1>4, <2>1, LeastElement
  <2>3. j \in Present(p) /\ j \in Nat \ {0} /\ j >= i BY <1>2, <2>2
  <2>4. i \in Present(p) => j = i
    <3>1. i \in Present(p) => i \in L BY <1>1
    <3>2. i \in Present(p) => j <= i BY <2>2, <3>1
    <3> QED BY <1>1, <2>3, <3>2
  <2> DEFINE n == j - i
  <2>5. n \in Nat /\ i + n = j BY <1>1, <2>3
  <2>6. \A y \in Present(p) : y < i \/ y >= i + n
    <3> SUFFICES ASSUME NEW y \in Present(p), ~ (y < i) PROVE y >= i + n
        OBVIOUS
    <3>1. y \in Nat BY <1>2
    <3>2. y \in L BY <1>1, <3>1
    <3> QED BY <2>2, <2>3, <2>5, <3>1, <3>2
  <2> HIDE DEF n, L
  <2>7. Rest(p, i + n) = Rest(p, i) /\ Previous(p, i + n) = Previous(p, i)
    BY <1>1, <2>5, <2>6, RestFrom
  <2>8. Rest(p, j) = Rest(p, i) /\ Previous(p, j) = Previous(p, i) BY <2>5, <2>7
  <2> DEFINE t == ElementOf(p, j) \o Rest(p, j + 1)
  <2> DEFINE d == j - Previous(p, j)
  <2>9. d \in Byte /\ t \in Seq(Byte) /\ Rest(p, j) = <<d>> \o t
    BY <1>1, <2>3, RestPresent, ConcatProperties
  <2> HIDE DEF t, d
  <2>10. Rest(p, j)[1] = d /\ Rest(p, j) \in Seq(Byte) /\ Rest(p, j) # <<>> BY <2>9, ConsProperties
  <2>11. (Rest(p, j) \o Behind(pl))[1] = Rest(p, j)[1] BY <1>b, <2>10, FirstOfConcat
  <2>12. Todo(pl, x)[1] = j - Previous(p, i) BY <1>t, <2>8, <2>10, <2>11 DEF d
  <2> QED BY <2>3, <2>4, <2>12 DEF p, i
<1> QED BY <1>3, <1>4

(***************************************************************************)
(* The stack of decoder functions as a stack of places.                    *)
(***************************************************************************)

\* What the decoder makes of field i of a part, and what it must have for it.
FieldSeen(p, i) ==
  IF i \notin Present(p) THEN Absent(DecFields[p[1]][i])
  ELSE IF i \in Structs(p) THEN Seen[Inner(p, i)]
  ELSE Fitted(DecFields[p[1]][i], p[2][i])

Has(p, i) == i \in DOMAIN DecFields[p[1]] /\ Fits(FieldOf(p, i), DecFields[p[1]][i])

\* A field the decoder has passed, with value v.
Passed(p, i, v) ==
  /\ i \in Present(p) => Has(p, i) /\ (i \in Structs(p) => Lossless[Inner(p, i)])
  /\ KeepsBlocks => v = FieldSeen(p, i)

\* The distance d is that of field i from the last field sent, or 0 when it is known
\* that no field is left that is sent.
Measures(p, i, d) ==
  d = i - Previous(p, i) \/ (d = 0 /\ \A j \in Present(p) : j < i)

\* The function of frame f is in the place x.
Sees(f, x) ==
  /\ f.typeid = x.part[1] /\ f.fld = x.fld
  /\ Measures(x.part, x.fld, f.delta)
  /\ \A i \in 1..(x.fld - 1) : Passed(x.part, i, f.out[i])

\* The structure of part q is the one the place y is in.
Enters(y, q) ==
  y.fld \in Structs(y.part) /\ Has(y.part, y.fld) /\ q = Inner(y.part, y.fld)

\* The functions on the stack are in the places pl, the first of them in part p.
StackSees(s, pl, p) ==
  /\ Len(s) = Len(pl)
  /\ \A i \in 1..Len(pl) :
       /\ Sees(s[i], pl[i])
       /\ IF i = 1 THEN pl[i].part = p ELSE Enters(pl[i - 1], pl[i].part)

\* What is asked of a place put on others.
Joins(pl, x, p) == IF pl = <<>> THEN x.part = p ELSE Enters(Last(pl), x.part)

LEMMA SeesAppend ==
  ASSUME NEW V, NEW s \in Seq(DecFrames(V)), NEW f \in DecFrames(V),
         NEW pl \in Seq(PlaceSet), NEW x \in PlaceSet, NEW p
  PROVE  StackSees(Append(s, f), Append(pl, x), p)
           <=> StackSees(s, pl, p) /\ Sees(f, x) /\ Joins(pl, x, p)
<1> DEFINE n == Len(pl)
<1> DEFINE a == Append(s, f)
<1> DEFINE b == Append(pl, x)
<1>1. n \in Nat /\ Len(s) \in Nat BY LenProperties
<1>2. Len(a) = Len(s) + 1 /\ a[Len(s) + 1] = f /\ \A i \in 1..Len(s) : a[i] = s[i]
  BY AppendProperties
<1>3. Len(b) = n + 1 /\ b[n + 1] = x /\ \A i \in 1..n : b[i] = pl[i]
  BY AppendProperties
<1>4. pl = <<>> <=> n = 0 BY EmptySeq
<1>5. n # 0 => Last(pl) = pl[n] BY DEF Last
<1> HIDE DEF a, b, n
<1> DEFINE At1(i, t, q) ==
      Sees(t[i], q[i]) /\ IF i = 1 THEN q[i].part = p ELSE Enters(q[i - 1], q[i].part)
<1>6. StackSees(a, b, p) <=> Len(s) + 1 = n + 1 /\ \A i \in 1..(n + 1) : At1(i, a, b)
  BY <1>2, <1>3 DEF StackSees
<1>7. StackSees(s, pl, p) <=> Len(s) = n /\ \A i \in 1..n : At1(i, s, pl)
  BY DEF StackSees, n
<1>8. Len(s) + 1 = n + 1 <=> Len(s) = n BY <1>1
<1>9. ASSUME Len(s) = n, NEW i \in 1..n PROVE At1(i, a, b) <=> At1(i, s, pl)
  <2>1. a[i] = s[i] /\ b[i] = pl[i] BY <1>2, <1>3, <1>9
  <2>2. i # 1 => b[i - 1] = pl[i - 1]
    <3>1. i # 1 => i - 1 \in 1..n BY <1>1, <1>9
    <3> QED BY <1>3, <3>1
  <2> QED BY <2>1, <2>2
<1>10. ASSUME Len(s) = n PROVE At1(n + 1, a, b) <=> Sees(f, x) /\ Joins(pl, x, p)
  <2>1. a[n + 1] = f /\ b[n + 1] = x BY <1>2, <1>3, <1>10
  <2>2. CASE n = 0
    <3>1. n + 1 = 1 /\ pl = <<>> BY <1>4, <2>2
    <3> QED BY <2>1, <3>1 DEF Joins
  <2>3. CASE n # 0
    <3>1. n + 1 # 1 /\ pl # <<>> /\ (n + 1) - 1 = n /\ n \in 1..n BY <1>1, <1>4, <2>3
    <3>2. b[(n + 1) - 1] = Last(pl) BY <1>3, <1>5, <2>3, <3>1
    <3> QED BY <2>1, <3>1, <3>2 DEF Joins
  <2> QED BY <2>2, <2>3
<1> HIDE DEF At1
<1>11. 1..(n + 1) = (1..n) \cup {n + 1} BY <1>1
<1>12. StackSees(a, b, p)
         <=> Len(s) = n /\ (\A i \in 1..n : At1(i, a, b)) /\ At1(n + 1, a, b)
  BY <1>6, <1>8, <1>11
<1>13. StackSees(a, b, p) <=> StackSees(s, pl, p) /\ Sees(f, x) /\ Joins(pl, x, p)
  BY <1>7, <1>9, <1>10, <1>12
<1> QED BY <1>13 DEF a, b

LEMMA SeesEmpty == \A p : StackSees(<<>>, <<>>, p)
<1>1. Len(<<>>) = 0 OBVIOUS
<1>2. 1..0 = {} OBVIOUS
<1> QED BY <1>1, <1>2 DEF StackSees

\* A field passed with the value the decoder makes of it: the top function goes on to the
\* next place.
LEMMA GoesOn ==
  ASSUME NEW s, DecStackOK(s), s # <<>>, InFieldD(Last(s)),
         NEW pl \in Seq(PlaceSet), NEW x \in PlaceSet, NEW p, StackSees(s, Append(pl, x), p),
         NEW v, NEW d \in Nat, NEW h \in Nat,
         Passed(x.part, x.fld, v), Measures(x.part, x.fld + 1, d)
  PROVE  StackSees(DNext(s, v, d, h), Append(pl, Onward(x)), p)
<1>0. PICK U : DecStackOver(s, U) BY DEF DecStackOK
<1> DEFINE V == U \cup {v}
<1>1. DecStackOver(s, V) BY <1>0, DecStackGrow
<1>v. v \in V OBVIOUS
<1> HIDE DEF V
<1> DEFINE F == DecFrames(V)
<1> DEFINE f == Last(s)
<1> DEFINE g == [f EXCEPT !.fld = f.fld + 1, !.delta = d, !.out = Append(f.out, v),
                          !.holds = f.holds + h]
<1>2. f \in F /\ DecFrameOK(f) /\ InFieldD(f) BY <1>1, DecTop
<1>3. DNext(s, v, d, h) = [s EXCEPT ![Len(s)] = g] BY DEF DNext
<1>4. s \in Seq(F) /\ Front(s) \in Seq(F) /\ s = Append(Front(s), f)
  <2>1. s \in Seq(F) BY <1>1 DEF DecStackOver
  <2> HIDE DEF F
  <2> QED BY <2>1, FrontLast
<1> HIDE DEF f
<1> DEFINE o == Append(f.out, v)
<1>5. f.out \in Seq(V) /\ f.fld \in Nat /\ f.holds \in Nat /\ f.owned \in {0, 1} /\ f.typeid \in DOMAIN DecFields
  BY <1>2 DEF DecFrames
<1>6. o \in Seq(V) /\ Len(o) = Len(f.out) + 1 /\ o[Len(f.out) + 1] = v
      /\ \A i \in 1..Len(f.out) : o[i] = f.out[i]
  BY <1>5, <1>v, AppendProperties
<1>7. Len(f.out) = f.fld - 1 BY <1>2 DEF DecFrameOK
<1> HIDE DEF o
<1>8. g = [f EXCEPT !.fld = f.fld + 1, !.delta = d, !.out = o, !.holds = f.holds + h] BY DEF o
<1> HIDE DEF g
<1>9. g \in F /\ g.fld = f.fld + 1 /\ g.out = o /\ g.typeid = f.typeid /\ g.delta = d
  <2>1. f.fld + 1 \in Nat /\ f.holds + h \in Nat BY <1>5
  <2> QED BY <1>2, <1>6, <1>8, <2>1 DEF DecFrames
<1>10. DNext(s, v, d, h) = Append(Front(s), g)
  <2> HIDE DEF F
  <2>1. s # <<>> OBVIOUS
  <2> QED BY <1>3, <1>4, <1>9, <2>1, LastReplaced
<1>11. StackSees(Front(s), pl, p) /\ Sees(f, x) /\ Joins(pl, x, p)
  <2>1. StackSees(Append(Front(s), f), Append(pl, x), p) BY <1>4, Zenon
  <2> QED BY <1>2, <1>4, <2>1, SeesAppend
<1> DEFINE y == Onward(x)
<1>12. y \in PlaceSet /\ y.part = x.part /\ y.fld = x.fld + 1 /\ x.fld \in Nat \ {0}
  BY PlaceType DEF Onward, Place
<1>13. Joins(pl, y, p) BY <1>11, <1>12 DEF Joins
<1> HIDE DEF y
<1>14. Sees(g, y)
  <2>1. g.typeid = y.part[1] /\ g.fld = y.fld /\ f.fld = x.fld BY <1>9, <1>11, <1>12 DEF Sees
  <2>2. Measures(y.part, y.fld, g.delta) BY <1>9, <1>12
  <2>3. ASSUME NEW i \in 1..(y.fld - 1) PROVE Passed(y.part, i, g.out[i])
    <3>1. CASE i = x.fld
      <4>1. i = Len(f.out) + 1 BY <1>5, <1>7, <2>1, <3>1
      <4>2. g.out[i] = v BY <1>6, <1>9, <4>1
      <4> QED BY <1>12, <3>1, <4>2
    <3>2. CASE i # x.fld
      <4>1. i \in 1..(x.fld - 1) BY <1>12, <3>2
      <4>2. i \in 1..Len(f.out) BY <1>7, <2>1, <4>1
      <4>3. g.out[i] = f.out[i] BY <1>6, <1>9, <4>2
      <4>4. Passed(x.part, i, f.out[i]) BY <1>11, <4>1 DEF Sees
      <4> QED BY <1>12, <4>3, <4>4
    <3> QED BY <3>1, <3>2
  <2> QED BY <2>1, <2>2, <2>3 DEF Sees
<1>15. StackSees(Append(Front(s), g), Append(pl, y), p)
  BY <1>4, <1>9, <1>11, <1>12, <1>13, <1>14, SeesAppend
<1> QED BY <1>10, <1>15 DEF y

(***************************************************************************)
(* The decoder: as long as bytes are left, its functions are in the places *)
(* whose bytes come next.                                                  *)
(***************************************************************************)

\* The message being decoded ends at e, or is the one whose encoding failed.
Comes(m, e, rest) ==
  IF Len(got) < Len(sent)
  THEN m = sent[Len(got) + 1].msg /\ e = sent[Len(got) + 1].end /\ rest = <<>>
  ELSE e = Len(stream) /\ rest # <<>>

Syncs(s, k, pl, x, m, e, rest) ==
  /\ StackSees(s, Append(pl, x), PartOf(m))
  /\ Ahead(k, e, rest, Todo(pl, x))
  /\ Comes(m, e, rest)

InSync(s, k) ==
  \E pl \in Seq(PlaceSet), x \in PlaceSet, m \in Messages, e \in Nat, rest \in Seq(Byte) :
    Syncs(s, k, pl, x, m, e, rest)

\* The answer r of call k.
Answers(r, k) ==
  /\ k \in 1..Len(sent)
  /\ r.typeid = sent[k].msg.typeid
  /\ r.pos = sent[k].end /\ r.pos <= count
  /\ Lossless[PartOf(sent[k].msg)]
  /\ KeepsBlocks => r.value = Seen[PartOf(sent[k].msg)]

EndOfAnswers == IF got = <<>> THEN 0 ELSE got[Len(got)].pos

ReadInv ==
  /\ dec # "waiting" => estack = <<>>
  /\ \A k \in 1..Len(got) : Answers(got[k], k)
  /\ dec = "open" /\ dstack = <<>> => current = EndOfAnswers
  /\ dec = "open" /\ dstack # <<>> /\ current < count => InSync(dstack, current)

LEMMA ReadSuffices ==
  ASSUME CodecInv, ReadInv
  PROVE  Aligned /\ (KeepsBlocks => RoundTrip)
<1>1. PICK G : got \in Seq(G) BY DEF CodecInv, CallInv
<1>2. DOMAIN got = 1..Len(got) BY <1>1, LenProperties
<1>3. sent \in Seq(SentRecords) BY DEF CodecInv, EncInv
<1>4. DOMAIN sent = 1..Len(sent) BY <1>3, LenProperties
<1>5. Aligned BY <1>2, <1>4 DEF Aligned, ReadInv, Answers
<1>6. KeepsBlocks => RoundTrip BY <1>2, <1>4 DEF RoundTrip, ReadInv, Answers
<1> QED BY <1>5, <1>6

LEMMA AnswersStay ==
  ASSUME ReadInv, sent' = sent, count' = count, got' = got
  PROVE  (\A k \in 1..Len(got) : Answers(got[k], k))'
<1> SUFFICES ASSUME NEW k \in 1..Len(got) PROVE Answers(got[k], k)'
    OBVIOUS
<1>1. Answers(got[k], k) BY DEF ReadInv
<1> QED BY <1>1 DEF Answers

\* A call that fails changes nothing the invariant asks something of.
LEMMA FailReads ==
  ASSUME ReadInv, dec = "open", NEW pos, NEW lost, Fail(pos, lost), UNCHANGED <<stream, encVars>>
  PROVE  ReadInv'
<1>1. dec' = "failed" /\ count' = count /\ got' = got BY DEF Fail
<1>2. sent' = sent /\ estack' = estack BY DEF encVars
<1>3. dec # "waiting" => estack' = <<>> BY <1>2 DEF ReadInv
<1>4. (\A k \in 1..Len(got) : Answers(got[k], k))' BY <1>1, <1>2, AnswersStay
<1> QED BY <1>1, <1>3, <1>4 DEF ReadInv

\* A field is done.
LEMMA DoneReads ==
  ASSUME DecInv, ReadInv, InDecField, UNCHANGED <<stream, encVars>>,
         NEW v, NEW d \in Nat, NEW pos, NEW a, NEW h \in Nat, Done(v, d, pos, a, h),
         NEW pl \in Seq(PlaceSet), NEW x \in PlaceSet, NEW m \in Messages, NEW e \in Nat,
         NEW rest \in Seq(Byte), StackSees(dstack, Append(pl, x), PartOf(m)), Comes(m, e, rest),
         pos < count => /\ Passed(x.part, x.fld, v) /\ Measures(x.part, x.fld + 1, d)
                        /\ Ahead(pos, e, rest, Todo(pl, Onward(x)))
  PROVE  ReadInv'
<1>1. /\ dec = "open" /\ dstack # <<>> /\ InFieldD(Last(dstack)) /\ DecStackOK(dstack)
  BY DEF InDecField, DTop, DFields, InFieldD, DecInv
<1>2. dec' = dec /\ count' = count /\ got' = got /\ dstack' = DNext(dstack, v, d, h)
      /\ current' = pos
  BY DEF Done
<1>3. sent' = sent /\ estack' = estack /\ stream' = stream BY DEF encVars
<1>4. dstack' # <<>> BY <1>1, <1>2, DecNextOK
<1>5. (\A k \in 1..Len(got) : Answers(got[k], k))' BY <1>2, <1>3, AnswersStay
<1>6. ASSUME pos < count PROVE InSync(dstack, current)'
  <2> DEFINE y == Onward(x)
  <2> DEFINE s == DNext(dstack, v, d, h)
  <2>1. StackSees(s, Append(pl, y), PartOf(m)) BY <1>1, <1>6, GoesOn
  <2>2. y \in PlaceSet BY PlaceType
  <2>3. Ahead(pos, e, rest, Todo(pl, y)) BY <1>6
  <2> HIDE DEF y
  <2>4. StackSees(dstack', Append(pl, y), PartOf(m)) BY <1>2, <2>1
  <2> HIDE DEF s
  <2>5. Syncs(dstack, current, pl, y, m, e, rest)'
    <3>1. Comes(m, e, rest)' BY <1>2, <1>3 DEF Comes
    <3>2. Ahead(current, e, rest, Todo(pl, y))' BY <1>2, <1>3, <2>3 DEF Ahead
    <3> QED BY <2>4, <3>1, <3>2 DEF Syncs
  <2> QED BY <2>2, <2>5 DEF InSync
<1>7. estack' = <<>> BY <1>1, <1>3 DEF ReadInv
<1> QED BY <1>1, <1>2, <1>4, <1>5, <1>6, <1>7 DEF ReadInv

(***************************************************************************)
(* A field before its element.                                             *)
(***************************************************************************)

\* The field of the top function, as the part it is in has it.
LEMMA FieldPlace ==
  ASSUME DecInv, InDecField, NEW pl \in Seq(PlaceSet), NEW x \in PlaceSet, NEW p,
         StackSees(dstack, Append(pl, x), p)
  PROVE  /\ x.part \in Parts /\ x.fld \in Nat \ {0}
         /\ x.part[1] \in DOMAIN DecFields /\ x.part[1] \in DOMAIN EncFields
         /\ DField = DecFields[x.part[1]][x.fld] /\ x.fld \in DOMAIN DecFields[x.part[1]]
         /\ DTop = Last(dstack) /\ Sees(DTop, x) /\ Joins(pl, x, p)
         /\ StackSees(Front(dstack), pl, p)
         /\ Measures(x.part, x.fld, DTop.delta) /\ DTop.delta \in Nat
<1>1. x.part \in Parts /\ x.fld \in Nat \ {0} BY PlaceType
<1>2. dstack # <<>> /\ DTop = Last(dstack) /\ DTop.fld <= Len(DFields)
  BY DEF InDecField, DTop
<1>3. PICK V : DecStackOver(dstack, V) BY DEF DecInv, DecStackOK
<1>4. DTop \in DecFrames(V) /\ DecFrameOK(DTop) BY <1>2, <1>3, DecTop
<1>5. DTop.typeid \in DOMAIN DecFields /\ DTop.delta \in Nat BY <1>4 DEF DecFrames
<1> DEFINE F == DecFrames(V)
<1>6. dstack \in Seq(F) BY <1>3 DEF DecStackOver
<1>7. Front(dstack) \in Seq(F) /\ dstack = Append(Front(dstack), Last(dstack))
  <2> HIDE DEF F
  <2> QED BY <1>2, <1>6, FrontLast
<1>8. StackSees(Append(Front(dstack), DTop), Append(pl, x), p) BY <1>2, <1>7, Zenon
<1>9. StackSees(Front(dstack), pl, p) /\ Sees(DTop, x) /\ Joins(pl, x, p)
  BY <1>4, <1>7, <1>8, SeesAppend
<1>10. x.part[1] \in DOMAIN EncFields BY <1>1, PartIs
<1>11. DTop.typeid = x.part[1] /\ DTop.fld = x.fld /\ Measures(x.part, x.fld, DTop.delta)
  BY <1>9 DEF Sees
<1>12. DField = DecFields[x.part[1]][x.fld] BY <1>11 DEF DField, DFields
<1>13. x.fld \in DOMAIN DecFields[x.part[1]]
  <2> DEFINE t == x.part[1]
  <2>1. t \in DOMAIN DecFields BY <1>5, <1>11
  <2>2. DecFields[t] \in Seq(Fields) BY <2>1, StreamAssumption
  <2>3. DOMAIN DecFields[t] = 1..Len(DecFields[t]) /\ Len(DecFields[t]) \in Nat
    BY <2>2, LenProperties
  <2>4. x.fld <= Len(DecFields[t]) BY <1>2, <1>11 DEF DFields
  <2> HIDE DEF t
  <2>5. x.fld \in DOMAIN DecFields[t] BY <1>1, <2>3, <2>4
  <2> QED BY <2>5 DEF t
<1> QED BY <1>1, <1>2, <1>5, <1>9, <1>10, <1>11, <1>12, <1>13

\* A decoder function without a value for a field that was not sent.
LEMMA PassedAbsent ==
  ASSUME NEW p, NEW i, i \notin Present(p)
  PROVE  Passed(p, i, Absent(DecFields[p[1]][i]))
BY DEF Passed, FieldSeen

\* The byte at the read pointer is the first of those that are due.
LEMMA OffsetIs ==
  ASSUME DecInv, NEW pl \in Seq(PlaceSet), NEW x \in PlaceSet, NEW e \in Nat,
         NEW rest \in Seq(Byte), Ahead(current, e, rest, Todo(pl, x)), Covers(e, rest),
         current < count
  PROVE  Offset = Todo(pl, x)[1] /\ Offset \in Byte
<1> DEFINE w == Todo(pl, x)
<1>1. w \in Seq(Byte) /\ w # <<>> BY TodoType
<1>2. current \in Nat /\ count \in Nat BY DecTypes
<1> HIDE DEF w
<1>3. 1 \in 1..Len(w)
  <2>1. Len(w) \in Nat BY <1>1, LenProperties
  <2>2. Len(w) # 0 BY <1>1, EmptySeq
  <2> QED BY <2>1, <2>2
<1>4. current + 1 <= count BY <1>2
<1>5. stream[current + 1] = w[1] /\ w[1] \in Byte BY <1>1, <1>2, <1>3, <1>4, Arrived DEF w
<1> QED BY <1>5 DEF Offset, At, w

\* Which field the distance announces.
LEMMA Announced ==
  ASSUME NEW pl \in Seq(PlaceSet), NEW x \in PlaceSet, NEW d \in Nat,
         Measures(x.part, x.fld, d), NEW o \in Byte, o = Todo(pl, x)[1]
  PROVE  /\ d = 0 => o = 0
         /\ o = 0 => \A j \in Present(x.part) : j < x.fld
         /\ o # 0 => d = x.fld - Previous(x.part, x.fld)
         /\ o # 0 /\ d < o => x.fld \notin Present(x.part)
         /\ o # 0 /\ d >= o => x.fld \in Present(x.part)
<1> DEFINE p == x.part
<1> DEFINE i == x.fld
<1> DEFINE q == Previous(p, i)
<1>1. p \in Parts /\ i \in Nat \ {0} BY PlaceType
<1>2. q \in 0..(i - 1) BY <1>1, PreviousIs
<1>3. d = i - q \/ (d = 0 /\ \A j \in Present(p) : j < i) BY DEF Measures
<1>4. \/ o = 0 /\ \A j \in Present(p) : j < i
      \/ \E j \in Present(p) : j \in Nat /\ j >= i /\ (i \in Present(p) => j = i) /\ o = j - q
  BY FirstDue
<1> HIDE DEF p, i, q
<1>5. CASE o = 0 /\ \A j \in Present(p) : j < i BY <1>5 DEF p, i
<1>6. CASE \E j \in Present(p) : j \in Nat /\ j >= i /\ (i \in Present(p) => j = i) /\ o = j - q
  <2>1. PICK j \in Present(p) : j \in Nat /\ j >= i /\ (i \in Present(p) => j = i) /\ o = j - q
    BY <1>6
  <2>2. o # 0 BY <1>1, <1>2, <2>1
  <2>3. d = i - q /\ d # 0
    <3>1. ~ (j < i) BY <1>1, <2>1
    <3>2. d = i - q BY <1>3, <3>1
    <3> QED BY <1>1, <1>2, <3>2
  <2>4. d < o => i \notin Present(p) BY <1>1, <1>2, <2>1, <2>3
  <2>5. d >= o => j = i BY <1>1, <1>2, <2>1, <2>3
  <2>6. d >= o => i \in Present(p) BY <2>1, <2>5
  <2> QED BY <2>2, <2>3, <2>4, <2>6 DEF p, i, q
<1> QED BY <1>4, <1>5, <1>6

LEMMA ComesCovers ==
  ASSUME NEW m, NEW e, NEW rest, Comes(m, e, rest)
  PROVE  Covers(e, rest)
BY DEF Comes, Covers

\* A field that was not sent: the places whose bytes come next are one further on.
LEMMA AbsentReads ==
  ASSUME DecInv, ReadInv, InDecField, UNCHANGED <<stream, encVars>>,
         NEW pl \in Seq(PlaceSet), NEW x \in PlaceSet, NEW m \in Messages, NEW e \in Nat,
         NEW rest \in Seq(Byte), Syncs(dstack, current, pl, x, m, e, rest),
         x.fld \notin Present(x.part), NEW d \in Nat, Measures(x.part, x.fld + 1, d),
         Done(Absent(DField), d, current, 0, 0)
  PROVE  ReadInv'
<1>1. StackSees(dstack, Append(pl, x), PartOf(m)) /\ Comes(m, e, rest)
      /\ Ahead(current, e, rest, Todo(pl, x))
  BY DEF Syncs
<1>2. DField = DecFields[x.part[1]][x.fld] BY <1>1, FieldPlace
<1>3. Passed(x.part, x.fld, Absent(DField))
  <2>1. Passed(x.part, x.fld, Absent(DecFields[x.part[1]][x.fld])) BY PassedAbsent
  <2> QED BY <1>2, <2>1, Zenon
<1>4. Todo(pl, x) = Todo(pl, Onward(x)) BY TodoOmitted
<1>5. Ahead(current, e, rest, Todo(pl, Onward(x))) BY <1>1, <1>4, Zenon
<1> DEFINE v == Absent(DField)
<1>6. Done(v, d, current, 0, 0) /\ Passed(x.part, x.fld, v) BY <1>3
<1> HIDE DEF v
<1> QED BY <1>1, <1>5, <1>6, DoneReads

\* What is due and how far the field of the top function is from the last one read.
LEMMA FieldAhead ==
  ASSUME DecInv, ReadInv, InDecField,
         NEW pl \in Seq(PlaceSet), NEW x \in PlaceSet, NEW m \in Messages, NEW e \in Nat,
         NEW rest \in Seq(Byte), Syncs(dstack, current, pl, x, m, e, rest), current < count
  PROVE  /\ x.part \in Parts /\ x.fld \in Nat \ {0}
         /\ Offset \in Byte /\ Offset = Todo(pl, x)[1] /\ DTop.delta \in Nat
         /\ DTop.delta = 0 => Offset = 0
         /\ Offset = 0 => \A j \in Present(x.part) : j < x.fld
         /\ Offset # 0 => DTop.delta = x.fld - Previous(x.part, x.fld)
         /\ Offset # 0 /\ DTop.delta < Offset => x.fld \notin Present(x.part)
         /\ Offset # 0 /\ DTop.delta >= Offset => x.fld \in Present(x.part)
<1>1. StackSees(dstack, Append(pl, x), PartOf(m)) /\ Comes(m, e, rest)
      /\ Ahead(current, e, rest, Todo(pl, x))
  BY DEF Syncs
<1>2. x.part \in Parts /\ x.fld \in Nat \ {0} /\ Measures(x.part, x.fld, DTop.delta)
      /\ DTop.delta \in Nat
  BY <1>1, FieldPlace
<1>3. Offset \in Byte /\ Offset = Todo(pl, x)[1] BY <1>1, ComesCovers, OffsetIs
<1> DEFINE o == Offset
<1> DEFINE d == DTop.delta
<1> HIDE DEF o, d
<1>4. o \in Byte /\ o = Todo(pl, x)[1] /\ d \in Nat /\ Measures(x.part, x.fld, d)
  BY <1>2, <1>3 DEF o, d
<1>5. /\ d = 0 => o = 0
      /\ o = 0 => \A j \in Present(x.part) : j < x.fld
      /\ o # 0 => d = x.fld - Previous(x.part, x.fld)
      /\ o # 0 /\ d < o => x.fld \notin Present(x.part)
      /\ o # 0 /\ d >= o => x.fld \in Present(x.part)
  BY <1>4, Announced
<1> QED BY <1>2, <1>3, <1>5 DEF o, d

LEMMA AfterEndReads ==
  ASSUME DecInv, ReadInv, FieldAfterEnd, UNCHANGED <<stream, encVars>>
  PROVE  ReadInv'
<1>1. /\ InDecField /\ current < count /\ (Offset = 0 \/ DTop.delta = 0)
      /\ Done(Absent(DField), 0, current, 0, 0)
  BY DEF FieldAfterEnd, FieldMacro
<1>2. PICK pl \in Seq(PlaceSet), x \in PlaceSet, m \in Messages, e \in Nat, rest \in Seq(Byte) :
        Syncs(dstack, current, pl, x, m, e, rest)
  BY <1>1 DEF ReadInv, InSync, InDecField
<1>3. x.part \in Parts /\ x.fld \in Nat \ {0} /\ \A j \in Present(x.part) : j < x.fld
  BY <1>1, <1>2, FieldAhead
<1>4. Present(x.part) \subseteq Nat BY <1>3, PresentIn
<1>5. x.fld \notin Present(x.part) BY <1>3
<1>6. Measures(x.part, x.fld + 1, 0)
  <2>1. \A j \in Present(x.part) : j < x.fld + 1 BY <1>3, <1>4
  <2> QED BY <2>1 DEF Measures
<1> QED BY <1>1, <1>2, <1>5, <1>6, AbsentReads

LEMMA NotYetReads ==
  ASSUME DecInv, ReadInv, FieldNotYet, UNCHANGED <<stream, encVars>>
  PROVE  ReadInv'
<1>1. /\ InDecField /\ current < count /\ Offset # 0 /\ DTop.delta < Offset
      /\ Done(Absent(DField), DTop.delta + 1, current, 0, 0)
  BY DEF FieldNotYet, FieldMacro
<1>2. PICK pl \in Seq(PlaceSet), x \in PlaceSet, m \in Messages, e \in Nat, rest \in Seq(Byte) :
        Syncs(dstack, current, pl, x, m, e, rest)
  BY <1>1 DEF ReadInv, InSync, InDecField
<1>3. /\ x.part \in Parts /\ x.fld \in Nat \ {0} /\ DTop.delta \in Nat
      /\ DTop.delta = x.fld - Previous(x.part, x.fld) /\ x.fld \notin Present(x.part)
  BY <1>1, <1>2, FieldAhead
<1>4. /\ Previous(x.part, x.fld) \in 0..(x.fld - 1)
      /\ Previous(x.part, x.fld + 1) = Previous(x.part, x.fld)
  BY <1>3, PreviousIs
<1> DEFINE d == DTop.delta + 1
<1>5. d \in Nat /\ d = (x.fld + 1) - Previous(x.part, x.fld + 1) BY <1>3, <1>4
<1>6. Done(Absent(DField), d, current, 0, 0) BY <1>1
<1> HIDE DEF d
<1>7. Measures(x.part, x.fld + 1, d) BY <1>5 DEF Measures
<1> QED BY <1>1, <1>2, <1>3, <1>5, <1>6, <1>7, AbsentReads

\* A field whose turn it is: its distance can be consumed, and its element comes next.
LEMMA PresentReads ==
  ASSUME DecInv, ReadInv, FieldPresent,
         NEW pl \in Seq(PlaceSet), NEW x \in PlaceSet, NEW m \in Messages, NEW e \in Nat,
         NEW rest \in Seq(Byte), Syncs(dstack, current, pl, x, m, e, rest)
  PROVE  /\ x.fld \in Present(x.part) /\ ElementOf(x.part, x.fld) \in Seq(Byte)
         /\ Ahead(Pos, e, rest, ElementOf(x.part, x.fld) \o Todo(pl, Onward(x)))
         /\ Measures(x.part, x.fld + 1, 1)
<1>1. InDecField /\ current < count /\ Offset # 0 /\ DTop.delta >= Offset
  BY DEF FieldPresent, FieldMacro
<1>2. x.part \in Parts /\ x.fld \in Nat \ {0} /\ x.fld \in Present(x.part)
  BY <1>1, FieldAhead
<1> DEFINE w == <<x.fld - Previous(x.part, x.fld)>>
<1> DEFINE t == ElementOf(x.part, x.fld) \o Todo(pl, Onward(x))
<1>3. w \in Seq(Byte) /\ Len(w) = 1 /\ ElementOf(x.part, x.fld) \in Seq(Byte) /\ t \in Seq(Byte)
      /\ Todo(pl, x) = w \o t
  <2>1. /\ x.fld - Previous(x.part, x.fld) \in Byte
        /\ ElementOf(x.part, x.fld) \in Seq(Byte) /\ t \in Seq(Byte)
        /\ Todo(pl, x) = w \o t
    BY <1>2, TodoPresent
  <2> HIDE DEF t
  <2> DEFINE o == x.fld - Previous(x.part, x.fld)
  <2>2. o \in Byte BY <2>1
  <2> HIDE DEF o
  <2>3. <<o>> \in Seq(Byte) /\ Len(<<o>>) = 1 BY <2>2
  <2> QED BY <2>1, <2>3 DEF o
<1>4. Ahead(current, e, rest, Todo(pl, x)) /\ Covers(e, rest)
  BY ComesCovers DEF Syncs
<1> HIDE DEF w, t
<1>5. Ahead(current, e, rest, w \o t) BY <1>3, <1>4, Zenon
<1>6. current \in Nat /\ count \in Nat /\ Pos = current + 1 BY PosIs
<1>7. current + Len(w) <= count BY <1>1, <1>3, <1>6
<1>8. Ahead(current + Len(w), e, rest, t) BY <1>3, <1>4, <1>5, <1>6, <1>7, Skip
<1>9. Ahead(Pos, e, rest, t) BY <1>3, <1>6, <1>8
<1>10. Measures(x.part, x.fld + 1, 1)
  <2>1. Previous(x.part, x.fld + 1) = x.fld BY <1>2, PreviousIs
  <2>2. 1 = (x.fld + 1) - Previous(x.part, x.fld + 1) BY <1>2, <2>1
  <2> QED BY <2>2 DEF Measures
<1> QED BY <1>2, <1>3, <1>9, <1>10 DEF t

(***************************************************************************)
(* Elements.                                                               *)
(***************************************************************************)

LEMMA UnzigzagIs == \A t \in Nat : Unzigzag(TypeMark(t)) = t
<1> SUFFICES ASSUME NEW t \in Nat PROVE Unzigzag(TypeMark(t)) = t
    OBVIOUS
<1>1. TypeMark(t) = 2 * t BY DEF TypeMark, Zigzag
<1>2. (2 * t) % 2 = 0 /\ (2 * t) \div 2 = t OBVIOUS
<1> QED BY <1>1, <1>2 DEF Unzigzag

LEMMA ValueIs ==
  ASSUME NEW t, NEW v \in Int
  PROVE  FromByte(t, ToByte(t, v)) = v
<1>1. CASE t # GLME_INT BY <1>1 DEF FromByte, ToByte
<1>2. CASE t = GLME_INT /\ v < 0
  <2> DEFINE u == 2 * (-v - 1) + 1
  <2>1. ToByte(t, v) = u BY <1>2 DEF ToByte, Zigzag
  <2>2. u % 2 = 1 /\ u \div 2 = -v - 1 BY <1>2
  <2>3. Unzigzag(u) = -(u \div 2) - 1 BY <2>2 DEF Unzigzag
  <2> HIDE DEF u
  <2>4. -(-v - 1) - 1 = v OBVIOUS
  <2>5. Unzigzag(u) = v BY <2>2, <2>3, <2>4
  <2> QED BY <1>2, <2>1, <2>5 DEF FromByte
<1>3. CASE t = GLME_INT /\ ~ (v < 0)
  <2> DEFINE u == 2 * v
  <2>1. ToByte(t, v) = u BY <1>3 DEF ToByte, Zigzag
  <2>2. u % 2 = 0 /\ u \div 2 = v BY <1>3
  <2>3. Unzigzag(u) = v BY <2>2 DEF Unzigzag
  <2> QED BY <1>3, <2>1, <2>3 DEF FromByte
<1> QED BY <1>1, <1>2, <1>3

\* The type mark of an element: all arrays have that of an array.
IsRow(f) == f.kind \in {"array", "fixed", "block"}
MarkOf(f) == IF IsRow(f) THEN GLME_ARRAY ELSE f.typeid

\* Which kinds of fields can have a type id.
Numbers == {GLME_INT, GLME_UINT, GLME_FLOAT}

DeclaredField(f) ==
  /\ f.kind \in {"scalar", "array", "fixed"} => f.typeid \in Numbers
  /\ f.kind = "vector" => f.typeid = GLME_VECTOR
  /\ f.kind = "string" => f.typeid = GLME_STRING
  /\ IsStruct(f) => f.typeid >= GLME_USER_MIN

LEMMA TypeIdIs == \A f \in Fields : f.typeid \in Nat
BY FieldType

LEMMA FitsIs ==
  ASSUME NEW f \in Fields, NEW g \in Fields, f.typeid = g.typeid,
         IsStruct(f) <=> IsStruct(g), f.kind = "scalar" <=> g.kind = "scalar"
  PROVE  Fits(f, g)
BY DEF Fits, IsStruct

\* The elements of an array of bytes are as many bytes as the array has values.
LEMMA ElementsIn ==
  ASSUME NEW id \in Nat, NEW v \in Seq(Int), \A j \in 1..Len(v) : ToByte(id, v[j]) \in 0..127
  PROVE  Elements(id, v) \in Seq(Byte) /\ Len(Elements(id, v)) = Len(v)
<1>1. Len(v) \in Nat BY LenProperties
<1> QED BY <1>1 DEF Elements, Byte

\* An element that is marked with the type a field expects is of its kind.
LEMMA MarkedLike ==
  ASSUME NEW f \in Fields, DeclaredField(f), NEW g \in Fields, DeclaredField(g)
  PROVE  /\ MarkOf(f) = g.typeid /\ g.kind = "scalar" => f.kind = "scalar" /\ f.typeid = g.typeid
         /\ MarkOf(f) = g.typeid /\ g.kind = "vector" => f.kind = "vector" /\ f.typeid = g.typeid
         /\ MarkOf(f) = g.typeid /\ IsArray(g) => f.kind = "scalar" /\ f.typeid = g.typeid
         /\ MarkOf(f) = g.typeid /\ IsStruct(g) => IsStruct(f) /\ f.typeid = g.typeid
         /\ MarkOf(f) = GLME_ARRAY => IsRow(f)
<1>1. f.kind \in {"scalar", "vector", "string", "array", "fixed", "block", "struct", "pointer"}
      /\ f.typeid \in Nat /\ g.typeid \in Nat
  BY FieldType
<1> USE DEF MarkOf, IsRow, DeclaredField, Numbers, IsStruct, IsArray, GLME_INT, GLME_UINT,
            GLME_FLOAT, GLME_VECTOR, GLME_STRING, GLME_ARRAY, GLME_USER_MIN
<1>2. CASE f.kind = "scalar" BY <1>1, <1>2
<1>3. CASE f.kind = "vector" BY <1>1, <1>3
<1>4. CASE f.kind = "string" BY <1>1, <1>4
<1>5. CASE f.kind \in {"array", "fixed", "block"} BY <1>1, <1>5
<1>6. CASE f.kind \in {"struct", "pointer"} BY <1>1, <1>6
<1> QED BY <1>1, <1>2, <1>3, <1>4, <1>5, <1>6

LEMMA ElementMark ==
  ASSUME NEW p \in Parts, NEW i \in Present(p)
  PROVE  /\ ElementOf(p, i) \in Seq(Byte) /\ ElementOf(p, i) # <<>>
         /\ MarkOf(FieldOf(p, i)) \in Nat
         /\ ElementOf(p, i)[1] = TypeMark(MarkOf(FieldOf(p, i)))
<1> DEFINE f == FieldOf(p, i)
<1> DEFINE v == p[2][i]
<1>1. i \in 1..Len(EncFields[p[1]]) /\ f \in Fields /\ HasType(f, v) /\ i \in Nat \ {0}
  BY PresentIn, PartIs
<1>2. ElementOf(p, i) \in Seq(Byte) BY RestPresent
<1>3. f.kind \in {"scalar", "vector", "string", "array", "fixed", "block", "struct", "pointer"}
      /\ f.typeid \in 1..63
  BY <1>1, FieldType
<1>4. MarkOf(f) \in Nat
  <2> HIDE DEF f
  <2> QED BY <1>3 DEF MarkOf, GLME_ARRAY
<1>5. i \in Structs(p) <=> IsStruct(f) BY DEF Structs
<1>6. ElementOf(p, i) = IF i \in Structs(p)
                        THEN <<TypeMark(f.typeid)>> \o WireStruct[Inner(p, i)] ELSE Element(f, v)
  BY DEF ElementOf
<1> HIDE DEF f, v
<1>7. ElementOf(p, i) # <<>> /\ ElementOf(p, i)[1] = TypeMark(MarkOf(f))
  <2>1. CASE i \in Structs(p)
    <3>1. ~ IsRow(f) BY <1>3, <1>5, <2>1 DEF IsRow, IsStruct
    <3> DEFINE w == WireStruct[Inner(p, i)]
    <3> DEFINE b == TypeMark(f.typeid)
    <3>2. w \in Seq(Byte) BY <2>1, InnerIs, WireType
    <3>3. b \in Byte BY <1>1, FieldType
    <3> HIDE DEF w, b
    <3>4. <<b>> \o w # <<>> /\ (<<b>> \o w)[1] = b BY <3>2, <3>3, ConsProperties
    <3> QED BY <1>6, <2>1, <3>1, <3>4 DEF MarkOf, w, b
  <2>2. CASE i \notin Structs(p)
    <3>1. ElementOf(p, i) = Element(f, v) BY <1>6, <2>2
    <3>2. CASE f.kind = "scalar"
      <4>1. Element(f, v) = <<TypeMark(f.typeid), ToByte(f.typeid, v)>> /\ ~ IsRow(f)
        BY <3>2 DEF Element, IsRow
      <4> QED BY <3>1, <4>1 DEF MarkOf
    <3>3. CASE f.kind \in {"vector", "string"}
      <4>1. Element(f, v) = <<TypeMark(f.typeid), Len(v)>> \o v /\ ~ IsRow(f)
        BY <3>3 DEF Element, IsRow
      <4>2. v \in Seq(Byte) /\ Len(v) <= 127 BY <1>1, <3>3 DEF HasType, Byte
      <4> DEFINE b == TypeMark(f.typeid)
      <4> DEFINE w == <<b, Len(v)>>
      <4>3. b \in Byte /\ Len(v) \in Byte
        <5>1. b \in Byte BY <1>1, FieldType
        <5>2. Len(v) \in Byte BY <4>2, LenProperties, ByteIs DEF Byte
        <5> QED BY <5>1, <5>2
      <4> HIDE DEF b
      <4>4. w \in Seq(Byte) /\ w # <<>> /\ w[1] = b BY <4>3
      <4> HIDE DEF w
      <4>5. (w \o v)[1] = b BY <4>2, <4>4, FirstOfConcat
      <4>6. w \o v # <<>> BY <4>2, <4>4, ConcatEqualIffEmpty, ConcatProperties
      <4> QED BY <3>1, <4>1, <4>5, <4>6 DEF MarkOf, w, b
    <3>4. CASE f.kind \in {"array", "fixed", "block"}
      <4>1. Element(f, v) = <<TypeMark(GLME_ARRAY), TypeMark(f.typeid), Len(v)>> \o Elements(f.typeid, v)
            /\ IsRow(f)
        BY <3>4 DEF Element, IsRow
      <4> DEFINE b == TypeMark(GLME_ARRAY)
      <4> DEFINE w == <<b, TypeMark(f.typeid), Len(v)>>
      <4> DEFINE u == Elements(f.typeid, v)
      <4>2. u \in Seq(Byte) /\ w \in Seq(Byte)
        <5>1. v \in Seq(Int) /\ Len(v) <= 127
              /\ \A j \in 1..Len(v) : ToByte(f.typeid, v[j]) \in 0..127
          BY <1>1, <3>4 DEF HasType
        <5>2. Len(v) \in Byte BY <5>1, LenProperties, ByteIs DEF Byte
        <5>3. u \in Seq(Byte)
          <6>1. f.typeid \in Nat BY <1>1, TypeIdIs
          <6> QED BY <5>1, <6>1, ElementsIn DEF u
        <5>4. TypeMark(f.typeid) \in Byte BY <1>1, FieldType
        <5>5. b \in Byte BY DEF TypeMark, Zigzag, GLME_ARRAY, Byte
        <5> QED BY <5>2, <5>3, <5>4, <5>5
      <4>3. w # <<>> /\ w[1] = b OBVIOUS
      <4> HIDE DEF w, u, b
      <4>4. (w \o u)[1] = b BY <4>2, <4>3, FirstOfConcat
      <4>5. w \o u # <<>> BY <4>2, <4>3, ConcatEqualIffEmpty, ConcatProperties
      <4> QED BY <3>1, <4>1, <4>4, <4>5 DEF MarkOf, w, u, b
    <3>5. ~ IsStruct(f) BY <1>5, <2>2
    <3> QED BY <1>3, <3>2, <3>3, <3>4, <3>5 DEF IsStruct
  <2> QED BY <2>1, <2>2
<1> QED BY <1>2, <1>4, <1>7 DEF f

\* A field both programs have, in the part and in the decoder function.
LEMMA FieldPair ==
  ASSUME Readable(EncFields, DecFields), DecInv, InDecField,
         NEW pl \in Seq(PlaceSet), NEW x \in PlaceSet, NEW p,
         StackSees(dstack, Append(pl, x), p), x.fld \in Present(x.part)
  PROVE  LET f == FieldOf(x.part, x.fld)
         IN  /\ f \in Fields /\ HasType(f, x.part[2][x.fld]) /\ ~ Omitted(f, x.part[2][x.fld])
             /\ DeclaredField(f) /\ DField \in Fields /\ DeclaredField(DField)
             /\ DField.kind \notin {"string", "block"}
             /\ ~ (f.kind = "scalar" /\ IsArray(DField) /\ f.typeid = DField.typeid)
             /\ x.fld \in Structs(x.part) <=> IsStruct(f)
             /\ DField = DecFields[x.part[1]][x.fld] /\ x.fld \in DOMAIN DecFields[x.part[1]]
<1> DEFINE t == x.part[1]
<1> DEFINE i == x.fld
<1> DEFINE f == FieldOf(x.part, i)
<1>1. /\ x.part \in Parts /\ t \in DOMAIN DecFields /\ t \in DOMAIN EncFields
      /\ DField = DecFields[t][i] /\ i \in DOMAIN DecFields[t]
  BY FieldPlace
<1>2. i \in DOMAIN EncFields[t] /\ ~ Omitted(f, x.part[2][i]) BY DEF Present
<1>3. f \in Fields /\ HasType(f, x.part[2][i]) BY <1>1, <1>2, PartIs
<1>4. f = EncFields[t][i] BY DEF FieldOf
<1>5. i \in Structs(x.part) <=> IsStruct(f) BY DEF Structs
<1>6. DField \in Fields BY DecFieldIs
<1> HIDE DEF t, i, f
<1>7. DeclaredField(f) BY <1>1, <1>2, <1>4 DEF Readable, Declared, DeclaredField, Numbers
<1>8. DeclaredField(DField) BY <1>1 DEF Readable, Declared, DeclaredField, Numbers
<1>9. DField.kind \notin {"string", "block"} BY <1>1 DEF Readable, InStep
<1>10. ~ (f.kind = "scalar" /\ IsArray(DField) /\ f.typeid = DField.typeid)
  <2>1. t \in DOMAIN EncFields \cap DOMAIN DecFields /\ i \in DOMAIN EncFields[t] \cap DOMAIN DecFields[t]
    BY <1>1, <1>2
  <2> QED BY <1>1, <1>4, <2>1 DEF Readable, InStep
<1> QED BY <1>1, <1>2, <1>3, <1>5, <1>6, <1>7, <1>8, <1>9, <1>10 DEF t, i, f

\* The mark that is peeked at, when it has arrived, is that of the field.
LEMMA MarkRead ==
  ASSUME DecInv, NEW pl \in Seq(PlaceSet), NEW x \in PlaceSet, NEW e \in Nat,
         NEW rest \in Seq(Byte), x.fld \in Present(x.part),
         Ahead(Pos, e, rest, ElementOf(x.part, x.fld) \o Todo(pl, Onward(x))), Covers(e, rest),
         current < count, Mark
  PROVE  PeekedType = {MarkOf(FieldOf(x.part, x.fld))}
<1> DEFINE u == ElementOf(x.part, x.fld)
<1> DEFINE t == Todo(pl, Onward(x))
<1> DEFINE k == MarkOf(FieldOf(x.part, x.fld))
<1>1. x.part \in Parts BY PlaceType
<1>2. u \in Seq(Byte) /\ u # <<>> /\ k \in Nat /\ u[1] = TypeMark(k) BY <1>1, ElementMark
<1>3. t \in Seq(Byte) BY PlaceType, TodoType
<1>4. Ahead(Pos, e, rest, u \o t) OBVIOUS
<1>5. Pos \in Nat /\ Pos < count /\ count \in Nat BY PosIs DEF Mark
<1> HIDE DEF u, t, k
<1>6. u \o t \in Seq(Byte) /\ u \o t # <<>> /\ (u \o t)[1] = u[1]
  BY <1>2, <1>3, ConcatProperties, ConcatEqualIffEmpty, FirstOfConcat
<1> DEFINE w == u \o t
<1> HIDE DEF w
<1>7. w \in Seq(Byte) /\ w # <<>> /\ w[1] = TypeMark(k) /\ Ahead(Pos, e, rest, w)
  BY <1>2, <1>4, <1>6 DEF w
<1>8. 1 \in 1..Len(w)
  <2>1. Len(w) \in Nat BY <1>7, LenProperties
  <2>2. Len(w) # 0 BY <1>7, EmptySeq
  <2> QED BY <2>1, <2>2
<1>9. Pos + 1 <= count BY <1>5
<1>10. stream[Pos + 1] = w[1] BY <1>5, <1>7, <1>8, <1>9, Arrived
<1>11. At(Pos) = TypeMark(k) BY <1>7, <1>10 DEF At
<1>12. Unzigzag(At(Pos)) = k BY <1>2, <1>11, UnzigzagIs
<1>13. PeekedType = {Unzigzag(At(Pos))} BY DEF PeekedType
<1> QED BY <1>12, <1>13 DEF k

\* A field is passed with the value of its element.
LEMMA PassedElement ==
  ASSUME NEW p \in Parts, NEW i \in Present(p), i \notin Structs(p), Has(p, i), NEW v,
         KeepsBlocks => v = Fitted(DecFields[p[1]][i], p[2][i])
  PROVE  Passed(p, i, v)
BY DEF Passed, FieldSeen

LEMMA TypeErrorReads ==
  ASSUME DecInv, ReadInv, FieldTypeError, UNCHANGED <<stream, encVars>>
  PROVE  ReadInv'
<1>1. dec = "open" /\ Fail(Pos, 0)
  BY DEF FieldTypeError, FieldPresent, FieldMacro, InDecField
<1> QED BY <1>1, FailReads

LEMMA UnderflowReads ==
  ASSUME DecInv, ReadInv, FieldUnderflow, UNCHANGED <<stream, encVars>>
  PROVE  ReadInv'
<1>1. dec = "open" /\ Fail(current, 0) BY DEF FieldUnderflow, FieldMacro, InDecField
<1> QED BY <1>1, FailReads

\* All that is known of a field whose element comes next.
LEMMA AtElement ==
  ASSUME Readable(EncFields, DecFields), DecInv, ReadInv, FieldPresent,
         NEW pl \in Seq(PlaceSet), NEW x \in PlaceSet, NEW m \in Messages, NEW e \in Nat,
         NEW rest \in Seq(Byte), Syncs(dstack, current, pl, x, m, e, rest)
  PROVE  LET f == FieldOf(x.part, x.fld)
             v == x.part[2][x.fld]
         IN  /\ x.part \in Parts /\ x.fld \in Present(x.part)
             /\ Ahead(Pos, e, rest, ElementOf(x.part, x.fld) \o Todo(pl, Onward(x)))
             /\ Measures(x.part, x.fld + 1, 1) /\ Covers(e, rest)
             /\ Todo(pl, Onward(x)) \in Seq(Byte)
             /\ f \in Fields /\ HasType(f, v) /\ ~ Omitted(f, v) /\ DeclaredField(f)
             /\ DField \in Fields /\ DeclaredField(DField) /\ DField.kind \notin {"string", "block"}
             /\ ~ (f.kind = "scalar" /\ IsArray(DField) /\ f.typeid = DField.typeid)
             /\ x.fld \in Structs(x.part) <=> IsStruct(f)
             /\ ~ IsStruct(f) => ElementOf(x.part, x.fld) = Element(f, v)
             /\ DField = DecFields[x.part[1]][x.fld] /\ x.fld \in DOMAIN DecFields[x.part[1]]
             /\ Mark => PeekedType = {MarkOf(f)}
             /\ InDecField /\ dec = "open" /\ Comes(m, e, rest)
             /\ StackSees(dstack, Append(pl, x), PartOf(m))
<1>1. InDecField /\ dec = "open" /\ current < count
  BY DEF FieldPresent, FieldMacro, InDecField
<1>2. StackSees(dstack, Append(pl, x), PartOf(m)) /\ Comes(m, e, rest) /\ Covers(e, rest)
  BY ComesCovers DEF Syncs
<1>3. /\ x.fld \in Present(x.part)
      /\ Ahead(Pos, e, rest, ElementOf(x.part, x.fld) \o Todo(pl, Onward(x)))
      /\ Measures(x.part, x.fld + 1, 1)
  BY PresentReads
<1>4. x.part \in Parts /\ Todo(pl, Onward(x)) \in Seq(Byte) BY PlaceType, TodoType
<1>5. Mark => PeekedType = {MarkOf(FieldOf(x.part, x.fld))} BY <1>1, <1>2, <1>3, MarkRead
<1> DEFINE f == FieldOf(x.part, x.fld)
<1> DEFINE v == x.part[2][x.fld]
<1>6. /\ f \in Fields /\ HasType(f, v) /\ ~ Omitted(f, v) /\ DeclaredField(f)
      /\ DField \in Fields /\ DeclaredField(DField) /\ DField.kind \notin {"string", "block"}
      /\ ~ (f.kind = "scalar" /\ IsArray(DField) /\ f.typeid = DField.typeid)
      /\ x.fld \in Structs(x.part) <=> IsStruct(f)
      /\ DField = DecFields[x.part[1]][x.fld] /\ x.fld \in DOMAIN DecFields[x.part[1]]
  BY <1>1, <1>2, <1>3, FieldPair
<1>7. ~ IsStruct(f) => ElementOf(x.part, x.fld) = Element(f, v) BY <1>6 DEF ElementOf
<1> QED BY <1>1, <1>2, <1>3, <1>4, <1>5, <1>6, <1>7

LEMMA ScalarReads ==
  ASSUME Readable(EncFields, DecFields), DecInv, ReadInv, FieldScalar,
         UNCHANGED <<stream, encVars>>
  PROVE  ReadInv'
<1>1. FieldPresent /\ DField.kind = "scalar" BY DEF FieldScalar, ElementStarts
<1>2. InDecField /\ current < count /\ dec = "open" /\ dstack # <<>>
  BY <1>1 DEF FieldPresent, FieldMacro, InDecField
<1>3. PICK pl \in Seq(PlaceSet), x \in PlaceSet, m \in Messages, e \in Nat, rest \in Seq(Byte) :
        Syncs(dstack, current, pl, x, m, e, rest)
  BY <1>2 DEF ReadInv, InSync
<1> DEFINE f == FieldOf(x.part, x.fld)
<1> DEFINE v == x.part[2][x.fld]
<1> DEFINE t == Todo(pl, Onward(x))
<1>4. /\ x.part \in Parts /\ x.fld \in Present(x.part)
      /\ Ahead(Pos, e, rest, ElementOf(x.part, x.fld) \o t)
      /\ Measures(x.part, x.fld + 1, 1) /\ Covers(e, rest) /\ t \in Seq(Byte)
      /\ f \in Fields /\ HasType(f, v) /\ DeclaredField(f)
      /\ DField \in Fields /\ DeclaredField(DField)
      /\ x.fld \in Structs(x.part) <=> IsStruct(f)
      /\ ~ IsStruct(f) => ElementOf(x.part, x.fld) = Element(f, v)
      /\ DField = DecFields[x.part[1]][x.fld] /\ x.fld \in DOMAIN DecFields[x.part[1]]
      /\ Mark => PeekedType = {MarkOf(f)}
      /\ Comes(m, e, rest) /\ StackSees(dstack, Append(pl, x), PartOf(m))
  BY <1>1, <1>3, AtElement
<1>5. Pos \in Nat /\ count \in Nat /\ (Mark => Pos < count) BY <1>1, PresentIs
<1>6. CASE ~ Mark
  <2>1. Fail(Pos, 0) BY <1>6 DEF FieldScalar
  <2> QED BY <1>2, <2>1, FailReads
<1>7. CASE Mark /\ ~ (Pos + 1 < count) /\ DField.typeid = GLME_UINT
  <2>1. Fail(Pos + 1, 0) BY <1>7 DEF FieldScalar
  <2> QED BY <1>2, <2>1, FailReads
<1>8. CASE Mark /\ ~ (Pos + 1 < count) /\ DField.typeid # GLME_UINT
  <2>1. Done(Absent(DField), 1, Pos + 1, 0, 0) BY <1>8 DEF FieldScalar
  <2>2. ~ (Pos + 1 < count) BY <1>8
  <2> DEFINE a == Absent(DField)
  <2> DEFINE q == Pos + 1
  <2>3. Done(a, 1, q, 0, 0) /\ ~ (q < count) BY <2>1, <2>2
  <2> HIDE DEF a, q
  <2> QED BY <1>2, <1>4, <2>3, DoneReads
<1>9. CASE Mark /\ Pos + 1 < count
  <2>1. Done(FromByte(DField.typeid, At(Pos + 1)), 1, Pos + 2, 0, 0) BY <1>9 DEF FieldScalar
  <2>2. MarkOf(f) = DField.typeid BY <1>4, <1>9 DEF FieldScalar, ElementStarts
  <2> HIDE DEF f, v, t
  <2>3. f.kind = "scalar" /\ f.typeid = DField.typeid BY <1>1, <1>4, <2>2, MarkedLike
  <2>4. ~ IsStruct(f) BY <2>3 DEF IsStruct
  <2> DEFINE a == TypeMark(f.typeid)
  <2> DEFINE b == ToByte(f.typeid, v)
  <2>5. Element(f, v) = <<a, b>> BY <2>3 DEF Element
  <2>6. v \in Int /\ b \in Byte /\ a \in Byte
    <3>1. v \in Int /\ b \in Byte BY <1>4, <2>3 DEF HasType, Byte
    <3> QED BY <1>4, <3>1, FieldType
  <2> HIDE DEF a, b
  <2> DEFINE w == <<a, b>>
  <2>7. w \in Seq(Byte) /\ Len(w) = 2 /\ w[2] = b BY <2>6
  <2>8. Ahead(Pos, e, rest, w \o t) BY <1>4, <2>4, <2>5, Zenon
  <2> HIDE DEF w
  <2>9. Pos + Len(w) <= count /\ Pos + Len(w) = Pos + 2 /\ Pos + 2 <= count /\ Pos + 2 \in Nat
    BY <1>5, <1>9, <2>7
  <2>10. Ahead(Pos + 2, e, rest, t)
    <3>1. Ahead(Pos + Len(w), e, rest, t) BY <1>4, <1>5, <2>7, <2>8, <2>9, Skip
    <3> QED BY <2>9, <3>1
  <2>11. stream[Pos + 2] = b
    <3>1. w \o t \in Seq(Byte) /\ (w \o t)[2] = b /\ 2 \in 1..Len(w \o t)
      BY <1>4, <2>7, ConcatProperties, LenProperties
    <3> DEFINE y == w \o t
    <3>2. y \in Seq(Byte) /\ y[2] = b /\ 2 \in 1..Len(y) /\ Ahead(Pos, e, rest, y) BY <2>8, <3>1
    <3> HIDE DEF y
    <3> QED BY <1>4, <1>5, <2>9, <3>2, Arrived
  <2>12. FromByte(DField.typeid, At(Pos + 1)) = v
    <3>1. At(Pos + 1) = b
      <4>1. (Pos + 1) + 1 = Pos + 2 BY <1>5
      <4> QED BY <2>11, <4>1 DEF At
    <3>2. FromByte(f.typeid, b) = v BY <2>6, ValueIs DEF b
    <3> QED BY <2>3, <3>1, <3>2
  <2>13. Passed(x.part, x.fld, v)
    <3>1. v = Fitted(DField, v) BY <1>1 DEF Fitted
    <3>2. Has(x.part, x.fld) BY <1>1, <1>4, <2>3, <2>4 DEF Has, Fits, IsStruct, f
    <3> QED BY <1>4, <2>4, <3>1, <3>2, PassedElement DEF v
  <2>14. Done(v, 1, Pos + 2, 0, 0) BY <2>1, <2>12, Zenon
  <2> DEFINE q == Pos + 2
  <2>15. Done(v, 1, q, 0, 0) /\ Ahead(q, e, rest, Todo(pl, Onward(x)))
    BY <2>10, <2>14 DEF t
  <2> HIDE DEF q
  <2> QED BY <1>2, <1>4, <2>13, <2>15, DoneReads
<1> QED BY <1>6, <1>7, <1>8, <1>9

\* The bytes behind a mark and a length, which have arrived, are those of the value.
LEMMA CountedRead ==
  ASSUME DecInv, NEW k \in Nat, NEW e \in Nat, NEW rest \in Seq(Byte), NEW w \in Seq(Byte),
         NEW u \in Seq(Byte), NEW t \in Seq(Byte), w # <<>>, w[Len(w)] = Len(u),
         Ahead(k, e, rest, (w \o u) \o t), Covers(e, rest), k + Len(w) <= count
  PROVE  /\ stream[k + Len(w)] = Len(u) /\ Len(u) \in Nat /\ Len(w) \in Nat \ {0}
         /\ k + Len(w) + Len(u) <= count =>
              /\ Ahead(k + Len(w) + Len(u), e, rest, t)
              /\ SubSeq(stream, k + Len(w) + 1, k + Len(w) + Len(u)) = u
<1> DEFINE n == Len(w)
<1> DEFINE l == Len(u)
<1> DEFINE y == u \o t
<1>1. n \in Nat \ {0} /\ l \in Nat
  <2>1. n \in Nat /\ l \in Nat BY LenProperties
  <2>2. n # 0 BY EmptySeq
  <2> QED BY <2>1, <2>2
<1>2. Associates(w, u, t) /\ y \in Seq(Byte) BY Associative, ConcatProperties
<1>3. Ahead(k, e, rest, w \o y) BY <1>2 DEF Associates
<1> HIDE DEF y
<1>4. Ahead(k + n, e, rest, y) BY <1>2, <1>3, Skip
<1>5. stream[k + n] = l
  <2> DEFINE z == w \o y
  <2>1. z \in Seq(Byte) /\ z[n] = w[n] /\ n \in 1..Len(z)
    BY <1>1, <1>2, ConcatProperties, LenProperties
  <2>2. Ahead(k, e, rest, z) BY <1>3
  <2> HIDE DEF z
  <2>3. stream[k + n] = z[n] BY <1>1, <2>1, <2>2, Arrived
  <2> QED BY <2>1, <2>3
<1> DEFINE j == k + n
<1>6. j \in Nat /\ Ahead(j, e, rest, u \o t) BY <1>1, <1>4 DEF y
<1> HIDE DEF j
<1>7. j + l <= count => Ahead(j + l, e, rest, t) /\ SubSeq(stream, j + 1, j + l) = u
  BY <1>6, Skip
<1> QED BY <1>1, <1>5, <1>7 DEF j

LEMMA VectorReads ==
  ASSUME Readable(EncFields, DecFields), DecInv, ReadInv, FieldVector,
         UNCHANGED <<stream, encVars>>
  PROVE  ReadInv'
<1>1. FieldPresent /\ DField.kind = "vector" BY DEF FieldVector, ElementStarts
<1>2. InDecField /\ current < count /\ dec = "open" /\ dstack # <<>>
  BY <1>1 DEF FieldPresent, FieldMacro, InDecField
<1>3. PICK pl \in Seq(PlaceSet), x \in PlaceSet, m \in Messages, e \in Nat, rest \in Seq(Byte) :
        Syncs(dstack, current, pl, x, m, e, rest)
  BY <1>2 DEF ReadInv, InSync
<1> DEFINE f == FieldOf(x.part, x.fld)
<1> DEFINE v == x.part[2][x.fld]
<1> DEFINE t == Todo(pl, Onward(x))
<1>4. /\ x.part \in Parts /\ x.fld \in Present(x.part)
      /\ Ahead(Pos, e, rest, ElementOf(x.part, x.fld) \o t)
      /\ Measures(x.part, x.fld + 1, 1) /\ Covers(e, rest) /\ t \in Seq(Byte)
      /\ f \in Fields /\ HasType(f, v) /\ DeclaredField(f)
      /\ DField \in Fields /\ DeclaredField(DField)
      /\ x.fld \in Structs(x.part) <=> IsStruct(f)
      /\ ~ IsStruct(f) => ElementOf(x.part, x.fld) = Element(f, v)
      /\ DField = DecFields[x.part[1]][x.fld] /\ x.fld \in DOMAIN DecFields[x.part[1]]
      /\ Mark => PeekedType = {MarkOf(f)}
      /\ Comes(m, e, rest) /\ StackSees(dstack, Append(pl, x), PartOf(m))
  BY <1>1, <1>3, AtElement
<1>5. Pos \in Nat /\ count \in Nat /\ (Mark => Pos < count) BY <1>1, PresentIs
<1>6. CASE ~ Mark
  <2>1. Fail(Pos, 0) BY <1>6 DEF FieldVector
  <2> QED BY <1>2, <2>1, FailReads
<1>7. CASE Mark /\ DataMissing(Pos + 1)
  <2>1. Fail(Pos + 1, 0) BY <1>7 DEF FieldVector
  <2> QED BY <1>2, <2>1, FailReads
<1>8. CASE Mark /\ ~ DataMissing(Pos + 1)
  <2> DEFINE d == Data(Pos + 1)
  <2> DEFINE a == [i \in 1..DField.size |-> IF i <= Len(d) THEN d[i] ELSE 0]
  <2>1. Done(a, 1, Pos + 2 + Len(d), 0, 0) BY <1>8 DEF FieldVector
  <2>2. MarkOf(f) = DField.typeid BY <1>4, <1>8 DEF FieldVector, ElementStarts
  <2>3. (Pos + 1) + 1 + Len(d) \in 0..count /\ Pos + 1 < count /\ Len(d) \in 0..127
    <3>1. Pos + 1 \in Nat BY <1>5
    <3> QED BY <1>8, <3>1, DataIs
  <2>d. d = SubSeq(stream, (Pos + 1) + 2, (Pos + 1) + 1 + At(Pos + 1)) BY DEF Data
  <2> HIDE DEF f, v, t
  <2>4. f.kind = "vector" /\ f.typeid = DField.typeid BY <1>1, <1>4, <2>2, MarkedLike
  <2>5. ~ IsStruct(f) BY <2>4 DEF IsStruct
  <2> DEFINE b == TypeMark(f.typeid)
  <2> DEFINE w == <<b, Len(v)>>
  <2>6. ElementOf(x.part, x.fld) = w \o v BY <1>4, <2>4, <2>5 DEF Element
  <2>7. v \in Seq(Byte) /\ Len(v) \in Byte
    <3>1. v \in Seq(Byte) /\ Len(v) <= 127 BY <1>4, <2>4 DEF HasType, Byte
    <3> QED BY <3>1, LenProperties, ByteIs DEF Byte
  <2>8. b \in Byte BY <1>4, FieldType
  <2> HIDE DEF b
  <2>9. w \in Seq(Byte) /\ w # <<>> /\ Len(w) = 2 /\ w[Len(w)] = Len(v) BY <2>7, <2>8
  <2> HIDE DEF w
  <2>10. Ahead(Pos, e, rest, (w \o v) \o t) BY <1>4, <2>6, Zenon
  <2>11. Pos + Len(w) <= count BY <1>5, <2>3, <2>9
  <2>12. /\ stream[Pos + Len(w)] = Len(v) /\ Len(v) \in Nat
         /\ Pos + Len(w) + Len(v) <= count =>
              /\ Ahead(Pos + Len(w) + Len(v), e, rest, t)
              /\ SubSeq(stream, Pos + Len(w) + 1, Pos + Len(w) + Len(v)) = v
    <3> DEFINE k == Pos
    <3>1. /\ k \in Nat /\ e \in Nat /\ rest \in Seq(Byte) /\ w \in Seq(Byte) /\ v \in Seq(Byte)
          /\ t \in Seq(Byte) /\ w # <<>> /\ w[Len(w)] = Len(v)
          /\ Ahead(k, e, rest, (w \o v) \o t) /\ Covers(e, rest) /\ k + Len(w) <= count
      BY <1>4, <1>5, <2>7, <2>9, <2>10, <2>11
    <3> HIDE DEF k
    <3>2. /\ stream[k + Len(w)] = Len(v) /\ Len(v) \in Nat
          /\ k + Len(w) + Len(v) <= count =>
              /\ Ahead(k + Len(w) + Len(v), e, rest, t)
              /\ SubSeq(stream, k + Len(w) + 1, k + Len(w) + Len(v)) = v
      BY <3>1, CountedRead, SMTT(30)
    <3> QED BY <3>2 DEF k
  <2>13. At(Pos + 1) = Len(v)
    <3>1. (Pos + 1) + 1 = Pos + Len(w) BY <1>5, <2>9
    <3> QED BY <2>12, <3>1 DEF At
  <2>14. d = SubSeq(stream, Pos + Len(w) + 1, Pos + Len(w) + Len(v))
    <3>1. (Pos + 1) + 2 = Pos + Len(w) + 1 /\ (Pos + 1) + 1 + At(Pos + 1) = Pos + Len(w) + Len(v)
      BY <1>5, <2>9, <2>12, <2>13
    <3> QED BY <2>d, <3>1, Zenon
  <2>15. Pos + Len(w) + Len(v) <= count /\ d = v
    <3> DEFINE n == Len(v)
    <3>1. ~ (At(Pos + 1) > count - (Pos + 1) - 1) BY <1>8 DEF DataMissing
    <3> HIDE DEF n
    <3>2. ~ (n > count - (Pos + 1) - 1) BY <2>13, <3>1 DEF n
    <3>3. n \in Nat BY <2>12 DEF n
    <3>4. Pos + 2 + n <= count BY <1>5, <3>2, <3>3
    <3>5. Pos + Len(w) + Len(v) <= count BY <2>9, <3>4 DEF n
    <3> QED BY <2>12, <2>14, <3>5
  <2>16. a = Fitted(DField, v) BY <1>1, <2>15 DEF Fitted
  <2>17. Has(x.part, x.fld) BY <1>1, <1>4, <2>4, <2>5 DEF Has, Fits, IsStruct, f
  <2> HIDE DEF a, d
  <2>18. Passed(x.part, x.fld, a) BY <1>4, <2>5, <2>16, <2>17, PassedElement DEF v
  <2> DEFINE q == Pos + 2 + Len(d)
  <2>19. Done(a, 1, q, 0, 0) /\ Ahead(q, e, rest, Todo(pl, Onward(x)))
    <3>1. Ahead(Pos + Len(w) + Len(v), e, rest, t) BY <2>12, <2>15
    <3>2. q = Pos + Len(w) + Len(v) BY <2>9, <2>15
    <3> QED BY <2>1, <3>1, <3>2 DEF t
  <2> HIDE DEF q
  <2> QED BY <1>2, <1>4, <2>18, <2>19, DoneReads
<1> QED BY <1>6, <1>7, <1>8

\* The elements of an array that has arrived are those of the value.
LEMMA ElementsRead ==
  ASSUME DecInv, NEW k \in Nat, NEW t \in Numbers, t = DField.typeid, NEW v \in Seq(Int), NEW junk,
         k + Len(v) <= count, SubSeq(stream, k + 1, k + Len(v)) = Elements(t, v)
  PROVE  ArrayElements(k, Len(v), junk) = v
<1> DEFINE n == Len(v)
<1>1. n \in Nat /\ count \in Nat /\ Len(stream) \in Nat /\ count <= Len(stream)
  BY DecTypes, LenProperties
<1> DEFINE u == Elements(t, v)
<1>2. \A i \in 1..n : u[i] = ToByte(t, v[i]) BY DEF Elements
<1>3. \A i \in 1..n : v[i] \in Int BY ElementOfSeq
<1>4. v = [i \in 1..n |-> v[i]] BY LenProperties
<1> HIDE DEF n, u
<1>5. k + n \in Nat /\ k <= k + n /\ k + n <= Len(stream) BY <1>1 DEF n
<1>6. \A i \in 1..n : SubSeq(stream, k + 1, k + n)[i] = stream[k + i]
  <2> DEFINE e == k + n
  <2>1. e \in Nat /\ k <= e /\ e <= Len(stream) /\ e - k = n BY <1>1, <1>5
  <2> HIDE DEF e
  <2>2. \A i \in 1..(e - k) : SubSeq(stream, k + 1, e)[i] = stream[k + i] BY <2>1, Between
  <2> QED BY <2>1, <2>2 DEF e
<1>7. SubSeq(stream, k + 1, k + n) = u BY DEF n, u
<1>8. ASSUME NEW i \in 1..n
      PROVE  (IF k + i <= count THEN FromByte(DField.typeid, At(k + i - 1)) ELSE junk) = v[i]
  <2>1. k + i <= count /\ (k + i - 1) + 1 = k + i
    <3>1. k + n <= count BY DEF n
    <3> QED BY <1>1, <3>1
  <2>2. At(k + i - 1) = ToByte(t, v[i]) BY <1>2, <1>6, <1>7, <2>1 DEF At
  <2>3. FromByte(t, ToByte(t, v[i])) = v[i] BY <1>3, ValueIs
  <2> QED BY <2>1, <2>2, <2>3
<1>9. ArrayElements(k, n, junk) = [i \in 1..n |-> v[i]] BY <1>8 DEF ArrayElements
<1> QED BY <1>4, <1>9 DEF n

LEMMA FilledIs ==
  ASSUME NEW f \in Fields, IsArray(f), KeepsBlocks => (f.kind = "fixed" => InPlace(f)), NEW v
  PROVE  KeepsBlocks => Fill(f, v) = Fitted(f, v)
<1> SUFFICES ASSUME KeepsBlocks PROVE Fill(f, v) = Fitted(f, v)
    OBVIOUS
<1>1. CASE f.kind = "array"
  <2>1. ~ InPlace(f) BY <1>1 DEF InPlace
  <2> QED BY <1>1, <2>1 DEF Fill, Fitted
<1>2. CASE f.kind = "fixed"
  <2>1. InPlace(f) BY <1>2
  <2> QED BY <1>2, <2>1 DEF Fill, Fitted
<1> QED BY <1>1, <1>2 DEF IsArray

LEMMA ArrayReads ==
  ASSUME Readable(EncFields, DecFields), DecInv, ReadInv, FieldArray,
         UNCHANGED <<stream, encVars>>
  PROVE  ReadInv'
<1>1. FieldPresent /\ IsArray(DField) /\ GLME_ARRAY \in PeekedType BY DEF FieldArray
<1>2. InDecField /\ current < count /\ dec = "open" /\ dstack # <<>>
  BY <1>1 DEF FieldPresent, FieldMacro, InDecField
<1>3. PICK pl \in Seq(PlaceSet), x \in PlaceSet, m \in Messages, e \in Nat, rest \in Seq(Byte) :
        Syncs(dstack, current, pl, x, m, e, rest)
  BY <1>2 DEF ReadInv, InSync
<1> DEFINE f == FieldOf(x.part, x.fld)
<1> DEFINE v == x.part[2][x.fld]
<1> DEFINE t == Todo(pl, Onward(x))
<1>4. /\ x.part \in Parts /\ x.fld \in Present(x.part)
      /\ Ahead(Pos, e, rest, ElementOf(x.part, x.fld) \o t)
      /\ Measures(x.part, x.fld + 1, 1) /\ Covers(e, rest) /\ t \in Seq(Byte)
      /\ f \in Fields /\ HasType(f, v) /\ ~ Omitted(f, v) /\ DeclaredField(f)
      /\ DField \in Fields /\ DeclaredField(DField)
      /\ x.fld \in Structs(x.part) <=> IsStruct(f)
      /\ ~ IsStruct(f) => ElementOf(x.part, x.fld) = Element(f, v)
      /\ DField = DecFields[x.part[1]][x.fld] /\ x.fld \in DOMAIN DecFields[x.part[1]]
      /\ Mark => PeekedType = {MarkOf(f)}
      /\ Comes(m, e, rest) /\ StackSees(dstack, Append(pl, x), PartOf(m))
  BY <1>1, <1>3, AtElement
<1>5. Pos \in Nat /\ count \in Nat /\ Mark = (Pos < count)
  BY <1>1, PresentIs DEF Mark
<1>k. KeepsBlocks => (DField.kind = "fixed" => InPlace(DField)) BY <1>1, PresentIs
<1> DEFINE n == At(Pos + 2)
<1>6. CASE Pos + 2 >= count
  <2>1. Fail(count, 0) BY <1>6 DEF FieldArray
  <2> QED BY <1>2, <2>1, FailReads
<1>7. CASE ~ (Pos + 2 >= count) /\ (Unzigzag(At(Pos + 1)) # DField.typeid
                                    \/ (DField.kind = "fixed" /\ DField.size < n))
  <2>1. Fail(Pos + 3, 0) BY <1>7 DEF FieldArray
  <2> QED BY <1>2, <2>1, FailReads
<1>8. CASE ~ (Pos + 2 >= count) /\ Unzigzag(At(Pos + 1)) = DField.typeid
           /\ ~ (DField.kind = "fixed" /\ DField.size < n)
  <2>0. ~ (Pos + 2 >= count) BY <1>8
  <2>1. Mark
    <3>1. Pos < count BY <1>5, <2>0
    <3> QED BY <3>1 DEF Mark
  <2>2. MarkOf(f) = GLME_ARRAY BY <1>1, <1>4, <2>1
  <2>3. IF n = 0 THEN Done(Absent(DField), DTop.delta, Pos + 3, 0, 0) ELSE StoredArray(n)
    BY <1>8 DEF FieldArray
  <2> HIDE DEF f, v, t, n
  <2>4. IsRow(f) BY <1>4, <2>2, MarkedLike
  <2>5. ~ IsStruct(f) BY <2>4 DEF IsStruct, IsRow
  <2> DEFINE a == TypeMark(GLME_ARRAY)
  <2> DEFINE b == TypeMark(f.typeid)
  <2> DEFINE u == Elements(f.typeid, v)
  <2> DEFINE w == <<a, b, Len(v)>>
  <2>6. ElementOf(x.part, x.fld) = w \o u BY <1>4, <2>4, <2>5 DEF Element, IsRow
  <2>7. v \in Seq(Int) /\ Len(v) \in Byte /\ Len(v) # 0 /\ u \in Seq(Byte) /\ Len(u) = Len(v)
    <3>1. v \in Seq(Int) /\ Len(v) <= 127
          /\ \A i \in 1..Len(v) : ToByte(f.typeid, v[i]) \in 0..127
      BY <1>4, <2>4 DEF HasType, IsRow
    <3>2. v # <<>> BY <1>4, <2>4 DEF Omitted, IsRow
    <3>3. Len(v) \in Byte BY <3>1, LenProperties, ByteIs DEF Byte
    <3>4. Len(v) # 0 BY <3>1, <3>2, EmptySeq
    <3>5. u \in Seq(Byte) /\ Len(u) = Len(v)
      <4>1. f.typeid \in Nat BY <1>4, TypeIdIs
      <4> QED BY <3>1, <4>1, ElementsIn DEF u
    <3> QED BY <3>1, <3>3, <3>4, <3>5
  <2>8. a \in Byte /\ b \in Byte
    <3>1. a \in Byte BY DEF TypeMark, Zigzag, GLME_ARRAY, Byte
    <3> QED BY <1>4, <3>1, FieldType
  <2>b. b = TypeMark(f.typeid) /\ f.typeid \in Nat
    <3>1. f.typeid \in Nat BY <1>4, TypeIdIs
    <3> QED BY <3>1
  <2> HIDE DEF a, b, u
  <2>9. w \in Seq(Byte) /\ w # <<>> /\ Len(w) = 3 /\ w[Len(w)] = Len(u) /\ w[2] = b
    BY <2>7, <2>8
  <2> HIDE DEF w
  <2>10. Ahead(Pos, e, rest, (w \o u) \o t) BY <1>4, <2>6, Zenon
  <2>11. Pos + Len(w) <= count /\ Pos + Len(w) = Pos + 3 BY <1>5, <1>8, <2>9
  <2>12. /\ stream[Pos + Len(w)] = Len(u)
         /\ Pos + Len(w) + Len(u) <= count =>
              /\ Ahead(Pos + Len(w) + Len(u), e, rest, t)
              /\ SubSeq(stream, Pos + Len(w) + 1, Pos + Len(w) + Len(u)) = u
    <3> DEFINE k == Pos
    <3>1. /\ k \in Nat /\ e \in Nat /\ rest \in Seq(Byte) /\ w \in Seq(Byte) /\ u \in Seq(Byte)
          /\ t \in Seq(Byte) /\ w # <<>> /\ w[Len(w)] = Len(u)
          /\ Ahead(k, e, rest, (w \o u) \o t) /\ Covers(e, rest) /\ k + Len(w) <= count
      BY <1>4, <1>5, <2>7, <2>9, <2>10, <2>11
    <3> HIDE DEF k
    <3>2. /\ stream[k + Len(w)] = Len(u) /\ Len(u) \in Nat
          /\ k + Len(w) + Len(u) <= count =>
              /\ Ahead(k + Len(w) + Len(u), e, rest, t)
              /\ SubSeq(stream, k + Len(w) + 1, k + Len(w) + Len(u)) = u
      BY <3>1, CountedRead, SMTT(30)
    <3> QED BY <3>2 DEF k
  <2>13. n = Len(v)
    <3>1. (Pos + 2) + 1 = Pos + Len(w) BY <1>5, <2>9
    <3> QED BY <2>7, <2>12, <3>1 DEF At, n
  <2>14. f.typeid = DField.typeid
    <3> DEFINE y == (w \o u) \o t
    <3>1. y \in Seq(Byte) /\ y[2] = b /\ 2 \in 1..Len(y)
      <4>1. w \o u \in Seq(Byte) /\ (w \o u)[2] = b /\ Len(w \o u) = Len(w) + Len(u)
        <5>1. Len(u) \in Nat BY <2>7, LenProperties
        <5>2. 2 \in 1..(Len(w) + Len(u)) /\ 2 <= Len(w) BY <2>9, <5>1
        <5>3. w \o u \in Seq(Byte) /\ Len(w \o u) = Len(w) + Len(u) /\ (w \o u)[2] = w[2]
          BY <2>7, <2>9, <5>2, ConcatProperties
        <5> QED BY <2>9, <5>3
      <4> DEFINE z == w \o u
      <4>2. z \in Seq(Byte) /\ z[2] = b /\ Len(z) >= 3 /\ Len(z) \in Nat
        BY <2>7, <2>9, <4>1, LenProperties
      <4> HIDE DEF z
      <4>3. z \o t \in Seq(Byte) /\ (z \o t)[2] = z[2] /\ Len(z \o t) = Len(z) + Len(t)
        BY <1>4, <4>2, ConcatProperties
      <4>4. Len(t) \in Nat BY <1>4, LenProperties
      <4>5. 2 \in 1..Len(z \o t) BY <4>2, <4>3, <4>4
      <4> QED BY <4>2, <4>3, <4>5 DEF z
    <3>2. Ahead(Pos, e, rest, y) BY <2>10
    <3> HIDE DEF y
    <3>3. Pos + 2 <= count /\ (Pos + 1) + 1 = Pos + 2 BY <1>5, <1>8
    <3>4. stream[Pos + 2] = b BY <1>4, <1>5, <3>1, <3>2, <3>3, Arrived
    <3>5. At(Pos + 1) = TypeMark(f.typeid) BY <2>b, <3>3, <3>4 DEF At
    <3>6. Unzigzag(At(Pos + 1)) = f.typeid BY <2>b, <3>5, UnzigzagIs
    <3> QED BY <1>8, <3>6
  <2>15. Has(x.part, x.fld) /\ x.fld \notin Structs(x.part)
    <3>1. ~ IsStruct(DField) /\ DField.kind # "scalar" /\ f.kind # "scalar"
      BY <1>1, <2>4 DEF IsArray, IsStruct, IsRow
    <3>2. Fits(f, DField) BY <1>4, <2>5, <2>14, <3>1, FitsIs
    <3>3. Fits(FieldOf(x.part, x.fld), DecFields[x.part[1]][x.fld]) BY <1>4, <3>2, Zenon DEF f
    <3> QED BY <1>4, <2>5, <3>3 DEF Has
  <2>16. StoredArray(n) BY <2>3, <2>7, <2>13
  <2> DEFINE k == Pos + 3
  <2> DEFINE block == IF InPlace(DField) THEN 0 ELSE 1
  <2> DEFINE short == k + n > count
  <2>17. \/ Fail(count, block)
         \/ Fail(k, 0)
         \/ \E junk \in Garbage :
              Done(Fill(DField, ArrayElements(k, n, junk)), 1, IF short THEN count ELSE k + n,
                   block, IF DField.kind = "array" THEN 1 ELSE 0)
    BY <2>16 DEF StoredArray
  <2>18. CASE Fail(count, block) BY <1>2, <2>18, FailReads
  <2>19. CASE Fail(k, 0) BY <1>2, <2>19, FailReads
  <2>20. ASSUME NEW junk \in Garbage,
                Done(Fill(DField, ArrayElements(k, n, junk)), 1, IF short THEN count ELSE k + n,
                     block, IF DField.kind = "array" THEN 1 ELSE 0)
         PROVE  ReadInv'
    <3> DEFINE r == Fill(DField, ArrayElements(k, n, junk))
    <3> DEFINE q == IF short THEN count ELSE k + n
    <3> DEFINE h == IF DField.kind = "array" THEN 1 ELSE 0
    <3>1. Done(r, 1, q, block, h) /\ h \in Nat BY <2>20
    <3>2. k \in Nat /\ n \in Nat /\ k = Pos + Len(w) BY <1>5, <2>7, <2>9, <2>13 DEF Byte
    <3>3. q < count => k + n <= count /\ q = k + n BY <1>5, <3>2
    <3>4. ASSUME q < count
          PROVE  Passed(x.part, x.fld, r) /\ Ahead(q, e, rest, Todo(pl, Onward(x)))
      <4>0. k + n <= count /\ q = k + n /\ n = Len(u) BY <2>7, <2>13, <3>3, <3>4
      <4>1. Ahead(k + n, e, rest, t) /\ SubSeq(stream, k + 1, k + n) = u
        BY <2>12, <3>2, <4>0
      <4> HIDE DEF k, q, h, block
      <4>2. DField.typeid \in Numbers BY <1>1, <1>4 DEF DeclaredField, IsArray
      <4>3. SubSeq(stream, k + 1, k + Len(v)) = Elements(DField.typeid, v)
        BY <2>13, <2>14, <4>1 DEF u
      <4>4. ArrayElements(k, n, junk) = v
        <5>1. k + Len(v) <= count BY <2>13, <4>0
        <5> QED BY <2>7, <2>13, <3>2, <4>2, <4>3, <5>1, ElementsRead
      <4>5. KeepsBlocks => r = Fitted(DField, v) BY <1>1, <1>4, <1>k, <4>4, FilledIs
      <4> HIDE DEF r
      <4>6. Passed(x.part, x.fld, r) BY <1>4, <2>15, <4>5, PassedElement DEF v
      <4> QED BY <4>0, <4>1, <4>6 DEF t
    <3> HIDE DEF r, q, h, block
    <3> QED BY <1>2, <1>4, <3>1, <3>4, DoneReads
  <2> QED BY <2>17, <2>18, <2>19, <2>20
<1> QED BY <1>6, <1>7, <1>8

\* With a mark, a number where an array is read is what the assumption excludes; without
\* one, nothing is left to read.
LEMMA ScalarForArrayReads ==
  ASSUME Readable(EncFields, DecFields), DecInv, ReadInv, FieldScalarForArray,
         UNCHANGED <<stream, encVars>>
  PROVE  ReadInv'
<1>1. FieldPresent /\ IsArray(DField) BY DEF FieldScalarForArray, ElementStarts
<1>2. InDecField /\ current < count /\ dec = "open" /\ dstack # <<>>
  BY <1>1 DEF FieldPresent, FieldMacro, InDecField
<1>3. PICK pl \in Seq(PlaceSet), x \in PlaceSet, m \in Messages, e \in Nat, rest \in Seq(Byte) :
        Syncs(dstack, current, pl, x, m, e, rest)
  BY <1>2 DEF ReadInv, InSync
<1> DEFINE f == FieldOf(x.part, x.fld)
<1>4. /\ f \in Fields /\ DeclaredField(f) /\ DField \in Fields /\ DeclaredField(DField)
      /\ ~ (f.kind = "scalar" /\ IsArray(DField) /\ f.typeid = DField.typeid)
      /\ Mark => PeekedType = {MarkOf(f)}
      /\ Comes(m, e, rest) /\ StackSees(dstack, Append(pl, x), PartOf(m))
  BY <1>1, <1>3, AtElement
<1>5. ~ Mark
  <2> SUFFICES ASSUME Mark PROVE FALSE
      OBVIOUS
  <2>1. MarkOf(f) = DField.typeid BY <1>4 DEF FieldScalarForArray, ElementStarts
  <2> HIDE DEF f
  <2>2. f.kind = "scalar" /\ f.typeid = DField.typeid BY <1>1, <1>4, <2>1, MarkedLike
  <2> QED BY <1>1, <1>4, <2>2
<1>6. Pos = count BY <1>1, <1>5, PresentIs
<1>7. CASE DField.typeid = GLME_UINT
  <2>1. Fail(Pos, 0) BY <1>5, <1>7 DEF FieldScalarForArray
  <2> QED BY <1>2, <2>1, FailReads
<1>8. CASE DField.typeid # GLME_UINT
  <2>1. \E v : Done(v, 1, Pos, 0, 0) BY <1>5, <1>8 DEF FieldScalarForArray
  <2>2. PICK v : Done(v, 1, Pos, 0, 0) BY <2>1
  <2>3. count \in Nat BY DecTypes
  <2> DEFINE q == Pos
  <2>4. Done(v, 1, q, 0, 0) /\ ~ (q < count) BY <1>6, <2>2, <2>3
  <2> HIDE DEF q
  <2> QED BY <1>2, <1>4, <2>4, DoneReads
<1> QED BY <1>7, <1>8

\* The field of the top function is one its decoder function lists.
LEMMA FieldListed ==
  ASSUME DecInv, InDecField
  PROVE  \E t \in DOMAIN DecFields : \E i \in DOMAIN DecFields[t] : DField = DecFields[t][i]
<1>1. dstack # <<>> /\ DTop = Last(dstack) /\ DTop.fld <= Len(DFields)
  BY DEF InDecField, DTop
<1>2. PICK V : DecStackOver(dstack, V) BY DEF DecInv, DecStackOK
<1>3. DTop \in DecFrames(V) /\ DecFrameOK(DTop) BY <1>1, <1>2, DecTop
<1> DEFINE t == DTop.typeid
<1> DEFINE i == DTop.fld
<1>4. t \in DOMAIN DecFields BY <1>3 DEF DecFrames
<1>5. i \in 1..(Len(DecFields[t]) + 1) BY <1>3 DEF DecFrameOK
<1>6. i <= Len(DecFields[t]) BY <1>1 DEF DFields
<1>7. DField = DecFields[t][i] BY DEF DField, DFields
<1> HIDE DEF t, i
<1>8. DecFields[t] \in Seq(Fields) BY <1>4, StreamAssumption
<1>9. i \in DOMAIN DecFields[t]
  <2>1. DOMAIN DecFields[t] = 1..Len(DecFields[t]) /\ Len(DecFields[t]) \in Nat
    BY <1>8, LenProperties
  <2> QED BY <1>5, <1>6, <2>1
<1> QED BY <1>4, <1>7, <1>9

\* No decoder function has a string or an array block.
LEMMA KindRead ==
  ASSUME Readable(EncFields, DecFields), DecInv, InDecField
  PROVE  DField.kind \notin {"string", "block"}
<1>1. PICK t \in DOMAIN DecFields : \E i \in DOMAIN DecFields[t] : DField = DecFields[t][i]
  BY FieldListed
<1> QED BY <1>1 DEF Readable, InStep

(***************************************************************************)
(* Structures in structures.                                               *)
(***************************************************************************)

\* A decoder function that has just been called is in the first place of its part.
LEMMA CallSees ==
  ASSUME NEW s, DecStackOK(s), NEW t \in DOMAIN DecFields, NEW o \in {0, 1},
         NEW pl \in Seq(PlaceSet), NEW y \in PlaceSet, NEW p, StackSees(s, pl, p),
         y.fld = 1, y.part[1] = t, Joins(pl, y, p)
  PROVE  StackSees(Append(s, DecoderFrame(t, o)), Append(pl, y), p)
<1>0. PICK V : DecStackOver(s, V) BY DEF DecStackOK
<1> DEFINE g == DecoderFrame(t, o)
<1>1. <<>> \in Seq(V) /\ Len(<<>>) = 0 BY EmptySeq
<1>2. g \in DecFrames(V) /\ g.typeid = t /\ g.fld = 1 /\ g.delta = 1 /\ g.out = <<>>
  BY <1>1 DEF DecoderFrame, DecFrames
<1> DEFINE F == DecFrames(V)
<1>3. s \in Seq(F) BY <1>0 DEF DecStackOver
<1> HIDE DEF g
<1>4. Sees(g, y)
  <2>1. y.part \in Parts BY PlaceType
  <2>2. Previous(y.part, 1) = 0 BY <2>1, PreviousIs
  <2>3. 1 = 1 - 0 OBVIOUS
  <2>4. Measures(y.part, 1, 1) BY <2>2, <2>3 DEF Measures
  <2>5. \A i \in 1..(1 - 1) : Passed(y.part, i, g.out[i]) OBVIOUS
  <2> QED BY <1>2, <2>4, <2>5 DEF Sees
<1>5. StackSees(Append(s, g), Append(pl, y), p) BY <1>2, <1>3, <1>4, SeesAppend
<1> QED BY <1>5 DEF g

LEMMA EnterReads ==
  ASSUME DecInv, ReadInv, dec = "open", UNCHANGED <<stream, encVars>>,
         UNCHANGED <<dec, count, got>>, NEW t \in DOMAIN DecFields, NEW o \in {0, 1},
         dstack' = Append(dstack, DecoderFrame(t, o)),
         NEW pos, current' = pos, NEW pl \in Seq(PlaceSet), NEW y \in PlaceSet,
         NEW m \in Messages, NEW e \in Nat, NEW rest \in Seq(Byte),
         pos < count => /\ StackSees(dstack, pl, PartOf(m)) /\ Comes(m, e, rest)
                        /\ y.fld = 1 /\ y.part[1] = t /\ Joins(pl, y, PartOf(m))
                        /\ Ahead(pos, e, rest, Todo(pl, y))
  PROVE  ReadInv'
<1>1. DecStackOK(dstack) BY DEF DecInv
<1> DEFINE s == Append(dstack, DecoderFrame(t, o))
<1>2. s # <<>>
  <2>1. PICK V : DecStackOver(dstack, V) BY <1>1 DEF DecStackOK
  <2> DEFINE F == DecFrames(V) \cup {DecoderFrame(t, o)}
  <2>2. dstack \in Seq(F)
    <3>1. dstack \in Seq(DecFrames(V)) BY <2>1 DEF DecStackOver
    <3> QED BY <3>1
  <2>3. DecoderFrame(t, o) \in F OBVIOUS
  <2> HIDE DEF F
  <2> QED BY <2>2, <2>3, AppendProperties
<1>3. sent' = sent /\ estack' = estack /\ stream' = stream BY DEF encVars
<1>4. (\A k \in 1..Len(got) : Answers(got[k], k))' BY <1>3, AnswersStay
<1>5. ASSUME pos < count PROVE InSync(dstack, current)'
  <2>1. StackSees(s, Append(pl, y), PartOf(m)) BY <1>1, <1>5, CallSees
  <2>2. Ahead(pos, e, rest, Todo(pl, y)) /\ Comes(m, e, rest) BY <1>5
  <2> HIDE DEF s
  <2>3. StackSees(dstack', Append(pl, y), PartOf(m)) BY <2>1 DEF s
  <2>4. Syncs(dstack, current, pl, y, m, e, rest)'
    <3>1. Comes(m, e, rest)' BY <1>3, <2>2 DEF Comes
    <3>2. Ahead(current, e, rest, Todo(pl, y))' BY <1>3, <2>2 DEF Ahead
    <3> QED BY <2>3, <3>1, <3>2 DEF Syncs
  <2> QED BY <2>4 DEF InSync
<1>6. estack' = <<>> BY <1>3 DEF ReadInv
<1>7. dstack' # <<>> BY <1>2
<1> HIDE DEF s
<1> QED BY <1>4, <1>5, <1>6, <1>7 DEF ReadInv

LEMMA StructReads ==
  ASSUME Readable(EncFields, DecFields), DecInv, ReadInv, FieldStruct,
         UNCHANGED <<stream, encVars>>
  PROVE  ReadInv'
<1>1. FieldPresent /\ IsStruct(DField) BY DEF FieldStruct, ElementStarts
<1>2. InDecField /\ current < count /\ dec = "open" /\ dstack # <<>>
  BY <1>1 DEF FieldPresent, FieldMacro, InDecField
<1>3. PICK pl \in Seq(PlaceSet), x \in PlaceSet, m \in Messages, e \in Nat, rest \in Seq(Byte) :
        Syncs(dstack, current, pl, x, m, e, rest)
  BY <1>2 DEF ReadInv, InSync
<1> DEFINE f == FieldOf(x.part, x.fld)
<1> DEFINE block == IF DField.kind = "pointer" THEN 1 ELSE 0
<1>4. /\ x.part \in Parts /\ x.fld \in Present(x.part)
      /\ Ahead(Pos, e, rest, ElementOf(x.part, x.fld) \o Todo(pl, Onward(x)))
      /\ Covers(e, rest)
      /\ f \in Fields /\ DeclaredField(f)
      /\ DField \in Fields /\ DeclaredField(DField)
      /\ x.fld \in Structs(x.part) <=> IsStruct(f)
      /\ DField = DecFields[x.part[1]][x.fld] /\ x.fld \in DOMAIN DecFields[x.part[1]]
      /\ Mark => PeekedType = {MarkOf(f)}
      /\ Comes(m, e, rest) /\ StackSees(dstack, Append(pl, x), PartOf(m))
  BY <1>1, <1>3, AtElement
<1>5. Pos \in Nat /\ count \in Nat /\ (Mark => Pos < count) BY <1>1, PresentIs
<1>6. CASE ~ Mark
  <2>1. Fail(Pos, 0) BY <1>6 DEF FieldStruct
  <2> QED BY <1>2, <2>1, FailReads
<1>7. CASE Mark /\ (Fail(Pos + 1, block) \/ Fail(Pos + 1, 0))
  <2>1. CASE Fail(Pos + 1, block) BY <1>2, <2>1, FailReads
  <2>2. CASE Fail(Pos + 1, 0) BY <1>2, <2>2, FailReads
  <2> QED BY <1>7, <2>1, <2>2
<1>8. CASE /\ Mark
           /\ dstack' = Append(dstack, DecoderFrame(DField.typeid, block))
           /\ current' = Pos + 1 /\ UNCHANGED <<dec, count, got>>
  <2>1. MarkOf(f) = DField.typeid BY <1>1, <1>4, <1>8 DEF FieldStruct, ElementStarts
  <2> HIDE DEF f
  <2>2. IsStruct(f) /\ f.typeid = DField.typeid BY <1>1, <1>4, <2>1, MarkedLike
  <2>3. x.fld \in Structs(x.part) BY <1>4, <2>2
  <2>4. Fits(f, DField)
    <3>1. f.kind # "scalar" /\ DField.kind # "scalar" BY <1>1, <2>2 DEF IsStruct
    <3> QED BY <1>1, <1>4, <2>2, <3>1, FitsIs
  <2>5. Has(x.part, x.fld)
    <3>1. Fits(FieldOf(x.part, x.fld), DecFields[x.part[1]][x.fld])
      BY <1>4, <2>4, Zenon DEF f
    <3> QED BY <1>4, <3>1 DEF Has
  <2> DEFINE q == Inner(x.part, x.fld)
  <2> DEFINE y == Place(q, 1)
  <2> DEFINE b == TypeMark(FieldOf(x.part, x.fld).typeid)
  <2> DEFINE t == Todo(Append(pl, x), y)
  <2>6. y \in PlaceSet /\ b \in Byte
        /\ ElementOf(x.part, x.fld) \o Todo(pl, Onward(x)) = <<b>> \o t
    BY <2>3, TodoStruct
  <2>7. y.part = q /\ y.fld = 1 /\ q[1] = DField.typeid
    <3>1. q[1] = f.typeid BY DEF Inner, f
    <3> QED BY <2>2, <3>1 DEF Place
  <2>8. Append(pl, x) \in Seq(PlaceSet) /\ Append(pl, x) # <<>> /\ Last(Append(pl, x)) = x
    <3>1. Append(pl, x) \in Seq(PlaceSet) /\ Append(pl, x) # <<>> BY AppendProperties
    <3>2. Last(Append(pl, x)) = x BY AppendFrontLast
    <3> QED BY <3>1, <3>2
  <2> HIDE DEF y, b
  <2>9. t \in Seq(Byte) BY <2>6, <2>8, TodoType
  <2>10. Joins(Append(pl, x), y, PartOf(m))
    <3>1. Enters(x, y.part) BY <2>3, <2>5, <2>7 DEF Enters
    <3> QED BY <2>8, <3>1, Zenon DEF Joins
  <2> DEFINE w == <<b>>
  <2>11. w \in Seq(Byte) /\ Len(w) = 1 BY <2>6
  <2> HIDE DEF t
  <2>12. Ahead(Pos, e, rest, w \o t) BY <1>4, <2>6, Zenon
  <2> HIDE DEF w
  <2>13. Pos + Len(w) <= count /\ Pos + Len(w) = Pos + 1 BY <1>5, <1>8, <2>11
  <2>14. Ahead(Pos + 1, e, rest, t)
    <3>1. Ahead(Pos + Len(w), e, rest, t) BY <1>4, <1>5, <2>9, <2>11, <2>12, <2>13, Skip
    <3> QED BY <2>13, <3>1
  <2> DEFINE pos == Pos + 1
  <2> DEFINE ps == Append(pl, x)
  <2> DEFINE k == DField.typeid
  <2>15. k \in DOMAIN DecFields BY <1>1, <1>2, DecFieldIs
  <2>16. block \in {0, 1} OBVIOUS
  <2>17. /\ StackSees(dstack, ps, PartOf(m)) /\ y.fld = 1 /\ y.part[1] = k
         /\ Joins(ps, y, PartOf(m)) /\ Ahead(pos, e, rest, Todo(ps, y)) /\ ps \in Seq(PlaceSet)
    BY <1>4, <2>7, <2>8, <2>10, <2>14 DEF t
  <2>18. dstack' = Append(dstack, DecoderFrame(k, block)) /\ current' = pos BY <1>8
  <2> HIDE DEF pos, ps, k, block
  <2> QED BY <1>2, <1>4, <1>8, <2>6, <2>15, <2>16, <2>17, <2>18, EnterReads
<1> QED BY <1>6, <1>7, <1>8 DEF FieldStruct

(***************************************************************************)
(* The end of a structure.                                                 *)
(***************************************************************************)

LEMMA LosslessAt ==
  ASSUME NEW p \in Parts, \A i \in Present(p) : Has(p, i) /\ (i \in Structs(p) => Lossless[Inner(p, i)])
  PROVE  Lossless[p]
<1>1. Lossless[p] = LosslessOf(Lossless, p) BY LosslessIs
<1>2. LosslessOf(Lossless, p) BY DEF LosslessOf, Has
<1> QED BY <1>1, <1>2

LEMMA SeenAt ==
  ASSUME NEW p \in Parts
  PROVE  Seen[p] = [i \in 1..Len(DecFields[p[1]]) |-> FieldSeen(p, i)]
<1>1. Seen[p] = SeenOf(Seen, p) BY SeenIs
<1> QED BY <1>1 DEF SeenOf, FieldSeen

\* The place of the function on top.
LEMMA TopPlace ==
  ASSUME DecInv, dstack # <<>>, NEW pl \in Seq(PlaceSet), NEW x \in PlaceSet, NEW p,
         StackSees(dstack, Append(pl, x), p)
  PROVE  Sees(DTop, x) /\ Joins(pl, x, p) /\ StackSees(Front(dstack), pl, p)
<1>1. DTop = Last(dstack) BY DEF DTop
<1>2. PICK V : DecStackOver(dstack, V) BY DEF DecInv, DecStackOK
<1>3. DTop \in DecFrames(V) BY <1>1, <1>2, DecTop
<1> DEFINE F == DecFrames(V)
<1>4. dstack \in Seq(F) BY <1>2 DEF DecStackOver
<1>5. Front(dstack) \in Seq(F) /\ dstack = Append(Front(dstack), Last(dstack))
  <2> HIDE DEF F
  <2> QED BY <1>4, FrontLast
<1>6. StackSees(Append(Front(dstack), DTop), Append(pl, x), p) BY <1>1, <1>5, Zenon
<1> QED BY <1>3, <1>5, <1>6, SeesAppend

\* A function that has passed all fields of a part has what the decoder makes of it.
LEMMA PartPassed ==
  ASSUME DecInv, dstack # <<>>, DTop.fld > Len(DFields), NEW x \in PlaceSet, Sees(DTop, x),
         \A j \in Present(x.part) : j < x.fld
  PROVE  Lossless[x.part] /\ (KeepsBlocks => DTop.out = Seen[x.part])
<1> DEFINE p == x.part
<1> DEFINE n == Len(DecFields[p[1]])
<1>1. DTop = Last(dstack) BY DEF DTop
<1>2. PICK V : DecStackOver(dstack, V) BY DEF DecInv, DecStackOK
<1>3. DTop \in DecFrames(V) /\ DecFrameOK(DTop) BY <1>1, <1>2, DecTop
<1>4. DTop.typeid = p[1] /\ DTop.fld = x.fld /\ \A i \in 1..(x.fld - 1) : Passed(p, i, DTop.out[i])
  BY DEF Sees
<1>5. p \in Parts /\ x.fld \in Nat \ {0} BY PlaceType
<1>6. x.fld > n BY <1>4 DEF DFields
<1>7. x.fld \in 1..(n + 1) /\ Len(DTop.out) = x.fld - 1 BY <1>3, <1>4 DEF DecFrameOK
<1>8. n \in Nat
  <2>1. p[1] \in DOMAIN DecFields BY <1>3, <1>4 DEF DecFrames
  <2> DEFINE t == p[1]
  <2>2. t \in DOMAIN DecFields BY <2>1
  <2> HIDE DEF t
  <2>3. Len(DecFields[t]) \in Nat BY <2>2, DecFieldType
  <2> QED BY <2>3 DEF t
<1>9. DTop.out \in Seq(V) BY <1>3 DEF DecFrames
<1>10. Present(p) \subseteq Nat \ {0} BY <1>5, PresentIn, PartIs
<1> HIDE DEF p, n
<1>11. x.fld = n + 1 BY <1>5, <1>6, <1>7, <1>8
<1>12. ASSUME NEW i \in Present(p) PROVE Has(p, i) /\ (i \in Structs(p) => Lossless[Inner(p, i)])
  <2>1. i < x.fld /\ i \in Nat \ {0} BY <1>10 DEF p
  <2>2. i \in 1..(x.fld - 1) BY <1>5, <2>1
  <2>3. Passed(p, i, DTop.out[i]) BY <1>4, <2>2
  <2> QED BY <2>3 DEF Passed
<1>13. Lossless[p] BY <1>5, <1>12, LosslessAt DEF p
<1>14. ASSUME KeepsBlocks PROVE DTop.out = Seen[p]
  <2>1. Seen[p] = [i \in 1..n |-> FieldSeen(p, i)] BY <1>5, SeenAt DEF p, n
  <2>2. x.fld - 1 = n BY <1>8, <1>11
  <2>3. Len(DTop.out) = n /\ DTop.out = [i \in 1..Len(DTop.out) |-> DTop.out[i]]
    BY <1>7, <1>9, <2>2, LenProperties
  <2>4. \A i \in 1..n : DTop.out[i] = FieldSeen(p, i) BY <1>4, <1>14, <2>2 DEF Passed
  <2> DEFINE o == DTop.out
  <2>5. o = [i \in 1..n |-> o[i]] /\ \A i \in 1..n : o[i] = FieldSeen(p, i) BY <2>3, <2>4
  <2> HIDE DEF o
  <2>6. o = [i \in 1..n |-> FieldSeen(p, i)] BY <2>5
  <2> QED BY <2>1, <2>6 DEF o
<1> QED BY <1>13, <1>14 DEF p

\* The end mark is the one of this structure, and what is due behind it comes next.
LEMMA EndArrived ==
  ASSUME DecInv, EndMark, NEW pl \in Seq(PlaceSet), NEW x \in PlaceSet, NEW e \in Nat,
         NEW rest \in Seq(Byte), Ahead(current, e, rest, Todo(pl, x)), Covers(e, rest)
  PROVE  /\ \A j \in Present(x.part) : j < x.fld
         /\ Ahead(current + 1, e, rest, Behind(pl))
<1>1. current < count /\ Offset = 0 BY DEF EndMark, Offset
<1>2. Todo(pl, x)[1] = 0
  <2>1. Offset = Todo(pl, x)[1] BY <1>1, OffsetIs
  <2> QED BY <1>1, <2>1
<1>3. x.part \in Parts /\ x.fld \in Nat \ {0} BY PlaceType
<1>4. Previous(x.part, x.fld) \in 0..(x.fld - 1) BY <1>3, PreviousIs
<1>5. Todo(pl, x) = <<0>> \o Behind(pl) /\ \A j \in Present(x.part) : j < x.fld
  <2>1. ASSUME NEW j \in Present(x.part), j \in Nat, j >= x.fld,
               Todo(pl, x)[1] = j - Previous(x.part, x.fld)
        PROVE  FALSE
    <3> DEFINE a == x.fld
    <3> DEFINE b == Previous(x.part, x.fld)
    <3>1. a \in Nat \ {0} /\ b \in 0..(a - 1) /\ j \in Nat /\ j >= a /\ 0 = j - b
      BY <1>2, <1>3, <1>4, <2>1
    <3> HIDE DEF a, b
    <3> QED BY <3>1
  <2> QED BY <2>1, FirstDue
<1> DEFINE w == <<0>>
<1> DEFINE t == Behind(pl)
<1>6. w \in Seq(Byte) /\ Len(w) = 1 BY EndMarkIs
<1>7. t \in Seq(Byte) BY BehindParts
<1>8. Ahead(current, e, rest, w \o t) BY <1>5, Zenon
<1>9. current \in Nat /\ count \in Nat BY DecTypes
<1> HIDE DEF w, t
<1>10. current + Len(w) <= count /\ current + Len(w) = current + 1 BY <1>1, <1>6, <1>9
<1>11. Ahead(current + Len(w), e, rest, t) BY <1>6, <1>7, <1>8, <1>9, <1>10, Skip
<1> QED BY <1>5, <1>10, <1>11 DEF t

\* The structure of a field has been decoded, and the function below goes on.
LEMMA NestedReads ==
  ASSUME DecInv, ReadInv, dec = "open", dstack # <<>>, Len(dstack) # 1, DTop.fld > Len(DFields),
         EndMark, UNCHANGED <<stream, encVars>>, UNCHANGED <<dec, count, got>>,
         current' = current + 1, dstack' = DNext(Front(dstack), DTop.out, 1, DTop.owned + DTop.holds)
  PROVE  ReadInv'
<1>1. current < count BY DEF EndMark
<1>2. PICK pl \in Seq(PlaceSet), x \in PlaceSet, m \in Messages, e \in Nat, rest \in Seq(Byte) :
        Syncs(dstack, current, pl, x, m, e, rest)
  BY <1>1 DEF ReadInv, InSync
<1>3. StackSees(dstack, Append(pl, x), PartOf(m)) /\ Comes(m, e, rest) /\ Covers(e, rest)
      /\ Ahead(current, e, rest, Todo(pl, x))
  BY <1>2, ComesCovers DEF Syncs
<1>4. (\A j \in Present(x.part) : j < x.fld) /\ Ahead(current + 1, e, rest, Behind(pl))
  BY <1>3, EndArrived
<1> DEFINE p == PartOf(m)
<1> DEFINE s == Front(dstack)
<1> DEFINE h == DTop.owned + DTop.holds
<1>5. Sees(DTop, x) /\ Joins(pl, x, p) /\ StackSees(s, pl, p) BY <1>3, TopPlace
<1>6. Lossless[x.part] /\ (KeepsBlocks => DTop.out = Seen[x.part]) BY <1>4, <1>5, PartPassed
<1>7. DecStackOK(s) /\ s # <<>> /\ InFieldD(Last(s)) /\ h \in Nat
  <2>1. DecStackOK(dstack) BY DEF DecInv
  <2>2. DecStackOK(s) /\ s # <<>> /\ InFieldD(Last(s)) BY <2>1, DecPopOK
  <2>3. DTop = Last(dstack) BY DEF DTop
  <2>4. DTop.owned \in {0, 1} /\ DTop.holds \in Nat BY <2>1, <2>3, DecPopOK
  <2> QED BY <2>2, <2>4
<1>8. pl # <<>>
  <2>1. PICK V : DecStackOver(s, V) BY <1>7 DEF DecStackOK
  <2>2. Len(s) \in Nat \ {0} BY <1>7, <2>1, DecTop
  <2>3. Len(pl) # 0 BY <1>5, <2>2 DEF StackSees
  <2> QED BY <2>3, EmptySeq
<1> DEFINE below == Front(pl)
<1> DEFINE y == Last(pl)
<1>9. below \in Seq(PlaceSet) /\ y \in PlaceSet /\ pl = Append(below, y) BY <1>8, FrontLast
<1>10. y.fld \in Structs(y.part) /\ Has(y.part, y.fld) /\ x.part = Inner(y.part, y.fld)
  BY <1>5, <1>8 DEF Joins, Enters
<1> HIDE DEF below, y, p, s, h
<1>11. y.part \in Parts /\ y.fld \in Nat \ {0} /\ y.fld \in Present(y.part)
  <2>1. y.part \in Parts /\ y.fld \in Nat \ {0} BY <1>9, PlaceType
  <2> QED BY <1>10, <2>1, PresentIn
<1>12. Passed(y.part, y.fld, DTop.out) BY <1>6, <1>10, <1>11 DEF Passed, FieldSeen
<1>13. Measures(y.part, y.fld + 1, 1)
  <2>1. Previous(y.part, y.fld + 1) = y.fld BY <1>11, PreviousIs
  <2>2. 1 = (y.fld + 1) - Previous(y.part, y.fld + 1) BY <1>11, <2>1
  <2> QED BY <2>2 DEF Measures
<1> DEFINE v == DTop.out
<1> DEFINE z == Onward(y)
<1>14. StackSees(DNext(s, v, 1, h), Append(below, z), p)
  <2>1. /\ DecStackOK(s) /\ s # <<>> /\ InFieldD(Last(s)) /\ 1 \in Nat /\ h \in Nat
        /\ below \in Seq(PlaceSet) /\ y \in PlaceSet /\ StackSees(s, Append(below, y), p)
        /\ Passed(y.part, y.fld, v) /\ Measures(y.part, y.fld + 1, 1)
    BY <1>5, <1>7, <1>9, <1>12, <1>13
  <2> HIDE DEF v
  <2> QED BY <2>1, GoesOn
<1>15. z \in PlaceSet BY <1>9, PlaceType
<1>16. Ahead(current + 1, e, rest, Todo(below, z)) BY <1>4, <1>9, BehindIs
<1>17. sent' = sent /\ estack' = estack /\ stream' = stream BY DEF encVars
<1>18. (\A k \in 1..Len(got) : Answers(got[k], k))' BY <1>17, AnswersStay
<1>19. dstack' = DNext(s, v, 1, h) BY DEF s, h
<1>20. dstack' # <<>> BY <1>7, <1>19, DecNextOK
<1> HIDE DEF v, z
<1>21. InSync(dstack, current)'
  <2>1. StackSees(dstack', Append(below, z), PartOf(m)) BY <1>14, <1>19 DEF p
  <2>2. Syncs(dstack, current, below, z, m, e, rest)'
    <3>1. Comes(m, e, rest)' BY <1>3, <1>17 DEF Comes
    <3>2. Ahead(current, e, rest, Todo(below, z))' BY <1>16, <1>17 DEF Ahead
    <3> QED BY <2>1, <3>1, <3>2 DEF Syncs
  <2> QED BY <1>9, <1>15, <2>2 DEF InSync
<1>22. estack' = <<>> BY <1>17 DEF ReadInv
<1> QED BY <1>18, <1>20, <1>21, <1>22 DEF ReadInv

\* The structure of a message has been decoded: the next answer.
LEMMA WholeReads ==
  ASSUME CodecInv, ReadInv, dec = "open", dstack # <<>>, Len(dstack) = 1, DTop.fld > Len(DFields),
         EndMark, UNCHANGED <<stream, encVars>>, UNCHANGED <<dec, count>>,
         current' = current + 1, dstack' = <<>>,
         got' = Append(got, [typeid |-> DTop.typeid, value |-> DTop.out, pos |-> current + 1])
  PROVE  ReadInv'
<1>0. DecInv /\ current < count BY DEF CodecInv, EndMark
<1>1. PICK pl \in Seq(PlaceSet), x \in PlaceSet, m \in Messages, e \in Nat, rest \in Seq(Byte) :
        Syncs(dstack, current, pl, x, m, e, rest)
  BY <1>0 DEF ReadInv, InSync
<1>2. StackSees(dstack, Append(pl, x), PartOf(m)) /\ Comes(m, e, rest) /\ Covers(e, rest)
      /\ Ahead(current, e, rest, Todo(pl, x))
  BY <1>1, ComesCovers DEF Syncs
<1>3. (\A j \in Present(x.part) : j < x.fld) /\ Ahead(current + 1, e, rest, Behind(pl))
  BY <1>0, <1>2, EndArrived
<1>4. Sees(DTop, x) /\ Joins(pl, x, PartOf(m)) /\ StackSees(Front(dstack), pl, PartOf(m))
  BY <1>0, <1>2, TopPlace
<1>5. Lossless[x.part] /\ (KeepsBlocks => DTop.out = Seen[x.part])
  BY <1>0, <1>3, <1>4, PartPassed
<1>6. pl = <<>>
  <2>1. DecStackOK(dstack) BY <1>0 DEF DecInv
  <2>2. Front(dstack) = <<>> BY <2>1, DecPopOK
  <2>3. Len(pl) = 0 BY <1>4, <2>2 DEF StackSees
  <2> QED BY <2>3, EmptySeq
<1>7. x.part = PartOf(m) BY <1>4, <1>6 DEF Joins
<1>8. DTop.typeid = m.typeid BY <1>4, <1>7 DEF Sees, PartOf
<1>9. current + 1 \in Nat /\ current + 1 <= count /\ current + 1 <= e /\ e <= Len(stream)
  BY <1>0, <1>3, DecTypes, SMTT(30) DEF Ahead
<1>10. e = current + 1 /\ rest = <<>>
  <2> DEFINE k == current + 1
  <2> DEFINE w == SubSeq(stream, k + 1, e)
  <2>1. w \o rest = <<>> BY <1>3, <1>6, BehindEmpty DEF Ahead
  <2>2. k \in Nat /\ k <= e /\ e <= Len(stream) BY <1>9
  <2> HIDE DEF k
  <2>3. w \in Seq(Byte) /\ Len(w) = e - k BY <1>0, <2>2, Between
  <2> HIDE DEF w
  <2>4. w = <<>> /\ rest = <<>> BY <2>1, <2>3, ConcatEqualIffEmpty
  <2>5. e - k = 0 BY <2>3, <2>4
  <2> QED BY <2>2, <2>4, <2>5 DEF k
<1> DEFINE n == Len(got) + 1
<1> DEFINE r == [typeid |-> DTop.typeid, value |-> DTop.out, pos |-> current + 1]
<1>11. Len(got) < Len(sent) /\ m = sent[n].msg /\ e = sent[n].end BY <1>2, <1>10 DEF Comes
<1>12. PICK G : got \in Seq(G) BY DEF CodecInv, CallInv
<1> DEFINE H == G \cup {r}
<1>13. got \in Seq(H) /\ r \in H BY <1>12
<1> HIDE DEF H
<1>14. /\ Len(got) \in Nat /\ Len(got') = n /\ got'[n] = r /\ got' # <<>>
       /\ \A i \in 1..Len(got) : got'[i] = got[i]
  BY <1>13, AppendProperties, LenProperties
<1>15. sent' = sent /\ estack' = estack /\ Len(sent) \in Nat
  <2>1. sent \in Seq(SentRecords) BY DEF CodecInv, EncInv
  <2> QED BY <2>1, LenProperties DEF encVars
<1>16. r.typeid = DTop.typeid /\ r.value = DTop.out /\ r.pos = current + 1 OBVIOUS
<1> HIDE DEF r
<1>17. Answers(r, n)
  <2>1. n \in 1..Len(sent) BY <1>11, <1>14, <1>15
  <2> HIDE DEF n
  <2> QED BY <1>5, <1>7, <1>8, <1>9, <1>10, <1>11, <1>16, <2>1 DEF Answers
<1>18. (\A k \in 1..Len(got) : Answers(got[k], k))'
  <2> SUFFICES ASSUME NEW k \in (1..Len(got))' PROVE Answers(got[k], k)'
      OBVIOUS
  <2>1. \E s : s = got'[k] /\ Answers(s, k)
    <3>1. k \in 1..n BY <1>14
    <3>2. CASE k = n
      <4>1. got'[k] = r BY <1>14, <3>2
      <4> QED BY <1>17, <3>2, <4>1
    <3>3. CASE k # n
      <4>1. k \in 1..Len(got)
        <5> DEFINE a == Len(got)
        <5>1. a \in Nat /\ k \in 1..(a + 1) /\ k # a + 1 BY <1>14, <3>1, <3>3
        <5> HIDE DEF a
        <5>2. k \in 1..a BY <5>1
        <5> QED BY <5>2 DEF a
      <4>2. Answers(got[k], k) BY <4>1 DEF ReadInv
      <4>3. got'[k] = got[k] BY <1>14, <4>1
      <4> QED BY <4>2, <4>3
    <3> QED BY <3>2, <3>3
  <2>2. PICK s : s = got'[k] /\ Answers(s, k) BY <2>1
  <2> QED BY <1>15, <2>2 DEF Answers
<1>19. EndOfAnswers' = current'
  <2>1. got'[Len(got')].pos = current + 1 BY <1>14, <1>16
  <2> QED BY <1>14, <2>1 DEF EndOfAnswers
<1>20. estack' = <<>> BY <1>15 DEF ReadInv
<1> QED BY <1>18, <1>19, <1>20 DEF ReadInv

LEMMA EndReads ==
  ASSUME CodecInv, ReadInv, DecodeEndStruct, UNCHANGED <<stream, encVars>>
  PROVE  ReadInv'
<1>1. dec = "open" /\ dstack # <<>> /\ DTop.fld > Len(DFields) /\ DecInv
  BY DEF DecodeEndStruct, CodecInv
<1>2. CASE ~ EndMark
  <2>1. Fail(current, 0) BY <1>2 DEF DecodeEndStruct
  <2> QED BY <1>1, <2>1, FailReads
<1>3. CASE EndMark
  <2>1. ReturnTo(current + 1) BY <1>3 DEF DecodeEndStruct
  <2>2. CASE Len(dstack) = 1 BY <1>1, <1>3, <2>1, <2>2, WholeReads DEF ReturnTo
  <2>3. CASE Len(dstack) # 1 BY <1>1, <1>3, <2>1, <2>3, NestedReads DEF ReturnTo
  <2> QED BY <2>2, <2>3
<1> QED BY <1>2, <1>3

(***************************************************************************)
(* The calls.                                                              *)
(***************************************************************************)

\* As many answers as messages at most, and the next one is asked for at its start.
LEMMA AnswersEnd ==
  ASSUME CodecInv, ReadInv, dec = "open", dstack = <<>>
  PROVE  /\ Len(got) \in Nat /\ Len(sent) \in Nat /\ Len(got) <= Len(sent)
         /\ current = (IF got = <<>> THEN 0 ELSE sent[Len(got)].end)
         /\ got # <<>> <=> Len(got) # 0
<1>1. PICK G : got \in Seq(G) BY DEF CodecInv, CallInv
<1>2. sent \in Seq(SentRecords) BY DEF CodecInv, EncInv
<1>3. Len(got) \in Nat /\ Len(sent) \in Nat BY <1>1, <1>2, LenProperties
<1>4. got # <<>> <=> Len(got) # 0 BY <1>1, EmptySeq
<1>5. current = EndOfAnswers BY DEF ReadInv
<1>6. CASE got = <<>> BY <1>3, <1>4, <1>5, <1>6 DEF EndOfAnswers
<1>7. CASE got # <<>>
  <2> DEFINE n == Len(got)
  <2>1. n \in 1..Len(got) BY <1>3, <1>4, <1>7
  <2>2. Answers(got[n], n) BY <2>1 DEF ReadInv
  <2> HIDE DEF n
  <2>3. n \in 1..Len(sent) /\ got[n].pos = sent[n].end BY <2>2 DEF Answers
  <2>4. n <= Len(sent) BY <1>3, <2>3
  <2>5. current = got[n].pos BY <1>5, <1>7 DEF EndOfAnswers, n
  <2> QED BY <1>3, <1>4, <1>7, <2>3, <2>4, <2>5 DEF n
<1> QED BY <1>6, <1>7

\* What comes next is a message, or the beginning of the one whose encoding failed.
LEMMA NextMessage ==
  ASSUME CodecInv, WireInv, ReadInv, dec = "open", dstack = <<>>, ~ AllRead
  PROVE  \E m \in Messages, e \in Nat, rest \in Seq(Byte) :
           Comes(m, e, rest) /\ Ahead(current, e, rest, Whole(m))
<1> DEFINE n == Len(got) + 1
<1>1. /\ Len(got) \in Nat /\ Len(sent) \in Nat /\ Len(got) <= Len(sent)
      /\ current = (IF got = <<>> THEN 0 ELSE sent[Len(got)].end)
      /\ got # <<>> <=> Len(got) # 0
  BY AnswersEnd
<1>2. estack = <<>> BY DEF ReadInv
<1>3. AllStored(stream, sent) /\ Chained(sent) BY <1>2 DEF WireInv, Finished
<1>4. sent \in Seq(SentRecords) /\ stream \in Seq(Byte) /\ Len(stream) \in Nat
  BY LenProperties DEF CodecInv, EncInv
<1>5. CASE Len(got) < Len(sent)
  <2> DEFINE r == sent[n]
  <2>1. n \in 1..Len(sent) BY <1>1, <1>5
  <2>2. r \in SentRecords BY <1>4, <2>1, ElementOfSeq
  <2>3. r.msg \in Messages /\ r.at \in Nat /\ r.end \in Nat BY <2>2 DEF SentRecords
  <2>4. r.at < r.end /\ r.end <= Len(stream) /\ SubSeq(stream, r.at + 1, r.end) = Whole(r.msg)
    BY <1>3, <2>1 DEF AllStored, Stored
  <2>5. r.at = current
    <3>1. r.at = IF n = 1 THEN 0 ELSE sent[n - 1].end BY <1>3, <2>1 DEF Chained
    <3>2. n - 1 = Len(got) /\ (n = 1 <=> Len(got) = 0) BY <1>1
    <3> HIDE DEF r, n
    <3> QED BY <1>1, <3>1, <3>2
  <2> DEFINE w == Whole(r.msg)
  <2>6. w \in Seq(Byte) BY <2>3, MessageIs
  <2>7. <<>> \in Seq(Byte) /\ w \o <<>> = w BY <2>6, EmptySeq, ConcatEmptySeq
  <2>8. Comes(r.msg, r.end, <<>>) BY <1>5 DEF Comes
  <2> HIDE DEF r
  <2>9. Ahead(current, r.end, <<>>, w)
    <3>1. current <= r.end BY <2>3, <2>4, <2>5
    <3> QED BY <2>4, <2>5, <2>7, <3>1 DEF Ahead
  <2> QED BY <2>3, <2>7, <2>8, <2>9
<1>6. CASE ~ (Len(got) < Len(sent))
  <2>1. Len(got) = Len(sent) BY <1>1, <1>6
  <2>2. enc = "failed" BY <2>1 DEF AllRead, CodecInv, EncInv
  <2>3. CutShort(Begun(stream, sent)) BY <1>2, <2>2 DEF WireInv, Finished
  <2>4. PICK m \in Messages, rest \in Seq(Byte) :
          rest # <<>> /\ Begun(stream, sent) \o rest = Whole(m)
    BY <2>3 DEF CutShort
  <2>5. EndOf(sent) = current
    <3>1. sent = <<>> <=> Len(sent) = 0 BY <1>4, EmptySeq
    <3> QED BY <1>1, <2>1, <3>1 DEF EndOf, Last
  <2>6. EndOf(sent) <= Len(stream)
    <3> DEFINE a == EndOf(sent)
    <3> DEFINE b == Len(stream)
    <3>1. a \in 0..b /\ b \in Nat BY <1>3, <1>4, EndIs
    <3> HIDE DEF a, b
    <3>2. a <= b BY <3>1
    <3> QED BY <3>2 DEF a, b
  <2>7. Ahead(current, Len(stream), rest, Whole(m))
    <3>1. Begun(stream, sent) = SubSeq(stream, current + 1, Len(stream)) BY <2>5 DEF Begun
    <3>2. SubSeq(stream, current + 1, Len(stream)) \o rest = Whole(m) BY <2>4, <3>1, Zenon
    <3>3. current <= Len(stream) BY <2>5, <2>6
    <3>4. Len(stream) <= Len(stream) BY <1>4
    <3> QED BY <3>2, <3>3, <3>4, Zenon DEF Ahead
  <2>8. Comes(m, Len(stream), rest) BY <1>6, <2>4 DEF Comes
  <2> QED BY <1>4, <2>4, <2>7, <2>8
<1> QED BY <1>5, <1>6

\* A type mark that is the one asked for is that of the message.
LEMMA StartAhead ==
  ASSUME DecInv, current < count, NEW m \in Messages, NEW e \in Nat, NEW rest \in Seq(Byte),
         Comes(m, e, rest), Ahead(current, e, rest, Whole(m))
  PROVE  /\ Unzigzag(At(current)) = m.typeid
         /\ Ahead(current + 1, e, rest, Todo(<<>>, Place(PartOf(m), 1)))
<1> DEFINE w == <<TypeMark(m.typeid)>>
<1> DEFINE t == Todo(<<>>, Place(PartOf(m), 1))
<1>1. TypeMark(m.typeid) \in Byte /\ Whole(m) = w \o t /\ Place(PartOf(m), 1) \in PlaceSet
  BY MessageIs
<1>2. <<>> \in Seq(PlaceSet) BY EmptySeq
<1>3. t \in Seq(Byte) BY <1>1, <1>2, TodoType
<1> DEFINE b == TypeMark(m.typeid)
<1>4. m.typeid \in Nat
  <2> DEFINE t1 == m.typeid
  <2>1. t1 \in DOMAIN EncFields BY MessagesAssumption
  <2> HIDE DEF t1
  <2>2. t1 \in 1..63 BY <2>1, StreamAssumption
  <2>3. t1 \in Nat BY <2>2
  <2> QED BY <2>3 DEF t1
<1>5. Unzigzag(b) = m.typeid BY <1>4, UnzigzagIs
<1>6. b \in Byte /\ w = <<b>> BY <1>1
<1> HIDE DEF b
<1>7. w \in Seq(Byte) /\ Len(w) = 1 /\ w[1] = b BY <1>6
<1>8. Ahead(current, e, rest, w \o t) /\ Covers(e, rest) BY <1>1, ComesCovers
<1>9. current \in Nat /\ count \in Nat BY DecTypes
<1> HIDE DEF w, t
<1>10. current + Len(w) <= count /\ current + Len(w) = current + 1 BY <1>7, <1>9
<1>11. Ahead(current + 1, e, rest, t) /\ SubSeq(stream, current + 1, current + 1) = w
  <2>1. Ahead(current + Len(w), e, rest, t)
        /\ SubSeq(stream, current + 1, current + Len(w)) = w
    BY <1>3, <1>7, <1>8, <1>9, <1>10, Skip
  <2> QED BY <1>10, <2>1
<1>12. stream[current + 1] = b
  <2> DEFINE k == current + 1
  <2>1. current <= k /\ k \in Nat /\ k <= Len(stream) /\ k - current = 1
    <3>1. count <= Len(stream) /\ Len(stream) \in Nat BY DecTypes
    <3> QED BY <1>9, <3>1
  <2> HIDE DEF k
  <2>2. \A i \in 1..(k - current) : SubSeq(stream, current + 1, k)[i] = stream[current + i]
    BY <1>9, <2>1, Between
  <2>3. 1 \in 1..(k - current) BY <2>1
  <2>4. SubSeq(stream, current + 1, k)[1] = stream[current + 1] BY <2>2, <2>3, Zenon
  <2> QED BY <1>7, <1>11, <2>4 DEF k
<1>13. At(current) = b BY <1>12 DEF At
<1> QED BY <1>5, <1>11, <1>13 DEF t

LEMMA CallReads ==
  ASSUME CodecInv, WireInv, ReadInv, Call
  PROVE  ReadInv'
<1>1. PICK typeid \in Expected, owned \in {0, 1} : DecodeStruct(typeid, owned) BY DEF Call
<1>2. /\ ~ AllRead /\ UNCHANGED <<stream, encVars>> BY DEF Call
<1>3. DecInv /\ dec = "open" /\ dstack = <<>> BY <1>1 DEF DecodeStruct, CodecInv
<1>4. typeid \in DOMAIN DecFields
  <2>1. Len(got) \in Nat /\ Len(sent) \in Nat /\ Len(got) <= Len(sent) BY <1>3, AnswersEnd
  <2>2. CASE "wrong type" \in Faults \/ Len(got) = Len(sent) BY <1>1, <2>2 DEF Expected
  <2>3. CASE ~ ("wrong type" \in Faults \/ Len(got) = Len(sent))
    <3> DEFINE n == Len(got) + 1
    <3> DEFINE a == Len(got)
    <3> DEFINE b == Len(sent)
    <3>1. typeid = sent[n].msg.typeid BY <1>1, <2>3 DEF Expected
    <3>2. n \in 1..Len(sent)
      <4>1. a \in Nat /\ b \in Nat /\ a <= b /\ a # b BY <2>1, <2>3
      <4> HIDE DEF a, b
      <4>2. a + 1 \in 1..b BY <4>1
      <4> QED BY <4>2 DEF a, b
    <3> HIDE DEF n
    <3>3. sent[n] \in SentRecords BY <3>2, ElementOfSeq DEF CodecInv, EncInv
    <3>4. sent[n].msg \in Messages BY <3>3 DEF SentRecords
    <3> QED BY <3>1, <3>4, MessagesAssumption
  <2> QED BY <2>2, <2>3
<1> DEFINE back == IF current < count THEN current + 1 ELSE current
<1> DEFINE far == current + 1
<1>5. \/ Fail(back, 0) \/ Fail(far, 0)
      \/ /\ current < count /\ Unzigzag(At(current)) = typeid
         /\ dstack' = <<DecoderFrame(typeid, owned)>> /\ current' = far
         /\ UNCHANGED <<dec, count, got>>
  <2>1. current \in Nat /\ count \in Nat BY <1>3, DecTypes
  <2>2. CASE current >= count \/ Unzigzag(At(current)) # typeid
    <3>1. Fail(back, 0) BY <1>1, <2>2 DEF DecodeStruct
    <3> QED BY <3>1
  <2>3. CASE ~ (current >= count \/ Unzigzag(At(current)) # typeid)
    <3>1. current < count /\ Unzigzag(At(current)) = typeid BY <2>1, <2>3
    <3>2. \/ Fail(far, 0)
          \/ /\ dstack' = <<DecoderFrame(typeid, owned)>> /\ current' = far
             /\ UNCHANGED <<dec, count, got>>
      BY <1>1, <2>3 DEF DecodeStruct
    <3> HIDE DEF far, back
    <3> QED BY <3>1, <3>2
  <2> QED BY <2>2, <2>3
<1>6. CASE Fail(back, 0) BY <1>2, <1>3, <1>6, FailReads
<1>7. CASE Fail(far, 0) BY <1>2, <1>3, <1>7, FailReads
<1>8. CASE /\ current < count /\ Unzigzag(At(current)) = typeid
           /\ dstack' = <<DecoderFrame(typeid, owned)>> /\ current' = far
           /\ UNCHANGED <<dec, count, got>>
  <2>1. PICK m \in Messages, e \in Nat, rest \in Seq(Byte) :
          Comes(m, e, rest) /\ Ahead(current, e, rest, Whole(m))
    BY <1>2, <1>3, NextMessage
  <2> DEFINE y == Place(PartOf(m), 1)
  <2>2. m.typeid = typeid /\ Ahead(far, e, rest, Todo(<<>>, y)) BY <1>3, <1>8, <2>1, StartAhead
  <2>3. y \in PlaceSet BY MessageIs
  <2>4. y.fld = 1 /\ y.part = PartOf(m) /\ y.part[1] = typeid
    <3>1. PartOf(m)[1] = m.typeid BY DEF PartOf
    <3> QED BY <2>2, <3>1 DEF Place
  <2>5. Joins(<<>>, y, PartOf(m)) BY <2>4 DEF Joins
  <2>6. <<>> \in Seq(PlaceSet) BY EmptySeq
  <2>7. StackSees(dstack, <<>>, PartOf(m)) BY <1>3, SeesEmpty
  <2>8. dstack' = Append(dstack, DecoderFrame(typeid, owned))
    <3> DEFINE g == DecoderFrame(typeid, owned)
    <3>1. dstack' = <<g>> BY <1>8
    <3> HIDE DEF g
    <3>2. Append(<<>>, g) = <<g>> OBVIOUS
    <3> QED BY <1>3, <3>1, <3>2 DEF g
  <2> HIDE DEF y, far
  <2>9. UNCHANGED <<dec, count, got>> /\ current' = far BY <1>8
  <2> DEFINE none == <<>>
  <2>10. /\ none \in Seq(PlaceSet) /\ StackSees(dstack, none, PartOf(m))
         /\ Joins(none, y, PartOf(m)) /\ Ahead(far, e, rest, Todo(none, y))
    BY <2>2, <2>5, <2>6, <2>7
  <2> HIDE DEF none
  <2> QED BY <1>2, <1>3, <1>4, <2>1, <2>3, <2>4, <2>8, <2>9, <2>10, EnterReads
<1> QED BY <1>5, <1>6, <1>7, <1>8

(***************************************************************************)
(* The invariant.                                                          *)
(***************************************************************************)

LEMMA ReadInit == Init => ReadInv
<1> SUFFICES ASSUME Init PROVE ReadInv OBVIOUS
<1>1. dec = "waiting" /\ got = <<>> BY DEF Init, DecInit
<1>2. Len(<<>>) = 0 BY EmptySeq
<1>3. \A k \in 1..0 : FALSE OBVIOUS
<1> QED BY <1>1, <1>2, <1>3 DEF ReadInv

\* Steps that do not touch the decoder, once it has its bytes.
LEMMA ReadStays ==
  ASSUME ReadInv, UNCHANGED <<stream, estack, sent, dec, count, current, dstack, got>>
  PROVE  ReadInv'
<1>1. (\A k \in 1..Len(got) : Answers(got[k], k))' BY AnswersStay
<1>2. EndOfAnswers' = EndOfAnswers BY DEF EndOfAnswers
<1>3. ASSUME InSync(dstack, current) PROVE InSync(dstack, current)'
  <2>1. PICK pl \in Seq(PlaceSet), x \in PlaceSet, m \in Messages, e \in Nat, rest \in Seq(Byte) :
          Syncs(dstack, current, pl, x, m, e, rest)
    BY <1>3 DEF InSync
  <2>2. Syncs(dstack, current, pl, x, m, e, rest)' BY <2>1 DEF Syncs, Ahead, Comes
  <2> QED BY <2>2 DEF InSync
<1> QED BY <1>1, <1>2, <1>3 DEF ReadInv

LEMMA EncodeReads == ASSUME CodecInv, ReadInv, Encode PROVE ReadInv'
<1>1. dec = "waiting" /\ dec' = dec /\ got' = got BY DEF Encode, decVars
<1>2. got = <<>> /\ Len(<<>>) = 0 BY <1>1, EmptySeq DEF CodecInv, CallInv
<1>3. \A k \in 1..0 : FALSE OBVIOUS
<1> QED BY <1>1, <1>2, <1>3 DEF ReadInv

LEMMA DeliverReads == ASSUME CodecInv, ReadInv, Deliver PROVE ReadInv'
<1>1. /\ dec = "waiting" /\ estack = <<>> /\ current' = 0
      /\ UNCHANGED <<estack, dstack, got>>
  BY DEF Deliver, encVars
<1>2. got = <<>> /\ dstack = <<>> /\ Len(<<>>) = 0
  BY <1>1, EmptySeq DEF CodecInv, CallInv, DecInv
<1>3. \A k \in 1..0 : FALSE OBVIOUS
<1> QED BY <1>1, <1>2, <1>3 DEF ReadInv, EndOfAnswers

LEMMA DecodeReads ==
  ASSUME Readable(EncFields, DecFields), CodecInv, ReadInv, Decode
  PROVE  ReadInv'
<1>1. UNCHANGED <<stream, encVars>> /\ DecNext BY DEF Decode, DecNext
<1>2. DecInv BY DEF CodecInv
<1>3. CASE FieldUnderflow BY <1>1, <1>2, <1>3, UnderflowReads
<1>4. CASE FieldAfterEnd BY <1>1, <1>2, <1>4, AfterEndReads
<1>5. CASE FieldNotYet BY <1>1, <1>2, <1>5, NotYetReads
<1>6. CASE FieldTypeError BY <1>1, <1>2, <1>6, TypeErrorReads
<1>7. CASE FieldScalar BY <1>1, <1>2, <1>7, ScalarReads
<1>8. CASE FieldVector BY <1>1, <1>2, <1>8, VectorReads
<1>9. CASE FieldString
  <2>1. InDecField /\ DField.kind = "string"
    BY <1>9 DEF FieldString, ElementStarts, FieldPresent, FieldMacro
  <2> QED BY <1>2, <2>1, KindRead
<1>10. CASE FieldArray BY <1>1, <1>2, <1>10, ArrayReads
<1>11. CASE FieldScalarForArray BY <1>1, <1>2, <1>11, ScalarForArrayReads
<1>12. CASE FieldStruct BY <1>1, <1>2, <1>12, StructReads
<1>13. CASE BlockSkipped \/ BlockDecoded
  <2>1. InDecField /\ DField.kind = "block" BY <1>13 DEF BlockSkipped, BlockDecoded, BlockMacro
  <2> QED BY <1>2, <2>1, KindRead
<1>14. CASE DecodeEndStruct BY <1>1, <1>14, EndReads
<1> QED BY <1>1, <1>3, <1>4, <1>5, <1>6, <1>7, <1>8, <1>9, <1>10, <1>11, <1>12, <1>13, <1>14
        DEF DecNext

LEMMA ReadNext ==
  ASSUME Readable(EncFields, DecFields), CodecInv, WireInv, ReadInv, [Next]_vars
  PROVE  ReadInv'
<1>1. CASE UNCHANGED <<stream, estack, sent, dec, count, current, dstack, got>>
  BY <1>1, ReadStays
<1>2. CASE ChangeHandlers BY <1>1, <1>2 DEF ChangeHandlers
<1>3. CASE UNCHANGED vars BY <1>1, <1>3 DEF vars, encVars, decVars
<1> QED BY <1>2, <1>3, EncodeReads, DeliverReads, CallReads, DecodeReads DEF Next

LEMMA ReadAlways ==
  ASSUME Readable(EncFields, DecFields)
  PROVE  Spec => []ReadInv
<1>1. CodecInv /\ WireInv /\ ReadInv /\ [Next]_vars => ReadInv' BY ReadNext
<1> QED BY <1>1, ReadInit, CodecAlways, WireAlways, PTL DEF Spec

\* For all structures the decoder functions read in step with the stream, however much of it
\* arrives and whatever type is asked for: a call that succeeds has decoded the message that
\* was due and leaves the read pointer at its end (decoder.c, glme_decode_struct).
THEOREM EndsAligned ==
  ASSUME Readable(EncFields, DecFields)
  PROVE  Spec => []Aligned
<1>1. CodecInv /\ ReadInv => Aligned BY ReadSuffices
<1> QED BY <1>1, CodecAlways, ReadAlways, PTL

\* For all such structures whose vectors are decoded in place, in any two versions: what a
\* successful call returns is the structure that was encoded, seen through the decoder's
\* version of it, with no value in another field, none lost, and defaults for those that were
\* omitted (decoder.c, glme_decode_field; encoder.c, glme_encode_field).
THEOREM DecodesWhatWasEncoded ==
  ASSUME Readable(EncFields, DecFields), KeepsBlocks
  PROVE  Spec => []RoundTrip
<1>1. CodecInv /\ ReadInv => RoundTrip BY ReadSuffices
<1> QED BY <1>1, CodecAlways, ReadAlways, PTL


(***************************************************************************)
(* No call fails on bytes that have all arrived, between equal programs.   *)
(***************************************************************************)

\* Nothing goes wrong between the programs but that bytes are lost.
Faithful == Faults \subseteq {"truncation"}

\* A call on such bytes, or the program between two calls.
Ready ==
  /\ Intact /\ dec = "open" /\ enc = "open"
  /\ dstack # <<>> => current < count

\* The step does not fail, unless an allocation does, and an unfinished call has bytes left.
GoesWell == oom' \/ (dec' = "open" /\ (dstack' # <<>> => current' < count'))

WholeInv ==
  /\ \A id \in (1..63) \ Changing : HasHandler(Handlers, id) => HasHandler(dbase, id)
  /\ dec # "waiting" => enc = "open"
  /\ Intact /\ dec # "waiting" => Ready

LEMMA HeadOfConcat ==
  ASSUME NEW S, NEW s \in Seq(S), NEW t \in Seq(S)
  PROVE  /\ s \o t \in Seq(S) /\ Len(s \o t) = Len(s) + Len(t)
         /\ \A j \in 1..Len(s) : (s \o t)[j] = s[j]
<1>1. s \o t \in Seq(S) /\ Len(s \o t) = Len(s) + Len(t) BY ConcatProperties
<1>2. Len(s) \in Nat /\ Len(t) \in Nat BY LenProperties
<1>3. ASSUME NEW j \in 1..Len(s) PROVE (s \o t)[j] = s[j]
  <2>1. j \in 1..(Len(s) + Len(t)) /\ j <= Len(s) BY <1>2
  <2> QED BY <2>1, ConcatProperties
<1> QED BY <1>1, <1>3

\* No byte is missing: all that is due is in the stream.
LEMMA AheadAll ==
  ASSUME DecInv, NEW k \in Nat, NEW e \in Nat, NEW w \in Seq(Byte), Ahead(k, e, <<>>, w),
         count = Len(stream)
  PROVE  /\ k + Len(w) = e /\ k + Len(w) <= count
         /\ \A i \in 1..Len(w) : stream[k + i] = w[i]
<1> DEFINE s == SubSeq(stream, k + 1, e)
<1>1. s \in Seq(Byte) /\ Len(s) = e - k /\ \A j \in 1..(e - k) : s[j] = stream[k + j]
  BY Between DEF Ahead
<1>2. s \o <<>> = w BY DEF Ahead
<1>3. e <= Len(stream) BY DEF Ahead
<1> HIDE DEF s
<1>4. s = w BY <1>1, <1>2, ConcatEmptySeq
<1>5. k + Len(w) = e BY <1>1, <1>4
<1> QED BY <1>1, <1>3, <1>4, <1>5

LEMMA DoneWell ==
  ASSUME Ready, NEW v, NEW d, NEW pos, NEW a, NEW h, Done(v, d, pos, a, h), pos < count
  PROVE  GoesWell
BY DEF Done, GoesWell, Ready

\* What comes next is what is left of a message that was encoded.
LEMMA WholeAhead ==
  ASSUME CodecInv, ReadInv, Ready, dstack # <<>>
  PROVE  \E pl \in Seq(PlaceSet), x \in PlaceSet, m \in Messages, e \in Nat :
           Syncs(dstack, current, pl, x, m, e, <<>>)
<1>1. InSync(dstack, current) BY DEF ReadInv, Ready
<1>2. PICK pl \in Seq(PlaceSet), x \in PlaceSet, m \in Messages, e \in Nat, rest \in Seq(Byte) :
        Syncs(dstack, current, pl, x, m, e, rest)
  BY <1>1 DEF InSync
<1>3. Len(got) < Len(sent)
  <2>1. Len(got) \in Nat /\ Len(sent) \in Nat BY LenProperties DEF CodecInv, CallInv, EncInv
  <2>2. Len(got) + 1 <= Len(sent) BY DEF CodecInv, CallInv, Ready
  <2> QED BY <2>1, <2>2
<1>4. rest = <<>> BY <1>2, <1>3 DEF Syncs, Comes
<1> QED BY <1>2, <1>4

\* The bytes w of value v of field f come next, and they are not the last ones.
Arrives(f, v, w) ==
  /\ HasType(f, v) /\ ~ Omitted(f, v)
  /\ f.kind = "fixed" => Len(v) <= f.size
  /\ ~ IsStruct(f) => w = Element(f, v)
  /\ w \in Seq(Byte) /\ w # <<>> /\ Pos + Len(w) < count
  /\ \A j \in 1..Len(w) : stream[Pos + j] = w[j]

\* A field whose turn it is: its element is all there, and more behind it.
LEMMA ElementWhole ==
  ASSUME Readable(EncFields, DecFields), Sized, CodecInv, ReadInv, Ready, FieldPresent
  PROVE  /\ DField \in Fields /\ DeclaredField(DField) /\ DField.kind \notin {"string", "block"}
         /\ Mark /\ PeekedType = {MarkOf(DField)} /\ Pos \in Nat /\ count \in Nat
         /\ \E v, w : Arrives(DField, v, w)
<1>0. DecInv BY DEF CodecInv
<1>1. dstack # <<>> BY DEF FieldPresent, FieldMacro, InDecField
<1>2. PICK pl \in Seq(PlaceSet), x \in PlaceSet, m \in Messages, e \in Nat :
        Syncs(dstack, current, pl, x, m, e, <<>>)
  BY <1>1, WholeAhead
<1> DEFINE f == FieldOf(x.part, x.fld)
<1> DEFINE v == x.part[2][x.fld]
<1> DEFINE t == Todo(pl, Onward(x))
<1> DEFINE w == ElementOf(x.part, x.fld)
<1> DEFINE none == <<>>
<1>n. none \in Seq(Byte) /\ Syncs(dstack, current, pl, x, m, e, none) BY <1>2, EmptySeq
<1> HIDE DEF none
<1>3. /\ x.part \in Parts /\ x.fld \in Present(x.part)
      /\ Ahead(Pos, e, none, w \o t)
      /\ f \in Fields /\ HasType(f, v) /\ ~ Omitted(f, v) /\ DeclaredField(f)
      /\ DField.kind \notin {"string", "block"}
      /\ ~ IsStruct(f) => w = Element(f, v)
      /\ DField = DecFields[x.part[1]][x.fld]
      /\ Mark => PeekedType = {MarkOf(f)}
  BY <1>0, <1>n, AtElement
<1>4. f = DField BY <1>3 DEF FieldOf, Ready, Intact
<1>5. w \in Seq(Byte) /\ w # <<>> BY <1>3, ElementMark
<1>6. t \in Seq(Byte) /\ t # <<>> BY PlaceType, TodoType
<1>7. Pos \in Nat /\ count \in Nat BY <1>0, PresentIs
<1>8. f.kind = "fixed" => Len(v) <= f.size BY <1>3 DEF Sized
<1> HIDE DEF f, v, w, t
<1>9. w \o t \in Seq(Byte) /\ Len(w \o t) = Len(w) + Len(t)
      /\ \A j \in 1..Len(w) : (w \o t)[j] = w[j]
  BY <1>5, <1>6, HeadOfConcat
<1>10. Len(w) \in Nat \ {0} /\ Len(t) \in Nat \ {0} BY <1>5, <1>6, LenProperties, EmptySeq
<1> DEFINE y == w \o t
<1> DEFINE k == Pos
<1>11. y \in Seq(Byte) /\ Ahead(k, e, <<>>, y) /\ k \in Nat BY <1>3, <1>7, <1>9 DEF none
<1> HIDE DEF y, k
<1>12. k + Len(y) <= count /\ \A i \in 1..Len(y) : stream[k + i] = y[i]
  BY <1>0, <1>11, AheadAll DEF Ready, Intact
<1>13. Pos + Len(w) < count /\ \A j \in 1..Len(w) : stream[Pos + j] = w[j]
  <2>1. k + Len(w) < count BY <1>7, <1>9, <1>10, <1>11, <1>12 DEF y
  <2>2. ASSUME NEW j \in 1..Len(w) PROVE stream[k + j] = w[j]
    <3>1. j \in 1..Len(y) BY <1>9, <1>10 DEF y
    <3>2. y[j] = w[j] BY <1>9 DEF y
    <3> QED BY <1>12, <3>1, <3>2
  <2> QED BY <2>1, <2>2 DEF k
<1>14. Mark
  <2>1. k < count BY <1>7, <1>10, <1>11, <1>13 DEF k
  <2> QED BY <2>1 DEF k, Mark
<1>15. Arrives(f, v, w) BY <1>3, <1>5, <1>8, <1>13 DEF Arrives
<1> QED BY <1>3, <1>4, <1>7, <1>14, <1>15

(***************************************************************************)
(* The cases of glme_decode_field.                                         *)
(***************************************************************************)

LEMMA UnderflowWell ==
  ASSUME DecInv, Ready, FieldUnderflow
  PROVE  GoesWell
<1>1. current >= count /\ dstack # <<>> BY DEF FieldUnderflow, FieldMacro, InDecField
<1>2. current \in Nat /\ count \in Nat BY DecTypes
<1> QED BY <1>1, <1>2 DEF Ready

LEMMA AbsentWell ==
  ASSUME Ready, FieldAfterEnd \/ FieldNotYet
  PROVE  GoesWell
<1>1. current < count /\ \E d : Done(Absent(DField), d, current, 0, 0)
  BY DEF FieldAfterEnd, FieldNotYet
<1> QED BY <1>1, DoneWell

\* The mark of a field is never the wrong one.
LEMMA TypeErrorWell ==
  ASSUME Readable(EncFields, DecFields), Sized, CodecInv, ReadInv, Ready, FieldTypeError
  PROVE  GoesWell
<1>1. FieldPresent /\ \E t \in PeekedType : TypeMismatch(DField, t) BY DEF FieldTypeError
<1>2. DField \in Fields /\ DeclaredField(DField) /\ DField.kind \notin {"string", "block"}
      /\ PeekedType = {MarkOf(DField)}
  BY <1>1, ElementWhole
<1>3. TypeMismatch(DField, MarkOf(DField)) BY <1>1, <1>2
<1> DEFINE f == DField
<1>4. f.kind \in {"scalar", "vector", "string", "array", "fixed", "block", "struct", "pointer"}
      /\ f.typeid \in Nat
  BY <1>2, FieldType
<1> HIDE DEF f
<1>5. DeclaredField(f) /\ f.kind \notin {"string", "block"} /\ TypeMismatch(f, MarkOf(f))
  BY <1>2, <1>3 DEF f
<1> USE DEF MarkOf, IsRow, DeclaredField, Numbers, IsStruct, IsArray, TypeMismatch, GLME_INT,
            GLME_UINT, GLME_FLOAT, GLME_VECTOR, GLME_ARRAY, GLME_USER_MIN
<1>6. CASE f.kind = "scalar" BY <1>4, <1>5, <1>6
<1>7. CASE f.kind = "vector" BY <1>4, <1>5, <1>7
<1>8. CASE f.kind \in {"array", "fixed"} BY <1>4, <1>5, <1>8
<1>9. CASE f.kind \in {"struct", "pointer"} BY <1>4, <1>5, <1>9
<1> QED BY <1>4, <1>5, <1>6, <1>7, <1>8, <1>9

LEMMA ScalarWell ==
  ASSUME Readable(EncFields, DecFields), Sized, CodecInv, ReadInv, Ready, FieldScalar
  PROVE  GoesWell
<1>1. FieldPresent /\ DField.kind = "scalar" BY DEF FieldScalar, ElementStarts
<1>2. Mark /\ Pos \in Nat /\ count \in Nat BY <1>1, ElementWhole
<1>a. PICK v, w : Arrives(DField, v, w) BY <1>1, ElementWhole
<1>3. (~ IsStruct(DField) => w = Element(DField, v)) /\ Pos + Len(w) < count
  BY <1>a DEF Arrives
<1>4. w = <<TypeMark(DField.typeid), ToByte(DField.typeid, v)>>
  BY <1>1, <1>3 DEF IsStruct, Element
<1>5. Len(w) = 2
  <2> DEFINE a == TypeMark(DField.typeid)
  <2> DEFINE b == ToByte(DField.typeid, v)
  <2>1. w = <<a, b>> BY <1>4
  <2> HIDE DEF a, b
  <2> QED BY <2>1
<1>6. Pos + 2 < count /\ Pos + 1 < count BY <1>2, <1>3, <1>5
<1>7. Done(FromByte(DField.typeid, At(Pos + 1)), 1, Pos + 2, 0, 0)
  BY <1>2, <1>6 DEF FieldScalar
<1> QED BY <1>6, <1>7, DoneWell

LEMMA VectorWell ==
  ASSUME Readable(EncFields, DecFields), Sized, CodecInv, ReadInv, Ready, FieldVector
  PROVE  GoesWell
<1>0. DecInv BY DEF CodecInv
<1>1. FieldPresent /\ DField.kind = "vector" BY DEF FieldVector, ElementStarts
<1>2. Mark /\ Pos \in Nat /\ count \in Nat BY <1>1, ElementWhole
<1>a. PICK v, w : Arrives(DField, v, w) BY <1>1, ElementWhole
<1>3. /\ HasType(DField, v)
      /\ ~ IsStruct(DField) => w = Element(DField, v)
      /\ Pos + Len(w) < count /\ \A j \in 1..Len(w) : stream[Pos + j] = w[j]
  BY <1>a DEF Arrives
<1>4. w = <<TypeMark(DField.typeid), Len(v)>> \o v BY <1>1, <1>3 DEF IsStruct, Element
<1>5. v \in Seq(0..127) /\ Len(v) \in Nat BY <1>1, <1>3, LenProperties DEF HasType
<1>6. Len(w) = Len(v) + 2 /\ w[2] = Len(v)
  <2> DEFINE a == TypeMark(DField.typeid)
  <2> DEFINE n == Len(v)
  <2>1. w = <<a, n>> \o v BY <1>4
  <2> HIDE DEF a, n
  <2> DEFINE S == {a, n} \cup (0..127)
  <2>2. v \in Seq(S) /\ <<a, n>> \in Seq(S) /\ Len(<<a, n>>) = 2 /\ <<a, n>>[2] = n BY <1>5
  <2> DEFINE h == <<a, n>>
  <2> HIDE DEF S, h
  <2>3. h \in Seq(S) /\ v \in Seq(S) /\ Len(h) = 2 /\ h[2] = n /\ w = h \o v BY <2>1, <2>2 DEF h
  <2>4. 2 \in 1..Len(h) BY <2>3
  <2>5. Len(h \o v) = Len(h) + Len(v) /\ (h \o v)[2] = h[2]
    <3>1. /\ Len(h \o v) = Len(h) + Len(v)
          /\ \A j \in 1..Len(h) : (h \o v)[j] = h[j]
      BY <2>3, HeadOfConcat, Zenon
    <3> QED BY <2>4, <3>1, Zenon
  <2>6. Len(w) = 2 + Len(v) /\ w[2] = n BY <2>3, <2>5
  <2> QED BY <1>5, <2>6 DEF n
<1>7. At(Pos + 1) = Len(v)
  <2>1. 2 \in 1..Len(w) /\ (Pos + 1) + 1 = Pos + 2 BY <1>2, <1>5, <1>6
  <2> QED BY <1>3, <1>6, <2>1 DEF At
<1> DEFINE p == Pos + 1
<1> DEFINE n == Len(v)
<1>8. ~ DataMissing(p)
  <2>1. ~ (p >= count \/ n > count - p - 1) BY <1>2, <1>3, <1>5, <1>6
  <2> HIDE DEF n, p
  <2>2. At(p) = n BY <1>7 DEF n, p
  <2> QED BY <2>1, <2>2 DEF DataMissing
<1>9. Len(Data(p)) = n /\ Pos + 2 + n < count
  <2>1. Pos + 2 + n < count BY <1>2, <1>3, <1>5, <1>6
  <2>2. p + 1 + n \in Nat /\ p + 1 <= p + 1 + n /\ p + 1 + n <= Len(stream) /\ (p + 1 + n) - (p + 1) = n
        /\ p + 1 \in Nat
    <3>1. Len(stream) \in Nat /\ count <= Len(stream) BY <1>0, DecTypes
    <3> QED BY <1>2, <1>5, <2>1, <3>1
  <2>3. Data(p) = SubSeq(stream, (p + 1) + 1, p + 1 + n)
    <3>1. At(p) = n BY <1>7
    <3>2. (p + 1) + 1 = p + 2 BY <1>2
    <3> HIDE DEF n, p
    <3> QED BY <3>1, <3>2 DEF Data
  <2> DEFINE k == p + 1
  <2> DEFINE e == p + 1 + n
  <2>4. k \in Nat /\ e \in Nat /\ k <= e /\ e <= Len(stream) /\ e - k = n
        /\ Data(p) = SubSeq(stream, k + 1, e)
    BY <2>2, <2>3
  <2> HIDE DEF k, e, n, p
  <2>5. Len(Data(p)) = n BY <1>0, <2>4, Between
  <2> QED BY <2>1, <2>5 DEF n
<1> DEFINE d == Data(p)
<1>10. \E r : Done(r, 1, Pos + 2 + Len(d), 0, 0) BY <1>2, <1>8 DEF FieldVector
<1> HIDE DEF d
<1>11. Pos + 2 + Len(d) < count BY <1>9 DEF d
<1> QED BY <1>10, <1>11, DoneWell

LEMMA ArrayWell ==
  ASSUME Readable(EncFields, DecFields), Sized, CodecInv, ReadInv, Ready, FieldArray
  PROVE  GoesWell
<1>1. FieldPresent /\ IsArray(DField) BY DEF FieldArray
<1>2. DField \in Fields /\ Pos \in Nat /\ count \in Nat BY <1>1, ElementWhole
<1>a. PICK v, w : Arrives(DField, v, w) BY <1>1, ElementWhole
<1>3. DField.kind \in {"array", "fixed"} /\ ~ IsStruct(DField) BY <1>1 DEF IsArray, IsStruct
<1> DEFINE a == TypeMark(GLME_ARRAY)
<1> DEFINE b == TypeMark(DField.typeid)
<1> DEFINE u == Elements(DField.typeid, v)
<1> DEFINE n == Len(v)
<1> DEFINE h == <<a, b, n>>
<1>4. w = h \o u BY <1>a, <1>3 DEF Arrives, Element
<1>5. n \in Nat /\ n # 0 /\ n \in Byte /\ u \in Seq(Byte) /\ Len(u) = n
      /\ (DField.kind = "fixed" => n <= DField.size)
  <2>1. v \in Seq(Int) /\ n <= 127 /\ \A j \in 1..n : ToByte(DField.typeid, v[j]) \in 0..127
    BY <1>a, <1>3 DEF Arrives, HasType
  <2>2. v # <<>> BY <1>a, <1>3 DEF Arrives, Omitted
  <2>3. DField.typeid \in Nat BY <1>2, TypeIdIs
  <2>4. u \in Seq(Byte) /\ Len(u) = n BY <2>1, <2>3, ElementsIn
  <2>5. n \in Nat /\ n # 0 BY <2>1, <2>2, LenProperties, EmptySeq
  <2>6. n \in Byte BY <2>1, <2>5, ByteIs DEF Byte
  <2>7. DField.kind = "fixed" => n <= DField.size BY <1>a DEF Arrives
  <2> QED BY <2>4, <2>5, <2>6, <2>7
<1>6. h \in Seq(Byte) /\ Len(h) = 3 /\ h[2] = b /\ h[3] = n
  <2>1. a \in Byte BY DEF TypeMark, Zigzag, GLME_ARRAY, Byte
  <2>2. b \in Byte BY <1>2, FieldType
  <2> HIDE DEF a, b, n
  <2> QED BY <1>5, <2>1, <2>2
<1>b. Unzigzag(b) = DField.typeid BY <1>2, TypeIdIs, UnzigzagIs
<1> HIDE DEF h, u, a, b, n
<1>7. Len(w) = 3 + n /\ w[2] = b /\ w[3] = n
  <2>1. Len(h \o u) = Len(h) + Len(u) /\ \A j \in 1..Len(h) : (h \o u)[j] = h[j]
    BY <1>5, <1>6, HeadOfConcat, Zenon
  <2>2. 2 \in 1..Len(h) /\ 3 \in 1..Len(h) BY <1>6
  <2>3. (h \o u)[2] = h[2] /\ (h \o u)[3] = h[3] BY <2>1, <2>2, Zenon
  <2> QED BY <1>4, <1>5, <1>6, <2>1, <2>3
<1>8. At(Pos + 1) = b /\ At(Pos + 2) = n
  <2>1. 2 \in 1..Len(w) /\ 3 \in 1..Len(w) BY <1>5, <1>7
  <2>2. stream[Pos + 2] = w[2] /\ stream[Pos + 3] = w[3] BY <1>a, <2>1 DEF Arrives
  <2>3. (Pos + 1) + 1 = Pos + 2 /\ (Pos + 2) + 1 = Pos + 3 BY <1>2
  <2> QED BY <1>7, <2>2, <2>3 DEF At
<1>9. Pos + 3 + n < count
  <2>1. Pos + Len(w) < count BY <1>a DEF Arrives
  <2> QED BY <1>2, <1>5, <1>7, <2>1
<1>10. StoredArray(n)
  <2>1. ~ (Pos + 2 >= count) BY <1>2, <1>5, <1>9
  <2>2. ~ (DField.kind = "fixed" /\ DField.size < n)
    <3>1. DField.size \in Nat BY <1>2 DEF Fields
    <3> QED BY <1>5, <3>1
  <2> QED BY <1>5, <1>8, <1>b, <2>1, <2>2 DEF FieldArray
<1> DEFINE at == Pos + 3
<1> DEFINE short == at + n > count
<1>11. ~ short BY <1>2, <1>5, <1>9
<1>12. \/ oom' = TRUE
       \/ \E r, block, d : Done(r, 1, at + n, block, d)
  <2> HIDE DEF short
  <2> USE <1>11
  <2>1. CASE oom' = TRUE BY <2>1
  <2>2. CASE ~ (oom' = TRUE)
    <3>1. \E junk \in Garbage :
            Done(Fill(DField, ArrayElements(at, n, junk)), 1,
                 IF short THEN count ELSE at + n,
                 IF InPlace(DField) THEN 0 ELSE 1, IF DField.kind = "array" THEN 1 ELSE 0)
      BY <1>10, <2>2 DEF StoredArray, OutOfMemory, short
    <3>2. (IF short THEN count ELSE at + n) = at + n OBVIOUS
    <3> QED BY <3>1, <3>2
  <2> QED BY <2>1, <2>2
<1> DEFINE k == at + n
<1>13. k < count BY <1>9
<1> HIDE DEF k
<1>14. CASE oom' = TRUE BY <1>14 DEF GoesWell
<1>15. CASE \E r, block, d : Done(r, 1, at + n, block, d) BY <1>13, <1>15, DoneWell DEF k
<1> QED BY <1>12, <1>14, <1>15

\* No array has the mark of a number.
LEMMA ScalarForArrayWell ==
  ASSUME Readable(EncFields, DecFields), Sized, CodecInv, ReadInv, Ready, FieldScalarForArray
  PROVE  GoesWell
<1>1. FieldPresent /\ IsArray(DField) /\ \E t \in PeekedType : t = DField.typeid
  BY DEF FieldScalarForArray, ElementStarts
<1>2. DeclaredField(DField) /\ PeekedType = {MarkOf(DField)} BY <1>1, ElementWhole
<1>3. DField.typeid = GLME_ARRAY BY <1>1, <1>2 DEF IsArray, MarkOf, IsRow
<1> QED BY <1>1, <1>2, <1>3 DEF DeclaredField, IsArray, Numbers, GLME_ARRAY, GLME_INT, GLME_UINT,
                                GLME_FLOAT

LEMMA StructWell ==
  ASSUME Readable(EncFields, DecFields), Sized, Handled(DecFields, Handlers, Changing), WholeInv,
         CodecInv, ReadInv, Ready, FieldStruct
  PROVE  GoesWell
<1>1. FieldPresent /\ IsStruct(DField) /\ InDecField
  BY DEF FieldStruct, ElementStarts, FieldPresent, FieldMacro
<1>2. Mark /\ DField \in Fields /\ Pos \in Nat /\ count \in Nat BY <1>1, ElementWhole
<1>a. PICK v, w : Arrives(DField, v, w) BY <1>1, ElementWhole
<1>3. Pos + 1 < count
  <2>1. w \in Seq(Byte) /\ w # <<>> /\ Pos + Len(w) < count BY <1>a DEF Arrives
  <2>2. Len(w) \in Nat /\ Len(w) # 0 BY <2>1, LenProperties, EmptySeq
  <2> QED BY <1>2, <2>1, <2>2
<1>4. DField.named \/ HasHandler(dbase, DField.typeid)
  <2>1. DecInv BY DEF CodecInv
  <2>2. PICK t \in DOMAIN DecFields : \E i \in DOMAIN DecFields[t] : DField = DecFields[t][i]
    BY <1>1, <2>1, FieldListed
  <2>3. DField.named \/ (DField.typeid \notin Changing /\ HasHandler(Handlers, DField.typeid))
    BY <1>1, <2>2 DEF Handled
  <2>4. DField.typeid \in 1..63 BY <1>2 DEF Fields
  <2> QED BY <2>3, <2>4 DEF WholeInv
<1>5. CASE oom' = TRUE BY <1>5 DEF GoesWell
<1>6. CASE ~ (oom' = TRUE)
  <2>1. current' = Pos + 1 /\ UNCHANGED <<dec, count>>
    BY <1>2, <1>4, <1>6 DEF FieldStruct, OutOfMemory
  <2> QED BY <1>3, <2>1 DEF GoesWell, Ready
<1> QED BY <1>5, <1>6

\* The end mark is there, and a function below has bytes left.
LEMMA EndWell ==
  ASSUME CodecInv, ReadInv, Ready, DecodeEndStruct
  PROVE  GoesWell
<1>0. DecInv /\ DecStackOK(dstack) BY DEF CodecInv, DecInv
<1>1. dec = "open" /\ dstack # <<>> /\ DTop.fld > Len(DFields) BY DEF DecodeEndStruct
<1>2. PICK pl \in Seq(PlaceSet), x \in PlaceSet, m \in Messages, e \in Nat :
        Syncs(dstack, current, pl, x, m, e, <<>>)
  BY <1>1, WholeAhead
<1>3. StackSees(dstack, Append(pl, x), PartOf(m)) /\ Ahead(current, e, <<>>, Todo(pl, x))
  BY <1>2 DEF Syncs
<1>4. Sees(DTop, x) /\ StackSees(Front(dstack), pl, PartOf(m)) BY <1>0, <1>1, <1>3, TopPlace
<1>5. x.fld > Len(EncFields[x.part[1]]) BY <1>1, <1>4 DEF Sees, DFields, Ready, Intact
<1>6. Todo(pl, x) = <<0>> \o Behind(pl) BY <1>5, TodoEnd
<1> DEFINE t == Todo(pl, x)
<1> DEFINE b == Behind(pl)
<1>7. t \in Seq(Byte) /\ b \in Seq(Byte) BY TodoType, BehindParts
<1>8. Len(t) = 1 + Len(b) /\ t[1] = 0 /\ Len(b) \in Nat
  <2>1. t = <<0>> \o b BY <1>6
  <2> DEFINE z == <<0>>
  <2>2. z \in Seq(Byte) /\ Len(z) = 1 /\ z[1] = 0 BY EndMarkIs
  <2> HIDE DEF t, b, z
  <2>3. t = z \o b BY <2>1 DEF z
  <2>4. Len(z \o b) = Len(z) + Len(b) /\ \A j \in 1..Len(z) : (z \o b)[j] = z[j]
    BY <1>7, <2>2, HeadOfConcat, Zenon
  <2>5. 1 \in 1..Len(z) BY <2>2
  <2>6. (z \o b)[1] = z[1] BY <2>4, <2>5, Zenon
  <2> QED BY <1>7, <2>2, <2>3, <2>4, <2>6, LenProperties
<1>9. current \in Nat /\ count \in Nat /\ count = Len(stream) /\ current < count
  BY <1>0, <1>1, DecTypes DEF Ready, Intact
<1> HIDE DEF t, b
<1>10. current + Len(t) <= count /\ \A i \in 1..Len(t) : stream[current + i] = t[i]
  BY <1>0, <1>3, <1>7, <1>9, AheadAll DEF t
<1>11. EndMark
  <2>1. 1 \in 1..Len(t) BY <1>8
  <2>2. stream[current + 1] = 0 BY <1>8, <1>10, <2>1
  <2> QED BY <1>9, <2>2 DEF EndMark, At
<1>12. ReturnTo(current + 1) BY <1>11 DEF DecodeEndStruct
<1>13. CASE Len(dstack) = 1 BY <1>1, <1>12, <1>13 DEF ReturnTo, GoesWell
<1>14. CASE Len(dstack) # 1
  <2>1. DecStackOK(Front(dstack)) /\ Front(dstack) # <<>> BY <1>0, <1>1, <1>14, DecPopOK
  <2>2. PICK V : DecStackOver(Front(dstack), V) BY <2>1 DEF DecStackOK
  <2>3. Len(Front(dstack)) \in Nat \ {0} BY <2>1, <2>2, DecTop
  <2>4. pl # <<>>
    <3>1. Len(pl) # 0 BY <1>4, <2>3 DEF StackSees
    <3> QED BY <3>1, EmptySeq
  <2> DEFINE below == Front(pl)
  <2> DEFINE y == Last(pl)
  <2>5. below \in Seq(PlaceSet) /\ y \in PlaceSet /\ pl = Append(below, y)
    BY <2>4, FrontLast
  <2> HIDE DEF below, y
  <2>6. b = Todo(below, Onward(y)) BY <2>5, BehindIs DEF b
  <2>7. b # <<>> BY <2>5, <2>6, PlaceType, TodoType
  <2>8. Len(b) # 0 BY <1>7, <2>7, EmptySeq
  <2>9. current + 1 < count BY <1>8, <1>9, <1>10, <2>8
  <2>10. current' = current + 1 /\ UNCHANGED <<dec, count>> BY <1>12 DEF ReturnTo
  <2> QED BY <1>1, <2>9, <2>10 DEF GoesWell
<1> QED BY <1>13, <1>14

(***************************************************************************)
(* The calls.                                                              *)
(***************************************************************************)

\* The next message is all there, with the type it is asked for by.
LEMMA CallWell ==
  ASSUME Faithful, CodecInv, WireInv, ReadInv, Ready, Call
  PROVE  GoesWell
<1>0. DecInv BY DEF CodecInv
<1>1. PICK typeid \in Expected, owned \in {0, 1} : DecodeStruct(typeid, owned) BY DEF Call
<1>2. dec = "open" /\ dstack = <<>> /\ ~ AllRead BY <1>1 DEF DecodeStruct, Call
<1>3. Len(got) \in Nat /\ Len(sent) \in Nat /\ Len(got) < Len(sent)
  <2>1. Len(got) \in Nat /\ Len(sent) \in Nat /\ Len(got) <= Len(sent) BY <1>2, AnswersEnd
  <2>2. Len(got) # Len(sent) BY <1>2 DEF AllRead, Ready
  <2> DEFINE a == Len(got)
  <2> DEFINE b == Len(sent)
  <2>3. a \in Nat /\ b \in Nat /\ a <= b /\ a # b BY <2>1, <2>2
  <2> HIDE DEF a, b
  <2>4. a < b BY <2>3
  <2> QED BY <2>1, <2>4 DEF a, b
<1>4. typeid = sent[Len(got) + 1].msg.typeid
  <2> DEFINE a == Len(got)
  <2> DEFINE b == Len(sent)
  <2>1. a # b
    <3>1. a \in Nat /\ b \in Nat /\ a < b BY <1>3
    <3> HIDE DEF a, b
    <3> QED BY <3>1
  <2>2. "wrong type" \notin Faults BY DEF Faithful
  <2> QED BY <1>1, <2>1, <2>2 DEF Expected
<1>5. PICK m \in Messages, e \in Nat, rest \in Seq(Byte) :
        Comes(m, e, rest) /\ Ahead(current, e, rest, Whole(m))
  BY <1>2, NextMessage
<1>6. m = sent[Len(got) + 1].msg /\ rest = <<>> BY <1>3, <1>5 DEF Comes
<1> DEFINE w == Whole(m)
<1> DEFINE t == Todo(<<>>, Place(PartOf(m), 1))
<1>7. w \in Seq(Byte) /\ w # <<>> /\ t \in Seq(Byte) /\ t # <<>>
  <2>1. w \in Seq(Byte) /\ w # <<>> /\ Place(PartOf(m), 1) \in PlaceSet BY MessageIs
  <2>2. <<>> \in Seq(PlaceSet) BY EmptySeq
  <2> QED BY <2>1, <2>2, TodoType
<1>8. current \in Nat /\ count \in Nat BY <1>0, DecTypes
<1>c. count = Len(stream) BY DEF Ready, Intact
<1>9. current < count
  <2>1. Ahead(current, e, <<>>, w) BY <1>5, <1>6
  <2> HIDE DEF w
  <2>2. current + Len(w) <= count BY <1>0, <1>7, <1>8, <1>c, <2>1, AheadAll
  <2>3. Len(w) \in Nat /\ Len(w) # 0 BY <1>7, LenProperties, EmptySeq
  <2> QED BY <1>8, <2>2, <2>3
<1>10. Unzigzag(At(current)) = m.typeid /\ Ahead(current + 1, e, rest, t)
  BY <1>0, <1>5, <1>9, StartAhead
<1> DEFINE k == current + 1
<1>11. k < count
  <2>1. k \in Nat BY <1>8
  <2>a. Ahead(k, e, <<>>, t) BY <1>6, <1>10
  <2> HIDE DEF t, k
  <2>2. k + Len(t) <= count BY <1>0, <1>7, <1>8, <1>c, <2>1, <2>a, AheadAll
  <2>3. Len(t) \in Nat /\ Len(t) # 0 BY <1>7, LenProperties, EmptySeq
  <2> QED BY <1>8, <2>1, <2>2, <2>3
<1>12. ~ (current >= count \/ Unzigzag(At(current)) # typeid)
  <2>1. ~ (current >= count) BY <1>8, <1>9
  <2> QED BY <1>4, <1>6, <1>10, <2>1
<1>13. \/ current' = k /\ UNCHANGED <<dec, count>>
       \/ oom' = TRUE
  <2> HIDE DEF k
  <2>1. k = current + 1 BY DEF k
  <2> QED BY <1>1, <1>12, <2>1 DEF DecodeStruct, OutOfMemory
<1> HIDE DEF k
<1> QED BY <1>2, <1>11, <1>13 DEF GoesWell

(***************************************************************************)
(* The invariant.                                                          *)
(***************************************************************************)

\* An allocation that has failed is not forgotten.
LEMMA OomStays ==
  ASSUME DecNext \/ Call
  PROVE  oom' = oom \/ oom' = TRUE
<1> USE DEF Allocated, OutOfMemory
<1>1. CASE FieldUnderflow \/ FieldAfterEnd \/ FieldNotYet \/ FieldTypeError \/ DecodeEndStruct
  BY <1>1 DEF FieldUnderflow, FieldAfterEnd, FieldNotYet, FieldTypeError, DecodeEndStruct
<1>2. CASE FieldScalar \/ FieldVector \/ FieldScalarForArray \/ BlockSkipped
  BY <1>2 DEF FieldScalar, FieldVector, FieldScalarForArray, BlockSkipped
<1>3. CASE FieldString BY <1>3 DEF FieldString
<1>4. CASE FieldArray
  <2>1. oom' = oom \/ \E n : StoredArray(n) BY <1>4 DEF FieldArray
  <2> QED BY <2>1 DEF StoredArray
<1>5. CASE FieldStruct BY <1>5 DEF FieldStruct
<1>6. CASE BlockDecoded BY <1>6 DEF BlockDecoded
<1>7. CASE Call
  <2>1. PICK typeid, owned : DecodeStruct(typeid, owned) BY <1>7 DEF Call
  <2> QED BY <2>1 DEF DecodeStruct
<1> QED BY <1>1, <1>2, <1>3, <1>4, <1>5, <1>6, <1>7 DEF DecNext

\* The types that do not come and go keep their slots in the table.
LEMMA HandlersStay ==
  ASSUME BaseInv, NEW id \in Changing, ChangeDecoders(id), NEW other \in (1..63) \ Changing,
         HasHandler(dbase, other)
  PROVE  HasHandler(dbase, other)'
<1>1. dbase \in Bases BY DEF BaseInv, Counts
<1>2. id \in 1..63 /\ id # other /\ other # 0 BY ChangingType
<1>3. Slots(dbase, other) # {} BY <1>1, FindIs
<1>4. CASE dbase' = Registered(dbase, id)
  <2>1. CASE Full(dbase) BY <1>1, <1>2, <1>4, <2>1, RegisteredIs
  <2>2. CASE ~ Full(dbase)
    <3>1. PICK i \in DOMAIN dbase : dbase[i] = 0 /\ dbase' = [dbase EXCEPT ![i] = id]
      BY <1>1, <1>2, <1>4, <2>2, RegisteredIs
    <3>2. SlotSet(dbase, i, id, dbase') BY <3>1 DEF SlotSet
    <3>3. Slots(dbase', other) = Slots(dbase, other) \ {i} BY <1>1, <1>2, <3>2, SlotsChange
    <3>4. i \notin Slots(dbase, other) BY <1>2, <3>1 DEF Slots
    <3>5. Slots(dbase', other) # {} BY <1>3, <3>3, <3>4
    <3>6. dbase' \in Bases BY <1>1, <1>2, <1>4, RegisteredIs
    <3>7. HasHandler(dbase', other) BY <3>5, <3>6, FindIs
    <3> QED BY <3>7 DEF HasHandler
  <2>3. CASE dbase' = dbase BY <2>3 DEF HasHandler
  <2> QED BY <1>1, <1>2, <1>4, <2>1, <2>2, <2>3, RegisteredIs
<1>5. CASE dbase' = Unregistered(dbase, id)
  <2>1. CASE Slots(dbase, id) = {}
    <3>1. dbase' = dbase BY <1>1, <1>2, <1>5, <2>1, UnregisteredIs
    <3> QED BY <3>1 DEF HasHandler
  <2>2. CASE Slots(dbase, id) # {}
    <3>1. PICK i \in Slots(dbase, id) : dbase' = [dbase EXCEPT ![i] = 0]
      BY <1>1, <1>2, <1>5, <2>2, UnregisteredIs
    <3>2. i \in DOMAIN dbase /\ dbase[i] = id BY DEF Slots
    <3>3. SlotSet(dbase, i, 0, dbase') BY <3>1 DEF SlotSet
    <3>4. Slots(dbase', other) = Slots(dbase, other) \ {i} BY <1>1, <1>2, <3>2, <3>3, SlotsChange
    <3>5. i \notin Slots(dbase, other) BY <1>2, <3>2 DEF Slots
    <3>6. Slots(dbase', other) # {} BY <1>3, <3>4, <3>5
    <3>7. dbase' \in Bases BY <1>1, <1>2, <1>5, UnregisteredIs
    <3>8. HasHandler(dbase', other) BY <3>6, <3>7, FindIs
    <3> QED BY <3>8 DEF HasHandler
  <2> QED BY <2>1, <2>2
<1> QED BY <1>4, <1>5 DEF ChangeDecoders

LEMMA WholeInit == Init => WholeInv
<1> SUFFICES ASSUME Init PROVE WholeInv OBVIOUS
<1>1. dec = "waiting" /\ dbase = Handlers BY DEF Init, DecInit
<1> QED BY <1>1 DEF WholeInv

\* Steps that do not touch the decoder, once it has its bytes.
LEMMA WholeStays ==
  ASSUME WholeInv, UNCHANGED <<dec, dbase, oom, dstack, current, count>>,
         dec = "waiting" \/ UNCHANGED <<stream, enc>>
  PROVE  WholeInv'
<1>1. \A id \in (1..63) \ Changing : HasHandler(Handlers, id) => HasHandler(dbase', id)
  BY DEF WholeInv
<1>2. CASE dec = "waiting" BY <1>1, <1>2 DEF WholeInv
<1>3. CASE UNCHANGED <<stream, enc>> BY <1>1, <1>3 DEF WholeInv, Ready, Intact
<1> QED BY <1>2, <1>3

LEMMA ChangeWhole == ASSUME BaseInv, WholeInv, ChangeHandlers PROVE WholeInv'
<1>1. UNCHANGED <<stream, enc, dec, oom, dstack, current, count>> BY DEF ChangeHandlers
<1>2. ASSUME NEW other \in (1..63) \ Changing, HasHandler(Handlers, other)
      PROVE  HasHandler(dbase, other)'
  <2>1. HasHandler(dbase, other) BY <1>2 DEF WholeInv
  <2>2. PICK id \in Changing : ChangeEncoders(id) \/ ChangeDecoders(id) BY DEF ChangeHandlers
  <2>3. CASE ChangeEncoders(id) BY <2>1, <2>3 DEF ChangeEncoders, HasHandler
  <2>4. CASE ChangeDecoders(id) BY <2>1, <2>4, HandlersStay
  <2> QED BY <2>2, <2>3, <2>4
<1>3. (dec # "waiting" => enc = "open")' BY <1>1 DEF WholeInv
<1>4. (Intact /\ dec # "waiting" => Ready)' BY <1>1 DEF WholeInv, Ready, Intact
<1> QED BY <1>2, <1>3, <1>4 DEF WholeInv

LEMMA DeliverWhole == ASSUME Faithful, CodecInv, WholeInv, Deliver PROVE WholeInv'
<1>1. dec = "waiting" /\ dec' = "open" /\ UNCHANGED <<enc, dbase, dstack>> BY DEF Deliver, encVars
<1>2. enc = "open" BY DEF Deliver, Faithful
<1>3. dstack = <<>> BY <1>1 DEF CodecInv, DecInv
<1> QED BY <1>1, <1>2, <1>3 DEF WholeInv, Ready

\* A step of a call that goes well when the call is on all the bytes of a message.
LEMMA WellWhole ==
  ASSUME WholeInv, dec = "open", UNCHANGED <<stream, enc, dbase, count>>,
         oom' = oom \/ oom' = TRUE, dec' # "waiting", Ready => GoesWell
  PROVE  WholeInv'
<1>1. \A id \in (1..63) \ Changing : HasHandler(Handlers, id) => HasHandler(dbase', id)
  BY DEF WholeInv
<1>2. ASSUME Intact' PROVE Ready'
  <2>1. Intact BY <1>2 DEF Intact
  <2>2. Ready BY <2>1 DEF WholeInv
  <2> QED BY <1>2, <2>2 DEF GoesWell, Ready, Intact
<1> QED BY <1>1, <1>2 DEF WholeInv

LEMMA CallWhole ==
  ASSUME Faithful, CodecInv, WireInv, ReadInv, WholeInv, Call
  PROVE  WholeInv'
<1>1. PICK typeid, owned : DecodeStruct(typeid, owned) BY DEF Call
<1>2. dec = "open" /\ count' = count /\ dec' \in {"open", "failed"}
  BY <1>1 DEF DecodeStruct, Fail
<1>3. UNCHANGED <<stream, enc, dbase>> BY DEF Call, encVars
<1>4. Ready => GoesWell BY CallWell
<1> QED BY <1>2, <1>3, <1>4, OomStays, WellWhole

LEMMA DecodeWhole ==
  ASSUME Readable(EncFields, DecFields), Sized, Handled(DecFields, Handlers, Changing),
         CodecInv, ReadInv, WholeInv, Decode
  PROVE  WholeInv'
<1>1. UNCHANGED <<stream, enc, dbase>> /\ DecNext /\ DecInv
  BY DEF Decode, DecNext, encVars, CodecInv
<1>2. KindOfStep /\ dec = "open"
  BY <1>1, DecStep DEF DecNext, FieldUnderflow, FieldAfterEnd, FieldNotYet, FieldTypeError,
       FieldScalar, FieldVector, FieldString, FieldArray, FieldScalarForArray, FieldStruct,
       BlockSkipped, BlockDecoded, DecodeEndStruct, ElementStarts, FieldPresent, FieldMacro,
       BlockMacro, InDecField
<1>3. count' = count /\ dec' \in {"open", "failed"}
  BY <1>2 DEF KindOfStep, FieldDone, Done, CallFailed, Fail, Entered, Returned, ReturnTo
<1>4. ASSUME Ready PROVE GoesWell
  <2>1. CASE FieldUnderflow BY <1>1, <1>4, <2>1, UnderflowWell
  <2>2. CASE FieldAfterEnd \/ FieldNotYet BY <1>4, <2>2, AbsentWell
  <2>3. CASE FieldTypeError BY <1>4, <2>3, TypeErrorWell
  <2>4. CASE FieldScalar BY <1>4, <2>4, ScalarWell
  <2>5. CASE FieldVector BY <1>4, <2>5, VectorWell
  <2>6. CASE FieldString
    <3>1. InDecField /\ DField.kind = "string"
      BY <2>6 DEF FieldString, ElementStarts, FieldPresent, FieldMacro
    <3> QED BY <1>1, <3>1, KindRead
  <2>7. CASE FieldArray BY <1>4, <2>7, ArrayWell
  <2>8. CASE FieldScalarForArray BY <1>4, <2>8, ScalarForArrayWell
  <2>9. CASE FieldStruct BY <1>4, <2>9, StructWell
  <2>10. CASE BlockSkipped \/ BlockDecoded
    <3>1. InDecField /\ DField.kind = "block" BY <2>10 DEF BlockSkipped, BlockDecoded, BlockMacro
    <3> QED BY <1>1, <3>1, KindRead
  <2>11. CASE DecodeEndStruct BY <1>4, <2>11, EndWell
  <2> QED BY <1>1, <2>1, <2>2, <2>3, <2>4, <2>5, <2>6, <2>7, <2>8, <2>9, <2>10, <2>11 DEF DecNext
<1>5. oom' = oom \/ oom' = TRUE BY <1>1, OomStays
<1> QED BY <1>1, <1>2, <1>3, <1>4, <1>5, WellWhole

LEMMA WholeNext ==
  ASSUME Readable(EncFields, DecFields), Sized, Handled(DecFields, Handlers, Changing), Faithful,
         BaseInv, CodecInv, WireInv, ReadInv, WholeInv, [Next]_vars
  PROVE  WholeInv'
<1>1. CASE Encode BY <1>1, WholeStays DEF Encode, decVars
<1>2. CASE UNCHANGED vars BY <1>2, WholeStays DEF vars, encVars, decVars
<1> QED BY <1>1, <1>2, DeliverWhole, CallWhole, DecodeWhole, ChangeWhole DEF Next

\* Between equal programs whose structures the decoder functions read in step with the
\* stream and find their handlers for, on all the bytes that were encoded: no call
\* fails while no allocation does (decoder.c, glme_decode_field).
THEOREM IntactIsDecoded ==
  ASSUME Readable(EncFields, DecFields), Sized, Handled(DecFields, Handlers, Changing), Faithful
  PROVE  Spec => []IntactDecodes
<1>1. BaseInv /\ CodecInv /\ WireInv /\ ReadInv /\ WholeInv /\ [Next]_vars => WholeInv'
  BY WholeNext
<1>2. WholeInv => IntactDecodes BY DEF WholeInv, Ready, IntactDecodes
<1> QED BY <1>1, <1>2, WholeInit, BaseInit, BaseStep, CodecAlways, WireAlways, ReadAlways, PTL
        DEF Spec
================================================================================

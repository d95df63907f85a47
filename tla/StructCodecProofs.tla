--------------------------- MODULE StructCodecProofs ---------------------------
(***************************************************************************)
(* For all structures, messages, versions, faults and handler tables:      *)
(* lookups find what is registered, the read pointer stays inside the      *)
(* bytes that arrived, and no block is freed that is still pointed to.     *)
(***************************************************************************)
EXTENDS StructCodec, DataTheorems, FiniteSetTheorems

(***************************************************************************)
(* The table of handlers.                                                  *)
(***************************************************************************)

\* Type ids are one byte in the stream.
LEMMA ChangingType == \A id \in Changing : id \in 1..63 /\ id # 0
<1>1. Changing \subseteq 1..63 BY FaultsAssumption
<1> QED BY <1>1

Bases == Seq(0..63)
Slots(base, id) == {i \in DOMAIN base : base[i] = id}

LEMMA BaseIs ==
  ASSUME NEW base \in Bases
  PROVE  /\ Len(base) \in Nat /\ DOMAIN base = 1..Len(base)
         /\ \A i \in DOMAIN base : base[i] \in 0..63
<1>1. base \in Seq(0..63) BY DEF Bases
<1>2. Len(base) \in Nat /\ DOMAIN base = 1..Len(base) BY <1>1, LenProperties
<1> QED BY <1>1, <1>2, ElementOfSeq

\* Slots can be counted.
LEMMA SlotsFinite ==
  ASSUME NEW base \in Bases, NEW id
  PROVE  IsFiniteSet(Slots(base, id)) /\ Cardinality(Slots(base, id)) \in Nat
<1>1. Len(base) \in Nat /\ DOMAIN base = 1..Len(base) BY BaseIs
<1>2. IsFiniteSet(DOMAIN base) BY <1>1, FS_Interval
<1>3. Slots(base, id) \in SUBSET DOMAIN base BY DEF Slots
<1>4. IsFiniteSet(Slots(base, id)) BY <1>2, <1>3, FS_Subset
<1> QED BY <1>4, FS_CardinalityType

\* The first slot with an id is well defined.
LEMMA FirstSlot ==
  ASSUME NEW base \in Bases, NEW id, Slots(base, id) # {}
  PROVE  \E i \in DOMAIN base : base[i] = id /\ \A j \in 1..(i - 1) : base[j] # id
<1>1. Len(base) \in Nat /\ DOMAIN base = 1..Len(base) BY BaseIs
<1>2. Slots(base, id) \subseteq Nat BY <1>1 DEF Slots
<1>3. PICK i \in Slots(base, id) : \A j \in Slots(base, id) : i <= j
  BY <1>2, LeastElement
<1>4. i \in DOMAIN base /\ base[i] = id /\ i \in Nat BY <1>1 DEF Slots
<1>5. ASSUME NEW j \in 1..(i - 1), base[j] = id PROVE FALSE
  <2>1. j \in DOMAIN base /\ j < i BY <1>1, <1>4
  <2>2. j \in Slots(base, id) BY <1>5, <2>1 DEF Slots
  <2> QED BY <1>3, <1>4, <2>1, <2>2
<1> QED BY <1>4, <1>5

\* A search ends at a slot with the id, if there is one.
LEMMA FindIs ==
  ASSUME NEW base \in Bases, NEW id
  PROVE  /\ HasHandler(base, id) <=> Slots(base, id) # {}
         /\ HasHandler(base, id) => Find(base, id) \in Slots(base, id)
<1>1. Len(base) \in Nat /\ DOMAIN base = 1..Len(base) BY BaseIs
<1>2. CASE Slots(base, id) = {}
  <2>1. ~ \E i \in DOMAIN base : base[i] = id BY <1>2 DEF Slots
  <2>2. Find(base, id) = 0 BY <2>1 DEF Find
  <2> QED BY <1>2, <2>2 DEF HasHandler
<1>3. CASE Slots(base, id) # {}
  <2> DEFINE First(i) == base[i] = id /\ \A j \in 1..(i - 1) : base[j] # id
  <2>1. \E i \in DOMAIN base : First(i) BY <1>3, FirstSlot
  <2>2. Find(base, id) = CHOOSE i \in DOMAIN base : First(i)
    <3>1. \E i \in DOMAIN base : base[i] = id BY <1>3 DEF Slots
    <3> QED BY <3>1 DEF Find
  <2>3. Find(base, id) \in DOMAIN base /\ First(Find(base, id))
    <3> HIDE DEF First
    <3> QED BY <2>1, <2>2
  <2>4. Find(base, id) \in Slots(base, id) BY <2>3 DEF Slots
  <2>5. Find(base, id) # 0 BY <1>1, <2>3
  <2> QED BY <1>3, <2>4, <2>5 DEF HasHandler
<1> QED BY <1>2, <1>3

\* Registering takes a slot that was free, and only that.
LEMMA RegisteredIs ==
  ASSUME NEW base \in Bases, NEW id \in 1..63
  PROVE  /\ Registered(base, id) \in Bases
         /\ Full(base) => Registered(base, id) = base
         /\ ~ Full(base) => \E i \in DOMAIN base :
              base[i] = 0 /\ Registered(base, id) = [base EXCEPT ![i] = id]
<1>1. Len(base) \in Nat /\ DOMAIN base = 1..Len(base) BY BaseIs
<1>2. CASE Full(base) BY <1>2 DEF Registered
<1>3. CASE ~ Full(base)
  <2> DEFINE First(i) == base[i] = 0 /\ \A j \in 1..(i - 1) : base[j] # 0
  <2> DEFINE free == CHOOSE i \in DOMAIN base : First(i)
  <2>1. Slots(base, 0) # {} BY <1>3 DEF Full, Slots
  <2>2. \E i \in DOMAIN base : First(i) BY <2>1, FirstSlot
  <2>3. free \in DOMAIN base /\ First(free)
    <3> HIDE DEF First
    <3> QED BY <2>2
  <2>4. Registered(base, id) = [base EXCEPT ![free] = id] BY <1>3 DEF Registered
  <2> HIDE DEF free
  <2>5. [base EXCEPT ![free] = id] \in Bases BY <2>3 DEF Bases
  <2> QED BY <1>3, <2>3, <2>4, <2>5
<1> QED BY <1>2, <1>3

\* Unregistering frees a slot with the id, and only that.
LEMMA UnregisteredIs ==
  ASSUME NEW base \in Bases, NEW id \in 1..63
  PROVE  /\ Unregistered(base, id) \in Bases
         /\ Slots(base, id) = {} => Unregistered(base, id) = base
         /\ Slots(base, id) # {} => \E i \in Slots(base, id) :
              Unregistered(base, id) = [base EXCEPT ![i] = 0]
<1>1. CASE Slots(base, id) = {} BY <1>1, FindIs DEF Unregistered
<1>2. CASE Slots(base, id) # {}
  <2> DEFINE i == Find(base, id)
  <2>1. i \in Slots(base, id) BY <1>2, FindIs
  <2>2. Unregistered(base, id) = [base EXCEPT ![i] = 0] BY <1>2, FindIs DEF Unregistered
  <2> HIDE DEF i
  <2>3. [base EXCEPT ![i] = 0] \in Bases BY <2>1 DEF Bases, Slots
  <2> QED BY <1>2, <2>1, <2>2, <2>3
<1> QED BY <1>1, <1>2

SlotSet(base, i, id, after) == after = [base EXCEPT ![i] = id]

\* What one changed slot means for the slots of every id.
LEMMA SlotsChange ==
  ASSUME NEW base \in Bases, NEW i \in DOMAIN base, NEW id,
         NEW after, SlotSet(base, i, id, after)
  PROVE  /\ Slots(after, id) = Slots(base, id) \cup {i}
         /\ \A other : other # id => Slots(after, other) = Slots(base, other) \ {i}
<1>1. DOMAIN after = DOMAIN base /\ after[i] = id
      /\ \A j \in DOMAIN base : j # i => after[j] = base[j]
  BY BaseIs DEF SlotSet
<1> QED BY <1>1 DEF Slots

\* The counts of a program agree with its table.
Counts(base, counts) ==
  /\ base \in Bases
  /\ counts \in [Changing -> Nat]
  /\ \A id \in Changing : counts[id] = Cardinality(Slots(base, id))

\* A handler is found exactly when the count says there is one.
LEMMA CountsFind ==
  ASSUME NEW base, NEW counts, Counts(base, counts), NEW id \in Changing
  PROVE  HasHandler(base, id) = (counts[id] > 0)
<1>1. base \in Bases /\ counts[id] \in Nat /\ counts[id] = Cardinality(Slots(base, id))
  BY DEF Counts
<1>2. IsFiniteSet(Slots(base, id)) BY <1>1, SlotsFinite
<1>3. counts[id] = 0 <=> Slots(base, id) = {} BY <1>1, <1>2, FS_EmptySet
<1>4. HasHandler(base, id) <=> Slots(base, id) # {} BY <1>1, FindIs
<1>5. HasHandler(base, id) \in BOOLEAN BY DEF HasHandler
<1> QED BY <1>1, <1>3, <1>4, <1>5

\* Registering one more keeps them in step.
LEMMA RegisteredCounts ==
  ASSUME NEW base, NEW counts, Counts(base, counts), NEW id \in Changing
  PROVE  Counts(Registered(base, id), Counted(counts, id, IF Full(base) THEN 0 ELSE 1))
<1>1. base \in Bases /\ counts \in [Changing -> Nat] /\ id \in 1..63 /\ id # 0
  BY ChangingType DEF Counts
<1> DEFINE after == Registered(base, id)
<1>2. after \in Bases BY <1>1, RegisteredIs
<1>3. CASE Full(base)
  <2>1. after = base BY <1>1, <1>3, RegisteredIs
  <2>2. Counted(counts, id, 0) = counts BY <1>1 DEF Counted
  <2> QED BY <1>3, <2>1, <2>2
<1>4. CASE ~ Full(base)
  <2>1. PICK i \in DOMAIN base : base[i] = 0 /\ after = [base EXCEPT ![i] = id]
    BY <1>1, <1>4, RegisteredIs
  <2>s. SlotSet(base, i, id, after) BY <2>1 DEF SlotSet
  <2> DEFINE more == Counted(counts, id, 1)
  <2>2. more \in [Changing -> Nat] /\ more[id] = counts[id] + 1
        /\ \A other \in Changing : other # id => more[other] = counts[other]
    BY <1>1 DEF Counted
  <2>3. more[id] = Cardinality(Slots(after, id))
    <3>1. Slots(after, id) = Slots(base, id) \cup {i} BY <1>1, <2>s, SlotsChange
    <3>2. i \notin Slots(base, id) BY <1>1, <2>1 DEF Slots
    <3>3. IsFiniteSet(Slots(base, id)) BY <1>1, SlotsFinite
    <3>4. Cardinality(Slots(after, id)) = Cardinality(Slots(base, id)) + 1
      BY <3>1, <3>2, <3>3, FS_AddElement
    <3> QED BY <2>2, <3>4 DEF Counts
  <2>4. ASSUME NEW other \in Changing, other # id
        PROVE  more[other] = Cardinality(Slots(after, other))
    <3>1. Slots(after, other) = Slots(base, other) \ {i}
      BY <1>1, <2>s, <2>4, SlotsChange
    <3>2. other # 0 BY ChangingType
    <3>3. i \notin Slots(base, other) BY <2>1, <3>2 DEF Slots
    <3>4. Slots(after, other) = Slots(base, other) BY <3>1, <3>3
    <3> QED BY <2>2, <2>4, <3>4 DEF Counts
  <2> HIDE DEF more, after
  <2>5. Counts(after, more) BY <1>2, <2>2, <2>3, <2>4 DEF Counts
  <2> QED BY <1>4, <2>5 DEF more, after
<1> QED BY <1>3, <1>4

\* So does unregistering, of a type that is in the table or not.
LEMMA UnregisteredCounts ==
  ASSUME NEW base, NEW counts, Counts(base, counts), NEW id \in Changing
  PROVE  Counts(Unregistered(base, id), Counted(counts, id, IF counts[id] > 0 THEN -1 ELSE 0))
<1>1. base \in Bases /\ counts \in [Changing -> Nat] /\ id \in 1..63 /\ id # 0
  BY ChangingType DEF Counts
<1> DEFINE after == Unregistered(base, id)
<1>2. after \in Bases BY <1>1, UnregisteredIs
<1>3. IsFiniteSet(Slots(base, id)) BY <1>1, SlotsFinite
<1>4. counts[id] = Cardinality(Slots(base, id)) BY DEF Counts
<1>5. counts[id] \in Nat /\ (counts[id] = 0 <=> Slots(base, id) = {})
  BY <1>1, <1>3, <1>4, FS_EmptySet
<1>6. CASE Slots(base, id) = {}
  <2>1. after = base BY <1>1, <1>6, UnregisteredIs
  <2>2. Counted(counts, id, 0) = counts BY <1>1 DEF Counted
  <2>3. ~ (counts[id] > 0) BY <1>5, <1>6
  <2> QED BY <2>1, <2>2, <2>3
<1>7. CASE Slots(base, id) # {}
  <2>1. PICK i \in Slots(base, id) : after = [base EXCEPT ![i] = 0]
    BY <1>1, <1>7, UnregisteredIs
  <2>2. i \in DOMAIN base BY DEF Slots
  <2>s. SlotSet(base, i, 0, after) BY <2>1 DEF SlotSet
  <2> DEFINE less == Counted(counts, id, -1)
  <2>3. counts[id] > 0 BY <1>5, <1>7
  <2>4. less \in [Changing -> Nat] /\ less[id] = counts[id] - 1
        /\ \A other \in Changing : other # id => less[other] = counts[other]
    BY <1>1, <2>3 DEF Counted
  <2>5. less[id] = Cardinality(Slots(after, id))
    <3>1. Slots(after, id) = Slots(base, id) \ {i} BY <1>1, <2>s, <2>2, SlotsChange
    <3>2. Cardinality(Slots(after, id)) = Cardinality(Slots(base, id)) - 1
      BY <1>3, <2>1, <3>1, FS_RemoveElement
    <3> QED BY <1>4, <2>4, <3>2
  <2>6. ASSUME NEW other \in Changing, other # id
        PROVE  less[other] = Cardinality(Slots(after, other))
    <3>1. other # 0 BY ChangingType
    <3>2. Slots(after, other) = Slots(base, other) \ {i}
      BY <1>1, <2>s, <2>2, <3>1, <2>6, SlotsChange
    <3>3. i \notin Slots(base, other) BY <2>1, <2>6 DEF Slots
    <3>4. Slots(after, other) = Slots(base, other) BY <3>2, <3>3
    <3> QED BY <2>4, <2>6, <3>4 DEF Counts
  <2> HIDE DEF less, after
  <2>7. Counts(after, less) BY <1>2, <2>4, <2>5, <2>6 DEF Counts
  <2> QED BY <2>3, <2>7 DEF less, after
<1> QED BY <1>6, <1>7

BaseInv == Counts(ebase, ecount) /\ Counts(dbase, dcount)

LEMMA BaseInit == Init => BaseInv
<1> SUFFICES ASSUME Init PROVE BaseInv OBVIOUS
<1>1. ebase = Handlers /\ dbase = Handlers BY DEF Init, EncInit, DecInit
<1>2. ecount = InBase /\ dcount = InBase BY DEF Init
<1>3. Handlers \in Bases BY StreamAssumption DEF Bases
<1>4. ASSUME NEW id \in Changing
      PROVE  InBase[id] = Cardinality(Slots(Handlers, id)) /\ InBase[id] \in Nat
  <2>1. InBase[id] = Cardinality(Slots(Handlers, id)) BY DEF InBase, Slots
  <2> QED BY <1>3, <2>1, SlotsFinite
<1>5. InBase \in [Changing -> Nat]
  <2>1. InBase = [id \in Changing |-> InBase[id]] BY DEF InBase
  <2> QED BY <1>4, <2>1
<1> QED BY <1>1, <1>2, <1>3, <1>4, <1>5 DEF BaseInv, Counts

LEMMA BaseStep == BaseInv /\ [Next]_vars => BaseInv'
<1> SUFFICES ASSUME BaseInv, [Next]_vars PROVE BaseInv' OBVIOUS
<1>1. CASE UNCHANGED <<ebase, dbase, ecount, dcount>>
  BY <1>1 DEF BaseInv, Counts
<1>2. ASSUME NEW id \in Changing, ChangeEncoders(id) PROVE BaseInv'
  BY <1>2, RegisteredCounts, UnregisteredCounts DEF BaseInv, ChangeEncoders
<1>3. ASSUME NEW id \in Changing, ChangeDecoders(id) PROVE BaseInv'
  BY <1>3, RegisteredCounts, UnregisteredCounts DEF BaseInv, ChangeDecoders
<1>4. CASE Encode BY <1>4, <1>1 DEF Encode, EncNext, decVars, baseVars
<1>5. CASE Deliver BY <1>5, <1>1 DEF Deliver, encVars, baseVars
<1>6. CASE Call BY <1>6, <1>1 DEF Call, encVars, baseVars
<1>7. CASE Decode BY <1>7, <1>1 DEF Decode, DecNext, encVars, baseVars
<1>8. CASE ChangeHandlers BY <1>2, <1>3, <1>8 DEF ChangeHandlers
<1>9. CASE UNCHANGED vars BY <1>9, <1>1 DEF vars, encVars, decVars, baseVars
<1> QED BY <1>4, <1>5, <1>6, <1>7, <1>8, <1>9 DEF Next

\* glme_base_find finds exactly the types that were registered more often than they were
\* unregistered, in a table of any size that starts with any holes and duplicates.
THEOREM LookupsFind == Spec => []HandlersFound
<1>1. BaseInv => HandlersFound BY CountsFind DEF BaseInv, HandlersFound
<1> QED BY BaseInit, BaseStep, <1>1, PTL DEF Spec

(***************************************************************************)
(* The encoder: what it writes are bytes, and its distances fit one.       *)
(***************************************************************************)

Byte == 0..127

EncFrames ==
  [typeid : DOMAIN EncFields, value : UNION {Structures[t] : t \in DOMAIN EncFields},
   fld : Nat, delta : Nat]

\* A frame is in a field or behind the last one, and the last field sent is not
\* farther away than the start of the structure.
EncFrameOK(f) ==
  /\ f.value \in Structures[f.typeid]
  /\ f.fld \in 1..(Len(EncFields[f.typeid]) + 1)
  /\ f.delta \in 1..f.fld

InFieldE(f) == f.fld <= Len(EncFields[f.typeid])

\* All frames below the top wait in a field for the structure it holds.
EncStackOK(s) ==
  /\ s \in Seq(EncFrames)
  /\ \A i \in 1..Len(s) : EncFrameOK(s[i]) /\ (i < Len(s) => InFieldE(s[i]))

LEMMA ByteIs == \A n \in Nat : n <= 127 => n \in 0..127
OBVIOUS

\* The fields of a structure and its values, as the assumptions give them.
LEMMA EncFieldType ==
  ASSUME NEW t \in DOMAIN EncFields
  PROVE  /\ Len(EncFields[t]) \in 0..127
         /\ \A i \in 1..Len(EncFields[t]) :
              /\ EncFields[t][i] \in Fields
              /\ IsStruct(EncFields[t][i]) => EncFields[t][i].typeid \in DOMAIN EncFields
         /\ \A v \in Structures[t] : \A i \in 1..Len(EncFields[t]) :
              HasType(EncFields[t][i], v[i])
<1>1. EncFields[t] \in Seq(Fields) /\ Len(EncFields[t]) <= 127
      /\ \A i \in 1..Len(EncFields[t]) :
           IsStruct(EncFields[t][i]) => EncFields[t][i].typeid \in DOMAIN EncFields
  BY StreamAssumption
<1>2. Len(EncFields[t]) \in 0..127
  <2>1. Len(EncFields[t]) \in Nat BY <1>1, LenProperties
  <2>2. Len(EncFields[t]) <= 127 BY <1>1
  <2> QED BY <2>1, <2>2, ByteIs
<1>3. \A i \in 1..Len(EncFields[t]) : EncFields[t][i] \in Fields BY <1>1, ElementOfSeq
<1>4. ASSUME NEW v \in Structures[t] PROVE \A i \in 1..Len(EncFields[t]) : HasType(EncFields[t][i], v[i])
  <2>1. Len(v) = Len(EncFields[t]) /\ \A i \in 1..Len(v) : HasType(EncFields[t][i], v[i])
    BY MessagesAssumption
  <2> QED BY <2>1
<1> QED BY <1>1, <1>2, <1>3, <1>4

LEMMA FieldType ==
  ASSUME NEW f \in Fields
  PROVE  /\ f.kind \in {"scalar", "vector", "string", "array", "fixed", "block", "struct", "pointer"}
         /\ f.typeid \in 1..63 /\ f.size \in Nat
         /\ TypeMark(f.typeid) \in Byte
<1>1. f.kind \in {"scalar", "vector", "string", "array", "fixed", "block", "struct", "pointer"}
      /\ f.typeid \in 1..63 /\ f.size \in Nat
  BY DEF Fields
<1>2. TypeMark(f.typeid) \in Byte BY <1>1 DEF TypeMark, Zigzag, Byte
<1> QED BY <1>1, <1>2

\* What is written for a value are bytes.
LEMMA ElementType ==
  ASSUME NEW f \in Fields, NEW v, HasType(f, v), ~ IsStruct(f)
  PROVE  Element(f, v) \in Seq(Byte)
<1>1. TypeMark(f.typeid) \in Byte BY FieldType
<1>2. CASE f.kind = "scalar"
  <2>1. ToByte(f.typeid, v) \in Byte BY <1>2 DEF HasType, Byte
  <2>2. Element(f, v) = <<TypeMark(f.typeid), ToByte(f.typeid, v)>> BY <1>2 DEF Element
  <2> QED BY <1>1, <2>1, <2>2
<1>3. CASE f.kind \in {"vector", "string"}
  <2>1. v \in Seq(Byte) /\ Len(v) \in Byte
    <3>1. v \in Seq(0..127) /\ Len(v) <= 127 BY <1>3 DEF HasType
    <3>2. Len(v) \in Nat BY <3>1, LenProperties
    <3>3. Len(v) \in 0..127 BY <3>1, <3>2, ByteIs
    <3> QED BY <3>1, <3>3 DEF Byte
  <2>2. Element(f, v) = <<TypeMark(f.typeid), Len(v)>> \o v BY <1>3 DEF Element
  <2>3. <<TypeMark(f.typeid), Len(v)>> \in Seq(Byte) BY <1>1, <2>1
  <2> QED BY <2>1, <2>2, <2>3, ConcatProperties
<1>4. CASE f.kind \in {"array", "fixed", "block"}
  <2>1. v \in Seq(Int) /\ Len(v) \in Byte /\ \A i \in 1..Len(v) : ToByte(f.typeid, v[i]) \in Byte
    <3>1. v \in Seq(Int) /\ Len(v) <= 127 /\ \A i \in 1..Len(v) : ToByte(f.typeid, v[i]) \in 0..127
      BY <1>4 DEF HasType
    <3>2. Len(v) \in Nat BY <3>1, LenProperties
    <3>3. Len(v) \in 0..127 BY <3>1, <3>2, ByteIs
    <3> QED BY <3>1, <3>3 DEF Byte
  <2> DEFINE head == <<TypeMark(GLME_ARRAY), TypeMark(f.typeid), Len(v)>>
  <2> DEFINE tail == Elements(f.typeid, v)
  <2>2. Element(f, v) = head \o tail BY <1>4 DEF Element
  <2>3. TypeMark(GLME_ARRAY) \in Byte BY DEF TypeMark, Zigzag, GLME_ARRAY, Byte
  <2>4. head \in Seq(Byte) BY <1>1, <2>1, <2>3
  <2>5. tail \in Seq(Byte)
    <3>0. Len(v) \in 0..127 BY <2>1 DEF Byte
    <3>1. Len(v) \in Nat BY <3>0
    <3>2. tail = [i \in 1..Len(v) |-> ToByte(f.typeid, v[i])] BY DEF Elements
    <3>3. \A i \in 1..Len(v) : ToByte(f.typeid, v[i]) \in Byte BY <2>1
    <3> HIDE DEF tail
    <3> QED BY <3>1, <3>2, <3>3
  <2> HIDE DEF head, tail
  <2> QED BY <2>2, <2>4, <2>5, ConcatProperties
<1> QED BY <1>2, <1>3, <1>4, FieldType DEF IsStruct

\* The top of the stack.
LEMMA EncTop ==
  ASSUME NEW s, EncStackOK(s), s # <<>>
  PROVE  /\ Len(s) \in Nat \ {0} /\ Last(s) = s[Len(s)] /\ Last(s) \in EncFrames
         /\ EncFrameOK(Last(s))
<1>1. s \in Seq(EncFrames) BY DEF EncStackOK
<1>2. Len(s) \in Nat \ {0} BY <1>1, EmptySeq
<1>3. Len(s) \in 1..Len(s) BY <1>2
<1>4. s[Len(s)] \in EncFrames BY <1>1, <1>3, ElementOfSeq
<1> QED BY <1>2, <1>3, <1>4 DEF EncStackOK, Last

\* The next field: the distance grows by one at most.
LEMMA EncNextOK ==
  ASSUME NEW s, EncStackOK(s), s # <<>>, InFieldE(Last(s)),
         NEW d \in 1..(Last(s).fld + 1)
  PROVE  EncStackOK(ENext(s, d)) /\ ENext(s, d) # <<>>
<1> DEFINE n == Len(s)
<1> DEFINE f == s[n]
<1> DEFINE g == [f EXCEPT !.fld = f.fld + 1, !.delta = d]
<1> DEFINE after == ENext(s, d)
<1>1. s \in Seq(EncFrames) /\ n \in Nat \ {0} /\ Last(s) = f /\ f \in EncFrames /\ EncFrameOK(f)
  BY EncTop DEF EncStackOK
<1>5. after = [s EXCEPT ![n] = g] BY <1>1 DEF ENext
<1>s. d \in 1..(f.fld + 1) BY <1>1
<1> HIDE DEF f
<1>2. Len(EncFields[f.typeid]) \in 0..127 BY <1>1, EncFieldType DEF EncFrames
<1>3. g \in EncFrames /\ g.typeid = f.typeid /\ g.value = f.value /\ g.fld = f.fld + 1 /\ g.delta = d
  <2>1. f.fld + 1 \in Nat /\ d \in Nat BY <1>1, <1>s DEF EncFrames
  <2> QED BY <1>1, <2>1 DEF EncFrames
<1>4. EncFrameOK(g) BY <1>1, <1>2, <1>3, <1>s DEF EncFrameOK, InFieldE
<1> HIDE DEF g, after
<1>6. after \in Seq(EncFrames) /\ Len(after) = n /\ after[n] = g
      /\ \A i \in 1..n : i # n => after[i] = s[i]
  BY <1>1, <1>3, <1>5
<1>7. EncStackOK(after)
  <2>1. ASSUME NEW i \in 1..Len(after)
        PROVE  EncFrameOK(after[i]) /\ (i < Len(after) => InFieldE(after[i]))
    <3>1. CASE i = n BY <1>1, <1>4, <1>6, <3>1
    <3>2. CASE i # n
      <4>1. i \in 1..n /\ i < n /\ after[i] = s[i] BY <1>1, <1>6, <3>2
      <4> QED BY <4>1 DEF EncStackOK
    <3> QED BY <3>1, <3>2
  <2> QED BY <1>6, <2>1 DEF EncStackOK
<1>8. after # <<>> BY <1>1, <1>6, EmptySeq
<1> QED BY <1>7, <1>8 DEF after

\* A structure inside a structure.
LEMMA EncPushOK ==
  ASSUME NEW s, EncStackOK(s), s # <<>> => InFieldE(Last(s)),
         NEW t \in DOMAIN EncFields, NEW v \in Structures[t]
  PROVE  EncStackOK(Append(s, EncoderFrame(t, v)))
<1> DEFINE g == EncoderFrame(t, v)
<1> DEFINE after == Append(s, g)
<1>1. s \in Seq(EncFrames) BY DEF EncStackOK
<1>2. g \in EncFrames BY DEF EncoderFrame, EncFrames
<1>3. Len(EncFields[t]) \in 0..127 BY EncFieldType
<1>4. EncFrameOK(g) BY <1>3 DEF EncoderFrame, EncFrameOK
<1> HIDE DEF g
<1>5. after \in Seq(EncFrames) /\ Len(after) = Len(s) + 1 /\ after[Len(s) + 1] = g
      /\ \A i \in 1..Len(s) : after[i] = s[i]
  BY <1>1, <1>2, AppendProperties
<1>6. Len(s) \in Nat BY <1>1, LenProperties
<1> HIDE DEF after
<1>7. ASSUME NEW i \in 1..Len(after)
      PROVE  EncFrameOK(after[i]) /\ (i < Len(after) => InFieldE(after[i]))
  <2>1. CASE i = Len(s) + 1 BY <1>4, <1>5, <1>6, <2>1
  <2>2. CASE i = Len(s)
    <3>1. i \in 1..Len(s) /\ s # <<>> /\ Last(s) = s[i] BY <1>1, <1>6, <2>2, EmptySeq DEF Last
    <3>2. EncFrameOK(s[i]) BY <3>1 DEF EncStackOK
    <3> QED BY <1>5, <3>1, <3>2
  <2>3. CASE i < Len(s)
    <3>1. i \in 1..Len(s) BY <1>6, <2>3
    <3> QED BY <1>5, <2>3, <3>1 DEF EncStackOK
  <2> QED BY <1>5, <1>6, <2>1, <2>2, <2>3
<1> QED BY <1>5, <1>7 DEF EncStackOK, after, g

\* The return from a structure to the one around it.
LEMMA EncPopOK ==
  ASSUME NEW s, EncStackOK(s), s # <<>>, Len(s) # 1
  PROVE  EncStackOK(Front(s)) /\ Front(s) # <<>> /\ InFieldE(Last(Front(s)))
<1> DEFINE f == Front(s)
<1>1. s \in Seq(EncFrames) BY DEF EncStackOK
<1>2. Len(s) \in Nat \ {0} /\ f \in Seq(EncFrames) /\ Len(f) = Len(s) - 1 /\ s = Append(f, Last(s))
      /\ Last(s) \in EncFrames
  BY <1>1, FrontLast
<1> HIDE DEF f
<1>3. \A i \in 1..Len(f) : s[i] = f[i] BY <1>2, AppendProperties
<1>4. \A i \in 1..Len(f) : i \in 1..Len(s) /\ i < Len(s) BY <1>2
<1>5. \A i \in 1..Len(f) : EncFrameOK(f[i]) /\ InFieldE(f[i]) BY <1>3, <1>4 DEF EncStackOK
<1>6. Len(f) \in Nat \ {0} /\ Len(f) \in 1..Len(f) BY <1>2
<1>7. f # <<>> BY <1>2, <1>6, EmptySeq
<1> QED BY <1>2, <1>5, <1>6, <1>7 DEF EncStackOK, Last, f

\* A sequence with one element replaced.
LEMMA Replaced ==
  ASSUME NEW S, NEW s \in Seq(S), NEW i \in 1..Len(s), NEW e \in S
  PROVE  [s EXCEPT ![i] = e] \in Seq(S)
OBVIOUS

SentRecords == [msg : Messages, at : Nat, end : Nat]

\* The bytes are bytes, the stack of encoder functions is in order, and the message on
\* it is the last one that was started.
EncInv ==
  /\ stream \in Seq(Byte)
  /\ enc \in {"open", "failed"}
  /\ EncStackOK(estack)
  /\ sent \in Seq(SentRecords)
  /\ enc = "failed" => estack = <<>>
  /\ estack # <<>> => sent # <<>>

LEMMA EncEmptyOK == EncStackOK(<<>>)
<1>1. <<>> \in Seq(EncFrames) /\ Len(<<>>) = 0 BY EmptySeq
<1>2. \A i \in 1..0 : FALSE OBVIOUS
<1> QED BY <1>1, <1>2 DEF EncStackOK

\* What is known of the field and the value at the top of the stack.
LEMMA EncFieldIs ==
  ASSUME EncInv, InEncField
  PROVE  /\ InFieldE(Last(estack))
         /\ EField \in Fields /\ HasType(EField, EValue)
         /\ IsStruct(EField) => EField.typeid \in DOMAIN EncFields
         /\ ETop.delta \in Byte \ {0} /\ ETop.delta <= ETop.fld /\ ETop.fld \in Nat
         /\ EncStackOK(estack) /\ estack # <<>> /\ sent # <<>>
<1> DEFINE f == Last(estack)
<1>1. EncStackOK(estack) /\ estack # <<>> BY DEF EncInv, InEncField
<1>2. f \in EncFrames /\ EncFrameOK(f) BY <1>1, EncTop
<1>3. ETop = f BY DEF ETop
<1>4. f.fld <= Len(EncFields[f.typeid]) BY <1>3 DEF InEncField, EFields
<1>5. EField = EncFields[f.typeid][f.fld] /\ EValue = f.value[f.fld]
  BY <1>3 DEF EField, EFields, EValue
<1> HIDE DEF f
<1>6. f.typeid \in DOMAIN EncFields /\ f.value \in Structures[f.typeid] /\ f.fld \in Nat \ {0}
      /\ f.delta \in 1..f.fld
  BY <1>2 DEF EncFrames, EncFrameOK
<1>7. Len(EncFields[f.typeid]) \in 0..127 BY <1>6, EncFieldType
<1>8. f.fld \in 1..Len(EncFields[f.typeid]) BY <1>4, <1>6, <1>7
<1>9. EField \in Fields /\ HasType(EField, EValue)
      /\ (IsStruct(EField) => EField.typeid \in DOMAIN EncFields)
  BY <1>5, <1>6, <1>8, EncFieldType
<1>10. f.delta \in Byte \ {0} /\ f.delta <= f.fld
  <2> DEFINE n == Len(EncFields[f.typeid])
  <2>1. n \in 0..127 /\ f.fld <= n /\ f.delta \in 1..f.fld /\ f.fld \in Nat BY <1>4, <1>6, <1>7
  <2> HIDE DEF n
  <2> QED BY <2>1 DEF Byte
<1>11. sent # <<>> BY <1>1 DEF EncInv
<1> QED BY <1>1, <1>3, <1>4, <1>6, <1>9, <1>10, <1>11 DEF InFieldE, f

LEMMA EncStart ==
  ASSUME EncInv, NEW m \in Messages, EncodeStruct(m)
  PROVE  EncInv'
<1>0. stream \in Seq(Byte) /\ sent \in Seq(SentRecords) /\ estack = <<>>
  BY DEF EncInv, EncodeStruct
<1>1. m.typeid \in DOMAIN EncFields /\ m.value \in Structures[m.typeid] BY MessagesAssumption
<1>2. CASE m.named \/ HasHandler(ebase, m.typeid)
  <2> DEFINE r == [msg |-> m, at |-> Len(stream), end |-> 0]
  <2>1. stream' = Append(stream, TypeMark(m.typeid)) /\ estack' = <<EncoderFrame(m.typeid, m.value)>>
        /\ enc' = enc /\ sent' = Append(sent, r)
    BY <1>2 DEF EncodeStruct
  <2>2. m.typeid \in 1..63 BY <1>1, StreamAssumption
  <2>3. TypeMark(m.typeid) \in Byte BY <2>2 DEF TypeMark, Zigzag, Byte
  <2>4. stream' \in Seq(Byte) BY <1>0, <2>1, <2>3, AppendProperties
  <2>5. r \in SentRecords BY <1>0, LenProperties DEF SentRecords
  <2> HIDE DEF r
  <2>6. sent' \in Seq(SentRecords) /\ sent' # <<>> BY <1>0, <2>1, <2>5, AppendProperties
  <2>7. EncStackOK(Append(<<>>, EncoderFrame(m.typeid, m.value)))
    BY <1>1, EncEmptyOK, EncPushOK
  <2>8. Append(<<>>, EncoderFrame(m.typeid, m.value)) = <<EncoderFrame(m.typeid, m.value)>>
    OBVIOUS
  <2>9. EncStackOK(estack') BY <2>1, <2>7, <2>8
  <2>10. enc' = "open" BY <2>1 DEF EncodeStruct
  <2> QED BY <2>4, <2>6, <2>9, <2>10 DEF EncInv
<1>3. CASE ~ (m.named \/ HasHandler(ebase, m.typeid))
  <2>1. enc' = "failed" /\ UNCHANGED <<stream, estack, sent>> BY <1>3 DEF EncodeStruct
  <2> QED BY <1>0, <2>1 DEF EncInv
<1> QED BY <1>2, <1>3

LEMMA EncOmit ==
  ASSUME EncInv, EncodeOmitted
  PROVE  EncInv'
<1>1. InEncField BY DEF EncodeOmitted
<1>2. ETop = Last(estack) BY DEF ETop
<1>3. InFieldE(Last(estack)) /\ Last(estack).delta + 1 \in 1..(Last(estack).fld + 1)
      /\ EncStackOK(estack) /\ estack # <<>> /\ sent # <<>>
  <2>1. InFieldE(Last(estack)) /\ EncStackOK(estack) /\ estack # <<>> /\ sent # <<>>
    BY <1>1, EncFieldIs
  <2>2. Last(estack).delta \in 0..127 /\ Last(estack).delta <= Last(estack).fld
        /\ Last(estack).fld \in Nat
    BY <1>1, <1>2, EncFieldIs DEF Byte
  <2> DEFINE d == Last(estack).delta
  <2> DEFINE n == Last(estack).fld
  <2>3. d + 1 \in 1..(n + 1)
    <3> HIDE DEF d, n
    <3>1. d \in 0..127 /\ d <= n /\ n \in Nat BY <2>2 DEF d, n
    <3> QED BY <3>1
  <2> QED BY <2>1, <2>3
<1>4. estack' = ENext(estack, Last(estack).delta + 1) /\ UNCHANGED <<stream, enc, sent>>
  BY <1>2 DEF EncodeOmitted
<1>5. EncStackOK(estack') BY <1>3, <1>4, EncNextOK
<1> QED BY <1>1, <1>3, <1>4, <1>5 DEF EncInv, InEncField

LEMMA EncElement ==
  ASSUME EncInv, EncodeElement
  PROVE  EncInv'
<1>1. InEncField BY DEF EncodeElement
<1>2. ETop = Last(estack) BY DEF ETop
<1>3. InFieldE(Last(estack)) /\ 1 \in 1..(Last(estack).fld + 1)
      /\ EncStackOK(estack) /\ estack # <<>> /\ sent # <<>>
  BY <1>1, <1>2, EncFieldIs
<1>4. estack' = ENext(estack, 1) /\ UNCHANGED <<enc, sent>> BY DEF EncodeElement
<1>5. EncStackOK(estack') BY <1>3, <1>4, EncNextOK
<1>6. stream' \in Seq(Byte)
  <2>1. ETop.delta \in Byte BY <1>1, EncFieldIs
  <2>2. Element(EField, EValue) \in Seq(Byte)
    BY <1>1, EncFieldIs, ElementType DEF EncodeElement
  <2>3. Append(stream, ETop.delta) \in Seq(Byte) BY <2>1, AppendProperties DEF EncInv
  <2>4. stream' = Append(stream, ETop.delta) \o Element(EField, EValue) BY DEF EncodeElement
  <2> QED BY <2>2, <2>3, <2>4, ConcatProperties
<1> QED BY <1>1, <1>3, <1>4, <1>5, <1>6 DEF EncInv, InEncField

LEMMA EncStructField ==
  ASSUME EncInv, EncodeStructField
  PROVE  EncInv'
<1>1. InEncField /\ IsStruct(EField) /\ ~ Omitted(EField, EValue) BY DEF EncodeStructField
<1>2. EField \in Fields /\ HasType(EField, EValue) /\ EField.typeid \in DOMAIN EncFields
      /\ ETop.delta \in Byte /\ InFieldE(Last(estack)) /\ EncStackOK(estack)
      /\ estack # <<>> /\ sent # <<>>
  BY <1>1, EncFieldIs
<1>3. EValue \in Structures[EField.typeid]
  <2>1. EField.kind \in {"struct", "pointer"} BY <1>1 DEF IsStruct
  <2>2. EValue # <<>> BY <1>1, <2>1 DEF Omitted
  <2> QED BY <1>2, <2>1, <2>2 DEF HasType
<1>4. TypeMark(EField.typeid) \in Byte BY <1>2, FieldType
<1>5. stream \in Seq(Byte) /\ sent \in Seq(SentRecords) /\ enc \in {"open", "failed"} BY DEF EncInv
<1>6. CASE EField.named \/ HasHandler(ebase, EField.typeid)
  <2>1. stream' = stream \o <<ETop.delta, TypeMark(EField.typeid)>>
        /\ estack' = Append(estack, EncoderFrame(EField.typeid, EValue))
        /\ enc' = enc /\ sent' = sent
    BY <1>6 DEF EncodeStructField
  <2>2. <<ETop.delta, TypeMark(EField.typeid)>> \in Seq(Byte) BY <1>2, <1>4
  <2>3. stream' \in Seq(Byte) BY <1>5, <2>1, <2>2, ConcatProperties
  <2>4. EncStackOK(estack') BY <1>2, <1>3, <2>1, EncPushOK
  <2>5. enc' = "open" BY <1>1, <2>1 DEF InEncField
  <2> QED BY <1>2, <1>5, <2>1, <2>3, <2>4, <2>5 DEF EncInv
<1>7. CASE ~ (EField.named \/ HasHandler(ebase, EField.typeid))
  <2>1. stream' = Append(stream, ETop.delta) /\ estack' = <<>> /\ enc' = "failed"
        /\ sent' = Front(sent)
    BY <1>7 DEF EncodeStructField
  <2>2. stream' \in Seq(Byte) BY <1>2, <1>5, <2>1, AppendProperties
  <2>3. sent' \in Seq(SentRecords) BY <1>2, <1>5, <2>1, FrontLast
  <2> QED BY <2>1, <2>2, <2>3, EncEmptyOK DEF EncInv
<1> QED BY <1>6, <1>7

LEMMA EncEnd ==
  ASSUME EncInv, EncodeEndStruct
  PROVE  EncInv'
<1>1. stream \in Seq(Byte) /\ sent \in Seq(SentRecords) /\ sent # <<>> /\ EncStackOK(estack)
      /\ estack # <<>> /\ enc = "open" /\ enc' = "open"
  BY DEF EncInv, EncodeEndStruct
<1>2. stream' \in Seq(Byte)
  <2>1. stream' = Append(stream, 0) /\ 0 \in Byte BY DEF EncodeEndStruct, Byte
  <2> QED BY <1>1, <2>1, AppendProperties
<1>3. CASE Len(estack) = 1
  <2>1. estack' = <<>> BY <1>3 DEF EncodeEndStruct
  <2> DEFINE n == Len(sent)
  <2> DEFINE e == Len(stream) + 1
  <2>2. sent' = [sent EXCEPT ![n].end = e] BY <1>3 DEF EncodeEndStruct
  <2>3. n \in 1..n BY <1>1, EmptySeq
  <2>4. e \in Nat BY <1>1, LenProperties
  <2>5. sent[n] \in SentRecords BY <1>1, <2>3, ElementOfSeq
  <2> HIDE DEF n, e
  <2>6. [sent[n] EXCEPT !.end = e] \in SentRecords BY <2>4, <2>5 DEF SentRecords
  <2>7. sent' = [sent EXCEPT ![n] = [sent[n] EXCEPT !.end = e]] BY <2>2
  <2>8. sent' \in Seq(SentRecords)
    <3> DEFINE r == [sent[n] EXCEPT !.end = e]
    <3>1. r \in SentRecords BY <2>6
    <3>2. sent' = [sent EXCEPT ![n] = r] BY <2>7
    <3>3. n \in 1..Len(sent) BY <2>3 DEF n
    <3> HIDE DEF r
    <3> QED BY <1>1, <3>1, <3>2, <3>3, Replaced
  <2> QED BY <1>1, <1>2, <2>1, <2>8, EncEmptyOK DEF EncInv
<1>4. CASE Len(estack) # 1
  <2>1. estack' = ENext(Front(estack), 1) /\ sent' = sent BY <1>4 DEF EncodeEndStruct
  <2> DEFINE f == Front(estack)
  <2>2. EncStackOK(f) /\ f # <<>> /\ InFieldE(Last(f)) BY <1>1, <1>4, EncPopOK
  <2> HIDE DEF f
  <2>3. 1 \in 1..(Last(f).fld + 1)
    <3>1. Last(f) \in EncFrames BY <2>2, EncTop
    <3>2. Last(f).fld \in Nat BY <3>1 DEF EncFrames
    <3> QED BY <3>2
  <2>4. EncStackOK(ENext(f, 1)) BY <2>2, <2>3, EncNextOK
  <2> QED BY <1>1, <1>2, <2>1, <2>4 DEF EncInv, f
<1> QED BY <1>3, <1>4

LEMMA EncStep ==
  ASSUME EncInv, EncNext
  PROVE  EncInv'
<1>1. CASE \E m \in Messages : EncodeStruct(m) BY <1>1, EncStart
<1>2. CASE EncodeOmitted BY <1>2, EncOmit
<1>3. CASE EncodeElement BY <1>3, EncElement
<1>4. CASE EncodeStructField BY <1>4, EncStructField
<1>5. CASE EncodeEndStruct BY <1>5, EncEnd
<1> QED BY <1>1, <1>2, <1>3, <1>4, <1>5 DEF EncNext

(***************************************************************************)
(* Sums of numbers.                                                        *)
(***************************************************************************)

Sums(c, s) ==
  /\ s \in [0..Len(c) -> Nat]
  /\ s[0] = 0
  /\ \A k \in 1..Len(c) : s[k] = s[k - 1] + c[k]

\* The total is the last of the sums.
LEMMA TotalIs ==
  ASSUME NEW c \in Seq(Nat)
  PROVE  \E s : Sums(c, s) /\ Total(c) = s[Len(c)]
<1> DEFINE m == Len(c)
<1>1. m \in Nat BY LenProperties
<1>2. \A k \in 1..m : c[k] \in Nat BY ElementOfSeq
<1> HIDE DEF m
<1> DEFINE H == [p \in Nat \X Nat |-> IF p[1] \in 1..m THEN p[2] + c[p[1]] ELSE p[2]]
<1>3. H \in [Nat \X Nat -> Nat] BY <1>2
<1>4. PICK f \in [Nat -> Nat] : Recursion(f, 0, H)
  <2> HIDE DEF H
  <2> QED BY <1>3, RecursiveFunction
<1>5. f[0] = 0 /\ \A n \in Nat \ {0} : f[n] = H[<<n, f[n - 1]>>]
  <2> HIDE DEF H
  <2> QED BY <1>4 DEF Recursion
<1>6. ASSUME NEW n \in 1..m PROVE f[n] = f[n - 1] + c[n]
  <2>1. n \in Nat \ {0} /\ n - 1 \in Nat BY <1>1
  <2>2. f[n] = H[<<n, f[n - 1]>>]
    <3> HIDE DEF H
    <3> QED BY <1>5, <2>1
  <2> QED BY <2>1, <2>2
<1> HIDE DEF H
<1> DEFINE Eq(g) == g = [n \in 0..m |-> IF n = 0 THEN 0 ELSE g[n - 1] + c[n]]
<1> DEFINE h == [n \in 0..m |-> f[n]]
<1>7. Eq(h)
  <2>1. ASSUME NEW n \in 0..m PROVE h[n] = IF n = 0 THEN 0 ELSE h[n - 1] + c[n]
    <3>1. CASE n = 0 BY <1>5, <3>1
    <3>2. CASE n # 0
      <4>1. n \in 1..m /\ n - 1 \in 0..m BY <1>1, <3>2
      <4> QED BY <1>6, <3>2, <4>1
    <3> QED BY <3>1, <3>2
  <2>2. h = [n \in 0..m |-> h[n]] OBVIOUS
  <2> HIDE DEF h
  <2> QED BY <2>1, <2>2
<1> DEFINE s == CHOOSE g : Eq(g)
<1>8. Eq(s)
  <2> HIDE DEF Eq, h
  <2> QED BY <1>7
<1>9. Total(c) = s[m] BY DEF Total, m
<1> HIDE DEF s, h
<1>10. s[0] = 0 /\ \A k \in 1..m : s[k] = s[k - 1] + c[k]
  <2>1. 0 \in 0..m /\ \A k \in 1..m : k \in 0..m /\ k # 0 BY <1>1
  <2> QED BY <1>8, <2>1
<1>11. s = [n \in 0..m |-> s[n]] BY <1>8
<1> DEFINE T == {n \in Nat : n <= m => s[n] \in Nat}
<1>12. 0 \in T BY <1>10
<1>13. ASSUME NEW n \in Nat, n \in T PROVE n + 1 \in T
  <2> SUFFICES ASSUME n + 1 <= m PROVE s[n + 1] \in Nat OBVIOUS
  <2>1. n + 1 \in 1..m /\ n <= m /\ (n + 1) - 1 = n BY <1>1
  <2>2. s[n] \in Nat BY <1>13, <2>1
  <2>3. s[n + 1] = s[n] + c[n + 1] BY <1>10, <2>1
  <2>4. c[n + 1] \in Nat BY <1>2, <2>1
  <2> DEFINE x == s[n]
  <2> DEFINE y == c[n + 1]
  <2>5. x + y \in Nat
    <3>1. x \in Nat /\ y \in Nat BY <2>2, <2>4
    <3> HIDE DEF x, y
    <3> QED BY <3>1
  <2> QED BY <2>3, <2>5
<1>14. Nat \subseteq T
  <2> HIDE DEF T
  <2> QED BY <1>12, <1>13, SetInduction
<1>15. \A n \in 0..m : s[n] \in Nat BY <1>1, <1>14
<1>16. s \in [0..m -> Nat] BY <1>11, <1>15
<1> QED BY <1>9, <1>10, <1>16 DEF Sums, m

LEMMA TotalType ==
  ASSUME NEW c \in Seq(Nat)
  PROVE  Total(c) \in Nat
<1>1. PICK s : Sums(c, s) /\ Total(c) = s[Len(c)] BY TotalIs
<1>2. Len(c) \in 0..Len(c)
  <2>1. Len(c) \in Nat BY LenProperties
  <2> QED BY <2>1
<1> QED BY <1>1, <1>2 DEF Sums

LEMMA TotalEmpty == Total(<<>>) = 0
<1>1. <<>> \in Seq(Nat) /\ Len(<<>>) = 0 BY EmptySeq
<1>2. PICK s : Sums(<<>>, s) /\ Total(<<>>) = s[Len(<<>>)] BY <1>1, TotalIs
<1> QED BY <1>1, <1>2 DEF Sums

\* The total of one number more.
LEMMA TotalAppend ==
  ASSUME NEW c \in Seq(Nat), NEW x \in Nat
  PROVE  Total(Append(c, x)) = Total(c) + x
<1> DEFINE a == Append(c, x)
<1> DEFINE m == Len(c)
<1>1. a \in Seq(Nat) /\ Len(a) = m + 1 /\ a[m + 1] = x /\ \A i \in 1..m : a[i] = c[i]
  BY AppendProperties
<1>2. m \in Nat BY LenProperties
<1> HIDE DEF a, m
<1>3. PICK s : Sums(c, s) /\ Total(c) = s[m] BY TotalIs DEF m
<1>4. PICK t : Sums(a, t) /\ Total(a) = t[m + 1] BY <1>1, TotalIs
<1>5. s[0] = 0 /\ (\A k \in 1..m : s[k] = s[k - 1] + c[k]) /\ s \in [0..m -> Nat]
  BY <1>3 DEF Sums, m
<1>6. t[0] = 0 /\ (\A k \in 1..(m + 1) : t[k] = t[k - 1] + a[k]) BY <1>1, <1>4 DEF Sums
<1> DEFINE T == {n \in Nat : n <= m => t[n] = s[n]}
<1>7. 0 \in T BY <1>5, <1>6
<1>8. ASSUME NEW n \in Nat, n \in T PROVE n + 1 \in T
  <2> SUFFICES ASSUME n + 1 <= m PROVE t[n + 1] = s[n + 1] OBVIOUS
  <2>1. n + 1 \in 1..m /\ n + 1 \in 1..(m + 1) /\ n <= m /\ (n + 1) - 1 = n BY <1>2
  <2>2. t[n] = s[n] BY <1>8, <2>1
  <2>3. s[n + 1] = s[n] + c[n + 1] BY <1>5, <2>1
  <2>4. t[n + 1] = t[n] + a[n + 1] BY <1>6, <2>1
  <2>5. a[n + 1] = c[n + 1] BY <1>1, <2>1
  <2> QED BY <2>2, <2>3, <2>4, <2>5
<1>9. Nat \subseteq T
  <2> HIDE DEF T
  <2> QED BY <1>7, <1>8, SetInduction
<1>10. t[m] = s[m] BY <1>2, <1>9
<1>11. m + 1 \in 1..(m + 1) /\ (m + 1) - 1 = m BY <1>2
<1>12. t[m + 1] = t[m] + a[m + 1] BY <1>6, <1>11
<1> QED BY <1>1, <1>3, <1>4, <1>10, <1>12 DEF a

\* Numbers that are at most those of a third sequence, one by one, are so in total.
LEMMA TotalAtMost ==
  ASSUME NEW a \in Seq(Nat), NEW b \in Seq(Nat), NEW c \in Seq(Nat),
         Len(a) = Len(c), Len(b) = Len(c), \A i \in 1..Len(c) : a[i] + b[i] <= c[i]
  PROVE  Total(a) + Total(b) <= Total(c)
<1> DEFINE m == Len(c)
<1>1. m \in Nat BY LenProperties
<1>2. \A k \in 1..m : a[k] \in Nat /\ b[k] \in Nat /\ c[k] \in Nat BY ElementOfSeq
<1>3. PICK s : Sums(a, s) /\ Total(a) = s[m] BY TotalIs
<1>4. PICK t : Sums(b, t) /\ Total(b) = t[m] BY TotalIs
<1>5. PICK u : Sums(c, u) /\ Total(c) = u[m] BY TotalIs
<1>6. /\ s[0] = 0 /\ t[0] = 0 /\ u[0] = 0
      /\ \A n \in 0..m : s[n] \in Nat /\ t[n] \in Nat /\ u[n] \in Nat
      /\ \A k \in 1..m : s[k] = s[k - 1] + a[k]
      /\ \A k \in 1..m : t[k] = t[k - 1] + b[k]
      /\ \A k \in 1..m : u[k] = u[k - 1] + c[k]
  BY <1>3, <1>4, <1>5 DEF Sums
<1>7. \A i \in 1..m : a[i] + b[i] <= c[i] OBVIOUS
<1> HIDE DEF m
<1> DEFINE T == {n \in Nat : n <= m => s[n] + t[n] <= u[n]}
<1>8. 0 \in T BY <1>6
<1>9. ASSUME NEW n \in Nat, n \in T PROVE n + 1 \in T
  <2> SUFFICES ASSUME n + 1 <= m PROVE s[n + 1] + t[n + 1] <= u[n + 1] OBVIOUS
  <2>1. n + 1 \in 1..m /\ n \in 0..m /\ (n + 1) - 1 = n BY <1>1
  <2>2. s[n] + t[n] <= u[n] BY <1>9, <2>1
  <2>3. s[n + 1] = s[n] + a[n + 1] /\ t[n + 1] = t[n] + b[n + 1] /\ u[n + 1] = u[n] + c[n + 1]
    BY <1>6, <2>1
  <2>4. a[n + 1] + b[n + 1] <= c[n + 1] BY <1>7, <2>1
  <2>5. a[n + 1] \in Nat /\ b[n + 1] \in Nat /\ c[n + 1] \in Nat BY <1>2, <2>1
  <2>6. s[n] \in Nat /\ t[n] \in Nat /\ u[n] \in Nat BY <1>6, <2>1
  <2> DEFINE x == s[n]
  <2> DEFINE y == t[n]
  <2> DEFINE z == u[n]
  <2> DEFINE k == a[n + 1]
  <2> DEFINE l == b[n + 1]
  <2> DEFINE r == c[n + 1]
  <2>7. (x + k) + (y + l) <= z + r
    <3>1. x \in Nat /\ y \in Nat /\ z \in Nat /\ k \in Nat /\ l \in Nat /\ r \in Nat
          /\ x + y <= z /\ k + l <= r
      BY <2>2, <2>4, <2>5, <2>6
    <3> HIDE DEF x, y, z, k, l, r
    <3> QED BY <3>1
  <2> QED BY <2>3, <2>7
<1>10. Nat \subseteq T
  <2> HIDE DEF T
  <2> QED BY <1>8, <1>9, SetInduction
<1>11. s[m] + t[m] <= u[m] BY <1>1, <1>10
<1> QED BY <1>3, <1>4, <1>5, <1>11

(***************************************************************************)
(* The stack of decoder functions.                                         *)
(***************************************************************************)

\* Frames with decoded values from a set V.
DecFrames(V) ==
  [typeid : DOMAIN DecFields, fld : Nat, delta : Nat, out : Seq(V),
   owned : {0, 1}, holds : Nat]

\* One value has been decoded for every field the function has passed.
DecFrameOK(f) ==
  /\ f.fld \in 1..(Len(DecFields[f.typeid]) + 1)
  /\ Len(f.out) = f.fld - 1

InFieldD(f) == f.fld <= Len(DecFields[f.typeid])

DecStackOver(s, V) ==
  /\ s \in Seq(DecFrames(V))
  /\ \A i \in 1..Len(s) : DecFrameOK(s[i]) /\ (i < Len(s) => InFieldD(s[i]))

DecStackOK(s) == \E V : DecStackOver(s, V)

LEMMA DecFieldType ==
  ASSUME NEW t \in DOMAIN DecFields
  PROVE  /\ Len(DecFields[t]) \in 0..127
         /\ \A i \in 1..Len(DecFields[t]) :
              /\ DecFields[t][i] \in Fields
              /\ IsStruct(DecFields[t][i]) => DecFields[t][i].typeid \in DOMAIN DecFields
<1>1. DecFields[t] \in Seq(Fields) /\ Len(DecFields[t]) <= 127
      /\ \A i \in 1..Len(DecFields[t]) :
           IsStruct(DecFields[t][i]) => DecFields[t][i].typeid \in DOMAIN DecFields
  BY StreamAssumption
<1>2. Len(DecFields[t]) \in 0..127
  <2>1. Len(DecFields[t]) \in Nat BY <1>1, LenProperties
  <2>2. Len(DecFields[t]) <= 127 BY <1>1
  <2> QED BY <2>1, <2>2, ByteIs
<1>3. \A i \in 1..Len(DecFields[t]) : DecFields[t][i] \in Fields BY <1>1, ElementOfSeq
<1> QED BY <1>1, <1>2, <1>3

\* A larger set of values has the same frames.
LEMMA DecFramesGrow ==
  ASSUME NEW V, NEW W, V \subseteq W
  PROVE  DecFrames(V) \subseteq DecFrames(W)
<1>1. Seq(V) \subseteq Seq(W)
  <2> SUFFICES ASSUME NEW o \in Seq(V) PROVE o \in Seq(W) OBVIOUS
  <2>1. Len(o) \in Nat /\ o = [i \in 1..Len(o) |-> o[i]] BY LenProperties
  <2>2. \A i \in 1..Len(o) : o[i] \in W BY ElementOfSeq
  <2> QED BY <2>1, <2>2
<1>2. ASSUME NEW f \in DecFrames(V) PROVE f \in DecFrames(W)
  <2>1. f.out \in Seq(W) BY <1>1 DEF DecFrames
  <2>2. f = [typeid |-> f.typeid, fld |-> f.fld, delta |-> f.delta, out |-> f.out,
             owned |-> f.owned, holds |-> f.holds]
    BY DEF DecFrames
  <2> QED BY <2>1, <2>2 DEF DecFrames
<1> QED BY <1>2

LEMMA DecStackGrow ==
  ASSUME NEW s, NEW V, DecStackOver(s, V), NEW W, V \subseteq W
  PROVE  DecStackOver(s, W)
<1>1. s \in Seq(DecFrames(V)) BY DEF DecStackOver
<1>2. Len(s) \in Nat /\ s = [i \in 1..Len(s) |-> s[i]] BY <1>1, LenProperties
<1>3. \A i \in 1..Len(s) : s[i] \in DecFrames(W) BY <1>1, ElementOfSeq, DecFramesGrow
<1>4. s \in Seq(DecFrames(W))
  <2> DEFINE F == DecFrames(W)
  <2>1. \A i \in 1..Len(s) : s[i] \in F BY <1>3
  <2> HIDE DEF F
  <2>2. s \in Seq(F) BY <1>2, <2>1
  <2> QED BY <2>2 DEF F
<1> QED BY <1>4 DEF DecStackOver

\* The last of a sequence is replaced behind the others.
LEMMA LastReplaced ==
  ASSUME NEW S, NEW s \in Seq(S), s # <<>>, NEW e \in S
  PROVE  [s EXCEPT ![Len(s)] = e] = Append(Front(s), e)
<1> DEFINE n == Len(s)
<1> DEFINE a == Append(Front(s), e)
<1> DEFINE b == [s EXCEPT ![n] = e]
<1>1. n \in Nat \ {0} /\ Front(s) \in Seq(S) /\ Len(Front(s)) = n - 1
      /\ s = Append(Front(s), Last(s)) /\ Last(s) \in S
  BY FrontLast
<1>2. \A i \in 1..(n - 1) : s[i] = Front(s)[i] BY <1>1, AppendProperties
<1>3. a \in Seq(S) /\ Len(a) = n /\ a[n] = e /\ \A i \in 1..(n - 1) : a[i] = Front(s)[i]
  <2>1. (n - 1) + 1 = n BY <1>1
  <2> QED BY <1>1, <2>1, AppendProperties
<1>4. b \in Seq(S) /\ Len(b) = n /\ b[n] = e /\ \A i \in 1..n : i # n => b[i] = s[i] BY <1>1
<1> HIDE DEF a, b, n
<1>5. \A i \in 1..n : a[i] = b[i]
  <2>1. \A i \in 1..n : i = n \/ i \in 1..(n - 1) BY <1>1
  <2> QED BY <1>2, <1>3, <1>4, <2>1
<1>6. a = b BY <1>3, <1>4, <1>5, SeqEqual
<1> QED BY <1>6 DEF a, b, n

LEMMA DecTop ==
  ASSUME NEW s, NEW V, DecStackOver(s, V), s # <<>>
  PROVE  /\ Len(s) \in Nat \ {0} /\ Last(s) = s[Len(s)] /\ Last(s) \in DecFrames(V)
         /\ DecFrameOK(Last(s))
<1>1. s \in Seq(DecFrames(V)) BY DEF DecStackOver
<1>2. Len(s) \in Nat \ {0} BY <1>1, EmptySeq
<1>3. Len(s) \in 1..Len(s) BY <1>2
<1>4. s[Len(s)] \in DecFrames(V) BY <1>1, <1>3, ElementOfSeq
<1> QED BY <1>2, <1>3, <1>4 DEF DecStackOver, Last

\* A frame put on top of others that all wait in a field.
LEMMA DecAppendOK ==
  ASSUME NEW s, NEW V, DecStackOver(s, V), s # <<>> => InFieldD(Last(s)),
         NEW g \in DecFrames(V), DecFrameOK(g)
  PROVE  DecStackOver(Append(s, g), V) /\ Append(s, g) # <<>>
<1> DEFINE F == DecFrames(V)
<1> DEFINE after == Append(s, g)
<1>1. s \in Seq(F) BY DEF DecStackOver
<1>a. g \in F OBVIOUS
<1> HIDE DEF F
<1>5. after \in Seq(F) /\ Len(after) = Len(s) + 1 /\ after[Len(s) + 1] = g
      /\ (\A i \in 1..Len(s) : after[i] = s[i]) /\ after # <<>>
  BY <1>1, <1>a, AppendProperties
<1>6. Len(s) \in Nat BY <1>1, LenProperties
<1> HIDE DEF after
<1>7. ASSUME NEW i \in 1..Len(after)
      PROVE  DecFrameOK(after[i]) /\ (i < Len(after) => InFieldD(after[i]))
  <2>1. CASE i = Len(s) + 1 BY <1>5, <1>6, <2>1
  <2>2. CASE i = Len(s)
    <3>1. i \in 1..Len(s) /\ s # <<>> /\ Last(s) = s[i] BY <1>1, <1>6, <2>2, EmptySeq DEF Last
    <3>2. DecFrameOK(s[i]) BY <3>1 DEF DecStackOver
    <3> QED BY <1>5, <3>1, <3>2
  <2>3. CASE i < Len(s)
    <3>1. i \in 1..Len(s) BY <1>6, <2>3
    <3> QED BY <1>5, <2>3, <3>1 DEF DecStackOver
  <2> QED BY <1>5, <1>6, <2>1, <2>2, <2>3
<1> QED BY <1>5, <1>7 DEF DecStackOver, after, F

\* The frames below the top all wait in a field.
LEMMA DecFrontOK ==
  ASSUME NEW s, NEW V, DecStackOver(s, V), s # <<>>
  PROVE  /\ DecStackOver(Front(s), V)
         /\ Front(s) # <<>> => InFieldD(Last(Front(s)))
         /\ Len(s) # 1 => Front(s) # <<>>
         /\ Len(s) = 1 => Front(s) = <<>>
<1> DEFINE F == DecFrames(V)
<1> DEFINE f == Front(s)
<1>1. s \in Seq(F) BY DEF DecStackOver
<1> HIDE DEF F
<1>2. Len(s) \in Nat \ {0} /\ f \in Seq(F) /\ Len(f) = Len(s) - 1 /\ s = Append(f, Last(s))
      /\ Last(s) \in F
  BY <1>1, FrontLast
<1> HIDE DEF f
<1>3. \A i \in 1..Len(f) : s[i] = f[i] BY <1>2, AppendProperties
<1>4. \A i \in 1..Len(f) : i \in 1..Len(s) /\ i < Len(s) BY <1>2
<1>5. \A i \in 1..Len(f) : DecFrameOK(f[i]) /\ InFieldD(f[i]) BY <1>3, <1>4 DEF DecStackOver
<1>6. f # <<>> <=> Len(f) # 0 BY <1>2, EmptySeq
<1>7. f # <<>> => Len(f) \in 1..Len(f) BY <1>2, <1>6
<1> QED BY <1>2, <1>5, <1>6, <1>7 DEF DecStackOver, Last, f, F

\* The blocks the functions on the stack answer for.
Blocks(s) == Total(BlocksOf(s))

LEMMA BlocksType ==
  ASSUME NEW s, NEW V, DecStackOver(s, V)
  PROVE  /\ BlocksOf(s) \in Seq(Nat) /\ Len(BlocksOf(s)) = Len(s)
         /\ \A i \in 1..Len(s) : /\ s[i].owned \in {0, 1} /\ s[i].holds \in Nat
                               /\ BlocksOf(s)[i] = s[i].owned + s[i].holds
         /\ Blocks(s) \in Nat
<1> DEFINE n == Len(s)
<1>1. n \in Nat /\ DOMAIN s = 1..n BY LenProperties DEF DecStackOver
<1>2. \A i \in 1..n : s[i] \in DecFrames(V) BY ElementOfSeq DEF DecStackOver
<1> HIDE DEF n
<1>3. \A i \in 1..n : s[i].owned \in {0, 1} /\ s[i].holds \in Nat BY <1>2 DEF DecFrames
<1>4. \A i \in 1..n : s[i].owned + s[i].holds \in Nat BY <1>3
<1> DEFINE b == BlocksOf(s)
<1>5. b = [i \in 1..n |-> s[i].owned + s[i].holds] BY <1>1 DEF BlocksOf
<1> HIDE DEF b
<1>6. b \in Seq(Nat) /\ Len(b) = n BY <1>1, <1>4, <1>5
<1>7. Blocks(s) \in Nat BY <1>6, TotalType DEF Blocks, b
<1> QED BY <1>3, <1>5, <1>6, <1>7 DEF n, b

LEMMA BlocksAppend ==
  ASSUME NEW s, NEW V, DecStackOver(s, V), NEW g \in DecFrames(V)
  PROVE  Blocks(Append(s, g)) = Blocks(s) + g.owned + g.holds
<1> DEFINE F == DecFrames(V)
<1> DEFINE a == Append(s, g)
<1> DEFINE n == Len(s)
<1> DEFINE x == g.owned + g.holds
<1>1. s \in Seq(F) /\ g \in F BY DEF DecStackOver
<1>2. x \in Nat /\ g.owned \in Nat /\ g.holds \in Nat BY DEF DecFrames
<1> HIDE DEF F, x
<1>3. n \in Nat /\ DOMAIN a = 1..(n + 1) /\ a[n + 1] = g /\ \A i \in 1..n : a[i] = s[i]
  BY <1>1, AppendProperties, LenProperties
<1>4. BlocksOf(s) \in Seq(Nat) /\ Len(BlocksOf(s)) = n
      /\ \A i \in 1..n : BlocksOf(s)[i] = s[i].owned + s[i].holds
  BY BlocksType
<1> HIDE DEF a, n
<1> DEFINE c == Append(BlocksOf(s), x)
<1>5. c \in Seq(Nat) /\ DOMAIN c = 1..(n + 1) /\ c[n + 1] = x
      /\ \A i \in 1..n : c[i] = BlocksOf(s)[i]
  BY <1>2, <1>4, AppendProperties, LenProperties
<1> HIDE DEF c
<1>6. \A i \in 1..(n + 1) : c[i] = a[i].owned + a[i].holds
  <2>1. \A i \in 1..(n + 1) : i = n + 1 \/ i \in 1..n BY <1>3
  <2>2. c[n + 1] = a[n + 1].owned + a[n + 1].holds BY <1>3, <1>5 DEF x
  <2>3. \A i \in 1..n : c[i] = a[i].owned + a[i].holds BY <1>3, <1>4, <1>5
  <2> QED BY <2>1, <2>2, <2>3
<1>7. BlocksOf(a) = c
  <2>1. BlocksOf(a) = [i \in 1..(n + 1) |-> a[i].owned + a[i].holds] BY <1>3 DEF BlocksOf
  <2>2. c = [i \in 1..(n + 1) |-> c[i]] BY <1>5
  <2> QED BY <1>6, <2>1, <2>2
<1>8. Total(c) = Total(BlocksOf(s)) + x BY <1>2, <1>4, TotalAppend DEF c
<1>9. Total(BlocksOf(s)) \in Nat BY <1>4, TotalType
<1>10. Blocks(a) = Blocks(s) + x BY <1>7, <1>8 DEF Blocks
<1> QED BY <1>2, <1>9, <1>10 DEF a, x, Blocks

LEMMA BlocksFront ==
  ASSUME NEW s, NEW V, DecStackOver(s, V), s # <<>>
  PROVE  /\ Blocks(s) = Blocks(Front(s)) + Last(s).owned + Last(s).holds
         /\ Blocks(Front(s)) \in Nat /\ Last(s).owned \in {0, 1} /\ Last(s).holds \in Nat
<1>1. DecStackOver(Front(s), V) BY DecFrontOK
<1>2. Last(s) \in DecFrames(V) BY DecTop
<1>3. s = Append(Front(s), Last(s)) BY FrontLast DEF DecStackOver
<1>4. Blocks(Append(Front(s), Last(s))) = Blocks(Front(s)) + Last(s).owned + Last(s).holds
  BY <1>1, <1>2, BlocksAppend
<1>5. Blocks(Front(s)) \in Nat BY <1>1, BlocksType
<1>6. Last(s).owned \in {0, 1} /\ Last(s).holds \in Nat BY <1>2 DEF DecFrames
<1> QED BY <1>3, <1>4, <1>5, <1>6

\* A field is done: its value is added and its blocks are the frame's.
LEMMA DecNextOK ==
  ASSUME NEW s, DecStackOK(s), s # <<>>, InFieldD(Last(s)),
         NEW v, NEW d \in Nat, NEW h \in Nat
  PROVE  /\ DecStackOK(DNext(s, v, d, h)) /\ DNext(s, v, d, h) # <<>>
         /\ Blocks(DNext(s, v, d, h)) = Blocks(s) + h
<1>0. PICK U : DecStackOver(s, U) BY DEF DecStackOK
<1> DEFINE V == U \cup {v}
<1>1. DecStackOver(s, V) BY <1>0, DecStackGrow
<1>v. v \in V OBVIOUS
<1> HIDE DEF V
<1> DEFINE F == DecFrames(V)
<1> DEFINE f == Last(s)
<1> DEFINE g == [f EXCEPT !.fld = f.fld + 1, !.delta = d, !.out = Append(f.out, v),
                          !.holds = f.holds + h]
<1>2. f \in DecFrames(V) /\ DecFrameOK(f) /\ InFieldD(f) BY <1>1, DecTop
<1>3. DNext(s, v, d, h) = [s EXCEPT ![Len(s)] = g] BY DEF DNext
<1> HIDE DEF f
<1> DEFINE o == Append(f.out, v)
<1>4. f.out \in Seq(V) /\ f.fld \in Nat /\ f.holds \in Nat /\ f.owned \in {0, 1} /\ f.typeid \in DOMAIN DecFields
  BY <1>2 DEF DecFrames
<1>5. o \in Seq(V) /\ Len(o) = Len(f.out) + 1 BY <1>4, <1>v, AppendProperties
<1> HIDE DEF o
<1>6. g = [f EXCEPT !.fld = f.fld + 1, !.delta = d, !.out = o, !.holds = f.holds + h] BY DEF o
<1> HIDE DEF g
<1>7. g \in DecFrames(V) /\ g.fld = f.fld + 1 /\ g.out = o /\ g.typeid = f.typeid
      /\ g.owned = f.owned /\ g.holds = f.holds + h
  <2>1. f.fld + 1 \in Nat /\ f.holds + h \in Nat BY <1>4
  <2> QED BY <1>2, <1>5, <1>6, <2>1 DEF DecFrames
<1>8. DecFrameOK(g)
  <2> DEFINE m == Len(DecFields[f.typeid])
  <2>1. m \in Nat
    <3>1. m \in 0..127 BY <1>4, DecFieldType
    <3> HIDE DEF m
    <3> QED BY <3>1
  <2>2. f.fld <= m /\ f.fld \in 1..(m + 1) /\ Len(f.out) = f.fld - 1
    BY <1>2 DEF DecFrameOK, InFieldD
  <2> HIDE DEF m
  <2>3. g.fld \in 1..(m + 1) BY <1>7, <2>1, <2>2
  <2>4. Len(g.out) = g.fld - 1 BY <1>4, <1>5, <1>7, <2>2
  <2> QED BY <1>7, <2>3, <2>4 DEF DecFrameOK, m
<1>9. DecStackOver(Front(s), V) /\ (Front(s) # <<>> => InFieldD(Last(Front(s))))
  BY <1>1, DecFrontOK
<1>10. DNext(s, v, d, h) = Append(Front(s), g)
  <2>1. s \in Seq(F) /\ g \in F BY <1>1, <1>7 DEF DecStackOver
  <2> HIDE DEF F
  <2> QED BY <1>3, <2>1, LastReplaced
<1>11. DecStackOver(Append(Front(s), g), V) /\ Append(Front(s), g) # <<>>
  BY <1>7, <1>8, <1>9, DecAppendOK
<1>12. Blocks(Append(Front(s), g)) = Blocks(Front(s)) + g.owned + g.holds
  BY <1>7, <1>9, BlocksAppend
<1>13. Blocks(s) = Blocks(Front(s)) + f.owned + f.holds /\ Blocks(Front(s)) \in Nat
  BY <1>1, BlocksFront DEF f
<1>14. Blocks(DNext(s, v, d, h)) = Blocks(s) + h BY <1>4, <1>7, <1>10, <1>12, <1>13
<1> QED BY <1>10, <1>11, <1>14 DEF DecStackOK

LEMMA DecPushOK ==
  ASSUME NEW s, DecStackOK(s), s # <<>> => InFieldD(Last(s)),
         NEW t \in DOMAIN DecFields, NEW o \in {0, 1}
  PROVE  /\ DecStackOK(Append(s, DecoderFrame(t, o))) /\ Append(s, DecoderFrame(t, o)) # <<>>
         /\ Blocks(Append(s, DecoderFrame(t, o))) = Blocks(s) + o
<1>0. PICK V : DecStackOver(s, V) BY DEF DecStackOK
<1> DEFINE g == DecoderFrame(t, o)
<1>1. <<>> \in Seq(V) /\ Len(<<>>) = 0 BY EmptySeq
<1>2. g \in DecFrames(V) /\ g.owned = o /\ g.holds = 0 BY <1>1 DEF DecoderFrame, DecFrames
<1>3. DecFrameOK(g)
  <2> DEFINE m == Len(DecFields[t])
  <2>1. m \in 0..127 BY DecFieldType
  <2>2. g.typeid = t /\ g.fld = 1 /\ g.out = <<>> BY DEF DecoderFrame
  <2>3. 1 \in 1..(m + 1)
    <3> HIDE DEF m
    <3> QED BY <2>1
  <2> HIDE DEF m, g
  <2>4. Len(g.out) = g.fld - 1 BY <1>1, <2>2
  <2>5. g.fld \in 1..(m + 1) BY <2>2, <2>3
  <2> QED BY <2>2, <2>4, <2>5 DEF DecFrameOK, m
<1> HIDE DEF g
<1>4. DecStackOver(Append(s, g), V) /\ Append(s, g) # <<>> BY <1>0, <1>2, <1>3, DecAppendOK
<1>5. Blocks(Append(s, g)) = Blocks(s) + g.owned + g.holds BY <1>0, <1>2, BlocksAppend
<1>6. Blocks(s) \in Nat BY <1>0, BlocksType
<1>7. Blocks(Append(s, g)) = Blocks(s) + o BY <1>2, <1>5, <1>6
<1> QED BY <1>4, <1>7 DEF DecStackOK, g

LEMMA DecPopOK ==
  ASSUME NEW s, DecStackOK(s), s # <<>>
  PROVE  /\ DecStackOK(Front(s))
         /\ Front(s) # <<>> => InFieldD(Last(Front(s)))
         /\ Len(s) # 1 => Front(s) # <<>>
         /\ Blocks(s) = Blocks(Front(s)) + Last(s).owned + Last(s).holds
         /\ Blocks(Front(s)) \in Nat /\ Last(s).owned \in {0, 1} /\ Last(s).holds \in Nat
         /\ Len(s) = 1 => Front(s) = <<>>
<1>0. PICK V : DecStackOver(s, V) BY DEF DecStackOK
<1> QED BY <1>0, DecFrontOK, BlocksFront DEF DecStackOK

\* A failed call frees at most the blocks its functions answer for, and leaves the caller
\* at most the others.
LEMMA BlocksShared ==
  ASSUME DecStackOK(dstack)
  PROVE  LET owned == Total([i \in DOMAIN dstack |-> dstack[i].owned])
             left == Total([i \in DOMAIN dstack |-> IF i \in Anchored THEN dstack[i].holds ELSE 0])
         IN owned \in Nat /\ left \in Nat /\ owned + left <= Blocks(dstack)
<1>0. PICK V : DecStackOver(dstack, V) BY DEF DecStackOK
<1> DEFINE n == Len(dstack)
<1> DEFINE c == BlocksOf(dstack)
<1>1. n \in Nat /\ DOMAIN dstack = 1..n BY <1>0, LenProperties DEF DecStackOver
<1>2. c \in Seq(Nat) /\ Len(c) = n
      /\ \A i \in 1..n : /\ dstack[i].owned \in {0, 1} /\ dstack[i].holds \in Nat
                        /\ c[i] = dstack[i].owned + dstack[i].holds
  BY <1>0, BlocksType
<1> DEFINE A == Anchored
<1> DEFINE a == [i \in DOMAIN dstack |-> dstack[i].owned]
<1> DEFINE b == [i \in DOMAIN dstack |-> IF i \in A THEN dstack[i].holds ELSE 0]
<1> HIDE DEF n, c, A
<1>3. a \in Seq(Nat) /\ Len(a) = n /\ \A i \in 1..n : a[i] = dstack[i].owned
  BY <1>1, <1>2
<1>4. b \in Seq(Nat) /\ Len(b) = n
      /\ \A i \in 1..n : b[i] = IF i \in A THEN dstack[i].holds ELSE 0
  BY <1>1, <1>2
<1> HIDE DEF a, b
<1>5. ASSUME NEW i \in 1..Len(c) PROVE a[i] + b[i] <= c[i]
  <2> DEFINE x == dstack[i].owned
  <2> DEFINE y == dstack[i].holds
  <2>1. i \in 1..n BY <1>2
  <2>2. x \in {0, 1} /\ y \in Nat /\ c[i] = x + y BY <1>2, <2>1
  <2>3. a[i] = x /\ b[i] \in {0, y} BY <1>3, <1>4, <2>1
  <2> HIDE DEF x, y
  <2> QED BY <2>2, <2>3
<1>6. Total(a) + Total(b) <= Total(c) BY <1>2, <1>3, <1>4, <1>5, TotalAtMost
<1>7. Total(a) \in Nat /\ Total(b) \in Nat BY <1>3, <1>4, TotalType
<1> QED BY <1>6, <1>7 DEF a, b, c, A, Blocks

(***************************************************************************)
(* The decoder: a step is one of four kinds, and each keeps the read       *)
(* pointer inside the bytes that arrived and counts the blocks.            *)
(***************************************************************************)

\* No structure has a vector whose values go to a block that is dropped: an INT_VECTOR or
\* UINT_VECTOR (decoder.c, the array case of glme_decode_field).
KeepsBlocks ==
  \A t \in DOMAIN DecFields : \A i \in 1..Len(DecFields[t]) :
    DecFields[t][i].kind = "fixed" => InPlace(DecFields[t][i])

DecInv ==
  /\ stream \in Seq(Byte)
  /\ dec \in {"waiting", "open", "failed"}
  /\ count \in 0..Len(stream)
  /\ current \in 0..count
  /\ DecStackOK(dstack)
  /\ live \in Int /\ held \in Nat /\ oom \in BOOLEAN
  /\ live >= held + Blocks(dstack)
  /\ KeepsBlocks /\ dec # "failed" => live = held + Blocks(dstack)
  /\ dec # "open" => dstack = <<>>

\* A field is done, with blocks allocated of which some are stored.
FieldDone ==
  /\ InDecField
  /\ \E value : \E d \in Nat, pos \in 0..count, allocated \in Nat, stored \in 0..1 :
       /\ stored <= allocated /\ (KeepsBlocks => stored = allocated)
       /\ Done(value, d, pos, allocated, stored)

CallFailed == \E pos \in 0..count, lost \in Nat : Fail(pos, lost)

Entered(t, block) ==
  /\ dec = "open"
  /\ dstack # <<>> => InDecField
  /\ dstack' = Append(dstack, DecoderFrame(t, block))
  /\ live' = live + block
  /\ current' \in 0..count
  /\ UNCHANGED <<dec, count, got, held>>

Returned == dec = "open" /\ dstack # <<>> /\ \E pos \in 0..count : ReturnTo(pos)

KindOfStep ==
  \/ FieldDone
  \/ CallFailed
  \/ \E t \in DOMAIN DecFields, block \in {0, 1} : Entered(t, block)
  \/ Returned

LEMMA DecTypes ==
  ASSUME DecInv
  PROVE  /\ Len(stream) \in Nat /\ count \in Nat /\ current \in Nat /\ current <= count
         /\ count <= Len(stream) /\ Blocks(dstack) \in Nat
<1>1. Len(stream) \in Nat BY LenProperties DEF DecInv
<1>2. count \in 0..Len(stream) /\ current \in 0..count BY DEF DecInv
<1> DEFINE n == Len(stream)
<1>3. n \in Nat /\ count \in 0..n BY <1>1, <1>2
<1> HIDE DEF n
<1>4. count \in Nat /\ current \in Nat /\ current <= count /\ count <= n BY <1>2, <1>3
<1>5. PICK V : DecStackOver(dstack, V) BY DEF DecInv, DecStackOK
<1>6. Blocks(dstack) \in Nat BY <1>5, BlocksType
<1> QED BY <1>1, <1>4, <1>6 DEF n

LEMMA DoneKeeps ==
  ASSUME DecInv, FieldDone, UNCHANGED stream, oom' \in BOOLEAN
  PROVE  DecInv'
<1>1. InDecField BY DEF FieldDone
<1>2. PICK value : \E d \in Nat, pos \in 0..count, allocated \in Nat, stored \in 0..1 :
        /\ stored <= allocated /\ (KeepsBlocks => stored = allocated)
        /\ Done(value, d, pos, allocated, stored)
  BY DEF FieldDone
<1>3. PICK d \in Nat, pos \in 0..count, allocated \in Nat, stored \in 0..1 :
        /\ stored <= allocated /\ (KeepsBlocks => stored = allocated)
        /\ Done(value, d, pos, allocated, stored)
  BY <1>2
<1>4. /\ dstack' = DNext(dstack, value, d, stored) /\ current' = pos
      /\ live' = live + allocated /\ UNCHANGED <<dec, count, got, held>>
  BY <1>3 DEF Done
<1>5. dec = "open" /\ dstack # <<>> /\ InFieldD(Last(dstack))
  BY <1>1 DEF InDecField, DTop, DFields, InFieldD
<1>6. DecStackOK(dstack) /\ stored \in Nat BY DEF DecInv
<1>7. DecStackOK(dstack') /\ Blocks(dstack') = Blocks(dstack) + stored
  BY <1>4, <1>5, <1>6, DecNextOK
<1>8. /\ live' >= held' + Blocks(dstack') /\ live' \in Int
      /\ KeepsBlocks /\ dec' # "failed" => live' = held' + Blocks(dstack')
  <2>1. Blocks(dstack) \in Nat BY DecTypes
  <2>2. live \in Int /\ held \in Nat /\ live >= held + Blocks(dstack)
        /\ (KeepsBlocks /\ dec # "failed" => live = held + Blocks(dstack))
    BY DEF DecInv
  <2>3. held' = held /\ live' = live + allocated /\ dec' = dec BY <1>4
  <2>4. stored <= allocated /\ (KeepsBlocks => stored = allocated) BY <1>3
  <2> QED BY <1>6, <1>7, <2>1, <2>2, <2>3, <2>4
<1> QED BY <1>4, <1>5, <1>7, <1>8 DEF DecInv

LEMMA FailKeeps ==
  ASSUME DecInv, CallFailed, UNCHANGED stream, oom' \in BOOLEAN
  PROVE  DecInv'
<1>1. PICK pos \in 0..count, lost \in Nat : Fail(pos, lost) BY DEF CallFailed
<1> DEFINE owned == Total([i \in DOMAIN dstack |-> dstack[i].owned])
<1> DEFINE left == Total([i \in DOMAIN dstack |-> IF i \in Anchored THEN dstack[i].holds ELSE 0])
<1>2. /\ dec' = "failed" /\ current' = pos /\ live' = live + lost - owned
      /\ held' = held + left /\ dstack' = <<>> /\ UNCHANGED <<count, got>>
  BY <1>1 DEF Fail
<1>3. owned \in Nat /\ left \in Nat /\ owned + left <= Blocks(dstack)
  BY BlocksShared DEF DecInv
<1> HIDE DEF owned, left
<1>4. Blocks(<<>>) = 0
  <2>1. BlocksOf(<<>>) = <<>>
    <3>1. DOMAIN <<>> = {} OBVIOUS
    <3> QED BY <3>1 DEF BlocksOf
  <2> QED BY <2>1, TotalEmpty DEF Blocks
<1>5. DecStackOK(<<>>)
  <2>1. <<>> \in Seq(DecFrames({})) /\ Len(<<>>) = 0 BY EmptySeq
  <2>2. \A i \in 1..0 : FALSE OBVIOUS
  <2>3. DecStackOver(<<>>, {}) BY <2>1, <2>2 DEF DecStackOver
  <2> QED BY <2>3 DEF DecStackOK
<1>6. live' \in Int /\ held' \in Nat /\ live' >= held' + 0
  <2>1. Blocks(dstack) \in Nat BY DecTypes
  <2>2. live \in Int /\ held \in Nat /\ live >= held + Blocks(dstack) BY DEF DecInv
  <2> QED BY <1>2, <1>3, <2>1, <2>2
<1>7. DecStackOK(dstack') /\ Blocks(dstack') = 0 BY <1>2, <1>4, <1>5
<1> QED BY <1>2, <1>6, <1>7 DEF DecInv

\* A structure is entered from a field or from outside.
LEMMA EnteredFrom ==
  ASSUME NEW t, NEW block, Entered(t, block), dstack # <<>>
  PROVE  InFieldD(Last(dstack))
<1>1. InDecField BY DEF Entered
<1>2. DTop = Last(dstack) BY DEF DTop
<1>3. DTop.fld <= Len(DecFields[DTop.typeid]) BY <1>1 DEF InDecField, DFields
<1> QED BY <1>2, <1>3 DEF InFieldD

LEMMA EnteredKeeps ==
  ASSUME DecInv, NEW t \in DOMAIN DecFields, NEW block \in {0, 1}, Entered(t, block),
         UNCHANGED stream, oom' \in BOOLEAN
  PROVE  DecInv'
<1>1. /\ dstack' = Append(dstack, DecoderFrame(t, block)) /\ live' = live + block
      /\ current' \in 0..count /\ UNCHANGED <<dec, count, got, held>>
      /\ dec = "open"
  BY DEF Entered
<1>2. dstack # <<>> => InFieldD(Last(dstack)) BY EnteredFrom
<1>3. DecStackOK(dstack') /\ Blocks(dstack') = Blocks(dstack) + block
  BY <1>1, <1>2, DecPushOK DEF DecInv
<1>4. /\ live' >= held' + Blocks(dstack') /\ live' \in Int
      /\ KeepsBlocks /\ dec' # "failed" => live' = held' + Blocks(dstack')
  <2>1. Blocks(dstack) \in Nat BY DecTypes
  <2>2. live \in Int /\ held \in Nat /\ live >= held + Blocks(dstack)
        /\ (KeepsBlocks /\ dec # "failed" => live = held + Blocks(dstack))
    BY DEF DecInv
  <2> QED BY <1>1, <1>3, <2>1, <2>2
<1> QED BY <1>1, <1>3, <1>4 DEF DecInv

LEMMA ReturnedKeeps ==
  ASSUME DecInv, Returned, UNCHANGED stream, oom' \in BOOLEAN
  PROVE  DecInv'
<1>1. PICK pos \in 0..count : ReturnTo(pos) BY DEF Returned
<1> DEFINE f == Last(dstack)
<1> DEFINE s == Front(dstack)
<1> DEFINE n == Len(dstack)
<1> DEFINE h == f.owned + f.holds
<1>2. /\ current' = pos /\ UNCHANGED <<dec, count, live>>
      /\ n = 1 => dstack' = <<>> /\ held' = held + h
      /\ n # 1 => dstack' = DNext(s, f.out, 1, h) /\ held' = held
  BY <1>1 DEF ReturnTo, DTop
<1>3. /\ DecStackOK(s) /\ (s # <<>> => InFieldD(Last(s))) /\ (n # 1 => s # <<>>) /\ (n = 1 => s = <<>>)
      /\ Blocks(dstack) = Blocks(s) + f.owned + f.holds
      /\ Blocks(s) \in Nat /\ f.owned \in {0, 1} /\ f.holds \in Nat
      /\ dec = "open"
  BY DecPopOK DEF Returned, DecInv
<1>4. live \in Int /\ held \in Nat /\ live >= held + Blocks(dstack)
      /\ (KeepsBlocks /\ dec # "failed" => live = held + Blocks(dstack))
  BY DEF DecInv
<1>5. h \in Nat /\ Blocks(dstack) = Blocks(s) + h BY <1>3
<1> DEFINE v == f.out
<1>6. n # 1 => dstack' = DNext(s, v, 1, h) /\ held' = held BY <1>2
<1> HIDE DEF f, s, n, h, v
<1>7. CASE n = 1
  <2>1. dstack' = s /\ held' = held + h BY <1>2, <1>3, <1>7
  <2>2. /\ DecStackOK(dstack') /\ held' \in Nat /\ live' \in Int
        /\ live' >= held' + Blocks(dstack')
        /\ KeepsBlocks /\ dec' # "failed" => live' = held' + Blocks(dstack')
    BY <1>2, <1>3, <1>4, <1>5, <2>1
  <2> QED BY <1>2, <1>3, <2>2 DEF DecInv
<1>8. CASE n # 1
  <2>1. DecStackOK(DNext(s, v, 1, h)) /\ Blocks(DNext(s, v, 1, h)) = Blocks(s) + h
    BY <1>3, <1>5, <1>8, DecNextOK
  <2>2. DecStackOK(dstack') /\ Blocks(dstack') = Blocks(s) + h /\ held' = held BY <1>6, <1>8, <2>1
  <2>3. /\ held' \in Nat /\ live' \in Int /\ live' >= held' + Blocks(dstack')
        /\ KeepsBlocks /\ dec' # "failed" => live' = held' + Blocks(dstack')
    BY <1>2, <1>3, <1>4, <1>5, <2>2
  <2> QED BY <1>2, <1>3, <2>2, <2>3 DEF DecInv
<1> QED BY <1>7, <1>8

LEMMA KindKeeps ==
  ASSUME DecInv, KindOfStep, UNCHANGED stream, oom' \in BOOLEAN
  PROVE  DecInv'
BY DoneKeeps, FailKeeps, EnteredKeeps, ReturnedKeeps DEF KindOfStep

\* What is known of the field of the top function.
LEMMA DecFieldIs ==
  ASSUME DecInv, InDecField
  PROVE  /\ DField \in Fields /\ DTop.delta \in Nat
         /\ IsStruct(DField) => DField.typeid \in DOMAIN DecFields
         /\ KeepsBlocks => (DField.kind = "fixed" => InPlace(DField))
<1>1. dstack # <<>> /\ DTop = Last(dstack) BY DEF InDecField, DTop
<1>2. PICK V : DecStackOver(dstack, V) BY DEF DecInv, DecStackOK
<1>3. DTop \in DecFrames(V) /\ DecFrameOK(DTop) BY <1>1, <1>2, DecTop
<1>4. DTop.typeid \in DOMAIN DecFields /\ DTop.fld \in Nat \ {0} /\ DTop.delta \in Nat
  BY <1>3 DEF DecFrames, DecFrameOK
<1>5. DTop.fld <= Len(DecFields[DTop.typeid]) BY DEF InDecField, DFields
<1>6. DField = DecFields[DTop.typeid][DTop.fld] BY DEF DField, DFields
<1> DEFINE m == Len(DecFields[DTop.typeid])
<1>7. m \in 0..127 BY <1>4, DecFieldType
<1> HIDE DEF m
<1>8. DTop.fld \in 1..m BY <1>4, <1>5, <1>7 DEF m
<1>9. KeepsBlocks => (DField.kind = "fixed" => InPlace(DField))
  BY <1>4, <1>6, <1>8 DEF KeepsBlocks, m
<1> QED BY <1>4, <1>6, <1>8, <1>9, DecFieldType DEF m

LEMMA ByteAt ==
  ASSUME DecInv, NEW k \in Nat, k < count
  PROVE  At(k) \in 0..127
<1>1. Len(stream) \in Nat /\ count \in Nat /\ count <= Len(stream) BY DecTypes
<1>2. k + 1 \in 1..Len(stream) BY <1>1
<1>3. stream[k + 1] \in Byte BY <1>2, ElementOfSeq DEF DecInv
<1> QED BY <1>3 DEF At, Byte

LEMMA IsDone ==
  ASSUME InDecField, NEW v, NEW d \in Nat, NEW pos \in 0..count, NEW a \in Nat, NEW h \in 0..1,
         h <= a, KeepsBlocks => h = a, Done(v, d, pos, a, h)
  PROVE  KindOfStep
BY DEF KindOfStep, FieldDone

LEMMA IsFailed ==
  ASSUME NEW pos \in 0..count, NEW lost \in Nat, Fail(pos, lost)
  PROVE  KindOfStep
BY DEF KindOfStep, CallFailed

\* Where the read pointer is once the delta is consumed.
LEMMA PosIs ==
  ASSUME DecInv
  PROVE  /\ count \in Nat /\ current \in 0..count /\ current \in Nat /\ Pos = current + 1
         /\ current < count => Pos \in 0..count
         /\ Mark => Pos + 1 \in 0..count
         /\ Mark \in BOOLEAN
<1>1. count \in Nat /\ current \in Nat /\ current <= count BY DecTypes
<1>2. Pos = current + 1 BY DEF Pos
<1> HIDE DEF Pos
<1>3. Mark = (Pos < count) BY DEF Mark
<1> DEFINE p == Pos
<1>4. p = current + 1 /\ Mark = (p < count) BY <1>2, <1>3
<1> HIDE DEF p
<1>5. /\ current < count => p \in 0..count
      /\ p < count => p + 1 \in 0..count
      /\ current \in 0..count
  BY <1>1, <1>4
<1>6. Mark \in BOOLEAN BY <1>4
<1>7. (current < count => Pos \in 0..count) /\ (Mark => Pos + 1 \in 0..count)
  BY <1>4, <1>5 DEF p
<1> QED BY <1>1, <1>2, <1>5, <1>6, <1>7

LEMMA StartKind ==
  ASSUME DecInv, NEW t \in DOMAIN DecFields, NEW o \in {0, 1}, DecodeStruct(t, o)
  PROVE  KindOfStep /\ oom' \in BOOLEAN
<1>0. count \in Nat /\ current \in Nat /\ current <= count /\ current \in 0..count
      /\ oom \in BOOLEAN /\ dec = "open" /\ dstack = <<>>
  BY DecTypes DEF DecInv, DecodeStruct
<1>1. CASE current >= count \/ Unzigzag(At(current)) # t
  <2> DEFINE pos == IF current < count THEN current + 1 ELSE current
  <2>1. Fail(pos, 0) /\ oom' = oom BY <1>1 DEF DecodeStruct
  <2>2. pos \in 0..count BY <1>0
  <2> HIDE DEF pos
  <2> QED BY <1>0, <2>1, <2>2, IsFailed
<1>2. CASE ~ (current >= count \/ Unzigzag(At(current)) # t)
  <2>0. current + 1 \in 0..count BY <1>0, <1>2
  <2>1. CASE /\ dstack' = <<DecoderFrame(t, o)>> /\ current' = current + 1 /\ live' = live + o
             /\ Allocated /\ UNCHANGED <<dec, count, got, held>>
    <3>1. <<DecoderFrame(t, o)>> = Append(dstack, DecoderFrame(t, o)) BY <1>0
    <3>2. oom' \in BOOLEAN BY <1>0, <2>1 DEF Allocated
    <3>3. Entered(t, o) BY <1>0, <2>0, <2>1, <3>1 DEF Entered
    <3> QED BY <3>2, <3>3 DEF KindOfStep
  <2>2. CASE o = 1 /\ OutOfMemory /\ Fail(current + 1, 0)
    BY <1>0, <2>0, <2>2, IsFailed DEF OutOfMemory
  <2> QED BY <1>2, <2>1, <2>2 DEF DecodeStruct
<1> QED BY <1>1, <1>2

LEMMA UnderflowKind ==
  ASSUME DecInv, FieldUnderflow
  PROVE  KindOfStep /\ oom' \in BOOLEAN
BY DecTypes, PosIs, IsFailed DEF DecInv, FieldUnderflow

LEMMA AfterEndKind ==
  ASSUME DecInv, FieldAfterEnd
  PROVE  KindOfStep /\ oom' \in BOOLEAN
<1>1. InDecField /\ Done(Absent(DField), 0, current, 0, 0) /\ oom' = oom
  BY DEF FieldAfterEnd, FieldMacro
<1> QED BY <1>1, PosIs, IsDone DEF DecInv

LEMMA NotYetKind ==
  ASSUME DecInv, FieldNotYet
  PROVE  KindOfStep /\ oom' \in BOOLEAN
<1>1. InDecField /\ Done(Absent(DField), DTop.delta + 1, current, 0, 0) /\ oom' = oom
  BY DEF FieldNotYet, FieldMacro
<1>2. DTop.delta + 1 \in Nat BY <1>1, DecFieldIs
<1> QED BY <1>1, <1>2, PosIs, IsDone DEF DecInv

LEMMA TypeErrorKind ==
  ASSUME DecInv, FieldTypeError
  PROVE  KindOfStep /\ oom' \in BOOLEAN
<1>1. current < count /\ Fail(Pos, 0) /\ oom' = oom BY DEF FieldTypeError, FieldPresent
<1> QED BY <1>1, PosIs, IsFailed DEF DecInv

\* A field that is there: its delta can be consumed.
LEMMA PresentIs ==
  ASSUME DecInv, FieldPresent
  PROVE  /\ InDecField /\ Pos \in 0..count /\ Pos \in Nat /\ count \in Nat
         /\ Mark => Pos < count /\ Pos + 1 \in 0..count
         /\ ~ Mark => Pos = count
         /\ DField \in Fields /\ DTop.delta \in Nat /\ oom \in BOOLEAN
         /\ KeepsBlocks => (DField.kind = "fixed" => InPlace(DField))
<1>1. InDecField /\ current < count BY DEF FieldPresent, FieldMacro
<1>2. count \in Nat /\ current \in Nat /\ Pos = current + 1 /\ Pos \in 0..count
      /\ (Mark => Pos + 1 \in 0..count)
  BY <1>1, PosIs
<1>3. Mark = (Pos < count) BY DEF Mark
<1>4. Pos \in Nat BY <1>2
<1>5. ~ (Pos < count) => Pos = count BY <1>2
<1> QED BY <1>1, <1>2, <1>3, <1>4, <1>5, DecFieldIs DEF DecInv

LEMMA ScalarKind ==
  ASSUME DecInv, FieldScalar
  PROVE  KindOfStep /\ oom' \in BOOLEAN
<1>1. FieldPresent /\ oom' = oom BY DEF FieldScalar, ElementStarts
<1>2. /\ InDecField /\ Pos \in 0..count /\ Pos \in Nat /\ count \in Nat
      /\ (Mark => Pos + 1 \in 0..count) /\ oom \in BOOLEAN
  BY <1>1, PresentIs
<1>3. CASE ~ Mark BY <1>1, <1>2, <1>3, IsFailed DEF FieldScalar
<1>4. CASE Mark /\ Pos + 1 < count
  <2>1. Done(FromByte(DField.typeid, At(Pos + 1)), 1, Pos + 2, 0, 0) BY <1>4 DEF FieldScalar
  <2>2. Pos + 2 \in 0..count BY <1>2, <1>4
  <2> QED BY <1>1, <1>2, <2>1, <2>2, IsDone
<1>5. CASE Mark /\ ~ (Pos + 1 < count)
  <2>1. CASE DField.typeid = GLME_UINT
    <3>1. Fail(Pos + 1, 0) BY <1>5, <2>1 DEF FieldScalar
    <3> QED BY <1>1, <1>2, <1>5, <3>1, IsFailed
  <2>2. CASE DField.typeid # GLME_UINT
    <3>1. Done(Absent(DField), 1, Pos + 1, 0, 0) BY <1>5, <2>2 DEF FieldScalar
    <3> QED BY <1>1, <1>2, <1>5, <3>1, IsDone
  <2> QED BY <2>1, <2>2
<1> QED BY <1>3, <1>4, <1>5

\* Data that is there ends inside the bytes that arrived.
LEMMA DataIs ==
  ASSUME DecInv, NEW k \in Nat, ~ DataMissing(k)
  PROVE  /\ Len(Data(k)) \in 0..127 /\ k + 1 + Len(Data(k)) \in 0..count
         /\ k < count /\ k + 1 \in 0..count
<1>1. Len(stream) \in Nat /\ count \in Nat /\ count <= Len(stream) BY DecTypes
<1>2. k < count
  <2>1. ~ (k >= count) BY DEF DataMissing
  <2> QED BY <1>1, <2>1
<1> DEFINE n == At(k)
<1>3. n \in 0..127 BY <1>2, ByteAt
<1>4. n <= count - k - 1
  <2>1. ~ (n > count - k - 1) BY DEF DataMissing
  <2> HIDE DEF n
  <2> QED BY <1>1, <1>3, <2>1
<1>5. Data(k) = SubSeq(stream, k + 2, k + 1 + n) BY DEF Data
<1> DEFINE b == k + 1 + n
<1> HIDE DEF n
<1>6. k + 2 \in 1..(Len(stream) + 1) /\ b \in (k + 1)..Len(stream) /\ b \in Int
      /\ b <= count /\ b - (k + 2) + 1 = n
  BY <1>1, <1>2, <1>3, <1>4
<1> HIDE DEF b
<1>7. Len(SubSeq(stream, k + 2, b)) = n
  <2>1. CASE n = 0
    <3>1. b < k + 2 /\ k + 2 \in Int BY <1>6, <2>1
    <3>2. SubSeq(stream, k + 2, b) = <<>> BY <1>6, <3>1, SubSeqEmpty
    <3>3. Len(<<>>) = 0 OBVIOUS
    <3> QED BY <2>1, <3>2, <3>3
  <2>2. CASE n # 0
    <3>1. k + 2 \in 1..Len(stream) /\ b \in (k + 2)..Len(stream) BY <1>1, <1>3, <1>6, <2>2
    <3> DEFINE i == k + 2
    <3>2. i \in 1..Len(stream) /\ b \in i..Len(stream) /\ b - i + 1 = n BY <1>6, <3>1
    <3> HIDE DEF i
    <3>3. Len(SubSeq(stream, i, b)) = b - i + 1
      <4>1. stream \in Seq(Byte) BY DEF DecInv
      <4>2. i \in Int /\ b \in Int /\ 1 <= i /\ b <= Len(stream) /\ i <= b BY <1>1, <1>6, <3>2
      <4> QED BY <1>1, <4>1, <4>2
    <3> QED BY <3>2, <3>3 DEF i
  <2> QED BY <2>1, <2>2
<1>8. Len(Data(k)) = n BY <1>5, <1>7 DEF b
<1>9. k + 1 + n \in 0..count BY <1>1, <1>3, <1>6 DEF b
<1>10. k + 1 \in 0..count BY <1>1, <1>2
<1> QED BY <1>2, <1>3, <1>8, <1>9, <1>10

LEMMA VectorKind ==
  ASSUME DecInv, FieldVector
  PROVE  KindOfStep /\ oom' \in BOOLEAN
<1>1. FieldPresent /\ oom' = oom BY DEF FieldVector, ElementStarts
<1>2. /\ InDecField /\ Pos \in 0..count /\ Pos \in Nat /\ count \in Nat
      /\ (Mark => Pos + 1 \in 0..count) /\ oom \in BOOLEAN
  BY <1>1, PresentIs
<1>3. CASE ~ Mark BY <1>1, <1>2, <1>3, IsFailed DEF FieldVector
<1>4. CASE Mark /\ DataMissing(Pos + 1) BY <1>1, <1>2, <1>4, IsFailed DEF FieldVector
<1>5. CASE Mark /\ ~ DataMissing(Pos + 1)
  <2> DEFINE bytes == Data(Pos + 1)
  <2> DEFINE n == Len(bytes)
  <2> DEFINE v == [i \in 1..DField.size |-> IF i <= n THEN bytes[i] ELSE 0]
  <2>1. Done(v, 1, Pos + 2 + n, 0, 0) BY <1>5 DEF FieldVector
  <2>2. Pos + 1 \in Nat BY <1>2
  <2>3. (Pos + 1) + 1 + n \in 0..count /\ n \in 0..127 BY <1>5, <2>2, DataIs
  <2> HIDE DEF n, v
  <2>4. Pos + 2 + n \in 0..count BY <1>2, <2>3
  <2> QED BY <1>1, <1>2, <2>1, <2>4, IsDone
<1> QED BY <1>3, <1>4, <1>5

LEMMA StringKind ==
  ASSUME DecInv, FieldString
  PROVE  KindOfStep /\ oom' \in BOOLEAN
<1>1. FieldPresent BY DEF FieldString, ElementStarts
<1>2. /\ InDecField /\ Pos \in 0..count /\ Pos \in Nat /\ count \in Nat
      /\ (Mark => Pos + 1 \in 0..count) /\ oom \in BOOLEAN /\ DTop.delta \in Nat
  BY <1>1, PresentIs
<1>3. CASE ~ Mark \/ DataMissing(Pos + 1)
  <2> DEFINE p == IF Mark THEN Pos + 1 ELSE Pos
  <2>1. Done(<<>>, DTop.delta, p, 0, 0) /\ oom' = oom BY <1>3 DEF FieldString
  <2>2. p \in 0..count BY <1>2
  <2> HIDE DEF p
  <2> QED BY <1>2, <2>1, <2>2, IsDone
<1>4. CASE ~ (~ Mark \/ DataMissing(Pos + 1))
  <2>1. CASE Done(Data(Pos + 1), 1, Pos + 1, 1, 1) /\ Allocated
    BY <1>2, <1>4, <2>1, IsDone DEF Allocated
  <2>2. CASE Done(<<>>, DTop.delta, Pos + 1, 0, 0) /\ OutOfMemory
    BY <1>2, <1>4, <2>2, IsDone DEF OutOfMemory
  <2> QED BY <1>4, <2>1, <2>2 DEF FieldString
<1> QED BY <1>3, <1>4

LEMMA ArrayKind ==
  ASSUME DecInv, FieldArray
  PROVE  KindOfStep /\ oom' \in BOOLEAN
<1>1. FieldPresent /\ IsArray(DField) BY DEF FieldArray
<1>2. /\ InDecField /\ Pos \in 0..count /\ Pos \in Nat /\ count \in Nat
      /\ oom \in BOOLEAN /\ DTop.delta \in Nat
      /\ KeepsBlocks => (DField.kind = "fixed" => InPlace(DField))
  BY <1>1, PresentIs
<1>3. CASE Pos + 2 >= count
  <2>1. Fail(count, 0) /\ oom' = oom BY <1>3 DEF FieldArray
  <2>2. count \in 0..count BY <1>2
  <2> QED BY <1>2, <2>1, <2>2, IsFailed
<1>4. CASE ~ (Pos + 2 >= count)
  <2> DEFINE n == At(Pos + 2)
  <2>1. Pos + 2 \in Nat /\ Pos + 2 < count /\ Pos + 3 \in 0..count BY <1>2, <1>4
  <2>2. n \in 0..127 BY <2>1, ByteAt
  <2>3. CASE Unzigzag(At(Pos + 1)) # DField.typeid \/ (DField.kind = "fixed" /\ DField.size < n)
    <3>1. Fail(Pos + 3, 0) /\ oom' = oom BY <1>4, <2>3 DEF FieldArray
    <3> QED BY <1>2, <2>1, <3>1, IsFailed
  <2>4. CASE ~ (Unzigzag(At(Pos + 1)) # DField.typeid \/ (DField.kind = "fixed" /\ DField.size < n))
             /\ n = 0
    <3>1. Done(Absent(DField), DTop.delta, Pos + 3, 0, 0) /\ oom' = oom
      BY <1>4, <2>4 DEF FieldArray
    <3> QED BY <1>2, <2>1, <3>1, IsDone
  <2>5. CASE ~ (Unzigzag(At(Pos + 1)) # DField.typeid \/ (DField.kind = "fixed" /\ DField.size < n))
             /\ n # 0
    <3>1. StoredArray(n) BY <1>4, <2>5 DEF FieldArray
    <3> DEFINE f == DField
    <3> DEFINE at == Pos + 3
    <3> DEFINE block == IF InPlace(f) THEN 0 ELSE 1
    <3> DEFINE short == at + n > count
    <3> DEFINE stored == IF f.kind = "array" THEN 1 ELSE 0
    <3> DEFINE end == IF short THEN count ELSE at + n
    <3> DEFINE v(junk) == Fill(f, ArrayElements(at, n, junk))
    <3>2. block \in {0, 1} /\ stored \in 0..1 /\ stored <= block
          /\ (KeepsBlocks => stored = block)
      BY <1>1, <1>2 DEF InPlace, IsArray
    <3>3. end \in 0..count /\ at \in 0..count /\ count \in 0..count BY <1>2, <2>1, <2>2
    <3>4. \/ /\ Allocated
             /\ IF short /\ f.typeid = GLME_UINT THEN Fail(count, block)
                ELSE \E junk \in Garbage : Done(v(junk), 1, end, block, stored)
          \/ block = 1 /\ OutOfMemory /\ Fail(at, 0)
      BY <3>1 DEF StoredArray
    <3> HIDE DEF block, stored, end, v, at, n, f, short
    <3>5. CASE Allocated /\ Fail(count, block) BY <1>2, <3>2, <3>3, <3>5, IsFailed DEF Allocated
    <3>6. ASSUME NEW junk \in Garbage, Allocated, Done(v(junk), 1, end, block, stored)
          PROVE  KindOfStep /\ oom' \in BOOLEAN
      <4>1. block \in Nat BY <3>2
      <4> QED BY <1>2, <3>2, <3>3, <3>6, <4>1, IsDone DEF Allocated
    <3>7. CASE OutOfMemory /\ Fail(at, 0) BY <3>3, <3>7, IsFailed DEF OutOfMemory
    <3> QED BY <3>4, <3>5, <3>6, <3>7
  <2> QED BY <2>3, <2>4, <2>5
<1> QED BY <1>3, <1>4

LEMMA ScalarForArrayKind ==
  ASSUME DecInv, FieldScalarForArray
  PROVE  KindOfStep /\ oom' \in BOOLEAN
<1>1. FieldPresent /\ oom' = oom BY DEF FieldScalarForArray, ElementStarts
<1>2. /\ InDecField /\ Pos \in 0..count /\ (Mark => Pos + 1 \in 0..count) /\ oom \in BOOLEAN
  BY <1>1, PresentIs
<1>3. CASE ~ Mark /\ DField.typeid = GLME_UINT
  <2>1. Fail(Pos, 0) BY <1>3 DEF FieldScalarForArray
  <2> QED BY <1>1, <1>2, <2>1, IsFailed
<1>4. CASE ~ (~ Mark /\ DField.typeid = GLME_UINT)
  <2> DEFINE end == IF Mark THEN Pos + 1 ELSE Pos
  <2> DEFINE v(junk) == IF Mark THEN FromByte(DField.typeid, At(Pos)) ELSE junk
  <2> DEFINE w(junk) == IF DField.kind = "fixed" /\ ~ InPlace(DField)
                        THEN [Zeros(DField.size) EXCEPT ![1] = v(junk)] ELSE Absent(DField)
  <2>1. PICK junk \in Garbage : Done(w(junk), 1, end, 0, 0) BY <1>4 DEF FieldScalarForArray
  <2>2. end \in 0..count BY <1>2
  <2> HIDE DEF end, w
  <2> QED BY <1>1, <1>2, <2>1, <2>2, IsDone
<1> QED BY <1>3, <1>4

LEMMA StructKind ==
  ASSUME DecInv, FieldStruct
  PROVE  KindOfStep /\ oom' \in BOOLEAN
<1>1. FieldPresent /\ IsStruct(DField) BY DEF FieldStruct, ElementStarts
<1>2. /\ InDecField /\ Pos \in 0..count /\ (Mark => Pos + 1 \in 0..count) /\ oom \in BOOLEAN
  BY <1>1, PresentIs
<1>3. DField.typeid \in DOMAIN DecFields BY <1>1, <1>2, DecFieldIs
<1> DEFINE block == IF DField.kind = "pointer" THEN 1 ELSE 0
<1>4. block \in {0, 1} /\ block \in Nat OBVIOUS
<1>5. CASE ~ Mark
  <2>1. Fail(Pos, 0) /\ oom' = oom BY <1>5 DEF FieldStruct
  <2> QED BY <1>2, <2>1, IsFailed
<1>6. CASE Mark
  <2>1. \/ /\ Allocated
           /\ IF DField.named \/ HasHandler(dbase, DField.typeid)
              THEN /\ dstack' = Append(dstack, DecoderFrame(DField.typeid, block))
                   /\ current' = Pos + 1
                   /\ live' = live + block
                   /\ UNCHANGED <<dec, count, got, held>>
              ELSE Fail(Pos + 1, block)
        \/ block = 1 /\ OutOfMemory /\ Fail(Pos + 1, 0)
    BY <1>6 DEF FieldStruct
  <2> HIDE DEF block
  <2>2. CASE /\ Allocated
             /\ dstack' = Append(dstack, DecoderFrame(DField.typeid, block))
             /\ current' = Pos + 1 /\ live' = live + block
             /\ UNCHANGED <<dec, count, got, held>>
    <3>1. dec = "open" BY <1>2 DEF InDecField
    <3>2. Entered(DField.typeid, block) BY <1>2, <1>6, <2>2, <3>1 DEF Entered
    <3> QED BY <1>2, <1>3, <1>4, <2>2, <3>2 DEF KindOfStep, Allocated
  <2>3. CASE Allocated /\ Fail(Pos + 1, block)
    BY <1>2, <1>4, <1>6, <2>3, IsFailed DEF Allocated
  <2>4. CASE OutOfMemory /\ Fail(Pos + 1, 0) BY <1>2, <1>6, <2>4, IsFailed DEF OutOfMemory
  <2> QED BY <2>1, <2>2, <2>3, <2>4
<1> QED BY <1>5, <1>6

LEMMA BlockSkippedKind ==
  ASSUME DecInv, BlockSkipped
  PROVE  KindOfStep /\ oom' \in BOOLEAN
<1> DEFINE d == IF DTop.delta > 0 THEN DTop.delta - 1 ELSE 0
<1>1. InDecField /\ Done(<<>>, d, current, 0, 0) /\ oom' = oom BY DEF BlockSkipped, BlockMacro
<1>2. d \in Nat
  <2>1. DTop.delta \in Nat BY <1>1, DecFieldIs
  <2> QED BY <2>1
<1> HIDE DEF d
<1> QED BY <1>1, <1>2, PosIs, IsDone DEF DecInv

LEMMA BlockDecodedKind ==
  ASSUME DecInv, BlockDecoded
  PROVE  KindOfStep /\ oom' \in BOOLEAN
<1>1. InDecField BY DEF BlockDecoded, BlockMacro
<1>2. count \in Nat /\ current \in Nat /\ current \in 0..count /\ Pos = current + 1
      /\ (current < count => Pos \in 0..count) /\ oom \in BOOLEAN
  BY PosIs DEF DecInv
<1>3. CASE current >= count
  <2>1. Fail(current, 0) /\ oom' = oom BY <1>3 DEF BlockDecoded
  <2> QED BY <1>2, <2>1, IsFailed
<1>4. CASE ~ (current >= count)
  <2>0. Pos \in 0..count /\ Pos \in Nat /\ current < count BY <1>2, <1>4
  <2>1. CASE Pos >= count \/ At(Pos) # TypeMark(GLME_ARRAY)
    <3> DEFINE p == IF Pos < count THEN Pos + 1 ELSE Pos
    <3>1. Fail(p, 0) /\ oom' = oom BY <1>4, <2>1 DEF BlockDecoded
    <3>2. p \in 0..count BY <1>2, <2>0
    <3> HIDE DEF p
    <3> QED BY <1>2, <3>1, <3>2, IsFailed
  <2>2. CASE ~ (Pos >= count \/ At(Pos) # TypeMark(GLME_ARRAY)) /\ Pos + 2 >= count
    <3>1. Fail(count, 0) /\ oom' = oom BY <1>4, <2>2 DEF BlockDecoded
    <3>2. count \in 0..count BY <1>2
    <3> QED BY <1>2, <3>1, <3>2, IsFailed
  <2>3. CASE ~ (Pos >= count \/ At(Pos) # TypeMark(GLME_ARRAY)) /\ ~ (Pos + 2 >= count)
    <3>0. Pos + 3 \in 0..count /\ Pos + 2 \in Nat /\ Pos + 2 < count BY <1>2, <2>0, <2>3
    <3>1. CASE Unzigzag(At(Pos + 1)) # DField.typeid
      <4>1. Fail(Pos + 3, 0) /\ oom' = oom BY <1>4, <2>3, <3>1 DEF BlockDecoded
      <4> QED BY <1>2, <3>0, <4>1, IsFailed
    <3>2. CASE Unzigzag(At(Pos + 1)) = DField.typeid
      <4> DEFINE n == At(Pos + 2)
      <4> DEFINE at == Pos + 3
      <4> DEFINE short == at + n > count
      <4> DEFINE end == IF short THEN count ELSE at + n
      <4> DEFINE v(junk) == ArrayElements(at, n, junk)
      <4>1. n \in 0..127 BY <3>0, ByteAt
      <4>2. end \in 0..count /\ at \in 0..count BY <1>2, <2>0, <3>0, <4>1
      <4>3. \/ Allocated /\ \E junk \in Garbage : Done(v(junk), Offset, end, 1, 1)
            \/ OutOfMemory /\ Fail(at, 0)
        BY <1>4, <2>3, <3>2 DEF BlockDecoded
      <4>4. Offset \in Nat
        <5>1. Offset \in 0..127 BY <1>2, <2>0, ByteAt DEF Offset
        <5> QED BY <5>1
      <4> HIDE DEF n, at, short, end, v
      <4>5. ASSUME NEW junk \in Garbage, Allocated, Done(v(junk), Offset, end, 1, 1)
            PROVE  KindOfStep /\ oom' \in BOOLEAN
        BY <1>1, <1>2, <4>2, <4>4, <4>5, IsDone DEF Allocated
      <4>6. CASE OutOfMemory /\ Fail(at, 0) BY <4>2, <4>6, IsFailed DEF OutOfMemory
      <4> QED BY <4>3, <4>5, <4>6
    <3> QED BY <3>1, <3>2
  <2> QED BY <2>1, <2>2, <2>3
<1> QED BY <1>3, <1>4

LEMMA EndKind ==
  ASSUME DecInv, DecodeEndStruct
  PROVE  KindOfStep /\ oom' \in BOOLEAN
<1>1. dec = "open" /\ dstack # <<>> /\ oom' = oom /\ oom \in BOOLEAN BY DEF DecodeEndStruct, DecInv
<1>2. count \in Nat /\ current \in Nat /\ current \in 0..count BY PosIs
<1>3. CASE EndMark
  <2>1. ReturnTo(current + 1) BY <1>3 DEF DecodeEndStruct
  <2>2. current + 1 \in 0..count BY <1>2, <1>3 DEF EndMark
  <2>3. Returned BY <1>1, <2>1, <2>2 DEF Returned
  <2> QED BY <1>1, <2>3 DEF KindOfStep
<1>4. CASE ~ EndMark
  <2>1. Fail(current, 0) BY <1>4 DEF DecodeEndStruct
  <2> QED BY <1>1, <1>2, <2>1, IsFailed
<1> QED BY <1>3, <1>4

LEMMA DecStep ==
  ASSUME DecInv, DecNext
  PROVE  DecInv' /\ KindOfStep
<1>1. KindOfStep /\ oom' \in BOOLEAN
  <2>1. CASE FieldUnderflow BY <2>1, UnderflowKind
  <2>2. CASE FieldAfterEnd BY <2>2, AfterEndKind
  <2>3. CASE FieldNotYet BY <2>3, NotYetKind
  <2>4. CASE FieldTypeError BY <2>4, TypeErrorKind
  <2>5. CASE FieldScalar BY <2>5, ScalarKind
  <2>6. CASE FieldVector BY <2>6, VectorKind
  <2>7. CASE FieldString BY <2>7, StringKind
  <2>8. CASE FieldArray BY <2>8, ArrayKind
  <2>9. CASE FieldScalarForArray BY <2>9, ScalarForArrayKind
  <2>10. CASE FieldStruct BY <2>10, StructKind
  <2>11. CASE BlockSkipped BY <2>11, BlockSkippedKind
  <2>12. CASE BlockDecoded BY <2>12, BlockDecodedKind
  <2>13. CASE DecodeEndStruct BY <2>13, EndKind
  <2> QED BY <2>1, <2>2, <2>3, <2>4, <2>5, <2>6, <2>7, <2>8, <2>9, <2>10, <2>11, <2>12, <2>13
          DEF DecNext
<1>2. UNCHANGED stream BY DEF DecNext
<1> QED BY <1>1, <1>2, KindKeeps

(***************************************************************************)
(* The two programs together.                                              *)
(***************************************************************************)

\* Nothing is decoded before the bytes are delivered, and no more structures are asked
\* for than were encoded, unless the encoder failed.
CallInv ==
  /\ \E G : got \in Seq(G)
  /\ dec = "waiting" => got = <<>> /\ count = 0
  /\ enc = "open" => Len(got) + (IF dstack = <<>> THEN 0 ELSE 1) <= Len(sent)

CodecInv == EncInv /\ DecInv /\ CallInv

LEMMA CodecInit == Init => CodecInv
<1> SUFFICES ASSUME Init PROVE CodecInv OBVIOUS
<1>1. /\ stream = <<>> /\ enc = "open" /\ estack = <<>> /\ sent = <<>>
      /\ dec = "waiting" /\ count = 0 /\ current = 0 /\ dstack = <<>> /\ got = <<>>
      /\ live = 0 /\ held = 0 /\ oom = FALSE
  BY DEF Init, EncInit, DecInit
<1>2. <<>> \in Seq(Byte) /\ <<>> \in Seq(SentRecords) /\ <<>> \in Seq({}) /\ Len(<<>>) = 0
  BY EmptySeq
<1>3. EncInv BY <1>1, <1>2, EncEmptyOK DEF EncInv
<1>4. DecStackOK(<<>>) /\ Blocks(<<>>) = 0
  <2>1. <<>> \in Seq(DecFrames({})) /\ Len(<<>>) = 0 BY EmptySeq
  <2>2. \A i \in 1..0 : FALSE OBVIOUS
  <2>3. DecStackOver(<<>>, {}) BY <2>1, <2>2 DEF DecStackOver
  <2>4. BlocksOf(<<>>) = <<>>
    <3>1. DOMAIN <<>> = {} OBVIOUS
    <3> QED BY <3>1 DEF BlocksOf
  <2> QED BY <2>3, <2>4, TotalEmpty DEF DecStackOK, Blocks
<1>5. DecInv
  <2>1. count \in 0..Len(stream) /\ current \in 0..count BY <1>1, <1>2
  <2>2. live = held + Blocks(dstack) /\ live >= held + Blocks(dstack) /\ DecStackOK(dstack)
    BY <1>1, <1>4
  <2>3. stream \in Seq(Byte) /\ dec = "waiting" /\ dstack = <<>> BY <1>1, <1>2
  <2>4. live \in Int /\ held \in Nat BY <1>1
  <2>5. oom \in BOOLEAN
    <3>1. oom = FALSE BY <1>1
    <3> QED BY <3>1, Zenon
  <2> QED BY <2>1, <2>2, <2>3, <2>4, <2>5 DEF DecInv
<1>6. CallInv BY <1>1, <1>2 DEF CallInv
<1> QED BY <1>3, <1>5, <1>6 DEF CodecInv

\* How the calls that are answered and the stack change together.
LEMMA CallOutcome ==
  ASSUME DecInv, KindOfStep, \E G : got \in Seq(G)
  PROVE  /\ \E G : got' \in Seq(G)
         /\ count' = count
         /\ dec = "open" => dec' # "waiting"
         /\ \/ got' = got /\ (dstack = <<>> => dstack' = <<>>)
            \/ got' = got /\ dstack = <<>> /\ dstack' # <<>>
            \/ Len(got') = Len(got) + 1 /\ dstack # <<>> /\ dstack' = <<>>
<1>1. CASE FieldDone
  <2>1. got' = got /\ count' = count /\ dec' = dec BY <1>1 DEF FieldDone, Done
  <2>2. dstack # <<>> BY <1>1 DEF FieldDone, InDecField
  <2> QED BY <2>1, <2>2
<1>2. CASE CallFailed BY <1>2 DEF CallFailed, Fail
<1>3. ASSUME NEW t \in DOMAIN DecFields, NEW block \in {0, 1}, Entered(t, block)
      PROVE  /\ got' = got /\ count' = count /\ dec' = dec
             /\ dstack = <<>> => dstack' # <<>>
  <2>1. got' = got /\ count' = count /\ dec' = dec /\ dec = "open"
        /\ dstack' = Append(dstack, DecoderFrame(t, block))
    BY <1>3 DEF Entered
  <2>2. dstack # <<>> => InFieldD(Last(dstack)) BY <1>3, EnteredFrom
  <2> DEFINE s == Append(dstack, DecoderFrame(t, block))
  <2>3. DecStackOK(dstack) BY DEF DecInv
  <2>4. s # <<>> BY <2>2, <2>3, DecPushOK
  <2> HIDE DEF s
  <2> QED BY <2>1, <2>3
<1>4. CASE Returned
  <2>1. PICK pos \in 0..count : ReturnTo(pos) BY <1>4 DEF Returned
  <2>2. dstack # <<>> /\ dec' = dec /\ count' = count BY <1>4, <2>1 DEF Returned, ReturnTo
  <2>3. CASE Len(dstack) = 1
    <3> DEFINE r == [typeid |-> DTop.typeid, value |-> DTop.out, pos |-> pos]
    <3>1. dstack' = <<>> /\ got' = Append(got, r) BY <2>1, <2>3 DEF ReturnTo
    <3> HIDE DEF r
    <3>2. PICK G : got \in Seq(G) OBVIOUS
    <3> DEFINE W == G \cup {r}
    <3>3. got \in Seq(W)
      <4>1. Len(got) \in Nat /\ got = [i \in 1..Len(got) |-> got[i]] BY <3>2, LenProperties
      <4>2. \A i \in 1..Len(got) : got[i] \in W BY <3>2, ElementOfSeq
      <4> QED BY <4>1, <4>2
    <3>4. r \in W OBVIOUS
    <3> HIDE DEF W
    <3>5. got' \in Seq(W) /\ Len(got') = Len(got) + 1 BY <3>1, <3>3, <3>4, AppendProperties
    <3> QED BY <2>2, <3>1, <3>5
  <2>4. CASE Len(dstack) # 1 BY <2>1, <2>2, <2>4 DEF ReturnTo
  <2> QED BY <2>2, <2>3, <2>4
<1> QED BY <1>1, <1>2, <1>3, <1>4 DEF KindOfStep

LEMMA EncodeKeeps == ASSUME CodecInv, Encode PROVE CodecInv'
<1>1. EncInv' BY EncStep DEF CodecInv, Encode
<1>2. dec = "waiting" /\ UNCHANGED <<dec, count, current, dstack, got, live, held, oom>>
  BY DEF Encode, decVars
<1>3. got = <<>> /\ count = 0 /\ dstack = <<>> BY <1>2 DEF CodecInv, CallInv, DecInv
<1>4. Len(stream') \in Nat /\ Len(sent') \in Nat BY <1>1, LenProperties DEF EncInv
<1>5. DecInv'
  <2>1. count' \in 0..Len(stream') /\ current' \in 0..count'
    <3>1. current \in 0..0 BY <1>3 DEF CodecInv, DecInv
    <3> QED BY <1>2, <1>3, <1>4, <3>1
  <2>2. stream' \in Seq(Byte) BY <1>1 DEF EncInv
  <2> QED BY <1>2, <2>1, <2>2 DEF CodecInv, DecInv
<1>6. CallInv'
  <2>1. Len(<<>>) = 0 OBVIOUS
  <2>2. Len(got') + (IF dstack' = <<>> THEN 0 ELSE 1) <= Len(sent') BY <1>2, <1>3, <1>4, <2>1
  <2> QED BY <1>2, <1>3, <2>2 DEF CodecInv, CallInv
<1> QED BY <1>1, <1>5, <1>6 DEF CodecInv

LEMMA DeliverKeeps == ASSUME CodecInv, Deliver PROVE CodecInv'
<1>1. /\ dec = "waiting" /\ dec' = "open" /\ current' = 0
      /\ count' \in (IF "truncation" \in Faults THEN 0 ELSE Len(stream)) .. Len(stream)
      /\ UNCHANGED <<stream, enc, ebase, estack, sent, dstack, got, live, held, oom>>
  BY DEF Deliver, encVars
<1>2. EncInv' BY <1>1 DEF CodecInv, EncInv
<1>3. Len(stream) \in Nat BY LenProperties DEF CodecInv, EncInv
<1>4. dstack = <<>> BY <1>1 DEF CodecInv, DecInv
<1>5. count' \in 0..Len(stream') /\ current' \in 0..count'
  <2> DEFINE m == Len(stream)
  <2>1. m \in Nat /\ (count' \in 0..m \/ count' \in m..m) BY <1>1, <1>3
  <2>2. stream' = stream BY <1>1
  <2> HIDE DEF m
  <2>3. count' \in 0..m /\ 0 \in 0..count' BY <2>1
  <2> QED BY <1>1, <2>2, <2>3 DEF m
<1>6. DecInv' BY <1>1, <1>4, <1>5 DEF CodecInv, DecInv
<1>7. CallInv' BY <1>1 DEF CodecInv, CallInv
<1> QED BY <1>2, <1>6, <1>7 DEF CodecInv

LEMMA CallKeeps == ASSUME CodecInv, Call PROVE CodecInv'
<1>1. UNCHANGED <<stream, enc, ebase, estack, sent>> BY DEF Call, encVars
<1>2. EncInv' BY <1>1 DEF CodecInv, EncInv
<1>3. PICK typeid \in Expected, owned \in {0, 1} : DecodeStruct(typeid, owned) BY DEF Call
<1>4. dec = "open" /\ dstack = <<>> BY <1>3 DEF DecodeStruct
<1>5. Len(got) \in Nat /\ Len(sent) \in Nat BY LenProperties DEF CodecInv, CallInv, EncInv
<1>6. enc = "open" => Len(got) < Len(sent)
  <2> SUFFICES ASSUME enc = "open" PROVE Len(got) < Len(sent) OBVIOUS
  <2>1. Len(got) # Len(sent) BY DEF Call, AllRead
  <2>2. Len(got) <= Len(sent) BY <1>4, <1>5 DEF CodecInv, CallInv
  <2> QED BY <1>5, <2>1, <2>2
<1>7. typeid \in DOMAIN DecFields
  <2>1. CASE "wrong type" \in Faults \/ Len(got) = Len(sent) BY <1>3, <2>1 DEF Expected
  <2>2. CASE ~ ("wrong type" \in Faults \/ Len(got) = Len(sent))
    <3> DEFINE a == Len(got)
    <3> DEFINE b == Len(sent)
    <3> DEFINE k == a + 1
    <3>1. typeid = sent[k].msg.typeid BY <1>3, <2>2 DEF Expected
    <3>2. k \in 1..Len(sent)
      <4>0. a \in Nat /\ b \in Nat /\ a # b BY <1>5, <2>2
      <4>1. CASE enc = "open"
        <5>1. a < b BY <1>6, <4>1
        <5>2. a + 1 \in 1..b
          <6> HIDE DEF a, b
          <6> QED BY <4>0, <5>1
        <5> QED BY <5>2
      <4>2. CASE enc # "open"
        <5>1. ~ (a > b) BY <4>2 DEF Call, AllRead
        <5>2. a + 1 \in 1..b
          <6> HIDE DEF a, b
          <6> QED BY <4>0, <5>1
        <5> QED BY <5>2
      <4> QED BY <4>1, <4>2
    <3> HIDE DEF a, b, k
    <3>3. sent[k] \in SentRecords BY <3>2, ElementOfSeq DEF CodecInv, EncInv
    <3>4. sent[k].msg \in Messages BY <3>3 DEF SentRecords
    <3> QED BY <3>1, <3>4, MessagesAssumption
  <2> QED BY <2>1, <2>2
<1>8. KindOfStep /\ oom' \in BOOLEAN BY <1>3, <1>7, StartKind DEF CodecInv
<1>9. DecInv' BY <1>1, <1>8, KindKeeps DEF CodecInv
<1>10. CallInv'
  <2>1. /\ \E G : got' \in Seq(G)
        /\ count' = count
        /\ dec' # "waiting"
        /\ \/ got' = got /\ dstack' = <<>>
           \/ got' = got /\ dstack' # <<>>
    BY <1>4, <1>8, CallOutcome DEF CodecInv, CallInv
  <2>2. enc' = "open" => Len(got') + (IF dstack' = <<>> THEN 0 ELSE 1) <= Len(sent')
    BY <1>1, <1>5, <1>6, <2>1
  <2> QED BY <2>1, <2>2 DEF CallInv
<1> QED BY <1>2, <1>9, <1>10 DEF CodecInv

LEMMA DecodeKeeps == ASSUME CodecInv, Decode PROVE CodecInv'
<1>1. UNCHANGED <<stream, enc, ebase, estack, sent>> /\ DecNext
  BY DEF Decode, DecNext, encVars
<1>2. EncInv' BY <1>1 DEF CodecInv, EncInv
<1>3. DecInv' /\ KindOfStep BY <1>1, DecStep DEF CodecInv
<1>4. dec = "open" /\ dstack # <<>>
  BY <1>1 DEF DecNext, FieldUnderflow, FieldAfterEnd, FieldNotYet, FieldTypeError, FieldScalar,
       FieldVector, FieldString, FieldArray, FieldScalarForArray, FieldStruct, BlockSkipped,
       BlockDecoded, DecodeEndStruct, ElementStarts, FieldPresent, FieldMacro, BlockMacro, InDecField
<1>5. CallInv'
  <2>1. /\ \E G : got' \in Seq(G)
        /\ dec' # "waiting"
        /\ \/ got' = got
           \/ Len(got') = Len(got) + 1 /\ dstack' = <<>>
    BY <1>3, <1>4, CallOutcome DEF CodecInv, CallInv
  <2>2. Len(got) \in Nat /\ Len(sent) \in Nat BY LenProperties DEF CodecInv, CallInv, EncInv
  <2>3. enc = "open" => Len(got) + 1 <= Len(sent) BY <1>4 DEF CodecInv, CallInv
  <2>4. enc' = "open" => Len(got') + (IF dstack' = <<>> THEN 0 ELSE 1) <= Len(sent')
    BY <1>1, <2>1, <2>2, <2>3
  <2> QED BY <2>1, <2>4 DEF CallInv
<1> QED BY <1>2, <1>3, <1>5 DEF CodecInv

LEMMA CodecStep == CodecInv /\ [Next]_vars => CodecInv'
<1> SUFFICES ASSUME CodecInv, [Next]_vars PROVE CodecInv' OBVIOUS
<1>1. CASE UNCHANGED <<stream, enc, estack, sent, dec, count, current, dstack, got, live, held, oom>>
  BY <1>1 DEF CodecInv, EncInv, DecInv, CallInv
<1>2. CASE ChangeHandlers BY <1>1, <1>2 DEF ChangeHandlers
<1>3. CASE UNCHANGED vars BY <1>1, <1>3 DEF vars, encVars, decVars
<1> QED BY <1>2, <1>3, EncodeKeeps, DeliverKeeps, CallKeeps, DecodeKeeps DEF Next

LEMMA CodecAlways == Spec => []CodecInv
BY CodecInit, CodecStep, PTL DEF Spec

\* The values of all variables, among them: every byte of a structure is below 128, so
\* that a distance to the last field sent always fits the one byte it is given, and a
\* decoder function has decoded one value for every field it has passed.
THEOREM TypeCorrect == Spec => []TypeOK
<1>1. CodecInv => TypeOK
  <2> SUFFICES ASSUME CodecInv PROVE TypeOK OBVIOUS
  <2>1. \A i \in DOMAIN stream : stream[i] \in 0..127
    <3>1. stream \in Seq(0..127) BY DEF CodecInv, EncInv, Byte
    <3> QED BY <3>1, ElementOfSeq, LenProperties
  <2>2. \A i \in DOMAIN estack :
          /\ estack[i].fld \in 1..(Len(EncFields[estack[i].typeid]) + 1)
          /\ estack[i].delta \in 1..estack[i].fld
    <3>1. DOMAIN estack = 1..Len(estack) BY LenProperties DEF CodecInv, EncInv, EncStackOK
    <3> QED BY <3>1 DEF CodecInv, EncInv, EncStackOK, EncFrameOK
  <2>3. \A i \in DOMAIN dstack :
          /\ dstack[i].fld \in 1..(Len(DecFields[dstack[i].typeid]) + 1)
          /\ Len(dstack[i].out) = dstack[i].fld - 1
    <3>1. PICK V : DecStackOver(dstack, V) BY DEF CodecInv, DecInv, DecStackOK
    <3>2. DOMAIN dstack = 1..Len(dstack) BY <3>1, LenProperties DEF DecStackOver
    <3> QED BY <3>1, <3>2 DEF DecStackOver, DecFrameOK
  <2>4. count \in 0..Len(stream) /\ current \in Nat /\ held \in Nat /\ live \in Nat /\ oom \in BOOLEAN
    <3>1. current \in Nat /\ Blocks(dstack) \in Nat BY DecTypes DEF CodecInv
    <3>2. live \in Int /\ held \in Nat /\ live >= held + Blocks(dstack) BY DEF CodecInv, DecInv
    <3>3. live \in Nat BY <3>1, <3>2
    <3> QED BY <3>1, <3>2, <3>3 DEF CodecInv, DecInv
  <2>5. enc \in {"open", "failed"} /\ dec \in {"waiting", "open", "failed"}
    BY DEF CodecInv, EncInv, DecInv
  <2> QED BY <2>1, <2>2, <2>3, <2>4, <2>5 DEF TypeOK
<1> QED BY <1>1, CodecAlways, PTL

\* Whatever bytes arrive, for whatever structures: no decoder function moves the read
\* pointer past them.
THEOREM CursorStaysInRange == Spec => []CursorInRange
<1>1. CodecInv => CursorInRange BY DecTypes DEF CodecInv, CursorInRange
<1> QED BY <1>1, CodecAlways, PTL

\* However a call ends, it has not freed a block that the caller's structures or a function
\* on the stack still count on.
THEOREM FreesOnce == Spec => []NoDoubleFree
<1>1. CodecInv => NoDoubleFree BY DEF CodecInv, DecInv, NoDoubleFree, Blocks
<1> QED BY <1>1, CodecAlways, PTL

\* As long as no call has failed, every block a decoder function has allocated can be reached
\* from the caller's structures, whatever was encoded and however much of it arrived: only the
\* ways out of a failing call lose blocks, and vectors of integers do (decoder.c:516, 588).
THEOREM SuccessLosesNothing == Spec => [](KeepsBlocks /\ dec # "failed" => NoLeak)
<1>1. CodecInv => (KeepsBlocks /\ dec # "failed" => NoLeak)
  <2> SUFFICES ASSUME CodecInv, KeepsBlocks, dec # "failed", Idle PROVE live = held
    BY DEF NoLeak
  <2>1. dstack = <<>> BY DEF Idle, CodecInv, DecInv
  <2>2. BlocksOf(<<>>) = <<>>
    <3>1. DOMAIN <<>> = {} OBVIOUS
    <3> QED BY <3>1 DEF BlocksOf
  <2>3. Blocks(dstack) = 0 BY <2>1, <2>2, TotalEmpty DEF Blocks
  <2>4. live = held + Blocks(dstack) /\ held \in Nat BY DEF CodecInv, DecInv
  <2> QED BY <2>3, <2>4
<1> QED BY <1>1, CodecAlways, PTL
================================================================================

------------------------------- MODULE GobProofs -------------------------------
(***************************************************************************)
(* For any radix, any boundary of the one-byte values and any longest      *)
(* number: the numbers of gobber.c are decoded as they were encoded, and a *)
(* stream of messages with their lengths before them falls apart into them.*)
(***************************************************************************)
EXTENDS Gob, DataTheorems

\* Division with remainder.
LEMMA DivMod ==
  ASSUME NEW a \in Nat, NEW b \in Nat \ {0}
  PROVE  /\ a \div b \in Nat /\ a % b \in Nat /\ a % b < b
         /\ a = b * (a \div b) + (a % b)
OBVIOUS

\* Quotient and remainder are determined by the number.
LEMMA DivUnique ==
  ASSUME NEW b \in Nat \ {0}, NEW q \in Nat, NEW r \in Nat, r < b
  PROVE  (b * q + r) \div b = q
<1> DEFINE a == b * q + r
<1>1. a \in Nat OBVIOUS
<1> DEFINE p == a \div b
<1> DEFINE m == a % b
<1>2. p \in Nat /\ m \in Nat /\ m < b /\ a = b * p + m BY <1>1, DivMod
<1>3. b * p + m = b * q + r BY <1>2
<1> HIDE DEF p, m, a
<1>4. ~ (p < q)
  <2> SUFFICES ASSUME p < q PROVE FALSE OBVIOUS
  <2>1. p + 1 <= q BY <1>2
  <2>2. b * (p + 1) <= b * q BY <1>2, <2>1
  <2>3. b * (p + 1) = b * p + b BY <1>2
  <2> QED BY <1>2, <1>3, <2>2, <2>3
<1>5. ~ (q < p)
  <2> SUFFICES ASSUME q < p PROVE FALSE OBVIOUS
  <2>1. q + 1 <= p BY <1>2
  <2>2. b * (q + 1) <= b * p BY <1>2, <2>1
  <2>3. b * (q + 1) = b * q + b BY <1>2
  <2> QED BY <1>2, <1>3, <2>2, <2>3
<1>6. p = q BY <1>2, <1>4, <1>5
<1> QED BY <1>6 DEF p, a

\* Dividing twice is dividing by the product: bytes are shifted out one at a time.
LEMMA DivDiv ==
  ASSUME NEW a \in Nat, NEW b \in Nat \ {0}, NEW c \in Nat \ {0}
  PROVE  (a \div b) \div c = a \div (b * c)
<1> DEFINE q == a \div b
<1> DEFINE r == a % b
<1>1. q \in Nat /\ r \in Nat /\ r < b /\ a = b * q + r BY DivMod
<1> HIDE DEF q, r
<1> DEFINE p == q \div c
<1> DEFINE m == q % c
<1>2. p \in Nat /\ m \in Nat /\ m < c /\ q = c * p + m BY <1>1, DivMod
<1> HIDE DEF p, m
<1> DEFINE d == b * c
<1> DEFINE k == b * m + r
<1>3. d \in Nat \ {0} /\ k \in Nat
  <2>1. b * c \in Nat /\ b * m \in Nat /\ b * c # 0 BY <1>1, <1>2
  <2> QED BY <1>1, <2>1
<1>4. k < d
  <2>1. m + 1 <= c BY <1>2
  <2>2. b * (m + 1) <= b * c BY <1>2, <2>1
  <2>3. b * (m + 1) = b * m + b BY <1>2
  <2>4. b * m \in Nat /\ b * c \in Nat BY <1>2
  <2> QED BY <1>1, <2>2, <2>3, <2>4
<1>5. a = d * p + k
  <2>1. b * (c * p + m) = (b * c) * p + b * m BY <1>2
  <2> QED BY <1>1, <1>2, <2>1
<1> HIDE DEF d, k
<1>6. a \div d = p BY <1>2, <1>3, <1>4, <1>5, DivUnique
<1> QED BY <1>6 DEF d, p, q

\* A byte has at least two values.
LEMMA RadixType == Radix \in Nat /\ Radix >= 2
BY GobAssumption

\* Power satisfies the equation that defines it.
LEMMA PowerIs == Power = [n \in Nat |-> IF n = 0 THEN 1 ELSE Radix * Power[n - 1]]
<1> DEFINE H == [p \in Nat \X Nat |-> Radix * p[2]]
<1>1. H \in [Nat \X Nat -> Nat] BY RadixType
<1>2. PICK f \in [Nat -> Nat] : Recursion(f, 1, H)
  <2> HIDE DEF H
  <2> QED BY <1>1, RecursiveFunction
<1>3. f[0] = 1 /\ \A n \in Nat \ {0} : f[n] = H[<<n, f[n - 1]>>]
  <2> HIDE DEF H
  <2> QED BY <1>2 DEF Recursion
<1>4. ASSUME NEW n \in Nat \ {0} PROVE f[n] = Radix * f[n - 1]
  <2>1. n - 1 \in Nat OBVIOUS
  <2> QED BY <1>3, <2>1
<1>5. f = [n \in Nat |-> IF n = 0 THEN 1 ELSE Radix * f[n - 1]]
  <2> HIDE DEF H
  <2> QED BY <1>3, <1>4
<1> DEFINE Eq(g) == g = [n \in Nat |-> IF n = 0 THEN 1 ELSE Radix * g[n - 1]]
<1>6. Power = CHOOSE g : Eq(g) BY DEF Power
<1>7. Eq(f) BY <1>5
<1>8. Eq(CHOOSE g : Eq(g))
  <2> HIDE DEF Eq
  <2> QED BY <1>7
<1> QED BY <1>6, <1>8

\* The powers of the radix, one by one.
LEMMA PowerType ==
  /\ Power[0] = 1
  /\ \A n \in Nat : Power[n] \in Nat \ {0}
  /\ \A n \in Nat : Power[n + 1] = Radix * Power[n]
<1>1. Power[0] = 1 BY PowerIs
<1>2. ASSUME NEW n \in Nat PROVE Power[n + 1] = Radix * Power[n]
  <2>1. n + 1 \in Nat /\ n + 1 # 0 /\ (n + 1) - 1 = n OBVIOUS
  <2> QED BY <2>1, PowerIs
<1> DEFINE T == {n \in Nat : Power[n] \in Nat \ {0}}
<1>3. 0 \in T BY <1>1
<1>4. ASSUME NEW n \in Nat, n \in T PROVE n + 1 \in T
  BY <1>2, <1>4, RadixType
<1>5. Nat \subseteq T
  <2> HIDE DEF T
  <2> QED BY <1>3, <1>4, SetInduction
<1> QED BY <1>1, <1>2, <1>5

\* More bytes hold more values.
LEMMA PowerMonotone ==
  ASSUME NEW m \in Nat, NEW n \in Nat, m <= n
  PROVE  Power[m] <= Power[n]
<1> DEFINE T == {k \in Nat : m <= k => Power[m] <= Power[k]}
<1>1. 0 \in T
  <2> SUFFICES ASSUME m <= 0 PROVE Power[m] <= Power[0] OBVIOUS
  <2>1. m = 0 OBVIOUS
  <2> QED BY <2>1, PowerType
<1>2. ASSUME NEW k \in Nat, k \in T PROVE k + 1 \in T
  <2> SUFFICES ASSUME m <= k + 1 PROVE Power[m] <= Power[k + 1] OBVIOUS
  <2>1. Power[m] \in Nat /\ Power[k] \in Nat /\ Power[k + 1] = Radix * Power[k]
    BY PowerType
  <2>2. Power[k] <= Radix * Power[k] BY <2>1, RadixType
  <2>3. CASE m = k + 1 BY <2>3, <2>1, PowerType
  <2>4. CASE m <= k
    <3>1. Power[m] <= Power[k] BY <1>2, <2>4
    <3> QED BY <2>1, <2>2, <3>1, RadixType
  <2> QED BY <2>3, <2>4
<1>3. Nat \subseteq T
  <2> HIDE DEF T
  <2> QED BY <1>1, <1>2, SetInduction
<1> QED BY <1>3

\* One byte or more holds at least the values of one.
LEMMA PowerGrows ==
  ASSUME NEW n \in Nat \ {0}
  PROVE  Power[n] >= Radix
<1>1. Power[1] = Radix
  <2>1. Power[0 + 1] = Radix * Power[0] BY PowerType
  <2> QED BY <2>1, PowerType, RadixType
<1>2. Power[1] <= Power[n] BY PowerMonotone
<1> QED BY <1>1, <1>2, PowerType, RadixType

\* What is left of u after n bytes are shifted out is its low byte and what is left after
\* n + 1 are (__gob_encode_u64).
LEMMA ByteStep ==
  ASSUME NEW u \in Nat, NEW n \in Nat
  PROVE  /\ u \div Power[n] \in Nat
         /\ ByteOf(u, n) \in 0..(Radix - 1)
         /\ u \div Power[n] = (u \div Power[n + 1]) * Radix + ByteOf(u, n)
<1> DEFINE p == Power[n]
<1> DEFINE q == u \div p
<1>1. p \in Nat \ {0} BY PowerType
<1>2. Power[n + 1] = p * Radix
  <2>1. Power[n + 1] = Radix * p BY PowerType
  <2> HIDE DEF p
  <2> QED BY <1>1, <2>1, RadixType
<1> HIDE DEF p
<1>3. q \in Nat BY <1>1, DivMod
<1>4. u \div Power[n + 1] = q \div Radix BY <1>1, <1>2, RadixType, DivDiv
<1>5. ByteOf(u, n) = q % Radix BY DEF ByteOf, p
<1> HIDE DEF q
<1>6. q % Radix \in Nat /\ q % Radix < Radix /\ q \div Radix \in Nat
      /\ q = Radix * (q \div Radix) + (q % Radix)
  BY <1>3, RadixType, DivMod
<1>7. Radix * (q \div Radix) = (q \div Radix) * Radix BY <1>6, RadixType
<1> QED BY <1>3, <1>4, <1>5, <1>6, <1>7, RadixType DEF q, p

\* The number of bytes found for u is one that can be announced, and u fits into as many
\* (__gob_encode_u64).
LEMMA NumBytesProperties ==
  ASSUME NEW u \in Nat, u < Power[MaxBytes]
  PROVE  /\ NumBytes(u) \in 1..MaxBytes /\ u < Power[NumBytes(u)]
         /\ NumBytes(u) = 1 \/ u >= Power[NumBytes(u) - 1]
<1> DEFINE T == {n \in 1..MaxBytes : u < Power[n]}
<1>1. T \subseteq Nat /\ T # {} BY GobAssumption
<1>2. PICK n \in T : \A m \in T : n <= m
  <2> HIDE DEF T
  <2> QED BY <1>1, LeastElement
<1>3. n = 1 \/ u >= Power[n - 1]
  <2> SUFFICES ASSUME n # 1 PROVE ~ (u < Power[n - 1])
    BY <1>2, PowerType
  <2>1. n - 1 \in 1..MaxBytes /\ n - 1 < n BY <1>2, GobAssumption
  <2> QED BY <1>2, <2>1
<1>4. \E k \in 1..MaxBytes : u < Power[k] /\ (k = 1 \/ u >= Power[k - 1])
  BY <1>2, <1>3
<1> QED BY <1>4 DEF NumBytes

\* The bytes that gob_encode_uint64 writes for a value: they are bytes, the first says how
\* many follow, no more than MaxBytes do, and they are those of the value, high byte first.
THEOREM EncodedUintType ==
  ASSUME NEW u \in Nat, u < Power[MaxBytes]
  PROVE  /\ EncodedUint(u) \in Seq(0..(Radix - 1))
         /\ EncodedUint(u) # <<>>
         /\ Len(EncodedUint(u)) = Consumed(EncodedUint(u))
         /\ Len(EncodedUint(u)) \in 1..(MaxBytes + 1)
         /\ NumFollowing(EncodedUint(u)[1]) \in 0..MaxBytes
         /\ u >= Small => /\ Len(EncodedUint(u)) = NumBytes(u) + 1
                          /\ EncodedUint(u)[1] = Radix - NumBytes(u)
                          /\ EncodedUint(u)[1] >= Small
                          /\ \A i \in 1..NumBytes(u) :
                               EncodedUint(u)[i + 1] = ByteOf(u, NumBytes(u) - i)
<1> DEFINE e == EncodedUint(u)
<1>1. CASE u < Small
  <2>1. e = <<u>> BY <1>1 DEF EncodedUint
  <2>2. u \in 0..(Radix - 1) BY <1>1, GobAssumption
  <2>3. e \in Seq(0..(Radix - 1)) /\ Len(e) = 1 /\ e[1] = u BY <2>1, <2>2
  <2>4. NumFollowing(u) = 0 BY <1>1 DEF NumFollowing
  <2> HIDE DEF e
  <2>5. e # <<>> BY <2>1
  <2> QED BY <1>1, <2>3, <2>4, <2>5, GobAssumption DEF Consumed, e
<1>2. CASE u >= Small
  <2> DEFINE n == NumBytes(u)
  <2> DEFINE f == [i \in 1..n |-> ByteOf(u, n - i)]
  <2>1. n \in 1..MaxBytes BY NumBytesProperties
  <2> HIDE DEF n
  <2>2. ASSUME NEW i \in 1..n PROVE f[i] \in 0..(Radix - 1)
    <3>1. n - i \in Nat BY <2>1
    <3> QED BY <3>1, ByteStep
  <2>3. f \in Seq(0..(Radix - 1)) /\ Len(f) = n
    <3>1. n \in Nat BY <2>1, GobAssumption
    <3> QED BY <2>2, <3>1
  <2>4. Radix - n \in 0..(Radix - 1) /\ Radix - n >= Small BY <2>1, GobAssumption
  <2>5. <<Radix - n>> \in Seq(0..(Radix - 1)) BY <2>4
  <2>6. e = <<Radix - n>> \o f
    <3>1. ~ (u < Small) BY <1>2, GobAssumption
    <3> QED BY <3>1 DEF EncodedUint, n
  <2>8. \A i \in 1..n : f[i] = ByteOf(u, n - i) OBVIOUS
  <2> HIDE DEF e, f
  <2>10. e \in Seq(0..(Radix - 1)) /\ Len(e) = n + 1 /\ e[1] = Radix - n /\ e # <<>>
    BY <2>3, <2>4, <2>6, ConsProperties
  <2>11. \A i \in 1..n : e[i + 1] = f[i]
    BY <2>3, <2>4, <2>6, ConsProperties
  <2>12. NumFollowing(e[1]) = n
    BY <2>1, <2>4, <2>10, GobAssumption DEF NumFollowing
  <2>13. Consumed(e) = n + 1 BY <2>12 DEF Consumed
  <2>14. /\ e \in Seq(0..(Radix - 1)) /\ e # <<>> /\ Len(e) = Consumed(e)
         /\ Len(e) \in 1..(MaxBytes + 1) /\ NumFollowing(e[1]) \in 0..MaxBytes
    BY <2>1, <2>10, <2>12, <2>13, GobAssumption
  <2>15. /\ Len(e) = n + 1 /\ e[1] = Radix - n /\ e[1] >= Small
         /\ \A i \in 1..n : e[i + 1] = ByteOf(u, n - i)
    BY <2>4, <2>8, <2>10, <2>11 DEF f
  <2> QED BY <2>14, <2>15 DEF e, n
<1>3. u < Small \/ u >= Small BY GobAssumption
<1> QED BY <1>1, <1>2, <1>3

\* The loop of __gob_decode_u64: each byte shifts the value and is put below it.
LEMMA ValueIs ==
  ASSUME NEW bytes \in Seq(0..(Radix - 1)), Complete(bytes)
  PROVE  /\ NumFollowing(bytes[1]) \in 0..(Len(bytes) - 1)
         /\ ValueOf(bytes)[0] = 0
         /\ \A n \in 1..NumFollowing(bytes[1]) :
              ValueOf(bytes)[n] = ValueOf(bytes)[n - 1] * Radix + bytes[n + 1]
<1> DEFINE m == NumFollowing(bytes[1])
<1>1. Len(bytes) \in Nat \ {0} BY EmptySeq DEF Complete
<1>2. bytes[1] \in 0..(Radix - 1)
  <2>1. 1 \in 1..Len(bytes) BY <1>1
  <2> QED BY <2>1, ElementOfSeq
<1>3. m \in Nat BY <1>2, GobAssumption DEF NumFollowing
<1>4. m + 1 <= Len(bytes) BY DEF Complete, Consumed
<1> HIDE DEF m
<1> DEFINE H == [p \in Nat \X Nat |-> IF p[1] \in 1..m THEN p[2] * Radix + bytes[p[1] + 1] ELSE p[2]]
<1>5. H \in [Nat \X Nat -> Nat]
  <2>1. ASSUME NEW n \in 1..m, NEW v \in Nat PROVE v * Radix + bytes[n + 1] \in Nat
    <3>1. n + 1 \in 1..Len(bytes) BY <1>1, <1>3, <1>4
    <3>2. bytes[n + 1] \in 0..(Radix - 1) BY <3>1, ElementOfSeq
    <3> QED BY <3>2, RadixType
  <2> QED BY <2>1
<1>6. PICK f \in [Nat -> Nat] : Recursion(f, 0, H)
  <2> HIDE DEF H
  <2> QED BY <1>5, RecursiveFunction
<1>7. f[0] = 0 /\ \A n \in Nat \ {0} : f[n] = H[<<n, f[n - 1]>>]
  <2> HIDE DEF H
  <2> QED BY <1>6 DEF Recursion
<1>8. ASSUME NEW n \in 1..m PROVE f[n] = f[n - 1] * Radix + bytes[n + 1]
  <2>1. n \in Nat \ {0} /\ n - 1 \in Nat BY <1>3
  <2>2. f[n] = H[<<n, f[n - 1]>>]
    <3> HIDE DEF H
    <3> QED BY <1>7, <2>1
  <2> QED BY <2>1, <2>2
<1> HIDE DEF H
<1> DEFINE Eq(g) == g = [n \in 0..m |-> IF n = 0 THEN 0 ELSE g[n - 1] * Radix + bytes[n + 1]]
<1> DEFINE h == [n \in 0..m |-> f[n]]
<1>9. Eq(h)
  <2>1. ASSUME NEW n \in 0..m
        PROVE  h[n] = IF n = 0 THEN 0 ELSE h[n - 1] * Radix + bytes[n + 1]
    <3>1. CASE n = 0 BY <3>1, <1>7
    <3>2. CASE n # 0
      <4>1. n \in 1..m /\ n - 1 \in 0..m BY <3>2, <1>3
      <4>2. h[n] = f[n] /\ h[n - 1] = f[n - 1] BY <4>1
      <4> HIDE DEF h
      <4> QED BY <3>2, <4>1, <4>2, <1>8
    <3> QED BY <3>1, <3>2
  <2>2. h = [n \in 0..m |-> h[n]] OBVIOUS
  <2> HIDE DEF h
  <2> QED BY <2>1, <2>2
<1> DEFINE G == CHOOSE g : Eq(g)
<1>10. Eq(G)
  <2> HIDE DEF Eq
  <2> QED BY <1>9
<1>11. ValueOf(bytes) = G BY DEF ValueOf, m
<1> HIDE DEF G
<1>12. G[0] = 0 BY <1>3, <1>10
<1>13. ASSUME NEW n \in 1..m PROVE G[n] = G[n - 1] * Radix + bytes[n + 1]
  <2>1. n \in 0..m /\ n # 0 BY <1>3
  <2> QED BY <1>10, <2>1
<1>14. m \in 0..(Len(bytes) - 1) BY <1>1, <1>3, <1>4
<1> QED BY <1>11, <1>12, <1>13, <1>14 DEF m

\* What gob_decode_uint64 makes of bytes that are all there, be they an encoder's or not, is
\* a number of at most MaxBytes bytes: nothing overflows.
THEOREM DecodedUintType ==
  ASSUME NEW bytes \in Seq(0..(Radix - 1)), Complete(bytes)
  PROVE  DecodedUint(bytes) \in Nat /\ DecodedUint(bytes) < Power[MaxBytes]
<1> DEFINE m == NumFollowing(bytes[1])
<1>1. /\ m \in 0..(Len(bytes) - 1) /\ Len(bytes) \in Nat
      /\ ValueOf(bytes)[0] = 0
      /\ \A n \in 1..m : ValueOf(bytes)[n] = ValueOf(bytes)[n - 1] * Radix + bytes[n + 1]
  BY ValueIs, LenProperties
<1> HIDE DEF m
<1> DEFINE V(n) == ValueOf(bytes)[n] \in Nat /\ ValueOf(bytes)[n] < Power[n]
<1> DEFINE T == {n \in Nat : n <= m => V(n)}
<1>2. 0 \in T
  <2>1. V(0)
    <3>1. 0 \in Nat /\ 0 < 1 OBVIOUS
    <3> QED BY <1>1, <3>1, PowerType
  <2> QED BY <2>1
<1>3. ASSUME NEW n \in Nat, n \in T PROVE n + 1 \in T
  <2> SUFFICES ASSUME n + 1 <= m PROVE V(n + 1)
    OBVIOUS
  <2>1. n <= m /\ n + 1 \in 1..m /\ (n + 1) - 1 = n /\ (n + 1) + 1 \in 1..Len(bytes) BY <1>1
  <2> DEFINE v == ValueOf(bytes)[n]
  <2> DEFINE b == bytes[(n + 1) + 1]
  <2> DEFINE p == Power[n]
  <2>2. v \in Nat /\ v < p BY <1>3, <2>1
  <2>3. b \in 0..(Radix - 1) BY <2>1, ElementOfSeq
  <2>4. p \in Nat /\ Power[n + 1] = Radix * p BY PowerType
  <2>5. ValueOf(bytes)[n + 1] = v * Radix + b BY <1>1, <2>1
  <2>6. v * Radix + b \in Nat /\ v * Radix + b < Radix * p
    <3> HIDE DEF v, b, p
    <3>1. v + 1 <= p BY <2>2, <2>4
    <3>2. Radix * (v + 1) <= Radix * p BY <2>2, <2>4, <3>1, RadixType
    <3>3. Radix * (v + 1) = v * Radix + Radix BY <2>2, RadixType
    <3>4. v * Radix \in Nat /\ Radix * p \in Nat BY <2>2, <2>4, RadixType
    <3> QED BY <2>3, <3>2, <3>3, <3>4, RadixType
  <2> QED BY <2>4, <2>5, <2>6
<1>4. Nat \subseteq T
  <2> HIDE DEF T
  <2> QED BY <1>2, <1>3, SetInduction
<1>5. V(m) BY <1>1, <1>4
<1>6. CASE bytes[1] < Small
  <2>1. 1 \in 1..Len(bytes) BY <1>1
  <2>2. bytes[1] \in 0..(Radix - 1) BY <2>1, ElementOfSeq
  <2>3. Power[MaxBytes] >= Radix /\ Power[MaxBytes] \in Nat
    BY PowerGrows, PowerType, GobAssumption
  <2>4. DecodedUint(bytes) = bytes[1] BY <1>6 DEF DecodedUint
  <2> QED BY <2>2, <2>3, <2>4, GobAssumption
<1>7. CASE ~ (bytes[1] < Small) /\ m > MaxBytes
  <2>1. DecodedUint(bytes) = 0 BY <1>7 DEF DecodedUint, m
  <2>2. Power[MaxBytes] \in Nat \ {0} BY PowerType, GobAssumption
  <2> QED BY <2>1, <2>2
<1>8. CASE ~ (bytes[1] < Small) /\ ~ (m > MaxBytes)
  <2>1. DecodedUint(bytes) = ValueOf(bytes)[m] BY <1>8 DEF DecodedUint, m
  <2>2. m \in Nat /\ m <= MaxBytes BY <1>1, <1>8, GobAssumption
  <2>3. Power[m] <= Power[MaxBytes] /\ Power[m] \in Nat /\ Power[MaxBytes] \in Nat
    BY <2>2, PowerMonotone, PowerType, GobAssumption
  <2> QED BY <1>5, <2>1, <2>3
<1> QED BY <1>6, <1>7, <1>8

\* gob_decode_uint64 gives back the value that gob_encode_uint64 was given, takes exactly the
\* bytes that were written for it, and what follows them plays no part.
THEOREM DecodedEncoded ==
  ASSUME NEW u \in Nat, u < Power[MaxBytes], NEW rest \in Seq(0..(Radix - 1))
  PROVE  /\ Complete(EncodedUint(u) \o rest)
         /\ Consumed(EncodedUint(u) \o rest) = Len(EncodedUint(u))
         /\ DecodedUint(EncodedUint(u) \o rest) = u
<1> DEFINE e == EncodedUint(u)
<1> DEFINE bytes == e \o rest
<1>1. /\ e \in Seq(0..(Radix - 1)) /\ e # <<>> /\ Len(e) = Consumed(e)
      /\ Len(e) \in 1..(MaxBytes + 1)
      /\ NumFollowing(e[1]) \in 0..MaxBytes
  BY EncodedUintType
<1>2. u >= Small => /\ Len(e) = NumBytes(u) + 1 /\ e[1] = Radix - NumBytes(u)
                    /\ e[1] >= Small
                    /\ \A i \in 1..NumBytes(u) : e[i + 1] = ByteOf(u, NumBytes(u) - i)
  BY EncodedUintType
<1>2a. u < Small => e[1] = u BY DEF EncodedUint
<1> HIDE DEF e
<1>3. Len(rest) \in Nat /\ Len(e) \in Nat \ {0} BY <1>1, LenProperties, GobAssumption
<1>4. /\ bytes \in Seq(0..(Radix - 1)) /\ Len(bytes) = Len(e) + Len(rest)
      /\ \A i \in 1..(Len(e) + Len(rest)) :
           bytes[i] = IF i <= Len(e) THEN e[i] ELSE rest[i - Len(e)]
  BY <1>1, ConcatProperties
<1> HIDE DEF bytes
<1>5. \A i \in 1..Len(e) : bytes[i] = e[i] BY <1>3, <1>4
<1>6. bytes[1] = e[1] BY <1>3, <1>5
<1>7. Complete(bytes) /\ Consumed(bytes) = Len(e)
  <2>1. Consumed(bytes) = Len(e) BY <1>1, <1>6 DEF Consumed
  <2>2. bytes # <<>> BY <1>3, <1>4, EmptySeq
  <2> QED BY <1>3, <1>4, <2>1, <2>2 DEF Complete
<1>8. DecodedUint(bytes) = u
  <2>1. CASE u < Small BY <1>2a, <1>6, <2>1 DEF DecodedUint
  <2>2. CASE u >= Small
    <3> DEFINE n == NumBytes(u)
    <3>1. n \in 1..MaxBytes /\ u < Power[n] BY NumBytesProperties
    <3> HIDE DEF n
    <3>2. Len(e) = n + 1 /\ e[1] >= Small /\ \A i \in 1..n : e[i + 1] = ByteOf(u, n - i)
      BY <1>2, <2>2 DEF n
    <3>3. e[1] \in 0..(Radix - 1) /\ e[1] = Radix - n
      <4>1. 1 \in 1..Len(e) BY <1>3
      <4>2. e[1] \in 0..(Radix - 1) BY <1>1, <4>1, ElementOfSeq
      <4> QED BY <1>2, <2>2, <4>2 DEF n
    <3>4. NumFollowing(bytes[1]) = n
      BY <1>6, <3>1, <3>2, <3>3, GobAssumption DEF NumFollowing
    <3>5. /\ ValueOf(bytes)[0] = 0
          /\ \A j \in 1..n : ValueOf(bytes)[j] = ValueOf(bytes)[j - 1] * Radix + bytes[j + 1]
      BY <1>4, <1>7, <3>4, ValueIs
    <3> DEFINE T == {j \in Nat : j <= n => ValueOf(bytes)[j] = u \div Power[n - j]}
    <3>6. 0 \in T
      <4>1. n \in Nat /\ n - 0 = n BY <3>1, GobAssumption
      <4>2. Power[n] \in Nat \ {0} BY <4>1, PowerType
      <4>3. u \div Power[n] = 0 BY <3>1, <4>2
      <4> QED BY <3>5, <4>1, <4>3
    <3>7. ASSUME NEW j \in Nat, j \in T PROVE j + 1 \in T
      <4> SUFFICES ASSUME j + 1 <= n PROVE ValueOf(bytes)[j + 1] = u \div Power[n - (j + 1)]
        OBVIOUS
      <4> DEFINE k == n - (j + 1)
      <4>1. j <= n /\ j + 1 \in 1..n /\ (j + 1) - 1 = j /\ k \in Nat /\ k + 1 = n - j
            /\ (j + 1) + 1 \in 1..Len(e)
        BY <3>1, <3>2, GobAssumption
      <4>2. ValueOf(bytes)[j] = u \div Power[n - j] BY <3>7, <4>1
      <4>3. bytes[(j + 1) + 1] = ByteOf(u, k) BY <3>2, <4>1, <1>5
      <4>4. ValueOf(bytes)[j + 1] = ValueOf(bytes)[j] * Radix + bytes[(j + 1) + 1]
        BY <3>5, <4>1
      <4> HIDE DEF k
      <4>5. u \div Power[k] = (u \div Power[k + 1]) * Radix + ByteOf(u, k)
        BY <4>1, ByteStep
      <4>6. ValueOf(bytes)[j + 1] = u \div Power[k]
        BY <4>1, <4>2, <4>3, <4>4, <4>5
      <4> QED BY <4>6 DEF k
    <3>8. Nat \subseteq T
      <4> HIDE DEF T
      <4> QED BY <3>6, <3>7, SetInduction
    <3>9. ValueOf(bytes)[n] = u
      <4>1. n \in Nat /\ n - n = 0 BY <3>1, GobAssumption
      <4>2. ValueOf(bytes)[n] = u \div Power[0] BY <3>8, <4>1
      <4>3. u \div 1 = u OBVIOUS
      <4> QED BY <4>2, <4>3, PowerType
    <3>10. ~ (bytes[1] < Small) BY <1>6, <3>2, <3>3, GobAssumption
    <3>11. ~ (n > MaxBytes) BY <3>1, GobAssumption
    <3> QED BY <3>4, <3>9, <3>10, <3>11 DEF DecodedUint
  <2>3. u < Small \/ u >= Small BY GobAssumption
  <2> QED BY <2>1, <2>2, <2>3
<1> QED BY <1>7, <1>8 DEF bytes, e

\* gob_decode_int64 gives back the value that gob_encode_int64 was given, positive or
\* negative, as long as it has MaxBytes bytes with the bit for its sign.
THEOREM DecodedEncodedInt ==
  ASSUME NEW v \in Int, NEW rest \in Seq(0..(Radix - 1)),
         2 * v < Power[MaxBytes], 2 * (-v - 1) + 1 < Power[MaxBytes]
  PROVE  DecodedInt(EncodedInt(v) \o rest) = v
<1> DEFINE u == IF v < 0 THEN 2 * (-v - 1) + 1 ELSE 2 * v
<1>1. u \in Nat /\ u < Power[MaxBytes] OBVIOUS
<1>2. u % 2 = (IF v < 0 THEN 1 ELSE 0) /\ u \div 2 = (IF v < 0 THEN -v - 1 ELSE v)
  OBVIOUS
<1>3. EncodedInt(v) = EncodedUint(u) BY DEF EncodedInt
<1> HIDE DEF u
<1>4. DecodedUint(EncodedUint(u) \o rest) = u BY <1>1, DecodedEncoded
<1>5. DecodedInt(EncodedInt(v) \o rest) = IF u % 2 = 1 THEN -(u \div 2) - 1 ELSE u \div 2
  BY <1>3, <1>4 DEF DecodedInt
<1>6. CASE v < 0
  <2>1. u % 2 = 1 /\ u \div 2 = -v - 1 BY <1>2, <1>6
  <2> QED BY <1>5, <2>1
<1>7. CASE ~ (v < 0)
  <2>1. u % 2 = 0 /\ u \div 2 = v BY <1>2, <1>7
  <2> QED BY <1>5, <2>1
<1> QED BY <1>6, <1>7

\* The loop of __gob_flip_u64: each byte, the low one first, is put below those before it.
LEMMA FlippedIs ==
  ASSUME NEW u \in Nat
  PROVE  \E f \in [Nat -> Nat] : /\ Flip(u) = f[MaxBytes]
                                 /\ f[0] = 0
                                 /\ \A n \in Nat : f[n + 1] = f[n] * Radix + ByteOf(u, n)
<1> DEFINE H == [p \in Nat \X Nat |->
                   IF p[1] = 0 THEN 0 ELSE p[2] * Radix + ByteOf(u, p[1] - 1)]
<1>1. H \in [Nat \X Nat -> Nat]
  <2>1. ASSUME NEW p \in Nat \X Nat PROVE H[p] \in Nat
    <3>1. CASE p[1] = 0 BY <3>1
    <3>2. CASE p[1] # 0
      <4>1. p[1] - 1 \in Nat /\ p[2] \in Nat BY <3>2
      <4>2. ByteOf(u, p[1] - 1) \in 0..(Radix - 1) BY <4>1, ByteStep
      <4> DEFINE b == ByteOf(u, p[1] - 1)
      <4>3. H[p] = p[2] * Radix + b BY <3>2
      <4> HIDE DEF b
      <4>4. b \in Nat BY <4>2, RadixType DEF b
      <4> QED BY <4>1, <4>3, <4>4, RadixType
    <3> QED BY <3>1, <3>2
  <2> QED BY <2>1
<1>2. PICK f \in [Nat -> Nat] : Recursion(f, 0, H)
  <2> HIDE DEF H
  <2> QED BY <1>1, RecursiveFunction
<1>3. f[0] = 0 /\ \A n \in Nat \ {0} : f[n] = H[<<n, f[n - 1]>>]
  <2> HIDE DEF H
  <2> QED BY <1>2 DEF Recursion
<1>4. ASSUME NEW n \in Nat \ {0} PROVE f[n] = f[n - 1] * Radix + ByteOf(u, n - 1)
  <2>1. n - 1 \in Nat OBVIOUS
  <2>2. f[n] = H[<<n, f[n - 1]>>]
    <3> HIDE DEF H
    <3> QED BY <1>3
  <2> QED BY <2>1, <2>2
<1> HIDE DEF H
<1> DEFINE Eq(g) == g = [n \in Nat |-> IF n = 0 THEN 0 ELSE g[n - 1] * Radix + ByteOf(u, n - 1)]
<1>5. Eq(f) BY <1>3, <1>4
<1> DEFINE G == CHOOSE g : Eq(g)
<1>6. Eq(G)
  <2> HIDE DEF Eq
  <2> QED BY <1>5
<1>7. Flip(u) = G[MaxBytes] BY DEF Flip
<1> HIDE DEF G
<1>8. G[0] = 0 BY <1>6
<1>9. ASSUME NEW n \in Nat PROVE G[n + 1] = G[n] * Radix + ByteOf(u, n)
  <2>1. n + 1 \in Nat /\ n + 1 # 0 /\ (n + 1) - 1 = n OBVIOUS
  <2>2. G[n + 1] = G[(n + 1) - 1] * Radix + ByteOf(u, (n + 1) - 1) BY <1>6, <2>1
  <2> QED BY <2>1, <2>2
<1> DEFINE T == {n \in Nat : G[n] \in Nat}
<1>10. 0 \in T BY <1>8
<1>11. ASSUME NEW n \in Nat, n \in T PROVE n + 1 \in T
  <2> DEFINE b == ByteOf(u, n)
  <2>1. b \in 0..(Radix - 1) BY ByteStep
  <2>2. G[n + 1] = G[n] * Radix + b BY <1>9
  <2> HIDE DEF b
  <2> QED BY <1>11, <2>1, <2>2, RadixType
<1>12. Nat \subseteq T
  <2> HIDE DEF T
  <2> QED BY <1>10, <1>11, SetInduction
<1>13. G \in [Nat -> Nat]
  <2>1. G = [n \in Nat |-> G[n]] BY <1>6
  <2>2. \A n \in Nat : G[n] \in Nat BY <1>12
  <2> HIDE DEF Eq, T
  <2> QED BY <2>1, <2>2
<1> QED BY <1>7, <1>8, <1>9, <1>13

\* The bytes of n flipped bytes are those it took, in the other order.
LEMMA FlippedBytes ==
  ASSUME NEW u \in Nat, NEW f \in [Nat -> Nat], f[0] = 0,
         \A n \in Nat : f[n + 1] = f[n] * Radix + ByteOf(u, n),
         NEW n \in Nat
  PROVE  \A k \in 0..(n - 1) : ByteOf(f[n], k) = ByteOf(u, n - k - 1)
<1>1. ASSUME NEW m \in Nat
      PROVE  f[m + 1] \div Radix = f[m] /\ f[m + 1] % Radix = ByteOf(u, m)
  <2> DEFINE b == ByteOf(u, m)
  <2> DEFINE a == f[m + 1]
  <2>1. b \in 0..(Radix - 1) BY ByteStep
  <2>2. a = f[m] * Radix + b /\ f[m] \in Nat /\ a \in Nat OBVIOUS
  <2> DEFINE q == f[m]
  <2> HIDE DEF a, b, q
  <2>3. b \in Nat /\ b < Radix /\ a = Radix * q + b /\ q \in Nat /\ Radix \in Nat \ {0}
    BY <2>1, <2>2, RadixType DEF q
  <2>4. a \div Radix = q BY <2>3, DivUnique
  <2>6. a % Radix \in Nat /\ a = Radix * (a \div Radix) + (a % Radix) BY <2>2, <2>3, DivMod
  <2> DEFINE r == a % Radix
  <2> DEFINE p == Radix * q
  <2>5. p \in Nat BY <2>3
  <2>7. r \in Nat /\ a = p + r /\ a = p + b BY <2>3, <2>4, <2>6
  <2> HIDE DEF r, p
  <2>8. r = b BY <2>3, <2>5, <2>7
  <2> QED BY <2>4, <2>8 DEF a, b, q, r
<1> DEFINE T == {k \in Nat : k <= n => f[n] \div Power[k] = f[n - k]}
<1>2. 0 \in T
  <2>1. f[n] \in Nat /\ n - 0 = n OBVIOUS
  <2>2. f[n] \div 1 = f[n] BY <2>1
  <2> QED BY <2>1, <2>2, PowerType
<1>3. ASSUME NEW k \in Nat, k \in T PROVE k + 1 \in T
  <2> SUFFICES ASSUME k + 1 <= n PROVE f[n] \div Power[k + 1] = f[n - (k + 1)] OBVIOUS
  <2> DEFINE m == n - (k + 1)
  <2>1. m \in Nat /\ m + 1 = n - k /\ k <= n OBVIOUS
  <2>2. f[n] \div Power[k] = f[m + 1] BY <1>3, <2>1
  <2>3. Power[k + 1] = Power[k] * Radix /\ Power[k] \in Nat \ {0}
    <3>1. Power[k + 1] = Radix * Power[k] /\ Power[k] \in Nat BY PowerType
    <3> DEFINE p == Power[k]
    <3>2. Radix * p = p * Radix
      <4>1. p \in Nat BY <3>1
      <4> HIDE DEF p
      <4> QED BY <4>1, RadixType
    <3> QED BY <3>1, <3>2, PowerType
  <2> DEFINE a == f[n]
  <2> DEFINE p == Power[k]
  <2>4. a \in Nat /\ p \in Nat \ {0} /\ Radix \in Nat \ {0} BY <2>3, RadixType
  <2> HIDE DEF a, p, m
  <2>5. a \div (p * Radix) = (a \div p) \div Radix BY <2>4, DivDiv
  <2>6. f[m + 1] \div Radix = f[m] BY <1>1, <2>1
  <2> QED BY <2>2, <2>3, <2>5, <2>6 DEF a, p, m
<1>4. Nat \subseteq T
  <2> HIDE DEF T
  <2> QED BY <1>2, <1>3, SetInduction
<1>5. ASSUME NEW k \in 0..(n - 1) PROVE ByteOf(f[n], k) = ByteOf(u, n - k - 1)
  <2> DEFINE m == n - k - 1
  <2>1. m \in Nat /\ m + 1 = n - k /\ k \in Nat /\ k <= n OBVIOUS
  <2>2. f[n] \div Power[k] = f[n - k] BY <1>4, <2>1
  <2>3. ByteOf(f[n], k) = f[m + 1] % Radix BY <2>1, <2>2 DEF ByteOf
  <2> HIDE DEF m
  <2>4. ByteOf(f[n], k) = ByteOf(u, m) BY <1>1, <2>1, <2>3
  <2> QED BY <2>4 DEF m
<1> QED BY <1>5

\* n flipped bytes are a number of n bytes.
LEMMA FlippedFits ==
  ASSUME NEW u \in Nat, NEW f \in [Nat -> Nat], f[0] = 0,
         \A n \in Nat : f[n + 1] = f[n] * Radix + ByteOf(u, n)
  PROVE  \A n \in Nat : f[n] < Power[n]
<1> DEFINE T == {n \in Nat : f[n] < Power[n]}
<1>1. 0 \in T BY PowerType
<1>2. ASSUME NEW n \in Nat, n \in T PROVE n + 1 \in T
  <2> DEFINE b == ByteOf(u, n)
  <2> DEFINE p == Power[n]
  <2> DEFINE q == f[n]
  <2>1. b \in 0..(Radix - 1) BY ByteStep
  <2>2. f[n + 1] = q * Radix + b /\ Power[n + 1] = Radix * p /\ q \in Nat /\ p \in Nat /\ q < p
    BY <1>2, PowerType
  <2> HIDE DEF b, p, q
  <2>3. (q + 1) * Radix <= p * Radix BY <2>2, RadixType
  <2>4. q * Radix + b < (q + 1) * Radix BY <2>1, <2>2, RadixType
  <2>5. p * Radix = Radix * p BY <2>2, RadixType
  <2>6. q * Radix + b < Radix * p
    <3> DEFINE x == (q + 1) * Radix
    <3> DEFINE y == p * Radix
    <3> DEFINE z == q * Radix + b
    <3>1. x \in Int /\ y \in Int /\ z \in Int BY <2>1, <2>2, RadixType
    <3>2. x <= y /\ z < x BY <2>3, <2>4
    <3> HIDE DEF x, y, z
    <3>3. z < y BY <3>1, <3>2
    <3> QED BY <2>5, <3>3 DEF y, z
  <2> QED BY <2>2, <2>6
<1>3. Nat \subseteq T
  <2> HIDE DEF T
  <2> QED BY <1>1, <1>2, SetInduction
<1> QED BY <1>3

\* Flipping the bytes of a double twice gives back its pattern, and no bit is lost on the way
\* (__gob_flip_u64).
THEOREM FlipTwice ==
  ASSUME NEW u \in Nat, u < Power[MaxBytes]
  PROVE  Flip(u) \in Nat /\ Flip(u) < Power[MaxBytes] /\ Flip(Flip(u)) = u
<1> DEFINE M == MaxBytes
<1>0. M \in Nat \ {0} BY GobAssumption
<1>1. PICK f \in [Nat -> Nat] : /\ Flip(u) = f[M] /\ f[0] = 0
                                /\ \A n \in Nat : f[n + 1] = f[n] * Radix + ByteOf(u, n)
  BY FlippedIs
<1>2. Flip(u) \in Nat /\ Flip(u) < Power[M] BY <1>0, <1>1, FlippedFits
<1> DEFINE w == Flip(u)
<1>3. \A k \in 0..(M - 1) : ByteOf(w, k) = ByteOf(u, M - k - 1)
  <2> HIDE DEF M
  <2>1. \A k \in 0..(M - 1) : ByteOf(f[M], k) = ByteOf(u, M - k - 1)
    BY <1>0, <1>1, FlippedBytes
  <2> QED BY <1>1, <2>1
<1> HIDE DEF w
<1>4. PICK g \in [Nat -> Nat] : /\ Flip(w) = g[M] /\ g[0] = 0
                                /\ \A n \in Nat : g[n + 1] = g[n] * Radix + ByteOf(w, n)
  BY <1>2, FlippedIs DEF w
<1> HIDE DEF M
<1> DEFINE T == {n \in Nat : n <= M => g[n] = u \div Power[M - n]}
<1>5. 0 \in T
  <2>1. M - 0 = M /\ Power[M] \in Nat \ {0} /\ u < Power[M] BY <1>0, PowerType DEF M
  <2> DEFINE p == Power[M]
  <2>2. u \div p = 0
    <3>1. p \in Nat \ {0} /\ u < p BY <2>1
    <3> HIDE DEF p
    <3> QED BY <3>1
  <2> QED BY <1>4, <2>1, <2>2
<1>6. ASSUME NEW n \in Nat, n \in T PROVE n + 1 \in T
  <2> SUFFICES ASSUME n + 1 <= M PROVE g[n + 1] = u \div Power[M - (n + 1)] OBVIOUS
  <2> DEFINE k == M - (n + 1)
  <2>1. k \in Nat /\ k + 1 = M - n /\ n <= M /\ n \in 0..(M - 1) /\ M - n - 1 = k BY <1>0
  <2>2. g[n] = u \div Power[k + 1] BY <1>6, <2>1
  <2>3. g[n + 1] = g[n] * Radix + ByteOf(u, k) BY <1>3, <1>4, <2>1
  <2> HIDE DEF k
  <2>4. u \div Power[k] = (u \div Power[k + 1]) * Radix + ByteOf(u, k) BY <2>1, ByteStep
  <2>5. g[n + 1] = u \div Power[k] BY <2>2, <2>3, <2>4
  <2> QED BY <2>5 DEF k
<1>7. Nat \subseteq T
  <2> HIDE DEF T
  <2> QED BY <1>5, <1>6, SetInduction
<1>8. g[M] = u
  <2>1. M \in Nat /\ M - M = 0 /\ M <= M BY <1>0
  <2>2. g[M] = u \div Power[0] BY <1>7, <2>1
  <2>3. u \div 1 = u OBVIOUS
  <2> QED BY <2>2, <2>3, PowerType
<1> QED BY <1>2, <1>4, <1>8 DEF w, M

\* gob_decode_double gives back the pattern of the double that gob_encode_double was given, bit
\* by bit, whatever follows.
THEOREM DecodedEncodedDouble ==
  ASSUME NEW u \in Nat, u < Power[MaxBytes], NEW rest \in Seq(0..(Radix - 1))
  PROVE  DecodedDouble(EncodedDouble(u) \o rest) = u
<1> DEFINE w == Flip(u)
<1>1. w \in Nat /\ w < Power[MaxBytes] /\ Flip(w) = u BY FlipTwice
<1> HIDE DEF w
<1>2. DecodedUint(EncodedUint(w) \o rest) = w BY <1>1, DecodedEncoded
<1> QED BY <1>1, <1>2 DEF DecodedDouble, EncodedDouble, w

\* The values of a byte.
Byte == 0..(Radix - 1)
\* The messages whose length can be announced.
Sendable == {m \in Seq(Byte) : Len(m) < Power[MaxBytes]}

\* A message that can be sent, the bytes of its length, and its frame.
LEMMA FrameType ==
  ASSUME NEW m \in Sendable
  PROVE  /\ m \in Seq(Byte) /\ Len(m) \in Nat /\ Len(m) < Power[MaxBytes]
         /\ EncodedUint(Len(m)) \in Seq(Byte) /\ EncodedUint(Len(m)) # <<>>
         /\ Frame(m) \in Seq(Byte)
<1>1. m \in Seq(Byte) /\ Len(m) \in Nat /\ Len(m) < Power[MaxBytes]
  BY LenProperties DEF Sendable
<1>2. EncodedUint(Len(m)) \in Seq(Byte) /\ EncodedUint(Len(m)) # <<>>
  BY <1>1, EncodedUintType DEF Byte
<1>3. EncodedUint(Len(m)) \o m \in Seq(Byte) BY <1>1, <1>2, ConcatProperties
<1> QED BY <1>1, <1>2, <1>3 DEF Frame

\* The frames of a sequence of messages.
LEMMA FramesType ==
  ASSUME NEW ms \in Seq(Sendable)
  PROVE  /\ [i \in DOMAIN ms |-> Frame(ms[i])] \in Seq(Seq(Byte))
         /\ Len([i \in DOMAIN ms |-> Frame(ms[i])]) = Len(ms)
         /\ DOMAIN ms = 1..Len(ms)
<1>1. Len(ms) \in Nat /\ DOMAIN ms = 1..Len(ms) BY LenProperties
<1>2. \A i \in 1..Len(ms) : Frame(ms[i]) \in Seq(Byte)
  <2> TAKE i \in 1..Len(ms)
  <2>1. ms[i] \in Sendable BY ElementOfSeq
  <2> QED BY <2>1, FrameType
<1> QED BY <1>1, <1>2

\* No messages, no bytes.
LEMMA StreamEmpty == Stream(<<>>) = <<>>
<1>1. [i \in DOMAIN <<>> |-> Frame(<<>>[i])] = <<>> OBVIOUS
<1> QED BY <1>1, FlattenEmpty DEF Stream

\* A stream of messages is a sequence of bytes.
LEMMA StreamType ==
  ASSUME NEW ms \in Seq(Sendable)
  PROVE  Stream(ms) \in Seq(Byte)
BY FramesType, FlattenType DEF Stream

\* glme_buf_writem and uv_write put the frame of a message behind the bytes already there.
LEMMA StreamAppend ==
  ASSUME NEW ms \in Seq(Sendable), NEW m \in Sendable
  PROVE  Stream(Append(ms, m)) = Stream(ms) \o Frame(m)
<1> DEFINE a == Append(ms, m)
<1>0. Len(ms) \in Nat BY LenProperties
<1>1. a \in Seq(Sendable) /\ Len(a) = Len(ms) + 1 /\ a[Len(ms) + 1] = m
      /\ \A i \in 1..Len(ms) : a[i] = ms[i]
  BY AppendProperties
<1> HIDE DEF a
<1> DEFINE f == [i \in DOMAIN ms |-> Frame(ms[i])]
<1> DEFINE g == [i \in DOMAIN a |-> Frame(a[i])]
<1>2. f \in Seq(Seq(Byte)) /\ Len(f) = Len(ms) /\ DOMAIN ms = 1..Len(ms) BY FramesType
<1>3. g \in Seq(Seq(Byte)) /\ Len(g) = Len(a) /\ DOMAIN a = 1..Len(a) BY <1>1, FramesType
<1>4. \A i \in 1..Len(ms) : f[i] = Frame(ms[i]) BY <1>2
<1>5. \A i \in 1..Len(a) : g[i] = Frame(a[i]) BY <1>3
<1> HIDE DEF f, g
<1>6. Frame(m) \in Seq(Byte) BY FrameType
<1> DEFINE h == Append(f, Frame(m))
<1>7. h \in Seq(Seq(Byte)) /\ Len(h) = Len(f) + 1 /\ h[Len(f) + 1] = Frame(m)
      /\ \A i \in 1..Len(f) : h[i] = f[i]
  BY <1>2, <1>6, AppendProperties
<1> HIDE DEF h
<1>8. Len(g) = Len(h) BY <1>1, <1>2, <1>3, <1>7
<1>9. ASSUME NEW i \in 1..Len(g) PROVE g[i] = h[i]
  <2>1. i \in 1..Len(a) /\ g[i] = Frame(a[i]) BY <1>3, <1>5
  <2>2. CASE i \in 1..Len(ms) BY <1>1, <1>2, <1>4, <1>7, <2>1, <2>2
  <2>3. CASE i = Len(ms) + 1 BY <1>1, <1>2, <1>7, <2>1, <2>3
  <2> QED BY <1>0, <1>1, <2>1, <2>2, <2>3
<1>10. g = h BY <1>3, <1>7, <1>8, <1>9, SeqEqual
<1>11. FlattenSeq(h) = FlattenSeq(f) \o Frame(m) BY <1>2, <1>6, FlattenAppend DEF h
<1> QED BY <1>10, <1>11 DEF Stream, f, g, a

\* glme_buf_readm and on_read find the frame of the first message before those of the others.
LEMMA StreamCons ==
  ASSUME NEW ms \in Seq(Sendable), ms # <<>>
  PROVE  /\ Head(ms) \in Sendable /\ Tail(ms) \in Seq(Sendable)
         /\ Stream(ms) = Frame(Head(ms)) \o Stream(Tail(ms))
<1>0. Len(ms) \in Nat \ {0} BY EmptySeq
<1> DEFINE t == Tail(ms)
<1>1. Head(ms) \in Sendable /\ t \in Seq(Sendable) /\ Len(t) = Len(ms) - 1
      /\ \A i \in 1..Len(t) : t[i] = ms[i + 1]
  BY HeadTailProperties
<1>1a. Head(ms) = ms[1] BY <1>0
<1> HIDE DEF t
<1> DEFINE f == [i \in DOMAIN t |-> Frame(t[i])]
<1> DEFINE g == [i \in DOMAIN ms |-> Frame(ms[i])]
<1>2. f \in Seq(Seq(Byte)) /\ Len(f) = Len(t) /\ DOMAIN t = 1..Len(t) BY <1>1, FramesType
<1>3. g \in Seq(Seq(Byte)) /\ Len(g) = Len(ms) /\ DOMAIN ms = 1..Len(ms) BY FramesType
<1>4. \A i \in 1..Len(t) : f[i] = Frame(t[i]) BY <1>2
<1>5. \A i \in 1..Len(ms) : g[i] = Frame(ms[i]) BY <1>3
<1> HIDE DEF f, g
<1>6. Frame(Head(ms)) \in Seq(Byte) BY <1>1, FrameType
<1> DEFINE h == <<Frame(Head(ms))>> \o f
<1>7. h \in Seq(Seq(Byte)) /\ Len(h) = Len(f) + 1 /\ h[1] = Frame(Head(ms))
      /\ \A i \in 1..Len(f) : h[i + 1] = f[i]
  BY <1>2, <1>6, ConsProperties
<1> HIDE DEF h
<1>8. Len(g) = Len(h) BY <1>0, <1>1, <1>2, <1>3, <1>7
<1>9. ASSUME NEW i \in 1..Len(g) PROVE g[i] = h[i]
  <2>1. i \in 1..Len(ms) /\ g[i] = Frame(ms[i]) BY <1>3, <1>5
  <2>2. CASE i = 1 BY <1>1a, <1>7, <2>1, <2>2
  <2>3. CASE i # 1
    <3>1. PICK j \in 1..Len(t) : i = j + 1
      <4>1. i - 1 \in 1..Len(t) /\ i = (i - 1) + 1 BY <1>0, <1>1, <2>1, <2>3
      <4> QED BY <4>1
    <3>2. h[j + 1] = Frame(t[j]) /\ t[j] = ms[j + 1] BY <1>1, <1>2, <1>4, <1>7
    <3> QED BY <2>1, <3>1, <3>2
  <2> QED BY <2>2, <2>3
<1>10. g = h BY <1>3, <1>7, <1>8, <1>9, SeqEqual
<1>11. FlattenSeq(h) = Frame(Head(ms)) \o FlattenSeq(f)
  BY <1>2, <1>6, FlattenCons DEF h
<1> QED BY <1>1, <1>10, <1>11 DEF Stream, f, g, t

\* Bytes at the start of a stream that are, by their first one, a whole number are the length
\* of its first message, and what follows them is that message and the frames of the others:
\* a prefix is never taken for a shorter or a longer one, whatever follows. On this rest
\* glme_buf_readm and on_read, which decode the bytes read so far and ask for more when
\* glme_decode_value_uint64 says that some are missing.
THEOREM PrefixOfStream ==
  ASSUME NEW ms \in Seq(Sendable), NEW p \in Seq(Byte), NEW coming \in Seq(Byte),
         p \o coming = Stream(ms), Complete(p), Len(p) = Consumed(p)
  PROVE  /\ ms # <<>> /\ Head(ms) \in Sendable /\ Tail(ms) \in Seq(Sendable)
         /\ p = EncodedUint(Len(Head(ms)))
         /\ DecodedUint(p) = Len(Head(ms))
         /\ coming = Head(ms) \o Stream(Tail(ms))
<1>1. Len(p) \in Nat \ {0} BY EmptySeq DEF Complete
<1>2. ms # <<>>
  <2> SUFFICES ASSUME ms = <<>> PROVE FALSE OBVIOUS
  <2>1. p \o coming = <<>> BY StreamEmpty
  <2>2. p = <<>> BY <2>1, ConcatEqualIffEmpty
  <2> QED BY <2>2 DEF Complete
<1> DEFINE m == Head(ms)
<1> DEFINE e == EncodedUint(Len(m))
<1> DEFINE t == Stream(Tail(ms))
<1>3. m \in Sendable /\ Tail(ms) \in Seq(Sendable) /\ Stream(ms) = Frame(m) \o t
  BY <1>2, StreamCons
<1>4. /\ m \in Seq(Byte) /\ Len(m) \in Nat /\ Len(m) < Power[MaxBytes]
      /\ e \in Seq(Byte)
  BY <1>3, FrameType
<1>5. t \in Seq(Byte) BY <1>3, StreamType
<1> HIDE DEF m, t
<1>6. /\ Len(e) = Consumed(e) /\ Len(e) \in Nat /\ e # <<>>
      /\ \A r \in Seq(Byte) : DecodedUint(e \o r) = Len(m)
  BY <1>4, EncodedUintType, LenProperties, DecodedEncoded DEF Byte
<1>7. Frame(m) = e \o m BY DEF Frame
<1> HIDE DEF e
<1>8. m \o t \in Seq(Byte) BY <1>4, <1>5, ConcatProperties
<1>9. p \o coming = e \o (m \o t)
  <2>1. Associates(e, m, t) BY <1>4, <1>5, Associative
  <2>2. (e \o m) \o t = e \o (m \o t) BY <2>1 DEF Associates
  <2> QED BY <1>3, <1>7, <2>2
<1>10. p[1] = e[1]
  <2>0. Len(e) \in Nat \ {0} BY <1>4, <1>6, EmptySeq
  <2>1. Len(coming) \in Nat /\ Len(m \o t) \in Nat BY <1>8, LenProperties
  <2>2. (p \o coming)[1] = p[1]
    <3>1. 1 \in 1..(Len(p) + Len(coming)) /\ 1 <= Len(p) BY <1>1, <2>1
    <3> QED BY <3>1, ConcatProperties
  <2>3. (e \o (m \o t))[1] = e[1]
    <3>1. 1 \in 1..(Len(e) + Len(m \o t)) /\ 1 <= Len(e) BY <2>0, <2>1
    <3> QED BY <1>4, <1>8, <3>1, ConcatProperties
  <2> QED BY <1>9, <2>2, <2>3
<1>11. Len(p) = Len(e) BY <1>6, <1>10 DEF Consumed
<1>12. p = e /\ coming = m \o t BY <1>4, <1>8, <1>9, <1>11, ConcatEqual
<1>13. DecodedUint(p) = Len(m)
  <2>1. e \o <<>> = e /\ <<>> \in Seq(Byte) BY <1>4, ConcatEmptySeq, EmptySeq
  <2> QED BY <1>6, <1>12, <2>1
<1> QED BY <1>2, <1>3, <1>12, <1>13 DEF m, e, t

\* The first byte of a stream says how many bytes the length of its first message has.
LEMMA FirstOfStream ==
  ASSUME NEW ms \in Seq(Sendable), NEW p \in Seq(Byte), NEW coming \in Seq(Byte),
         p \o coming = Stream(ms), p # <<>>
  PROVE  /\ ms # <<>> /\ Head(ms) \in Sendable
         /\ p[1] = EncodedUint(Len(Head(ms)))[1]
         /\ NumFollowing(p[1]) \in 0..MaxBytes
         /\ Len(EncodedUint(Len(Head(ms)))) = NumFollowing(p[1]) + 1
<1>1. ms # <<>>
  <2> SUFFICES ASSUME ms = <<>> PROVE FALSE OBVIOUS
  <2>1. p \o coming = <<>> BY StreamEmpty
  <2> QED BY <2>1, ConcatEqualIffEmpty
<1> DEFINE m == Head(ms)
<1> DEFINE e == EncodedUint(Len(m))
<1> DEFINE t == Stream(Tail(ms))
<1>2. m \in Sendable /\ t \in Seq(Byte) /\ Stream(ms) = (e \o m) \o t
  BY <1>1, StreamCons, StreamType DEF Frame
<1>3. /\ m \in Seq(Byte) /\ e \in Seq(Byte) /\ e # <<>> /\ Len(e) = Consumed(e)
      /\ NumFollowing(e[1]) \in 0..MaxBytes
  BY <1>2, FrameType, EncodedUintType
<1> HIDE DEF m, e, t
<1>4. e \o m \in Seq(Byte) /\ e \o m # <<>> BY <1>3, ConcatProperties, ConcatEqualIffEmpty
<1>5. (p \o coming)[1] = p[1] BY FirstOfConcat
<1>6. (e \o m)[1] = e[1] BY <1>3, FirstOfConcat
<1>7. ((e \o m) \o t)[1] = (e \o m)[1]
  <2> DEFINE em == e \o m
  <2>1. em \in Seq(Byte) /\ em # <<>> BY <1>4
  <2> HIDE DEF em
  <2>2. (em \o t)[1] = em[1] BY <1>2, <2>1, FirstOfConcat
  <2> QED BY <2>2 DEF em
<1>8. p[1] = e[1] BY <1>2, <1>5, <1>6, <1>7
<1> QED BY <1>1, <1>2, <1>3, <1>8 DEF Consumed, m, e
=================================================================================

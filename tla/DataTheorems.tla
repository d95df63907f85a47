------------------------------ MODULE DataTheorems ------------------------------
(***************************************************************************)
(* Numbers, sequences and recursive functions: facts that the proofs about *)
(* the channel and the libuv programs share.                               *)
(*                                                                         *)
(* The library's induction theorems take a predicate as an operator, which *)
(* the provers cannot instantiate.  Here induction is over a set, and      *)
(* rests on the library's theorem that the order of the numbers is well    *)
(* founded; RecursiveFunction obtains a recursive function from it.        *)
(***************************************************************************)
EXTENDS Integers, Sequences, SequencesExt, SequenceTheorems, WellFoundedInduction, TLAPS

\* A set of natural numbers that has an element has a least one.
LEMMA LeastElement ==
  ASSUME NEW T, T \subseteq Nat, T # {}
  PROVE  \E x \in T : \A y \in T : x <= y
<1> DEFINE less == {p \in Nat \X Nat : p[1] < p[2]}
<1>1. IsWellFoundedOn(less, Nat)
  BY NatLessThanWellFounded DEF OpToRel
<1>2. PICK x \in T : \A y \in T : ~ (<<y, x>> \in less)
  <2> HIDE DEF less
  <2> QED BY <1>1, WFMin
<1>3. \A y \in T : x <= y
  <2> TAKE y \in T
  <2>1. x \in Nat /\ y \in Nat OBVIOUS
  <2>2. ~ (y < x) BY <1>2, <2>1
  <2> QED BY <2>1, <2>2
<1> QED BY <1>3

\* Induction over the natural numbers for a set T, which stands for the predicate that
\* the library's NatInduction takes as an operator.
LEMMA SetInduction ==
  ASSUME NEW T, 0 \in T, \A n \in Nat : n \in T => n + 1 \in T
  PROVE  Nat \subseteq T
<1> SUFFICES ASSUME Nat \ T # {} PROVE FALSE
  OBVIOUS
<1>1. PICK x \in Nat \ T : \A y \in Nat \ T : x <= y
  BY LeastElement
<1>2. x # 0 /\ x - 1 \in Nat /\ x - 1 \notin Nat \ T
  BY <1>1
<1> QED BY <1>1, <1>2

\* f is the function with value a at 0, and at n what H makes of n and its value before n.
Recursion(f, a, H) == f[0] = a /\ \A n \in Nat \ {0} : f[n] = H[<<n, f[n - 1]>>]

\* Such a function exists: with it a CHOOSE over the functions defined by recursion, which
\* is what f[n \in S] == ... f[n - 1] ... stands for, is known to have found one.
LEMMA RecursiveFunction ==
  ASSUME NEW S, NEW a \in S, NEW H \in [Nat \X S -> S]
  PROVE  \E f \in [Nat -> S] : Recursion(f, a, H)
<1> DEFINE Step(n, f) == f[0] = a /\ \A k \in 1..n : f[k] = H[<<k, f[k - 1]>>]
<1> DEFINE T == {n \in Nat : \E f \in [0..n -> S] : Step(n, f)}
<1>1. 0 \in T
  <2>1. Step(0, [i \in 0..0 |-> a]) OBVIOUS
  <2> QED BY <2>1
<1>2. ASSUME NEW n \in Nat, n \in T PROVE n + 1 \in T
  <2>1. PICK f \in [0..n -> S] : Step(n, f) BY <1>2
  <2> DEFINE g == [i \in 0..(n + 1) |-> IF i = n + 1 THEN H[<<n + 1, f[n]>>] ELSE f[i]]
  <2>2. g \in [0..(n + 1) -> S] OBVIOUS
  <2>3. Step(n + 1, g)
    <3>1. g[0] = a BY <2>1
    <3>2. ASSUME NEW k \in 1..(n + 1) PROVE g[k] = H[<<k, g[k - 1]>>]
      <4>1. CASE k = n + 1
        <5>1. g[n + 1] = H[<<n + 1, f[n]>>] /\ g[n] = f[n] OBVIOUS
        <5>2. k - 1 = n BY <4>1
        <5> HIDE DEF g
        <5> QED BY <4>1, <5>1, <5>2
      <4>2. CASE k # n + 1
        BY <4>2, <2>1
      <4> QED BY <4>1, <4>2
    <3> QED BY <3>1, <3>2
  <2> HIDE DEF g
  <2> QED BY <2>2, <2>3
<1>3. Nat \subseteq T
  <2> HIDE DEF T
  <2> QED BY <1>1, <1>2, SetInduction
<1>4. ASSUME NEW m \in Nat, NEW n \in Nat, m <= n, NEW f, NEW g, Step(m, f), Step(n, g)
      PROVE  \A k \in 0..m : f[k] = g[k]
  <2> DEFINE U == {k \in Nat : k <= m => f[k] = g[k]}
  <2>1. 0 \in U BY <1>4
  <2>2. ASSUME NEW k \in Nat, k \in U PROVE k + 1 \in U
    <3>1. SUFFICES ASSUME k + 1 <= m PROVE f[k + 1] = g[k + 1] OBVIOUS
    <3>2. f[k] = g[k] BY <2>2, <3>1
    <3>3. k + 1 \in 1..m /\ k + 1 \in 1..n /\ (k + 1) - 1 = k BY <3>1, <1>4
    <3>4. f[k + 1] = H[<<k + 1, f[k]>>] BY <3>3, <1>4
    <3>5. g[k + 1] = H[<<k + 1, g[k]>>] BY <3>3, <1>4
    <3> QED BY <3>2, <3>4, <3>5
  <2>3. Nat \subseteq U
    <3> HIDE DEF U
    <3> QED BY <2>1, <2>2, SetInduction
  <2> QED BY <2>3
<1> DEFINE F(n) == CHOOSE f \in [0..n -> S] : Step(n, f)
<1>5. \A n \in Nat : F(n) \in [0..n -> S] /\ Step(n, F(n))
  <2> TAKE n \in Nat
  <2>1. \E f \in [0..n -> S] : Step(n, f) BY <1>3
  <2> HIDE DEF Step
  <2> QED BY <2>1
<1> DEFINE f == [n \in Nat |-> F(n)[n]]
<1>6. f \in [Nat -> S]
  <2> HIDE DEF F
  <2>1. \A n \in Nat : F(n)[n] \in S BY <1>5
  <2> QED BY <2>1
<1>7. f[0] = a
  <2> HIDE DEF F
  <2> QED BY <1>5
<1>8. ASSUME NEW n \in Nat \ {0} PROVE f[n] = H[<<n, f[n - 1]>>]
  <2> HIDE DEF F
  <2>1. n - 1 \in Nat /\ n - 1 <= n /\ n - 1 \in 0..(n - 1) /\ n \in 1..n OBVIOUS
  <2>2. F(n - 1)[n - 1] = F(n)[n - 1]
    <3> HIDE DEF Step
    <3>1. Step(n - 1, F(n - 1)) /\ Step(n, F(n)) BY <1>5, <2>1
    <3> QED BY <3>1, <2>1, <1>4
  <2>3. F(n)[n] = H[<<n, F(n)[n - 1]>>] BY <1>5, <2>1
  <2> QED BY <2>1, <2>2, <2>3
<1> HIDE DEF f
<1>9. Recursion(f, a, H) BY <1>7, <1>8 DEF Recursion
<1> QED BY <1>6, <1>9

\* The type, length and elements of a sequence with one element put before it.
LEMMA ConsProperties ==
  ASSUME NEW S, NEW a \in S, NEW s \in Seq(S)
  PROVE  /\ <<a>> \o s \in Seq(S)
         /\ <<a>> \o s # <<>>
         /\ Len(<<a>> \o s) = Len(s) + 1
         /\ (<<a>> \o s)[1] = a
         /\ \A i \in 1..Len(s) : (<<a>> \o s)[i + 1] = s[i]
<1>1. <<a>> \in Seq(S) /\ Len(<<a>>) = 1 /\ <<a>>[1] = a OBVIOUS
<1> DEFINE b == <<a>>
<1> HIDE DEF b
<1>2. b \in Seq(S) /\ Len(b) = 1 /\ b[1] = a BY <1>1 DEF b
<1>3. Len(s) \in Nat BY LenProperties
<1>3a. /\ b \o s \in Seq(S) /\ Len(b \o s) = Len(b) + Len(s)
       /\ \A i \in 1..(Len(b) + Len(s)) :
            (b \o s)[i] = IF i <= Len(b) THEN b[i] ELSE s[i - Len(b)]
  BY <1>2, ConcatProperties
<1>4. Len(b \o s) = Len(s) + 1 BY <1>2, <1>3, <1>3a
<1>5. (b \o s)[1] = a BY <1>2, <1>3, <1>3a
<1>6. ASSUME NEW i \in 1..Len(s) PROVE (b \o s)[i + 1] = s[i]
  <2>1. i + 1 \in 1..(Len(b) + Len(s)) /\ ~ (i + 1 <= Len(b)) /\ (i + 1) - Len(b) = i
    BY <1>2, <1>3
  <2> QED BY <1>3a, <2>1
<1>7. b \o s # <<>> BY <1>3, <1>4, EmptySeq
<1> QED BY <1>3a, <1>4, <1>5, <1>6, <1>7 DEF b

\* FlattenSeq is the last value of any function that puts the parts together one by one:
\* the fold it is defined by is unfolded here, and nowhere else.
LEMMA FlattenIs ==
  ASSUME NEW X, NEW ss \in Seq(Seq(X)), NEW f \in [Nat -> Seq(X)],
         f[0] = <<>>, \A k \in 1..Len(ss) : f[k] = f[k - 1] \o ss[k]
  PROVE  FlattenSeq(ss) = f[Len(ss)]
<1>1. CASE ss = <<>>
  BY <1>1 DEF FlattenSeq
<1>2. CASE ss # <<>>
  <2>1. Len(ss) \in Nat \ {0} BY <1>2, EmptySeq
  <2> DEFINE Eq(g) == g = [i \in 1..Len(ss) |-> IF i = 1 THEN ss[i] ELSE g[i - 1] \o ss[i]]
  <2> DEFINE h == [i \in 1..Len(ss) |-> f[i]]
  <2>2. Eq(h)
    <3>1. ASSUME NEW i \in 1..Len(ss)
          PROVE  h[i] = IF i = 1 THEN ss[i] ELSE h[i - 1] \o ss[i]
      <4>1. ss[i] \in Seq(X) BY ElementOfSeq
      <4>2. CASE i = 1
        <5>1. i - 1 = 0 /\ h[i] = f[i] BY <4>2
        <5>2. f[i] = f[i - 1] \o ss[i] OBVIOUS
        <5>3. <<>> \o ss[i] = ss[i] BY <4>1, ConcatEmptySeq
        <5> HIDE DEF h
        <5> QED BY <4>2, <5>1, <5>2, <5>3
      <4>3. CASE i # 1
        <5>1. i - 1 \in 1..Len(ss) BY <4>3, <2>1
        <5>2. h[i] = f[i] /\ h[i - 1] = f[i - 1] BY <5>1
        <5> HIDE DEF h
        <5> QED BY <4>3, <5>2
      <4> QED BY <4>2, <4>3
    <3> HIDE DEF h
    <3>2. h = [i \in 1..Len(ss) |-> h[i]] BY DEF h
    <3> QED BY <3>1, <3>2
  <2>3. FlattenSeq(ss) = (CHOOSE g : Eq(g))[Len(ss)]
    <3>1. Len(ss) # 0 BY <2>1
    <3> QED BY <3>1, Zenon DEF FlattenSeq
  <2> DEFINE G == CHOOSE g : Eq(g)
  <2>4. Eq(G)
    <3> HIDE DEF Eq, h
    <3> QED BY <2>2
  <2> HIDE DEF G
  <2> DEFINE U == {k \in Nat : k + 1 <= Len(ss) => G[k + 1] = f[k + 1]}
  <2>5. 0 \in U
    <3>0. PICK i \in 1..Len(ss) : i = 1 BY <2>1
    <3>1. G[i] = ss[i] BY <2>1, <2>4, <3>0
    <3>2a. f[i] = f[i - 1] \o ss[i] OBVIOUS
    <3>2b. i - 1 = 0 BY <3>0
    <3>2. f[i] = <<>> \o ss[i] BY <3>2a, <3>2b
    <3>3. ss[i] \in Seq(X) BY ElementOfSeq
    <3>4. <<>> \o ss[i] = ss[i] BY <3>3, ConcatEmptySeq
    <3>5. G[i] = f[i] BY <3>1, <3>2, <3>4
    <3>6. i = 0 + 1 BY <3>0
    <3> QED BY <3>5, <3>6
  <2>6. ASSUME NEW k \in Nat, k \in U PROVE k + 1 \in U
    <3>1. SUFFICES ASSUME (k + 1) + 1 <= Len(ss)
                   PROVE  G[(k + 1) + 1] = f[(k + 1) + 1]
      OBVIOUS
    <3> DEFINE i == (k + 1) + 1
    <3>2. i \in 1..Len(ss) /\ i # 1 /\ i - 1 = k + 1 BY <3>1, <2>1
    <3>3. G[k + 1] = f[k + 1] BY <2>6, <3>1, <2>1
    <3> HIDE DEF i
    <3>4. G[i] = G[i - 1] \o ss[i] BY <2>4, <3>2
    <3>5. f[i] = f[i - 1] \o ss[i] BY <3>2
    <3>6. G[i] = f[i] BY <3>2, <3>3, <3>4, <3>5
    <3> QED BY <3>6 DEF i
  <2>7. Nat \subseteq U
    <3> HIDE DEF U
    <3> QED BY <2>5, <2>6, SetInduction
  <2>8. Len(ss) - 1 \in Nat /\ (Len(ss) - 1) + 1 = Len(ss) BY <2>1
  <2>9. Len(ss) - 1 \in U
    <3> HIDE DEF U
    <3> QED BY <2>7, <2>8
  <2>10. G[Len(ss)] = f[Len(ss)] BY <2>8, <2>9
  <2> QED BY <2>10, <2>3 DEF G
<1> QED BY <1>1, <1>2

\* A function that puts the parts together one by one exists.
LEMMA FlattenFunction ==
  ASSUME NEW X, NEW ss \in Seq(Seq(X))
  PROVE  \E f \in [Nat -> Seq(X)] :
           f[0] = <<>> /\ \A k \in 1..Len(ss) : f[k] = f[k - 1] \o ss[k]
<1> DEFINE H == [p \in Nat \X Seq(X) |-> IF p[1] \in 1..Len(ss) THEN p[2] \o ss[p[1]] ELSE p[2]]
<1>1. H \in [Nat \X Seq(X) -> Seq(X)]
  <2>1. ASSUME NEW n \in 1..Len(ss), NEW s \in Seq(X) PROVE s \o ss[n] \in Seq(X)
    BY ElementOfSeq, ConcatProperties
  <2> QED BY <2>1
<1>2. <<>> \in Seq(X) BY EmptySeq
<1>3. PICK f \in [Nat -> Seq(X)] : Recursion(f, <<>>, H)
  <2> HIDE DEF H
  <2> QED BY <1>1, <1>2, RecursiveFunction
<1>4. f[0] = <<>> /\ \A n \in Nat \ {0} : f[n] = H[<<n, f[n - 1]>>]
  <2> HIDE DEF H
  <2> QED BY <1>3 DEF Recursion
<1>5. ASSUME NEW k \in 1..Len(ss) PROVE f[k] = f[k - 1] \o ss[k]
  <2>1. k \in Nat \ {0} /\ k - 1 \in Nat BY LenProperties
  <2>2. f[k] = H[<<k, f[k - 1]>>]
    <3> HIDE DEF H
    <3> QED BY <1>4, <2>1
  <2> QED BY <2>1, <2>2
<1> QED BY <1>4, <1>5

\* No parts, no elements.
LEMMA FlattenEmpty == FlattenSeq(<<>>) = <<>>
BY DEF FlattenSeq

\* The parts of a sequence of sequences over X, one after the other, are one over X.
LEMMA FlattenType ==
  ASSUME NEW X, NEW ss \in Seq(Seq(X))
  PROVE  FlattenSeq(ss) \in Seq(X)
<1>1. Len(ss) \in Nat BY LenProperties
<1>2. PICK f \in [Nat -> Seq(X)] :
        f[0] = <<>> /\ \A k \in 1..Len(ss) : f[k] = f[k - 1] \o ss[k]
  BY FlattenFunction
<1>3. FlattenSeq(ss) = f[Len(ss)] BY <1>2, FlattenIs
<1> QED BY <1>1, <1>2, <1>3

\* A part put behind the others puts its elements behind theirs.
LEMMA FlattenAppend ==
  ASSUME NEW X, NEW ss \in Seq(Seq(X)), NEW s \in Seq(X)
  PROVE  FlattenSeq(Append(ss, s)) = FlattenSeq(ss) \o s
<1> DEFINE all == Append(ss, s)
<1>1. all \in Seq(Seq(X)) /\ Len(all) = Len(ss) + 1 /\ all[Len(ss) + 1] = s
      /\ \A i \in 1..Len(ss) : all[i] = ss[i]
  BY AppendProperties
<1>2. Len(ss) \in Nat BY LenProperties
<1> HIDE DEF all
<1>3. PICK f \in [Nat -> Seq(X)] :
        f[0] = <<>> /\ \A k \in 1..Len(all) : f[k] = f[k - 1] \o all[k]
  BY <1>1, FlattenFunction
<1>4. FlattenSeq(all) = f[Len(all)] BY <1>1, <1>3, FlattenIs
<1>5. ASSUME NEW k \in 1..Len(ss) PROVE f[k] = f[k - 1] \o ss[k]
  <2>1. k \in 1..Len(all) BY <1>1, <1>2
  <2>2. all[k] = ss[k] BY <1>1
  <2> QED BY <2>1, <2>2, <1>3
<1>6. FlattenSeq(ss) = f[Len(ss)] BY <1>3, <1>5, FlattenIs
<1>7. f[Len(all)] = f[Len(ss)] \o s
  <2>1. Len(all) \in 1..Len(all) /\ Len(all) - 1 = Len(ss) BY <1>1, <1>2
  <2> QED BY <2>1, <1>1, <1>3
<1> QED BY <1>4, <1>6, <1>7 DEF all

\* A name for the equation: the provers rewrite with the lemma itself for ever.
Associates(s, t, u) == (s \o t) \o u = s \o (t \o u)

\* Concatenation is associative, under its name.
LEMMA Associative ==
  ASSUME NEW S, NEW s \in Seq(S), NEW t \in Seq(S), NEW u \in Seq(S)
  PROVE  Associates(s, t, u)
BY ConcatAssociative DEF Associates

\* The step of the induction for FlattenCons: it still holds with a part put behind.
LEMMA FlattenConsAppend ==
  ASSUME NEW X, NEW s \in Seq(X), NEW uu \in Seq(Seq(X)), NEW u \in Seq(X),
         FlattenSeq(<<s>> \o uu) = s \o FlattenSeq(uu)
  PROVE  FlattenSeq(<<s>> \o Append(uu, u)) = s \o FlattenSeq(Append(uu, u))
<1>0. <<s>> \in Seq(Seq(X)) OBVIOUS
<1>1. <<s>> \o Append(uu, u) = Append(<<s>> \o uu, u)
  <2>1. Append(uu, u) = uu \o <<u>> BY AppendIsConcat
  <2>2. <<u>> \in Seq(Seq(X)) OBVIOUS
  <2>3. <<s>> \o uu \in Seq(Seq(X)) BY <1>0, ConcatProperties
  <2>4. Append(<<s>> \o uu, u) = (<<s>> \o uu) \o <<u>> BY <2>3, AppendIsConcat
  <2> DEFINE a == <<s>>
  <2> DEFINE b == <<u>>
  <2>5. a \in Seq(Seq(X)) /\ b \in Seq(Seq(X)) BY <1>0, <2>2
  <2> HIDE DEF a, b
  <2>6. Associates(a, uu, b) BY <2>5, Associative
  <2> QED BY <2>1, <2>4, <2>6 DEF a, b, Associates
<1>2. <<s>> \o uu \in Seq(Seq(X)) BY <1>0, ConcatProperties
<1>3. FlattenSeq(<<s>> \o Append(uu, u)) = (s \o FlattenSeq(uu)) \o u
  BY <1>1, <1>2, FlattenAppend
<1>4. FlattenSeq(Append(uu, u)) = FlattenSeq(uu) \o u BY FlattenAppend
<1>5. FlattenSeq(uu) \in Seq(X) BY FlattenType
<1> DEFINE v == FlattenSeq(uu)
<1> HIDE DEF v
<1>6. v \in Seq(X) BY <1>5 DEF v
<1>7. Associates(s, v, u) BY <1>6, Associative
<1>8. (s \o v) \o u = s \o (v \o u) BY <1>7 DEF Associates
<1> QED BY <1>3, <1>4, <1>8 DEF v

\* A part put before the others puts its elements before theirs.
LEMMA FlattenCons ==
  ASSUME NEW X, NEW s \in Seq(X), NEW ss \in Seq(Seq(X))
  PROVE  FlattenSeq(<<s>> \o ss) = s \o FlattenSeq(ss)
<1> DEFINE T == {n \in Nat : \A tt \in Seq(Seq(X)) :
                   Len(tt) = n => FlattenSeq(<<s>> \o tt) = s \o FlattenSeq(tt)}
<1>1. 0 \in T
  <2> SUFFICES ASSUME NEW tt \in Seq(Seq(X)), Len(tt) = 0
               PROVE  FlattenSeq(<<s>> \o tt) = s \o FlattenSeq(tt)
    OBVIOUS
  <2>1. tt = <<>> BY EmptySeq
  <2>2. <<s>> \o tt = Append(<<>>, s) BY <2>1
  <2>3. <<>> \in Seq(Seq(X)) OBVIOUS
  <2>4. FlattenSeq(Append(<<>>, s)) = FlattenSeq(<<>>) \o s BY <2>3, FlattenAppend
  <2>5. <<>> \o s = s /\ s \o <<>> = s BY ConcatEmptySeq
  <2> QED BY <2>1, <2>2, <2>4, <2>5, FlattenEmpty
<1>2. ASSUME NEW n \in Nat, n \in T PROVE n + 1 \in T
  <2> SUFFICES ASSUME NEW tt \in Seq(Seq(X)), Len(tt) = n + 1
               PROVE  FlattenSeq(<<s>> \o tt) = s \o FlattenSeq(tt)
    <3>1. n + 1 \in Nat OBVIOUS
    <3> QED BY <3>1
  <2>1. tt # <<>> BY EmptySeq
  <2>2. PICK uu \in Seq(Seq(X)), u \in Seq(X) : tt = Append(uu, u)
    BY <2>1, SequenceEmptyOrAppend
  <2>3. Len(uu) = n
    <3>1. Len(uu) \in Nat BY LenProperties
    <3> QED BY <2>2, <3>1, AppendProperties
  <2>4. FlattenSeq(<<s>> \o uu) = s \o FlattenSeq(uu) BY <1>2, <2>3
  <2> QED BY <2>2, <2>4, FlattenConsAppend
<1>3. Nat \subseteq T
  <2> HIDE DEF T
  <2> QED BY <1>1, <1>2, SetInduction
<1>4. Len(ss) \in T BY <1>3, LenProperties
<1> QED BY <1>4

\* A sequence cut after its first k elements.
LEMMA SplitAt ==
  ASSUME NEW S, NEW s \in Seq(S), NEW k \in 0..Len(s)
  PROVE  /\ SubSeq(s, 1, k) \in Seq(S) /\ Len(SubSeq(s, 1, k)) = k
         /\ SubSeq(s, k + 1, Len(s)) \in Seq(S)
         /\ Len(SubSeq(s, k + 1, Len(s))) = Len(s) - k
         /\ SubSeq(s, 1, k) \o SubSeq(s, k + 1, Len(s)) = s
<1>1. Len(s) \in Nat /\ k \in Nat /\ k <= Len(s) BY LenProperties
<1>2. \A i \in 1..Len(s) : s[i] \in S BY ElementOfSeq
<1>3. SubSeq(s, 1, k) \in Seq(S) /\ Len(SubSeq(s, 1, k)) = k
  <2>1. 1 \in Int /\ k \in Int /\ \A i \in 1..k : s[i] \in S BY <1>1, <1>2
  <2>2. /\ SubSeq(s, 1, k) \in Seq(S)
        /\ Len(SubSeq(s, 1, k)) = IF 1 <= k THEN k - 1 + 1 ELSE 0
    BY <2>1, SubSeqProperties
  <2> QED BY <1>1, <2>2
<1>4. /\ SubSeq(s, k + 1, Len(s)) \in Seq(S)
      /\ Len(SubSeq(s, k + 1, Len(s))) = Len(s) - k
  <2>1. k + 1 \in Int /\ Len(s) \in Int /\ \A i \in (k + 1)..Len(s) : s[i] \in S
    BY <1>1, <1>2
  <2>2. /\ SubSeq(s, k + 1, Len(s)) \in Seq(S)
        /\ Len(SubSeq(s, k + 1, Len(s))) = IF k + 1 <= Len(s) THEN Len(s) - (k + 1) + 1 ELSE 0
    BY <2>1, SubSeqProperties
  <2> QED BY <1>1, <2>2
<1>5. SubSeq(s, 1, k) \o SubSeq(s, k + 1, Len(s)) = SubSeq(s, 1, Len(s))
  <2>1. 1 \in 1..(Len(s) + 1) /\ k \in (1 - 1)..Len(s) /\ Len(s) \in k..Len(s) BY <1>1
  <2> QED BY <2>1, ConcatAdjacentSubSeq
<1> QED BY <1>3, <1>4, <1>5, SubSeqFull

\* The elements of the two pieces.
LEMMA ElementOfSplit ==
  ASSUME NEW S, NEW s \in Seq(S), NEW k \in 0..Len(s)
  PROVE  /\ \A i \in 1..k : SubSeq(s, 1, k)[i] = s[i]
         /\ \A i \in 1..(Len(s) - k) : SubSeq(s, k + 1, Len(s))[i] = s[k + i]
<1>1. Len(s) \in Nat /\ k \in Nat /\ k <= Len(s) BY LenProperties
<1>2. \A i \in 1..Len(s) : s[i] \in S BY ElementOfSeq
<1>3. \A i \in 1..k : SubSeq(s, 1, k)[i] = s[i]
  <2>1. 1 \in Int /\ k \in Int /\ \A i \in 1..k : s[i] \in S BY <1>1, <1>2
  <2>2. \A i \in 1..(k - 1 + 1) : SubSeq(s, 1, k)[i] = s[1 + i - 1]
    BY <2>1, SubSeqProperties
  <2>3. \A i \in 1..k : i \in 1..(k - 1 + 1) /\ 1 + i - 1 = i BY <1>1
  <2> QED BY <2>2, <2>3
<1>4. \A i \in 1..(Len(s) - k) : SubSeq(s, k + 1, Len(s))[i] = s[k + i]
  <2>1. k + 1 \in Int /\ Len(s) \in Int /\ \A i \in (k + 1)..Len(s) : s[i] \in S
    BY <1>1, <1>2
  <2>2. \A i \in 1..(Len(s) - (k + 1) + 1) : SubSeq(s, k + 1, Len(s))[i] = s[k + 1 + i - 1]
    BY <2>1, SubSeqProperties
  <2>3. \A i \in 1..(Len(s) - k) :
          i \in 1..(Len(s) - (k + 1) + 1) /\ k + 1 + i - 1 = k + i BY <1>1
  <2> QED BY <2>2, <2>3
<1> QED BY <1>3, <1>4

\* Of two ways to write one sequence as two parts, those cut at the same place are the same.
LEMMA ConcatEqual ==
  ASSUME NEW S, NEW a \in Seq(S), NEW b \in Seq(S), NEW c \in Seq(S), NEW d \in Seq(S),
         a \o b = c \o d, Len(a) = Len(c)
  PROVE  a = c /\ b = d
<1>1. /\ Len(a) \in Nat /\ Len(b) \in Nat /\ Len(c) \in Nat /\ Len(d) \in Nat
  BY LenProperties
<1>2. \A i \in 1..(Len(a) + Len(b)) :
        (a \o b)[i] = IF i <= Len(a) THEN a[i] ELSE b[i - Len(a)]
  BY ConcatProperties
<1>3. \A i \in 1..(Len(c) + Len(d)) :
        (c \o d)[i] = IF i <= Len(c) THEN c[i] ELSE d[i - Len(c)]
  BY ConcatProperties
<1>4. \A i \in 1..Len(a) : a[i] = c[i]
  <2> TAKE i \in 1..Len(a)
  <2>1. i \in 1..(Len(a) + Len(b)) /\ i \in 1..(Len(c) + Len(d)) /\ i <= Len(a) /\ i <= Len(c)
    BY <1>1
  <2> QED BY <1>2, <1>3, <2>1
<1>5. a = c BY <1>4, SeqEqual
<1>6. b = d BY <1>5, ConcatSimplifications
<1> QED BY <1>5, <1>6

\* A name for this equation too: the bytes b move from the second part to the first.
Regroups(a, b, c, d) == (a \o (b \o c)) \o d = (a \o b) \o (c \o d)

\* What stays the same when bytes move from the wire to the hands of the reader.
LEMMA Regroup ==
  ASSUME NEW S, NEW a \in Seq(S), NEW b \in Seq(S), NEW c \in Seq(S), NEW d \in Seq(S)
  PROVE  Regroups(a, b, c, d)
<1>1. Associates(a, b, c) BY Associative
<1>2. a \o b \in Seq(S) BY ConcatProperties
<1>3. Associates(a \o b, c, d) BY <1>2, Associative
<1> QED BY <1>1, <1>3 DEF Associates, Regroups

\* The first element of s \o t is that of s, unless s is empty.
LEMMA FirstOfConcat ==
  ASSUME NEW S, NEW s \in Seq(S), NEW t \in Seq(S), s # <<>>
  PROVE  (s \o t)[1] = s[1] /\ s[1] \in S
<1>1. Len(s) \in Nat \ {0} /\ Len(t) \in Nat BY EmptySeq, LenProperties
<1>2. 1 \in 1..(Len(s) + Len(t)) /\ 1 <= Len(s) BY <1>1
<1> QED BY <1>1, <1>2, ConcatProperties

\* When the part before the cut is long enough to hold m, it begins with m, and what
\* follows m in it is followed by the rest.
LEMMA ConcatTaken ==
  ASSUME NEW S, NEW p \in Seq(S), NEW rest \in Seq(S), NEW m \in Seq(S), NEW t \in Seq(S),
         p \o rest = m \o t, Len(m) <= Len(p)
  PROVE  /\ SubSeq(p, 1, Len(m)) = m
         /\ SubSeq(p, Len(m) + 1, Len(p)) \o rest = t
<1>1. Len(m) \in 0..Len(p)
  <2>1. Len(m) \in Nat /\ Len(p) \in Nat BY LenProperties
  <2> QED BY <2>1
<1> DEFINE k == Len(m)
<1> DEFINE x == SubSeq(p, 1, k)
<1> DEFINE y == SubSeq(p, k + 1, Len(p))
<1>2. x \in Seq(S) /\ Len(x) = Len(m) /\ y \in Seq(S) /\ x \o y = p
  <2>1. k \in 0..Len(p) BY <1>1
  <2> HIDE DEF k
  <2>2. x \in Seq(S) /\ Len(x) = k /\ y \in Seq(S) /\ x \o y = p
    BY ONLY <2>1, p \in Seq(S), SplitAt
  <2> QED BY <2>2 DEF k
<1> HIDE DEF x, y
<1>3. x \o (y \o rest) = m \o t
  <2>1. Associates(x, y, rest) BY <1>2, Associative
  <2> QED BY <1>2, <2>1 DEF Associates
<1>4. y \o rest \in Seq(S) BY <1>2, ConcatProperties
<1>5. x = m /\ y \o rest = t BY <1>2, <1>3, <1>4, ConcatEqual
<1> QED BY <1>5 DEF x, y

\* A prefix is what can be continued.
LEMMA PrefixIs ==
  ASSUME NEW S, NEW s \in Seq(S), NEW t \in Seq(S)
  PROVE  /\ IsPrefix(s, t) <=> \E rest \in Seq(S) : s \o rest = t
<1>0. Len(s) \in Nat /\ Len(t) \in Nat BY LenProperties
<1>1. ASSUME NEW rest \in Seq(S), s \o rest = t PROVE IsPrefix(s, t)
  <2>1. Len(t) = Len(s) + Len(rest) /\ Len(rest) \in Nat
    <3>1. Len(s \o rest) = Len(s) + Len(rest) BY ConcatProperties
    <3> QED BY <1>1, <3>1, LenProperties
  <2>2. <<>> \in Seq(S) /\ t \o <<>> = s \o rest BY <1>1, EmptySeq, ConcatEmptySeq
  <2>3. Len(s) <= Len(t) BY <1>0, <2>1
  <2>4. SubSeq(t, 1, Len(s)) = s BY <2>2, <2>3, ConcatTaken
  <2>5. SubSeq(s, 1, Len(s)) = s BY SubSeqFull
  <2>6. DOMAIN s = 1..Len(s) /\ DOMAIN t = 1..Len(t) BY LenProperties
  <2> QED BY <2>3, <2>4, <2>5, <2>6 DEF IsPrefix
<1>2. ASSUME IsPrefix(s, t) PROVE \E rest \in Seq(S) : s \o rest = t
  <2>1. Len(s) <= Len(t) /\ SubSeq(s, 1, Len(s)) = SubSeq(t, 1, Len(s)) BY <1>2 DEF IsPrefix
  <2>2. Len(s) \in 0..Len(t) BY <1>0, <2>1
  <2>3. SubSeq(t, 1, Len(s)) = s BY <2>1, SubSeqFull
  <2> QED BY <2>2, <2>3, SplitAt
<1> QED BY <1>1, <1>2

\* A prefix is no longer than the sequence and agrees with it on its elements.
LEMMA PrefixElements ==
  ASSUME NEW S, NEW s \in Seq(S), NEW t \in Seq(S)
  PROVE  IsPrefix(s, t) <=> Len(s) <= Len(t) /\ \A i \in 1..Len(s) : s[i] = t[i]
<1>1. Len(s) \in Nat /\ Len(t) \in Nat BY LenProperties
<1>2. CASE Len(s) <= Len(t)
  <2> DEFINE p == SubSeq(t, 1, Len(s))
  <2>1. Len(s) \in 0..Len(t) BY <1>1, <1>2
  <2>2. p \in Seq(S) /\ Len(p) = Len(s) /\ \A i \in 1..Len(s) : p[i] = t[i]
    BY <2>1, SplitAt, ElementOfSplit
  <2>3. IsPrefix(s, t) <=> s = p
    <3>1. SubSeq(s, 1, Len(s)) = s BY SubSeqFull
    <3> QED BY <1>2, <3>1 DEF IsPrefix
  <2> HIDE DEF p
  <2>4. s = p <=> \A i \in 1..Len(s) : s[i] = p[i]
    BY <1>1, <2>2, SeqEqual
  <2> QED BY <1>2, <2>2, <2>3, <2>4
<1>3. CASE ~ (Len(s) <= Len(t)) BY <1>3 DEF IsPrefix
<1> QED BY <1>2, <1>3

\* A sequence with an element is its front and its last element.
LEMMA FrontLast ==
  ASSUME NEW S, NEW s \in Seq(S), s # <<>>
  PROVE  /\ Len(s) \in Nat \ {0}
         /\ Last(s) \in S /\ Front(s) \in Seq(S)
         /\ Len(Front(s)) = Len(s) - 1
         /\ s = Append(Front(s), Last(s))
<1>1. Len(s) \in Nat \ {0} BY EmptySeq
<1>2. Len(s) \in 1..Len(s) BY <1>1
<1>3. Last(s) \in S BY <1>2, ElementOfSeq DEF Last
<1>4. Front(s) \in Seq(S) /\ Len(Front(s)) = Len(s) - 1
  <2>1. Len(s) - 1 \in 0..Len(s) BY <1>1
  <2> QED BY <2>1, SplitAt DEF Front
<1>5. s = Append(Front(s), Last(s))
  <2>1. 1 \in 1..Len(s) /\ Len(s) \in 1..Len(s) BY <1>1
  <2>2. SubSeq(s, 1, Len(s)) = SubSeq(s, 1, Len(s) - 1) \o <<s[Len(s)]>>
    BY <2>1, SubSeqRecursiveSecond
  <2>3. s = Front(s) \o <<Last(s)>> BY <2>2, SubSeqFull DEF Front, Last
  <2> QED BY <1>3, <1>4, <2>3, AppendIsConcat
<1> QED BY <1>1, <1>3, <1>4, <1>5

\* The front and the last element of what Append makes.
LEMMA AppendFrontLast ==
  ASSUME NEW S, NEW s \in Seq(S), NEW e \in S
  PROVE  Front(Append(s, e)) = s /\ Last(Append(s, e)) = e
<1> DEFINE a == Append(s, e)
<1>1. a \in Seq(S) /\ a # <<>> BY AppendProperties
<1>2. Front(a) \in Seq(S) /\ Last(a) \in S /\ a = Append(Front(a), Last(a))
  <2> HIDE DEF a
  <2> QED BY <1>1, FrontLast
<1>3. Append(s, e) = Append(Front(a), Last(a)) BY <1>2
<1> HIDE DEF a
<1>4. s = Front(a) /\ e = Last(a) BY <1>2, <1>3, AppendInjective
<1> QED BY <1>4 DEF a

\* What follows the first k elements, after an element is put behind all of them.
LEMMA AfterAppend ==
  ASSUME NEW S, NEW s \in Seq(S), NEW e \in S, NEW k \in 0..Len(s)
  PROVE  SubSeq(Append(s, e), k + 1, Len(Append(s, e)))
           = Append(SubSeq(s, k + 1, Len(s)), e)
<1> DEFINE a == Append(s, e)
<1>0. Len(s) \in Nat BY LenProperties
<1>1. a \in Seq(S) /\ Len(a) = Len(s) + 1 /\ a[Len(s) + 1] = e
      /\ \A i \in 1..Len(s) : a[i] = s[i]
  BY AppendProperties
<1> HIDE DEF a
<1> DEFINE x == SubSeq(s, k + 1, Len(s))
<1> DEFINE y == SubSeq(a, k + 1, Len(a))
<1>2. x \in Seq(S) /\ Len(x) = Len(s) - k BY SplitAt
<1>3. k \in 0..Len(a) BY <1>0, <1>1
<1>4. y \in Seq(S) /\ Len(y) = Len(a) - k BY <1>1, <1>3, SplitAt
<1>5. \A i \in 1..(Len(s) - k) : x[i] = s[k + i] BY ElementOfSplit
<1>6. \A i \in 1..(Len(a) - k) : y[i] = a[k + i] BY <1>1, <1>3, ElementOfSplit
<1> HIDE DEF x, y
<1>7. Append(x, e) \in Seq(S) /\ Len(Append(x, e)) = Len(x) + 1
      /\ Append(x, e)[Len(x) + 1] = e
      /\ \A i \in 1..Len(x) : Append(x, e)[i] = x[i]
  BY <1>2, AppendProperties
<1>8. Len(y) = Len(Append(x, e)) BY <1>0, <1>1, <1>2, <1>4, <1>7
<1>9. ASSUME NEW i \in 1..Len(y) PROVE y[i] = Append(x, e)[i]
  <2>1. i \in 1..(Len(a) - k) BY <1>4
  <2>2. y[i] = a[k + i] BY <1>6, <2>1
  <2>3. CASE i <= Len(x)
    <3>1. i \in 1..Len(x) /\ k + i \in 1..Len(s) /\ i \in 1..(Len(s) - k)
      BY <1>0, <1>2, <2>3
    <3> QED BY <1>1, <1>5, <1>7, <2>2, <3>1
  <2>4. CASE ~ (i <= Len(x))
    <3>1. i = Len(x) + 1 /\ k + i = Len(s) + 1 BY <1>0, <1>1, <1>2, <1>4, <2>4
    <3> QED BY <1>1, <1>7, <2>2, <3>1
  <2> QED BY <2>3, <2>4
<1>10. y = Append(x, e) BY <1>4, <1>7, <1>8, <1>9, SeqEqual
<1> QED BY <1>10 DEF a, x, y

\* The first of what follows the first k elements is element k + 1, and the others follow it.
LEMMA AfterHeadTail ==
  ASSUME NEW S, NEW s \in Seq(S), NEW k \in Nat, k < Len(s)
  PROVE  /\ SubSeq(s, k + 1, Len(s)) # <<>>
         /\ Head(SubSeq(s, k + 1, Len(s))) = s[k + 1]
         /\ s[k + 1] \in S
         /\ Tail(SubSeq(s, k + 1, Len(s))) = SubSeq(s, (k + 1) + 1, Len(s))
<1>1. Len(s) \in Nat BY LenProperties
<1>2. k + 1 \in 1..Len(s) /\ Len(s) \in (k + 1)..Len(s) /\ k \in 0..Len(s) BY <1>1
<1>3. Len(SubSeq(s, k + 1, Len(s))) = Len(s) - k /\ SubSeq(s, k + 1, Len(s)) \in Seq(S)
  BY <1>2, SplitAt
<1>4. SubSeq(s, k + 1, Len(s)) # <<>>
  <2>1. Len(s) - k # 0 BY <1>1
  <2>2. Len(<<>>) = 0 OBVIOUS
  <2> QED BY <1>3, <2>1, <2>2
<1>5. s[k + 1] \in S BY <1>2, ElementOfSeq
<1>6. /\ Head(SubSeq(s, k + 1, Len(s))) = s[k + 1]
      /\ Tail(SubSeq(s, k + 1, Len(s))) = SubSeq(s, (k + 1) + 1, Len(s))
  <2> DEFINE m == k + 1
  <2>1. m \in 1..Len(s) /\ Len(s) \in m..Len(s) BY <1>2
  <2> HIDE DEF m
  <2>2. Head(SubSeq(s, m, Len(s))) = s[m] /\ Tail(SubSeq(s, m, Len(s))) = SubSeq(s, m + 1, Len(s))
    BY <2>1, HeadTailOfSubSeq
  <2> QED BY <2>2 DEF m
<1> QED BY <1>4, <1>5, <1>6

\* Nothing follows all elements.
LEMMA AfterAll ==
  ASSUME NEW S, NEW s \in Seq(S)
  PROVE  SubSeq(s, Len(s) + 1, Len(s)) = <<>>
<1>1. Len(s) \in Nat BY LenProperties
<1>2. Len(s) + 1 \in Int /\ Len(s) \in Int /\ Len(s) < Len(s) + 1 BY <1>1
<1> QED BY <1>2, SubSeqEmpty

\* The smaller of two numbers.
LEMMA MinOfTwo ==
  ASSUME NEW a \in Int, NEW b \in Int
  PROVE  Min({a, b}) = IF a <= b THEN a ELSE b
<1>1. \E x \in {a, b} : \A y \in {a, b} : x <= y OBVIOUS
<1>2. Min({a, b}) \in {a, b} /\ \A y \in {a, b} : Min({a, b}) <= y BY <1>1 DEF Min
<1> QED BY <1>2

\* Recursion over a set whose elements have depths, where the value at one depends only
\* on the values at those less deep.  H is a function of the element and of a function
\* on the set.
LocalTo(e, f, g, D, depth) == \A x \in D : depth[x] < depth[e] => f[x] = g[x]

DependsLocally(H, D, S, depth) ==
  \A e \in D : \A f, g \in [D -> S] :
    LocalTo(e, f, g, D, depth) => H[<<e, f>>] = H[<<e, g>>]
Solves(f, H, D, S) == f \in [D -> S] /\ \A e \in D : f[e] = H[<<e, f>>]

LEMMA RecursionOnDepth ==
  ASSUME NEW D, NEW depth \in [D -> Nat], NEW S, NEW a \in S, NEW H \in [D \X [D -> S] -> S],
         DependsLocally(H, D, S, depth)
  PROVE  \E f : Solves(f, H, D, S)
<1>0. /\ \A e \in D : \A f, g \in [D -> S] :
             LocalTo(e, f, g, D, depth) => H[<<e, f>>] = H[<<e, g>>]
  BY DEF DependsLocally
<1> SUFFICES \E f \in [D -> S] : \A e \in D : f[e] = H[<<e, f>>]
  BY DEF Solves
<1> DEFINE Fs == [D -> S]
<1> DEFINE none == [e \in D |-> a]
<1> DEFINE next == [p \in Nat \X Fs |-> [e \in D |-> H[<<e, p[2]>>]]]
<1>1. none \in Fs OBVIOUS
<1>2. next \in [Nat \X Fs -> Fs]
  <2>1. ASSUME NEW f \in Fs, NEW e \in D PROVE H[<<e, f>>] \in S OBVIOUS
  <2> QED BY <2>1
<1>3. PICK F \in [Nat -> Fs] : Recursion(F, none, next)
  <2> HIDE DEF Fs, none, next
  <2> QED BY <1>1, <1>2, RecursiveFunction
<1>4. ASSUME NEW n \in Nat, NEW e \in D PROVE F[n] \in Fs /\ F[n + 1][e] = H[<<e, F[n]>>]
  <2>1. F[n] \in Fs BY <1>3
  <2>2. n + 1 \in Nat \ {0} /\ (n + 1) - 1 = n OBVIOUS
  <2>3. F[n + 1] = next[<<n + 1, F[n]>>]
    <3> HIDE DEF next, Fs, none
    <3> QED BY <1>3, <2>2 DEF Recursion
  <2>4. F[n + 1] = [d \in D |-> H[<<d, F[n]>>]]
    <3> HIDE DEF Fs, none
    <3> QED BY <2>1, <2>2, <2>3
  <2> QED BY <2>1, <2>4
<1> DEFINE T == {n \in Nat : \A e \in D : depth[e] < n => F[n + 1][e] = F[n][e]}
<1>5. 0 \in T OBVIOUS
<1>6. ASSUME NEW n \in Nat, n \in T PROVE n + 1 \in T
  <2> SUFFICES ASSUME NEW e \in D, depth[e] < n + 1
               PROVE  F[(n + 1) + 1][e] = F[n + 1][e]
    OBVIOUS
  <2>0. n + 1 \in Nat OBVIOUS
  <2>1. F[(n + 1) + 1][e] = H[<<e, F[n + 1]>>] /\ F[n + 1] \in Fs
    <3> HIDE DEF Fs
    <3> QED BY <1>4, <2>0
  <2>2. F[n + 1][e] = H[<<e, F[n]>>] /\ F[n] \in Fs BY <1>4
  <2>3. \A x \in D : depth[x] < depth[e] => F[n + 1][x] = F[n][x] BY <1>6
  <2> QED BY <1>0, <2>1, <2>2, <2>3 DEF LocalTo
<1>7. Nat \subseteq T
  <2> HIDE DEF T
  <2> QED BY <1>5, <1>6, SetInduction
<1>8. ASSUME NEW e \in D, NEW k \in Nat PROVE F[depth[e] + 1 + k][e] = F[depth[e] + 1][e]
  <2> DEFINE d == depth[e] + 1
  <2> DEFINE U == {j \in Nat : F[d + j][e] = F[d][e]}
  <2>1. d \in Nat /\ depth[e] < d OBVIOUS
  <2>2. 0 \in U BY <2>1
  <2>3. ASSUME NEW j \in Nat, j \in U PROVE j + 1 \in U
    <3>1. d + j \in T /\ d + j \in Nat BY <1>7, <2>1
    <3>2. F[(d + j) + 1][e] = F[d + j][e] BY <3>1, <2>1
    <3>3. (d + j) + 1 = d + (j + 1) BY <2>1
    <3> HIDE DEF d
    <3> QED BY <2>3, <3>2, <3>3
  <2>4. Nat \subseteq U
    <3> HIDE DEF U
    <3> QED BY <2>2, <2>3, SetInduction
  <2> HIDE DEF d
  <2>5. F[d + k][e] = F[d][e] BY <2>4
  <2> QED BY <2>5 DEF d
<1> DEFINE f == [e \in D |-> F[depth[e] + 1][e]]
<1>9. f \in Fs
  <2>1. ASSUME NEW e \in D PROVE F[depth[e] + 1][e] \in S
    <3>1. depth[e] + 1 \in Nat OBVIOUS
    <3> QED BY <3>1, <1>4
  <2> QED BY <2>1
<1>10. ASSUME NEW e \in D PROVE f[e] = H[<<e, f>>]
  <2>1. depth[e] \in Nat OBVIOUS
  <2>2. F[depth[e] + 1][e] = H[<<e, F[depth[e]]>>] /\ F[depth[e]] \in Fs BY <2>1, <1>4
  <2>3. ASSUME NEW x \in D, depth[x] < depth[e] PROVE f[x] = F[depth[e]][x]
    <3> DEFINE k == depth[e] - (depth[x] + 1)
    <3>1. depth[x] \in Nat OBVIOUS
    <3>2. k \in Nat /\ depth[x] + 1 + k = depth[e] BY <2>1, <2>3, <3>1
    <3> HIDE DEF k
    <3>3. F[depth[e]][x] = F[depth[x] + 1][x] BY <1>8, <3>2
    <3> QED BY <3>3
  <2>4. f[e] = F[depth[e] + 1][e] OBVIOUS
  <2> HIDE DEF f
  <2> QED BY <1>0, <1>9, <2>2, <2>3, <2>4 DEF LocalTo
<1> HIDE DEF f
<1> QED BY <1>9, <1>10

\* The parts of two sequences of sequences, one after the other.
LEMMA FlattenConcat ==
  ASSUME NEW X, NEW ss \in Seq(Seq(X)), NEW tt \in Seq(Seq(X))
  PROVE  FlattenSeq(ss \o tt) = FlattenSeq(ss) \o FlattenSeq(tt)
<1> DEFINE all == ss \o tt
<1> DEFINE m == Len(ss)
<1> DEFINE n == Len(tt)
<1>1. m \in Nat /\ n \in Nat BY LenProperties
<1>2. all \in Seq(Seq(X)) /\ Len(all) = m + n
      /\ \A i \in 1..(m + n) : all[i] = IF i <= m THEN ss[i] ELSE tt[i - m]
  BY ConcatProperties
<1> HIDE DEF all
<1>3. PICK f \in [Nat -> Seq(X)] :
        f[0] = <<>> /\ \A k \in 1..Len(all) : f[k] = f[k - 1] \o all[k]
  BY <1>2, FlattenFunction
<1>4. PICK h \in [Nat -> Seq(X)] :
        h[0] = <<>> /\ \A k \in 1..Len(tt) : h[k] = h[k - 1] \o tt[k]
  BY FlattenFunction
<1>5. FlattenSeq(all) = f[m + n]
  <2>1. FlattenSeq(all) = f[Len(all)] BY <1>2, <1>3, FlattenIs
  <2> QED BY <2>1, <1>2
<1>6. FlattenSeq(tt) = h[n] BY <1>4, FlattenIs
<1>7. FlattenSeq(ss) = f[m]
  <2>1. ASSUME NEW k \in 1..Len(ss) PROVE f[k] = f[k - 1] \o ss[k]
    <3>1. k \in 1..(m + n) /\ k <= m BY <1>1
    <3>2. all[k] = ss[k] BY <1>2, <3>1
    <3>3. k \in 1..Len(all) BY <1>2, <3>1
    <3> QED BY <1>3, <3>2, <3>3
  <2> QED BY <1>3, <2>1, FlattenIs
<1> HIDE DEF m, n
<1> DEFINE T == {k \in Nat : k <= n => f[m + k] = f[m] \o h[k]}
<1>8. 0 \in T
  <2>1. f[m] \in Seq(X) BY <1>1, <1>3
  <2>2. f[m] \o <<>> = f[m] BY <2>1, ConcatEmptySeq
  <2>3. m + 0 = m BY <1>1
  <2>4. f[m + 0] = f[m] \o h[0] BY <1>4, <2>2, <2>3
  <2> QED BY <2>4
<1>9. ASSUME NEW k \in Nat, k \in T PROVE k + 1 \in T
  <2> SUFFICES ASSUME k + 1 <= n PROVE f[m + (k + 1)] = f[m] \o h[k + 1]
    <3>1. k + 1 \in Nat OBVIOUS
    <3> QED BY <3>1, Zenon
  <2>0. k <= n BY <1>1
  <2>1. f[m + k] = f[m] \o h[k] BY <1>9, <2>0, Zenon
  <2> DEFINE i == m + (k + 1)
  <2>2. i \in 1..(m + n) /\ ~ (i <= m) /\ i - m = k + 1 /\ i - 1 = m + k BY <1>1
  <2> HIDE DEF i
  <2>3. all[i] = tt[k + 1] BY <1>2, <2>2
  <2>4. f[i] = f[m + k] \o tt[k + 1]
    <3>1. f[i] = f[i - 1] \o all[i] BY <1>2, <1>3, <2>2
    <3> QED BY <3>1, <2>2, <2>3
  <2>5. h[k + 1] = h[k] \o tt[k + 1]
    <3>1. k + 1 \in 1..Len(tt) /\ (k + 1) - 1 = k BY <1>1 DEF n
    <3>2. h[k + 1] = h[(k + 1) - 1] \o tt[k + 1] BY <1>4, <3>1
    <3> QED BY <3>1, <3>2
  <2>6. f[m] \in Seq(X) /\ h[k] \in Seq(X) BY <1>1, <1>3, <1>4
  <2>7. tt[k + 1] \in Seq(X)
    <3>1. k + 1 \in 1..Len(tt) BY <1>1 DEF n
    <3> QED BY <3>1, ElementOfSeq
  <2>8. Associates(f[m], h[k], tt[k + 1]) BY <2>6, <2>7, Associative
  <2> QED BY <2>1, <2>4, <2>5, <2>8 DEF i, Associates
<1>10. Nat \subseteq T
  <2> HIDE DEF T
  <2> QED BY <1>8, <1>9, SetInduction
<1>11. f[m + n] = f[m] \o h[n]
  <2>1. n \in T /\ n <= n
    <3> HIDE DEF T
    <3> QED BY <1>1, <1>10
  <2> QED BY <2>1, Zenon
<1> QED BY <1>5, <1>6, <1>7, <1>11 DEF all

\* If no element of a concatenation is outside a set, none of its halves has one that is.
LEMMA ConcatWithin ==
  ASSUME NEW X, NEW Y, NEW s \in Seq(X), NEW t \in Seq(X), s \o t \in Seq(Y)
  PROVE  s \in Seq(Y) /\ t \in Seq(Y)
<1> DEFINE m == Len(s)
<1> DEFINE n == Len(t)
<1>1. m \in Nat /\ n \in Nat BY LenProperties
<1>2. Len(s \o t) = m + n /\ \A i \in 1..(m + n) : (s \o t)[i] = IF i <= m THEN s[i] ELSE t[i - m]
  BY ConcatProperties
<1>3. \A i \in 1..(m + n) : (s \o t)[i] \in Y BY <1>2, ElementOfSeq
<1>4. \A i \in 1..m : s[i] \in Y
  <2> SUFFICES ASSUME NEW i \in 1..m PROVE s[i] \in Y OBVIOUS
  <2>1. i \in 1..(m + n) /\ i <= m BY <1>1
  <2> HIDE DEF m, n
  <2> QED BY <1>2, <1>3, <2>1
<1>5. \A i \in 1..n : t[i] \in Y
  <2> SUFFICES ASSUME NEW i \in 1..n PROVE t[i] \in Y OBVIOUS
  <2>1. m + i \in 1..(m + n) /\ ~ (m + i <= m) /\ (m + i) - m = i BY <1>1
  <2> HIDE DEF m, n
  <2> QED BY <1>2, <1>3, <2>1
<1>6. s = [i \in 1..m |-> s[i]] /\ t = [i \in 1..n |-> t[i]] BY SeqDef
<1> HIDE DEF m, n
<1>7. [i \in 1..m |-> s[i]] \in Seq(Y) BY <1>1, <1>4
<1>8. [i \in 1..n |-> t[i]] \in Seq(Y) BY <1>1, <1>5
<1> QED BY <1>6, <1>7, <1>8

\* The same for the parts that FlattenSeq puts together.
LEMMA FlattenWithin ==
  ASSUME NEW X, NEW Y, NEW ss \in Seq(Seq(X)), FlattenSeq(ss) \in Seq(Y)
  PROVE  \A i \in 1..Len(ss) : ss[i] \in Seq(Y)
<1>1. PICK f \in [Nat -> Seq(X)] :
        f[0] = <<>> /\ \A k \in 1..Len(ss) : f[k] = f[k - 1] \o ss[k]
  BY FlattenFunction
<1> DEFINE n == Len(ss)
<1>2. n \in Nat BY LenProperties
<1>3. f[n] \in Seq(Y)
  <2>1. FlattenSeq(ss) = f[Len(ss)] BY <1>1, FlattenIs
  <2> QED BY <2>1
<1>4. ASSUME NEW k \in 1..n, f[k] \in Seq(Y) PROVE f[k - 1] \in Seq(Y) /\ ss[k] \in Seq(Y)
  <2>1. k - 1 \in Nat /\ f[k - 1] \in Seq(X) BY <1>1, <1>2
  <2>2. ss[k] \in Seq(X) BY ElementOfSeq
  <2>3. f[k - 1] \o ss[k] \in Seq(Y)
    <3>1. f[k] = f[k - 1] \o ss[k] BY <1>1
    <3> QED BY <1>4, <3>1
  <2> QED BY <2>1, <2>2, <2>3, ConcatWithin
<1> DEFINE T == {j \in Nat : j <= n => f[n - j] \in Seq(Y)}
<1>5. 0 \in T
  <2>1. n - 0 = n BY <1>2
  <2> HIDE DEF n
  <2> QED BY <1>3, <2>1
<1>6. ASSUME NEW j \in Nat, j \in T PROVE j + 1 \in T
  <2> SUFFICES ASSUME j + 1 <= n PROVE f[n - (j + 1)] \in Seq(Y) OBVIOUS
  <2>0. n \in Nat /\ j + 1 <= n BY <1>2
  <2> HIDE DEF n
  <2>1. n - j \in 1..n /\ (n - j) - 1 = n - (j + 1) /\ j <= n BY <2>0
  <2>2. f[(n - j) - 1] \in Seq(Y) BY <1>4, <1>6, <2>1
  <2> QED BY <2>1, <2>2
<1>7. Nat \subseteq T
  <2> HIDE DEF T
  <2> QED BY <1>5, <1>6, SetInduction
<1>8. ASSUME NEW k \in 1..n PROVE ss[k] \in Seq(Y)
  <2>1. n - k \in Nat /\ n - k <= n /\ n - (n - k) = k BY <1>2
  <2> HIDE DEF n
  <2>2. f[k] \in Seq(Y) BY <1>7, <2>1
  <2> QED BY <1>4, <2>2
<1> QED BY <1>8
=================================================================================

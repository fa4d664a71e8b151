---------------------------- MODULE PrefixProofs ----------------------------
(***************************************************************************)
(* The length-prefix decoders of src/proto, for frames of every length, in *)
(* any number, cut into reads in every way but two: what is returned is    *)
(* what was sent.                                                          *)
(***************************************************************************)
EXTENDS Prefix, FiniteSetTheorems, SequenceTheorems, NaturalsInduction, WellFoundedInduction, TLAPS

----------------------------------------------------------------------------
(* Sequences and folds.                                                    *)

\* A nonempty set of natural numbers has a least element: induction, in a form that
\* takes a set and no operator.
LEMMA LeastNat ==
    ASSUME NEW T \in SUBSET Nat, T # {}
    PROVE  \E m \in T : \A k \in T : m <= k
<1> DEFINE R == OpToRel(<, Nat)
<1>1. IsWellFoundedOn(R, Nat)
    BY NatLessThanWellFounded
<1>2. \A x, y \in Nat : x < y => <<x, y>> \in R
    BY DEF OpToRel
<1> HIDE DEF R
<1>3. PICK m \in T : \A y \in T : ~(<<y, m>> \in R)
    BY <1>1, WFMin
<1>4. ASSUME NEW k \in T PROVE m <= k
  <2>1. m \in Nat /\ k \in Nat
      OBVIOUS
  <2>2. ~(k < m)
      BY <1>2, <1>3, <2>1
  <2> QED BY <2>1, <2>2
<1> QED BY <1>4

\* A set of natural numbers with 0 and every successor is all of them.
LEMMA AllNat ==
    ASSUME NEW T \in SUBSET Nat, 0 \in T, \A n \in T : n + 1 \in T
    PROVE  T = Nat
<1> SUFFICES ASSUME T # Nat PROVE FALSE
    OBVIOUS
<1> DEFINE U == Nat \ T
<1>1. U \in SUBSET Nat /\ U # {}
    OBVIOUS
<1>2. PICK m \in U : \A k \in U : m <= k
    BY <1>1, LeastNat
<1>3. m \in Nat /\ m # 0 /\ m - 1 \in Nat /\ ~(m <= m - 1)
    BY <1>2
<1>4. m - 1 \in T
    BY <1>2, <1>3
<1>5. (m - 1) + 1 = m
    BY <1>3
<1> QED BY <1>2, <1>4, <1>5

\* FlattenSeq's recursive function takes the blocks one by one.
FlatStep(g, s, n) == [i \in 1..n |-> IF i = 1 THEN s[i] ELSE g[i - 1] \o s[i]]

\* The definition, in these terms.
LEMMA FlattenDef ==
    ASSUME NEW s
    PROVE  FlattenSeq(s) = IF Len(s) = 0 THEN s
                           ELSE (CHOOSE g : g = FlatStep(g, s, Len(s)))[Len(s)]
BY DEF FlattenSeq, FlatStep

\* Its equation has a solution: one for n blocks gives one for n + 1.
LEMMA FlatExists ==
    ASSUME NEW s, NEW n \in Nat
    PROVE  \E g : g = FlatStep(g, s, n)
<1> DEFINE T == {m \in Nat : \E g : g = FlatStep(g, s, m)}
<1>1. 0 \in T
  <2> DEFINE g == [i \in 1..0 |-> s]
  <2>1. g = FlatStep(g, s, 0)
      BY DEF FlatStep
  <2> QED BY <2>1
<1>2. ASSUME NEW m \in T PROVE m + 1 \in T
  <2>1. m \in Nat /\ m + 1 \in Nat
      OBVIOUS
  <2>2. PICK g : g = FlatStep(g, s, m)
      OBVIOUS
  <2> DEFINE h == FlatStep(g, s, m + 1)
  <2>3. \A i \in 1..m : h[i] = g[i]
    <3>1. \A i \in 1..m : i \in 1..m + 1
        BY <2>1
    <3>2. \A i \in 1..m : g[i] = IF i = 1 THEN s[i] ELSE g[i - 1] \o s[i]
        BY <2>2 DEF FlatStep
    <3> QED BY <3>1, <3>2 DEF FlatStep
  <2>4. \A i \in 1..m + 1 : i # 1 => h[i - 1] = g[i - 1]
    <3>1. \A i \in 1..m + 1 : i # 1 => i - 1 \in 1..m
        BY <2>1
    <3> QED BY <2>3, <3>1
  <2>5. h = FlatStep(h, s, m + 1)
    <3>1. h = [i \in 1..m + 1 |-> IF i = 1 THEN s[i] ELSE g[i - 1] \o s[i]]
        BY DEF FlatStep
    <3>2. FlatStep(h, s, m + 1) = [i \in 1..m + 1 |-> IF i = 1 THEN s[i] ELSE h[i - 1] \o s[i]]
        BY DEF FlatStep
    <3> HIDE DEF h
    <3> QED BY <2>4, <3>1, <3>2, ZenonT(60)
  <2> HIDE DEF h
  <2> QED BY <2>1, <2>5
<1>3. T = Nat
  <2>1. T \in SUBSET Nat
      OBVIOUS
  <2> HIDE DEF T
  <2> QED BY <1>1, <1>2, <2>1, AllNat
<1> QED BY <1>3

\* One more block: its bytes come last.
LEMMA FlattenAppend ==
    ASSUME NEW S, NEW s \in Seq(Seq(S)), NEW e \in Seq(S)
    PROVE  FlattenSeq(Append(s, e)) = IF s = <<>> THEN e ELSE FlattenSeq(s) \o e
<1> DEFINE n == Len(s)
           t == Append(s, e)
           g == CHOOSE f : f = FlatStep(f, s, n)
           h == CHOOSE f : f = FlatStep(f, t, n + 1)
<1>1. n \in Nat /\ Len(t) = n + 1 /\ t[n + 1] = e /\ (\A i \in 1..n : t[i] = s[i])
      /\ (s = <<>> <=> n = 0)
    BY LenProperties, AppendProperties, EmptySeq
<1> HIDE DEF n, t
<1>2. g = FlatStep(g, s, n)
    BY <1>1, FlatExists
<1>3. h = FlatStep(h, t, n + 1)
    BY <1>1, FlatExists
<1> HIDE DEF g, h
<1>4. \A i \in 1..n : g[i] = IF i = 1 THEN s[i] ELSE g[i - 1] \o s[i]
    BY <1>2 DEF FlatStep
<1>5. \A i \in 1..n + 1 : h[i] = IF i = 1 THEN t[i] ELSE h[i - 1] \o t[i]
    BY <1>3 DEF FlatStep
<1>6. FlattenSeq(t) = h[n + 1]
    BY <1>1, FlattenDef DEF h
<1>7. n # 0 => FlattenSeq(s) = g[n]
    BY <1>1, FlattenDef DEF g, n
<1> DEFINE T == {m \in Nat : m >= 1 /\ m <= n => h[m] = g[m]}
<1>8. 0 \in T
    OBVIOUS
<1>9. ASSUME NEW m \in T PROVE m + 1 \in T
  <2> SUFFICES ASSUME m + 1 <= n PROVE h[m + 1] = g[m + 1]
      OBVIOUS
  <2>1. m + 1 \in 1..n /\ m + 1 \in 1..n + 1 /\ m \in Nat /\ (m + 1) - 1 = m /\ (m + 1 # 1 => m >= 1 /\ m <= n)
      BY <1>1
  <2>2. m + 1 # 1 => h[m] = g[m]
      BY <2>1
  <2>3. g[m + 1] = IF m + 1 = 1 THEN s[m + 1] ELSE g[m] \o s[m + 1]
      BY <1>4, <2>1
  <2>4. h[m + 1] = IF m + 1 = 1 THEN t[m + 1] ELSE h[m] \o t[m + 1]
      BY <1>5, <2>1
  <2> QED BY <1>1, <2>1, <2>2, <2>3, <2>4
<1>10. T = Nat
  <2>1. T \in SUBSET Nat
      OBVIOUS
  <2> HIDE DEF T
  <2> QED BY <1>8, <1>9, <2>1, AllNat
<1>11. CASE n = 0
    BY <1>1, <1>5, <1>6, <1>11 DEF t
<1>12. CASE n # 0
  <2>1. n + 1 \in 1..n + 1 /\ n + 1 # 1 /\ (n + 1) - 1 = n /\ n >= 1 /\ n <= n
      BY <1>1, <1>12
  <2>2. h[n] = g[n]
      BY <1>1, <1>10, <2>1
  <2>3. h[n + 1] = h[n] \o e
      BY <1>1, <1>5, <2>1
  <2> QED BY <1>1, <1>6, <1>7, <1>12, <2>2, <2>3 DEF t
<1> QED BY <1>11, <1>12

\* The first m blocks of a chain, and one more.
LEMMA OneMore ==
    ASSUME NEW S, NEW s \in Seq(S), NEW m \in Nat, m + 1 <= Len(s)
    PROVE  /\ SubSeq(s, 1, m) \in Seq(S) /\ s[m + 1] \in S /\ Len(SubSeq(s, 1, m)) = m
           /\ SubSeq(s, 1, m + 1) = Append(SubSeq(s, 1, m), s[m + 1])
<1>1. Len(s) \in Nat /\ \A i \in 1..Len(s) : s[i] \in S
    BY LenProperties, ElementOfSeq
<1> DEFINE n == Len(s)
<1> HIDE DEF n
<1>2. n \in Nat /\ m + 1 <= n /\ 1 \in Int /\ m \in Int /\ m + 1 \in Int /\ m + 1 \in 1..n
      /\ (\A i \in 1..m : i \in 1..n) /\ (\A i \in 1..m + 1 : i \in 1..n) /\ (m < 1 => m = 0)
      /\ 1 <= m + 1 /\ (m + 1) - 1 + 1 = m + 1 /\ m - 1 + 1 = m
    BY <1>1 DEF n
<1>3. (\A i \in 1..m : s[i] \in S) /\ (\A i \in 1..m + 1 : s[i] \in S)
    BY <1>1, <1>2 DEF n
<1> DEFINE p == SubSeq(s, 1, m)
           q == SubSeq(s, 1, m + 1)
<1>4. p \in Seq(S) /\ Len(p) = (IF 1 <= m THEN m - 1 + 1 ELSE 0) /\ \A i \in 1..m - 1 + 1 : p[i] = s[1 + i - 1]
    BY <1>2, <1>3, SubSeqProperties
<1>5. q \in Seq(S) /\ Len(q) = m + 1 /\ \A i \in 1..(m + 1) - 1 + 1 : q[i] = s[1 + i - 1]
    BY <1>2, <1>3, SubSeqProperties
<1> HIDE DEF p, q
<1>6. Len(p) = m /\ \A i \in 1..m : p[i] = s[i]
    BY <1>2, <1>4
<1>7. \A i \in 1..m + 1 : q[i] = s[i]
    BY <1>2, <1>5
<1>8. s[m + 1] \in S
    BY <1>2, <1>3
<1> DEFINE r == Append(p, s[m + 1])
<1>9. r \in Seq(S) /\ Len(r) = m + 1 /\ (\A i \in 1..m : r[i] = p[i]) /\ r[m + 1] = s[m + 1]
    BY <1>4, <1>6, <1>8, AppendProperties
<1> HIDE DEF r
<1>10. \A i \in 1..m + 1 : q[i] = r[i]
  <2>1. \A i \in 1..m + 1 : i \in 1..m \/ i = m + 1
      BY <1>2
  <2> QED BY <1>2, <1>6, <1>7, <1>9, <2>1
<1>11. q = r
    BY <1>5, <1>9, <1>10, SeqEqual
<1> QED BY <1>4, <1>6, <1>8, <1>11 DEF p, q, r

\* The bytes of a chain are a sequence of bytes; it has none only if it has no block.
LEMMA FlattenType ==
    ASSUME NEW S, NEW s \in Seq(Seq(S))
    PROVE  FlattenSeq(s) \in Seq(S)
<1> DEFINE P(m) == SubSeq(s, 1, m)
           F(m) == FlattenSeq(P(m))
           T == {m \in Nat : m <= Len(s) => F(m) \in Seq(S)}
<1>0. Len(s) \in Nat /\ P(0) = <<>> /\ P(Len(s)) = s /\ Len(<<>>) = 0 /\ <<>> \in Seq(S)
    BY LenProperties, SubSeqEmpty, SubSeqFull, EmptySeq
<1>1. 0 \in T
  <2>1. FlattenSeq(<<>>) = <<>>
      BY <1>0, FlattenDef
  <2> QED BY <1>0, <2>1
<1>2. ASSUME NEW m \in T PROVE m + 1 \in T
  <2> SUFFICES ASSUME m + 1 <= Len(s) PROVE FlattenSeq(P(m + 1)) \in Seq(S)
      OBVIOUS
  <2>1. m \in Nat /\ m <= Len(s)
      BY <1>0
  <2>2. P(m) \in Seq(Seq(S)) /\ s[m + 1] \in Seq(S) /\ P(m + 1) = Append(P(m), s[m + 1])
      BY <2>1, OneMore
  <2>3. FlattenSeq(P(m)) \in Seq(S)
      BY <2>1
  <2> HIDE DEF P
  <2>4. FlattenSeq(P(m + 1)) = IF P(m) = <<>> THEN s[m + 1] ELSE FlattenSeq(P(m)) \o s[m + 1]
      BY <2>2, FlattenAppend
  <2>5. FlattenSeq(P(m)) \o s[m + 1] \in Seq(S)
      BY <2>2, <2>3, ConcatProperties
  <2> QED BY <2>2, <2>4, <2>5
<1>3. T = Nat
  <2>1. T \in SUBSET Nat
      OBVIOUS
  <2> HIDE DEF T
  <2> QED BY <1>1, <1>2, <2>1, AllNat
<1>4. FlattenSeq(P(Len(s))) \in Seq(S)
  <2> HIDE DEF F
  <2>1. Len(s) \in T /\ Len(s) <= Len(s)
      BY <1>0, <1>3
  <2>2. F(Len(s)) \in Seq(S)
      BY <2>1
  <2> QED BY <2>2 DEF F
<1> QED BY <1>0, <1>4

\* The two facts by which chains are reasoned about.
LEMMA FlattenMore ==
    ASSUME NEW S, NEW s \in Seq(Seq(S)), NEW e \in Seq(S)
    PROVE  /\ FlattenSeq(<<>>) = <<>>
           /\ FlattenSeq(Append(s, e)) = FlattenSeq(s) \o e
<1>1. FlattenSeq(<<>>) = <<>>
    BY FlattenDef, EmptySeq
<1>2. <<>> \o e = e
    BY ConcatEmptySeq
<1> QED BY <1>1, <1>2, FlattenAppend
\* A part of a sequence.
LEMMA PartFacts ==
    ASSUME NEW S, NEW s \in Seq(S), NEW n \in Nat, NEW k \in Nat, n <= k, k <= Len(s)
    PROVE  /\ SubSeq(s, n + 1, k) \in Seq(S) /\ Len(SubSeq(s, n + 1, k)) = k - n
           /\ \A i \in 1..k - n : SubSeq(s, n + 1, k)[i] = s[n + i]
<1> DEFINE p == SubSeq(s, n + 1, k)
<1>1. Len(s) \in Nat /\ \A i \in 1..Len(s) : s[i] \in S
    BY LenProperties, ElementOfSeq
<1> DEFINE l == Len(s)
<1> HIDE DEF l
<1>2. \A i \in n + 1..k : s[i] \in S
  <2>1. \A i \in n + 1..k : i \in 1..l
      BY <1>1 DEF l
  <2> QED BY <1>1, <2>1 DEF l
<1>3. n + 1 \in Int /\ k \in Int
    OBVIOUS
<1>4. p \in Seq(S) /\ Len(p) = (IF n + 1 <= k THEN k - (n + 1) + 1 ELSE 0)
      /\ \A i \in 1..k - (n + 1) + 1 : p[i] = s[(n + 1) + i - 1]
    BY <1>2, <1>3, SubSeqProperties
<1> HIDE DEF p
<1>5. k - (n + 1) + 1 = k - n /\ (~(n + 1 <= k) => k - n = 0) /\ \A i \in 1..k - n : (n + 1) + i - 1 = n + i
    OBVIOUS
<1>6. Len(p) = k - n
    BY <1>4, <1>5
<1>7. \A i \in 1..k - n : p[i] = s[n + i]
    BY <1>4, <1>5
<1> QED BY <1>4, <1>6, <1>7 DEF p

\* The last of the first m + 1 numbers.
LEMMA MaxLast ==
    ASSUME NEW m \in Nat, NEW x \in SUBSET (1..m + 1), m + 1 \in x
    PROVE  Max(x) = m + 1 /\ x \ {m + 1} \in SUBSET (1..m)
<1>1. \A y \in x : m + 1 >= y
    OBVIOUS
<1>2. \A y \in x : (\A z \in x : y >= z) => y = m + 1
    OBVIOUS
<1>3. Max(x) = m + 1
    BY <1>1, <1>2 DEF Max
<1> QED BY <1>3

\* End adds up lengths, codec_read digits: each a fold, taken one step at a time.
SumStep(g, s, z, D) == [x \in D |-> IF x = {} THEN 0 ELSE g[x \ {Max(x)}] + z + s[Max(x)]]
ReadStep(g, s, D) == [x \in D |-> IF x = {} THEN 0 ELSE g[x \ {Max(x)}] * Base + s[Max(x)]]

LEMMA SumExists ==
    ASSUME NEW s, NEW z, NEW k \in Nat
    PROVE  \E g : g = SumStep(g, s, z, SUBSET (1..k))
<1> DEFINE D(m) == SUBSET (1..m)
           T == {m \in Nat : \E g : g = SumStep(g, s, z, D(m))}
           Op(a, e) == a + z + e
<1>1. 0 \in T
  <2> DEFINE g == [x \in D(0) |-> 0]
  <2>1. \A x \in D(0) : x = {}
      OBVIOUS
  <2>2. g = SumStep(g, s, z, D(0))
    <3> HIDE DEF D
    <3> QED BY <2>1 DEF SumStep
  <2> QED BY <2>2
<1>2. ASSUME NEW m \in T PROVE m + 1 \in T
  <2>1. m \in Nat /\ m + 1 \in Nat
      OBVIOUS
  <2>2. PICK g : g = SumStep(g, s, z, D(m))
      OBVIOUS
  <2>3. \A x \in D(m) : g[x] = IF x = {} THEN 0 ELSE Op(g[x \ {Max(x)}], s[Max(x)])
      BY <2>2 DEF SumStep
  <2> DEFINE h == [x \in D(m + 1) |-> IF m + 1 \in x THEN Op(g[x \ {m + 1}], s[m + 1]) ELSE g[x]]
  <2>4. \A x \in D(m) : x \in D(m + 1) /\ m + 1 \notin x
      BY <2>1
  <2>5. \A x \in D(m + 1) : m + 1 \notin x => x \in D(m)
      BY <2>1
  <2>6. \A x \in D(m + 1) : m + 1 \in x => Max(x) = m + 1 /\ x \ {m + 1} \in D(m)
      BY <2>1, MaxLast
  <2>7. \A x : \A y : x \in D(m) => x \ {y} \in D(m)
      OBVIOUS
  <2> HIDE DEF D, Op
  <2>8. \A x \in D(m) : h[x] = g[x]
      BY <2>4
  <2>9. ASSUME NEW x \in D(m + 1)
        PROVE  h[x] = IF x = {} THEN 0 ELSE Op(h[x \ {Max(x)}], s[Max(x)])
    <3>1. CASE m + 1 \in x
      <4>1. h[x] = Op(g[x \ {m + 1}], s[m + 1]) /\ x # {}
          BY <3>1
      <4> QED BY <2>6, <2>8, <3>1, <4>1
    <3>2. CASE m + 1 \notin x
      <4>1. h[x] = g[x] /\ x \in D(m)
          BY <2>5, <3>2
      <4>2. h[x \ {Max(x)}] = g[x \ {Max(x)}]
          BY <2>7, <2>8, <4>1
      <4> QED BY <2>3, <4>1, <4>2
    <3> QED BY <3>1, <3>2
  <2>10. h = SumStep(h, s, z, D(m + 1))
    <3>1. h = [x \in D(m + 1) |-> h[x]]
        OBVIOUS
    <3> HIDE DEF h
    <3> QED BY <2>9, <3>1 DEF SumStep, Op
  <2> HIDE DEF h
  <2> QED BY <2>1, <2>10
<1>3. T = Nat
  <2>1. T \in SUBSET Nat
      OBVIOUS
  <2> HIDE DEF T
  <2> QED BY <1>1, <1>2, <2>1, AllNat
<1> QED BY <1>3

LEMMA ReadExists ==
    ASSUME NEW s, NEW k \in Nat
    PROVE  \E g : g = ReadStep(g, s, SUBSET (1..k))
<1> DEFINE D(m) == SUBSET (1..m)
           T == {m \in Nat : \E g : g = ReadStep(g, s, D(m))}
           Op(a, e) == a * Base + e
<1>1. 0 \in T
  <2> DEFINE g == [x \in D(0) |-> 0]
  <2>1. \A x \in D(0) : x = {}
      OBVIOUS
  <2>2. g = ReadStep(g, s, D(0))
    <3> HIDE DEF D
    <3> QED BY <2>1 DEF ReadStep
  <2> QED BY <2>2
<1>2. ASSUME NEW m \in T PROVE m + 1 \in T
  <2>1. m \in Nat /\ m + 1 \in Nat
      OBVIOUS
  <2>2. PICK g : g = ReadStep(g, s, D(m))
      OBVIOUS
  <2>3. \A x \in D(m) : g[x] = IF x = {} THEN 0 ELSE Op(g[x \ {Max(x)}], s[Max(x)])
      BY <2>2 DEF ReadStep
  <2> DEFINE h == [x \in D(m + 1) |-> IF m + 1 \in x THEN Op(g[x \ {m + 1}], s[m + 1]) ELSE g[x]]
  <2>4. \A x \in D(m) : x \in D(m + 1) /\ m + 1 \notin x
      BY <2>1
  <2>5. \A x \in D(m + 1) : m + 1 \notin x => x \in D(m)
      BY <2>1
  <2>6. \A x \in D(m + 1) : m + 1 \in x => Max(x) = m + 1 /\ x \ {m + 1} \in D(m)
      BY <2>1, MaxLast
  <2>7. \A x : \A y : x \in D(m) => x \ {y} \in D(m)
      OBVIOUS
  <2> HIDE DEF D, Op
  <2>8. \A x \in D(m) : h[x] = g[x]
      BY <2>4
  <2>9. ASSUME NEW x \in D(m + 1)
        PROVE  h[x] = IF x = {} THEN 0 ELSE Op(h[x \ {Max(x)}], s[Max(x)])
    <3>1. CASE m + 1 \in x
      <4>1. h[x] = Op(g[x \ {m + 1}], s[m + 1]) /\ x # {}
          BY <3>1
      <4> QED BY <2>6, <2>8, <3>1, <4>1
    <3>2. CASE m + 1 \notin x
      <4>1. h[x] = g[x] /\ x \in D(m)
          BY <2>5, <3>2
      <4>2. h[x \ {Max(x)}] = g[x \ {Max(x)}]
          BY <2>7, <2>8, <4>1
      <4> QED BY <2>3, <4>1, <4>2
    <3> QED BY <3>1, <3>2
  <2>10. h = ReadStep(h, s, D(m + 1))
    <3>1. h = [x \in D(m + 1) |-> h[x]]
        OBVIOUS
    <3> HIDE DEF h
    <3> QED BY <2>9, <3>1 DEF ReadStep, Op
  <2> HIDE DEF h
  <2> QED BY <2>1, <2>10
<1>3. T = Nat
  <2>1. T \in SUBSET Nat
      OBVIOUS
  <2> HIDE DEF T
  <2> QED BY <1>1, <1>2, <2>1, AllNat
<1> QED BY <1>3

Solves(g, s, z, k) == g = SumStep(g, s, z, SUBSET (1..k))

Adds(g, s, z, n) == g[1..0] = 0 /\ \A j \in 0..n - 1 : g[1..(j + 1)] = g[1..j] + z + s[j + 1]

\* The fold over a longer sequence begins like the fold over a shorter one.
LEMMA SumPrefix ==
    ASSUME NEW s, NEW t, NEW z, NEW n \in Nat, NEW m \in Nat, m <= n, \A i \in 1..m : t[i] = s[i],
           NEW g, Solves(g, s, z, n), NEW h, Solves(h, t, z, m)
    PROVE  h[1..m] = g[1..m] /\ Adds(g, s, z, n)
<1>1. \A x \in SUBSET (1..n) : g[x] = IF x = {} THEN 0 ELSE g[x \ {Max(x)}] + z + s[Max(x)]
    BY DEF Solves, SumStep
<1>2. \A x \in SUBSET (1..m) : h[x] = IF x = {} THEN 0 ELSE h[x \ {Max(x)}] + z + t[Max(x)]
    BY DEF Solves, SumStep
<1>3. \A j \in Nat : Max(1..(j + 1)) = j + 1 /\ (1..(j + 1)) \ {j + 1} = 1..j /\ 1..(j + 1) # {}
  <2> SUFFICES ASSUME NEW j \in Nat
               PROVE  Max(1..(j + 1)) = j + 1 /\ (1..(j + 1)) \ {j + 1} = 1..j /\ 1..(j + 1) # {}
      OBVIOUS
  <2>1. 1..(j + 1) \in SUBSET (1..j + 1) /\ j + 1 \in 1..(j + 1) /\ (1..(j + 1)) \ {j + 1} = 1..j
      OBVIOUS
  <2> QED BY <2>1, MaxLast
<1>4. \A j \in Nat : j + 1 <= n => g[1..(j + 1)] = g[1..j] + z + s[j + 1]
  <2> SUFFICES ASSUME NEW j \in Nat, j + 1 <= n PROVE g[1..(j + 1)] = g[1..j] + z + s[j + 1]
      OBVIOUS
  <2> DEFINE X == 1..(j + 1)
             Y == 1..j
             Z == SUBSET (1..n)
  <2>1. X \in Z
      OBVIOUS
  <2>2. Max(X) = j + 1 /\ X \ {j + 1} = Y /\ X # {}
      BY <1>3
  <2>3. g[X] = IF X = {} THEN 0 ELSE g[X \ {Max(X)}] + z + s[Max(X)]
      BY <1>1, <2>1
  <2> HIDE DEF X, Y
  <2>4. g[X] = g[Y] + z + s[j + 1]
      BY <2>2, <2>3
  <2> QED BY <2>4 DEF X, Y
<1>5. \A j \in Nat : j + 1 <= m => h[1..(j + 1)] = h[1..j] + z + t[j + 1]
  <2> SUFFICES ASSUME NEW j \in Nat, j + 1 <= m PROVE h[1..(j + 1)] = h[1..j] + z + t[j + 1]
      OBVIOUS
  <2> DEFINE X == 1..(j + 1)
             Y == 1..j
             Z == SUBSET (1..m)
  <2>1. X \in Z
      OBVIOUS
  <2>2. Max(X) = j + 1 /\ X \ {j + 1} = Y /\ X # {}
      BY <1>3
  <2>3. h[X] = IF X = {} THEN 0 ELSE h[X \ {Max(X)}] + z + t[Max(X)]
      BY <1>2, <2>1
  <2> HIDE DEF X, Y
  <2>4. h[X] = h[Y] + z + t[j + 1]
      BY <2>2, <2>3
  <2> QED BY <2>4 DEF X, Y
<1>6. g[1..0] = 0 /\ h[1..0] = 0
  <2>1. 1..0 = {} /\ {} \in SUBSET (1..n) /\ {} \in SUBSET (1..m)
      OBVIOUS
  <2> QED BY <1>1, <1>2, <2>1
<1> DEFINE T == {j \in Nat : j <= m => h[1..j] = g[1..j]}
<1>7. 0 \in T
    BY <1>6
<1>8. ASSUME NEW j \in T PROVE j + 1 \in T
  <2> SUFFICES ASSUME j + 1 <= m PROVE h[1..(j + 1)] = g[1..(j + 1)]
      OBVIOUS
  <2>1. j \in Nat /\ j <= m /\ j + 1 <= n /\ j + 1 \in 1..m
      OBVIOUS
  <2>2. h[1..j] = g[1..j] /\ t[j + 1] = s[j + 1]
      BY <2>1
  <2> QED BY <1>4, <1>5, <2>1, <2>2
<1>9. T = Nat
  <2>1. T \in SUBSET Nat
      OBVIOUS
  <2> HIDE DEF T
  <2> QED BY <1>7, <1>8, <2>1, AllNat
<1>10. h[1..m] = g[1..m]
    BY <1>9
<1> QED BY <1>4, <1>6, <1>10 DEF Adds

\* End, in these terms.
Sums(f, z, k) == (CHOOSE g : g = SumStep(g, SubSeq(f, 1, k), z, SUBSET (DOMAIN SubSeq(f, 1, k))))[DOMAIN SubSeq(f, 1, k)]

LEMMA EndDef == \A k : End(k) = Sums(frames, Size, k)
BY DEF End, FoldLeft, MapThenFoldSet, SumStep, Sums

\* Each frame ends a prefix and a payload after the one before.
LEMMA EndNext ==
    ASSUME frames \in Seq(Nat)
    PROVE  /\ End(0) = 0
           /\ \A k \in 0..Len(frames) - 1 : End(k + 1) = End(k) + Size + frames[k + 1]
<1> DEFINE n == Len(frames)
           G == CHOOSE g : g = SumStep(g, frames, Size, SUBSET (1..n))
           P(k) == SubSeq(frames, 1, k)
           H(k) == CHOOSE g : g = SumStep(g, P(k), Size, SUBSET (1..k))
<1>1. n \in Nat
    BY LenProperties
<1> HIDE DEF n
<1>2. Solves(G, frames, Size, n)
    BY <1>1, SumExists DEF Solves
<1> HIDE DEF G
<1>3. ASSUME NEW k \in 0..n
      PROVE  End(k) = G[1..k] /\ G[1..0] = 0 /\ \A j \in 0..n - 1 : G[1..(j + 1)] = G[1..j] + Size + frames[j + 1]
  <2>1. k \in Nat /\ k <= n
      BY <1>1
  <2>2. P(k) \in Seq(Nat) /\ Len(P(k)) = k /\ \A i \in 1..k : P(k)[i] = frames[i]
    <3>1. SubSeq(frames, 0 + 1, k) \in Seq(Nat) /\ Len(SubSeq(frames, 0 + 1, k)) = k - 0
          /\ \A i \in 1..k - 0 : SubSeq(frames, 0 + 1, k)[i] = frames[0 + i]
        BY <2>1, PartFacts DEF n
    <3> QED BY <2>1, <3>1
  <2>3. DOMAIN P(k) = 1..k
      BY <2>2, LenProperties
  <2>4. End(k) = H(k)[1..k]
      BY <2>3, EndDef DEF Sums
  <2>5. Solves(H(k), P(k), Size, k)
      BY <2>1, SumExists DEF Solves
  <2> DEFINE p == P(k)
             h == H(k)
  <2>6. /\ \A i \in 1..k : p[i] = frames[i]
        /\ Solves(h, p, Size, k) /\ End(k) = h[1..k]
      BY <2>2, <2>4, <2>5
  <2> HIDE DEF H, P, p, h
  <2>7. h[1..k] = G[1..k] /\ Adds(G, frames, Size, n)
      BY <1>1, <1>2, <2>1, <2>6, SumPrefix
  <2> QED BY <2>6, <2>7 DEF Adds
<1>4. 0 \in 0..n /\ \A k \in 0..n - 1 : k \in 0..n /\ k + 1 \in 0..n
    BY <1>1
<1>5. End(0) = 0
    BY <1>3, <1>4
<1>6. ASSUME NEW k \in 0..n - 1 PROVE End(k + 1) = End(k) + Size + frames[k + 1]
  <2>1. End(k + 1) = G[1..(k + 1)] /\ End(k) = G[1..k] /\ G[1..(k + 1)] = G[1..k] + Size + frames[k + 1]
      BY <1>3, <1>4
  <2> QED BY <2>1
<1> QED BY <1>5, <1>6 DEF n

\* Ends are numbers, in order.
LEMMA EndFacts ==
    ASSUME frames \in Seq(Nat), Size \in Nat \ {0}
    PROVE  /\ \A k \in 0..Len(frames) : End(k) \in Nat
           /\ \A j, k \in 0..Len(frames) : j < k => End(j) + Size + frames[j + 1] <= End(k)
<1> DEFINE n == Len(frames)
           T == {k \in Nat : k <= n => End(k) \in Nat}
           U == {k \in Nat : k <= n => \A j \in 0..n : j < k => End(j + 1) <= End(k)}
<1>1. n \in Nat /\ \A i \in 1..n : frames[i] \in Nat
    BY LenProperties, ElementOfSeq
<1>2. End(0) = 0 /\ \A k \in 0..n - 1 : End(k + 1) = End(k) + Size + frames[k + 1]
    BY EndNext
<1> HIDE DEF n
<1>3. T = Nat
  <2>1. 0 \in T
      BY <1>2
  <2>2. ASSUME NEW k \in T PROVE k + 1 \in T
    <3> SUFFICES ASSUME k + 1 <= n PROVE End(k + 1) \in Nat
        OBVIOUS
    <3>1. k \in 0..n - 1 /\ k + 1 \in 1..n /\ k <= n
        BY <1>1
    <3>2. End(k) \in Nat /\ frames[k + 1] \in Nat
        BY <1>1, <3>1
    <3> QED BY <1>2, <3>1, <3>2
  <2>3. T \in SUBSET Nat
      OBVIOUS
  <2> HIDE DEF T
  <2> QED BY <2>1, <2>2, <2>3, AllNat
<1>4. \A k \in 0..n : End(k) \in Nat
    BY <1>1, <1>3
<1>5. \A k \in 0..n - 1 : k \in 0..n /\ k + 1 \in 0..n /\ End(k) <= End(k + 1)
  <2> SUFFICES ASSUME NEW k \in 0..n - 1 PROVE k \in 0..n /\ k + 1 \in 0..n /\ End(k) <= End(k + 1)
      OBVIOUS
  <2>1. k \in 0..n /\ k + 1 \in 0..n /\ k + 1 \in 1..n
      BY <1>1
  <2>2. End(k) \in Nat /\ End(k + 1) = End(k) + Size + frames[k + 1] /\ frames[k + 1] \in Nat
      BY <1>1, <1>2, <1>4, <2>1
  <2> QED BY <2>1, <2>2
<1>6. U = Nat
  <2>1. 0 \in U
      BY <1>1
  <2>2. ASSUME NEW k \in U PROVE k + 1 \in U
    <3> SUFFICES ASSUME k + 1 <= n, NEW j \in 0..n, j < k + 1 PROVE End(j + 1) <= End(k + 1)
        OBVIOUS
    <3>1. k \in 0..n - 1 /\ k \in 0..n /\ k + 1 \in 0..n /\ j + 1 \in 0..n /\ (j = k \/ j < k)
        BY <1>1
    <3>2. End(k) \in Nat /\ End(k + 1) \in Nat /\ End(j + 1) \in Nat /\ End(k) <= End(k + 1)
        BY <1>4, <1>5, <3>1
    <3>3. j < k => End(j + 1) <= End(k)
        BY <3>1
    <3> QED BY <3>1, <3>2, <3>3
  <2>3. U \in SUBSET Nat
      OBVIOUS
  <2> HIDE DEF U
  <2> QED BY <2>1, <2>2, <2>3, AllNat
<1>7. ASSUME NEW j \in 0..n, NEW k \in 0..n, j < k PROVE End(j) + Size + frames[j + 1] <= End(k)
  <2>1. j \in 0..n - 1 /\ k \in Nat /\ k <= n
      BY <1>1, <1>7
  <2>2. End(j + 1) <= End(k)
      BY <1>6, <1>7, <2>1
  <2> QED BY <1>2, <2>1, <2>2
<1> QED BY <1>4, <1>7 DEF n

\* Division.
LEMMA DivMod ==
    ASSUME NEW n \in Nat, NEW b \in Nat \ {0}
    PROVE  n \div b \in Nat /\ n % b \in Nat /\ n % b < b /\ n = (n \div b) * b + (n % b)
<1>1. n \in Int /\ b \in Int /\ b > 0
    OBVIOUS
<1>2. n % b = n - (n \div b) * b
    BY <1>1
<1>3. n \div b \in Nat
    OBVIOUS
<1>4. n % b \in Nat /\ n % b < b
    OBVIOUS
<1> DEFINE q == n \div b
           r == n % b
           p == q * b
<1>5. p \in Int
    BY <1>3
<1> HIDE DEF q, r, p
<1>6. r = n - p /\ r \in Nat
    BY <1>2, <1>4 DEF q, r, p
<1>7. n = p + r
    BY <1>5, <1>6
<1>8. n = q * b + r
    BY <1>7 DEF p
<1>9. n = (n \div b) * b + (n % b)
    BY <1>8, Zenon DEF q, r
<1> QED BY <1>3, <1>4, <1>9, Zenon

LEMMA DivUnique ==
    ASSUME NEW n \in Nat, NEW m \in Nat \ {0}, NEW q \in Nat, NEW r \in Nat, r < m, n = m * q + r
    PROVE  q = n \div m
OBVIOUS

\* Dividing twice.
LEMMA DivTwice ==
    ASSUME NEW n \in Nat, NEW a \in Nat \ {0}, NEW b \in Nat \ {0}
    PROVE  a * b \in Nat \ {0} /\ n \div (a * b) = (n \div a) \div b
<1> DEFINE q == n \div a
           r == n % a
           u == q \div b
           v == q % b
<1>1. q \in Nat /\ r \in Nat /\ r < a /\ n = q * a + r
    BY DivMod
<1> HIDE DEF q, r
<1>2. u \in Nat /\ v \in Nat /\ v < b /\ q = u * b + v
    BY <1>1, DivMod
<1> HIDE DEF u, v
<1>3. a * b \in Nat \ {0}
    OBVIOUS
<1>4. n = (u * b + v) * a + r
    BY <1>1, <1>2
<1>5. (u * b + v) * a + r = (a * b) * u + (v * a + r)
    BY <1>1, <1>2
<1>6. v * a + r \in Nat /\ v * a + r < a * b
  <2>1. v + 1 <= b
      BY <1>2
  <2>2. (v + 1) * a <= b * a
      BY <1>2, <2>1
  <2>3. (v + 1) * a = v * a + a /\ b * a = a * b
      BY <1>2
  <2>4. v * a \in Nat /\ a * b \in Nat
      BY <1>2
  <2> QED BY <1>1, <2>2, <2>3, <2>4
<1> DEFINE m == a * b
           w == v * a + r
<1>7. m \in Nat \ {0} /\ w \in Nat /\ w < m /\ n = m * u + w
    BY <1>3, <1>4, <1>5, <1>6
<1> HIDE DEF m, w
<1>8. u = n \div m
    BY <1>2, <1>7, DivUnique
<1> QED BY <1>3, <1>8 DEF m, u, q

\* A number below b * a has a quotient by a below b.
LEMMA DivBelow ==
    ASSUME NEW n \in Nat, NEW a \in Nat \ {0}, NEW b \in Nat \ {0}, n < b * a
    PROVE  n \div a \in Nat /\ n \div a < b /\ (n \div a) % b = n \div a
<1> DEFINE q == n \div a
           r == n % a
<1>1. q \in Nat /\ r \in Nat /\ r < a /\ n = q * a + r
    BY DivMod
<1> HIDE DEF q, r
<1>2. ASSUME q >= b PROVE FALSE
  <2>1. q * a >= b * a
      BY <1>1, <1>2
  <2>2. q * a \in Nat /\ b * a \in Nat
      BY <1>1
  <2> QED BY <1>1, <2>1, <2>2
<1>3. q < b
    BY <1>1, <1>2
<1>4. q % b = q
    BY <1>1, <1>3
<1> QED BY <1>1, <1>3, <1>4 DEF q

\* Reading the digits of a number gives the number.
LEMMA Horner ==
    ASSUME NEW n \in Nat, NEW b \in Nat \ {0}
    PROVE  /\ n < b * 1 => (n \div 1) % b = n
           /\ n < b * b => ((n \div b) % b) * b + ((n \div 1) % b) = n
           /\ n < b * (b * b * b) =>
                (((((n \div (b * b * b)) % b) * b + ((n \div (b * b)) % b)) * b
                  + ((n \div b) % b)) * b) + ((n \div 1) % b) = n
<1> DEFINE q1 == n \div b
           q2 == n \div (b * b)
           q3 == n \div (b * b * b)
           r0 == n % b
           r1 == q1 % b
           r2 == q2 % b
           b2 == b * b
           b3 == b * b * b
<1>1. n \div 1 = n
    OBVIOUS
<1>2. q1 \in Nat /\ r0 \in Nat /\ n = q1 * b + r0
    BY DivMod
<1>3. b2 \in Nat \ {0} /\ q2 = q1 \div b
    BY DivTwice
<1>4. b3 \in Nat \ {0} /\ q3 = q2 \div b
  <2>1. b3 = b2 * b
      OBVIOUS
  <2>2. b2 \in Nat \ {0}
      BY <1>3
  <2> HIDE DEF b2, b3
  <2>3. b2 * b \in Nat \ {0} /\ n \div (b2 * b) = (n \div b2) \div b
      BY <2>2, DivTwice, ZenonT(30)
  <2> QED BY <2>1, <2>3 DEF b2, b3
<1>5. q2 \in Nat /\ r1 \in Nat /\ q1 = q2 * b + r1
  <2> HIDE DEF q1
  <2>1. q1 \div b \in Nat /\ q1 % b \in Nat /\ q1 = (q1 \div b) * b + (q1 % b)
      BY <1>2, DivMod
  <2>2. q1 \div b \in Nat /\ r1 \in Nat /\ q1 = (q1 \div b) * b + r1
      BY <2>1
  <2> HIDE DEF q2, r1
  <2> QED BY <1>3, <2>2, Zenon
<1>6. q3 \in Nat /\ r2 \in Nat /\ q2 = q3 * b + r2
  <2> HIDE DEF q2
  <2>1. q2 \div b \in Nat /\ q2 % b \in Nat /\ q2 = (q2 \div b) * b + (q2 % b)
      BY <1>5, DivMod
  <2>2. q2 \div b \in Nat /\ r2 \in Nat /\ q2 = (q2 \div b) * b + r2
      BY <2>1
  <2> HIDE DEF q3, r2
  <2> QED BY <1>4, <2>2, Zenon
<1>7. n < b * 1 => n % b = n
    OBVIOUS
<1>8. n < b * b => q1 % b = q1
    BY DivBelow
<1>9. n < b * b3 => q3 % b = q3
  <2> HIDE DEF b3
  <2>1. n < b * b3 => (n \div b3) % b = n \div b3
      BY <1>4, DivBelow
  <2> QED BY <2>1 DEF b3
<1> HIDE DEF q1, q2, q3, r0, r1, r2
<1>10. n < b * b => (q1 % b) * b + r0 = n
    BY <1>2, <1>8
<1>11. n < b * b3 => (((((q3 % b) * b + r2) * b) + r1) * b) + r0 = n
    BY <1>2, <1>5, <1>6, <1>9
<1>12. r0 = (n \div 1) % b
    BY <1>1 DEF r0
<1> QED BY <1>1, <1>7, <1>10, <1>11, <1>12, Zenon DEF q1, q2, q3, r1, r2

----------------------------------------------------------------------------
(* The decoders.                                                           *)

\* Where the theorem holds: no read ends inside a wide prefix with more to follow, or so
\* near to the end of a frame that its length and the prefix's add up.  U8Prefix does not
\* mind.
Mild == Cuts = {} \/ Kinds \subseteq {"u8"}

Count == Len(frames)
Bounds == [k \in 0..Count |-> End(k)]

\* s is what the stream w holds after its first p bytes.
Slice(w, s, p) == s \in Seq(Nat) /\ \A i \in 1..Len(s) : s[i] = w[p + i]

\* No frame is cut at position p where it must not be, if more can follow there: frames of
\* lengths f, with prefixes of z bytes, ending at the positions B.
Cut(z, f, B, p, more) ==
    z > 1 => \A k \in 0..Len(f) - 1 :
      p - B[k] \in 1 .. z + f[k + 1] - 1 =>
        /\ p - B[k] < z => ~more
        /\ p - B[k] >= z => p - B[k] < f[k + 1]

\* What was read ends here; the bytes that are held begin there.
Held == Arrived - Len(avail)
Mark == IF state.s = "More" THEN Bounds[Len(out)] + Size ELSE Bounds[Len(out)]

\* The payloads of the first k frames of lengths f.
Body(f, i) == [j \in 1..f[i] |-> Base + i]
Bodies(f, k) == [i \in 1..k |-> Body(f, i)]

FramesOK ==
    /\ kind \in Kinds /\ frames \in Seq(Nat)
    /\ \A i \in 1..Count : frames[i] < Base * Place[Size]
WireOK ==
    /\ Slice(AllFrames, wire, Arrived) /\ Len(wire) <= Bounds[Count]
    /\ Cut(Size, frames, Bounds, Arrived, net = "open")
OutOK ==
    /\ out \in Seq(Seq(Nat)) /\ Len(out) <= Count /\ out = Bodies(frames, Len(out))
    /\ Bounds[Len(out)] <= Arrived
DataOK ==
    task \in {"run", "parked"} =>
      /\ \/ state = Pending
         \/ Len(out) < Count /\ state = More(frames[Len(out) + 1]) /\ Len(data) < frames[Len(out) + 1]
      /\ Slice(AllFrames, avail, Held) /\ Slice(AllFrames, data, Mark) /\ Mark + Len(data) = Held
      /\ Cut(Size, frames, Bounds, Held, net = "open" \/ avail # <<>>)
TaskOK ==
    /\ task \in {"run", "parked", "done", "failed"}
    /\ task = "done" => net # "open" /\ (Len(out) < Count => Arrived < Bounds[Len(out) + 1])

FrameInv == FramesOK /\ WireOK /\ OutOK /\ DataOK /\ TaskOK

LEMMA SizeFacts ==
    ASSUME kind \in Kinds
    PROVE  /\ Size \in {1, 2, 4} /\ Decoder.be \in BOOLEAN
           /\ Kinds \subseteq {"u8"} => Size = 1
<1>1. kind \in {"u8", "u16be", "u16le", "u32be", "u32le"}
    BY PrefixAssumption
<1> USE DEF Size, Decoder, U8Prefix, U16bePrefix, U16lePrefix, U32bePrefix, U32lePrefix
<1>2. CASE kind = "u8"
    BY <1>2
<1>3. CASE kind = "u16be"
    BY <1>3
<1>4. CASE kind = "u16le"
    BY <1>4
<1>5. CASE kind = "u32be"
    BY <1>5
<1>6. CASE kind = "u32le"
    BY <1>6
<1> QED BY <1>1, <1>2, <1>3, <1>4, <1>5, <1>6

LEMMA PlaceFacts ==
    /\ Base \in Nat \ {0}
    /\ Place[1] = 1 /\ Place[2] = Base /\ Place[3] = Base * Base /\ Place[4] = Base * Base * Base
    /\ \A j \in 1..4 : Place[j] \in Nat \ {0}
<1>1. Base \in Nat \ {0}
    BY PrefixAssumption
<1>2. Place[1] = 1 /\ Place[2] = Base /\ Place[3] = Base * Base /\ Place[4] = Base * Base * Base
    BY DEF Place
<1>3. Base * Base \in Nat \ {0}
    BY <1>1
<1> DEFINE b == Base * Base
<1>4. b * Base \in Nat \ {0}
  <2>1. b \in Nat \ {0}
      BY <1>3
  <2> HIDE DEF b
  <2> QED BY <1>1, <2>1
<1> QED BY <1>1, <1>2, <1>3, <1>4

\* Reversing.
LEMMA ReverseFacts ==
    ASSUME NEW s \in Seq(Nat)
    PROVE  /\ Reverse(s) \in Seq(Nat) /\ Len(Reverse(s)) = Len(s)
           /\ \A i \in 1..Len(s) : Reverse(s)[i] = s[Len(s) - i + 1]
<1>1. Len(s) \in Nat /\ \A i \in 1..Len(s) : s[i] \in Nat
    BY LenProperties, ElementOfSeq
<1> DEFINE n == Len(s)
<1>2. \A i \in 1..n : n - i + 1 \in 1..n
    BY <1>1
<1>3. Reverse(s) = [i \in 1..n |-> s[n - i + 1]]
    BY DEF Reverse
<1> HIDE DEF n
<1> QED BY <1>1, <1>2, <1>3 DEF n

Digits(n) == [i \in 1..Size |-> (n \div Place[Size - i + 1]) % Base]

\* A prefix has the decoder's size.
LEMMA AppendFacts ==
    ASSUME kind \in Kinds, NEW n \in Nat
    PROVE  /\ Digits(n) \in Seq(Nat) /\ Len(Digits(n)) = Size
           /\ \A i \in 1..Size : Digits(n)[i] = (n \div Place[Size - i + 1]) % Base
           /\ codec_append(n) \in Seq(Nat) /\ Len(codec_append(n)) = Size
           /\ (IF Decoder.be THEN codec_append(n) ELSE Reverse(codec_append(n))) = Digits(n)
<1>1. Size \in 1..4 /\ Decoder.be \in BOOLEAN
    BY SizeFacts
<1>2. \A i \in 1..Size : Size - i + 1 \in 1..4
    BY <1>1
<1>3. \A i \in 1..Size : (n \div Place[Size - i + 1]) % Base \in Nat
  <2> SUFFICES ASSUME NEW i \in 1..Size PROVE (n \div Place[Size - i + 1]) % Base \in Nat
      OBVIOUS
  <2>1. Place[Size - i + 1] \in Nat \ {0} /\ Base \in Nat \ {0}
      BY <1>2, PlaceFacts
  <2>2. n \div Place[Size - i + 1] \in Nat
      BY <2>1, DivMod
  <2> QED BY <2>1, <2>2, DivMod
<1>4. \A i \in 1..Size : Digits(n)[i] = (n \div Place[Size - i + 1]) % Base
    BY DEF Digits
<1>5. Digits(n) \in Seq(Nat) /\ Len(Digits(n)) = Size
    BY <1>1, <1>3 DEF Digits
<1>6. codec_append(n) = IF Decoder.be THEN Digits(n) ELSE Reverse(Digits(n))
    BY DEF codec_append, Digits
<1> DEFINE d == Digits(n)
           r == Reverse(d)
<1>7. r \in Seq(Nat) /\ Len(r) = Size /\ \A i \in 1..Size : r[i] = d[Size - i + 1]
    BY <1>5, ReverseFacts
<1>8. Reverse(r) \in Seq(Nat) /\ Len(Reverse(r)) = Size /\ \A i \in 1..Size : Reverse(r)[i] = r[Size - i + 1]
    BY <1>7, ReverseFacts
<1>9. \A i \in 1..Size : Size - i + 1 \in 1..Size /\ Size - (Size - i + 1) + 1 = i
    BY <1>1
<1>10. Reverse(r) = d
  <2>1. d \in Seq(Nat) /\ Len(d) = Size
      BY <1>5
  <2> DEFINE back == Reverse(r)
  <2>2. back \in Seq(Nat) /\ Len(back) = Size /\ \A i \in 1..Size : back[i] = r[Size - i + 1]
      BY <1>8
  <2> HIDE DEF d, r, back
  <2>3. \A i \in 1..Size : back[i] = d[i]
    <3> SUFFICES ASSUME NEW i \in 1..Size PROVE back[i] = d[i]
        OBVIOUS
    <3> DEFINE j == Size - i + 1
    <3>1. j \in 1..Size /\ Size - j + 1 = i
        BY <1>9
    <3>2. back[i] = r[j]
        BY <2>2
    <3> HIDE DEF j
    <3>3. r[j] = d[Size - j + 1]
        BY <1>7, <3>1
    <3> QED BY <3>1, <3>2, <3>3
  <2>4. back = d
      BY <2>1, <2>2, <2>3, SeqEqual
  <2> QED BY <2>4 DEF back
<1> QED BY <1>4, <1>5, <1>6, <1>7, <1>10

ReadsTo(s) == (CHOOSE g : g = ReadStep(g, s, SUBSET (DOMAIN s)))[DOMAIN s]

LEMMA ReadDef ==
    ASSUME NEW s
    PROVE  codec_read(s) = ReadsTo(IF Decoder.be THEN s ELSE Reverse(s))
BY DEF codec_read, FoldLeft, MapThenFoldSet, ReadStep, ReadsTo

\* The digits are read one after the other.
LEMMA ReadSteps ==
    ASSUME NEW s \in Seq(Nat)
    PROVE  \E g : /\ ReadsTo(s) = g[1..Len(s)] /\ g[1..0] = 0
                  /\ \A j \in 0..Len(s) - 1 : g[1..(j + 1)] = g[1..j] * Base + s[j + 1]
<1> DEFINE n == Len(s)
           G == CHOOSE g : g = ReadStep(g, s, SUBSET (1..n))
<1>1. n \in Nat /\ DOMAIN s = 1..n
    BY LenProperties
<1>2. ReadsTo(s) = G[1..n]
    BY <1>1 DEF ReadsTo
<1> HIDE DEF n
<1>3. G = ReadStep(G, s, SUBSET (1..n))
    BY <1>1, ReadExists
<1> HIDE DEF G
<1>4. \A x \in SUBSET (1..n) : G[x] = IF x = {} THEN 0 ELSE G[x \ {Max(x)}] * Base + s[Max(x)]
    BY <1>3 DEF ReadStep
<1>5. G[1..0] = 0
  <2>1. 1..0 = {} /\ 1..0 \in SUBSET (1..n)
      BY <1>1
  <2> QED BY <1>4, <2>1
<1>6. ASSUME NEW j \in 0..n - 1 PROVE G[1..(j + 1)] = G[1..j] * Base + s[j + 1]
  <2> DEFINE X == 1..(j + 1)
             Y == 1..j
  <2>1. j \in Nat /\ X \in SUBSET (1..n) /\ X # {} /\ X \ {j + 1} = Y /\ j + 1 \in X
    <3>1. j \in Nat /\ j + 1 <= n /\ j + 1 \in X
        BY <1>1
    <3>2. X \in SUBSET (1..n)
        BY <1>1, <3>1
    <3>3. X \ {j + 1} = Y
        BY <3>1
    <3> QED BY <3>1, <3>2, <3>3
  <2>2. Max(X) = j + 1
      BY <2>1, MaxLast
  <2> HIDE DEF X, Y
  <2>3. G[X] = G[Y] * Base + s[j + 1]
      BY <1>4, <2>1, <2>2
  <2> QED BY <2>3 DEF X, Y
<1> QED BY <1>2, <1>5, <1>6 DEF n

\* What is written is read back.
LEMMA ReadBack ==
    ASSUME kind \in Kinds, NEW n \in Nat, n < Base * Place[Size]
    PROVE  codec_read(codec_append(n)) = n
<1> DEFINE d == Digits(n)
<1>1. /\ d \in Seq(Nat) /\ Len(d) = Size
      /\ \A i \in 1..Size : d[i] = (n \div Place[Size - i + 1]) % Base
    BY AppendFacts
<1>2. codec_read(codec_append(n)) = ReadsTo(d)
    BY AppendFacts, ReadDef
<1> HIDE DEF d
<1>3. PICK g : /\ ReadsTo(d) = g[1..Size] /\ g[1..0] = 0
               /\ \A j \in 0..Size - 1 : g[1..(j + 1)] = g[1..j] * Base + d[j + 1]
    BY <1>1, ReadSteps
<1> DEFINE q(i) == g[1..i]
<1>4. ReadsTo(d) = q(Size) /\ q(0) = 0 /\ \A j \in 0..Size - 1 : q(j + 1) = q(j) * Base + d[j + 1]
    BY <1>3
<1> HIDE DEF q
<1>5. Base \in Nat \ {0}
    BY PlaceFacts
<1>6. \A i \in 1..Size : d[i] \in Nat
    BY <1>1, ElementOfSeq
<1>7. ASSUME NEW j \in 1..Size PROVE d[j] = (n \div Place[Size - j + 1]) % Base
    BY <1>1
<1>8. CASE Size = 1
  <2>1. d[1] = (n \div 1) % Base
    <3>1. 1 \in 1..Size /\ Size - 1 + 1 = 1
        BY <1>8
    <3> QED BY <1>7, <3>1, PlaceFacts
  <2>2. q(1) = d[1]
    <3>1. q(0 + 1) = q(0) * Base + d[0 + 1]
        BY <1>4, <1>8
    <3>2. d[1] \in Nat
        BY <1>8, <1>6
    <3> QED BY <1>4, <1>5, <3>1, <3>2
  <2>3. n < Base * 1
      BY <1>8, PlaceFacts
  <2> QED BY <1>2, <1>4, <1>5, <1>8, <2>1, <2>2, <2>3, Horner
<1>9. CASE Size = 2
  <2>1. d[1] = (n \div Base) % Base /\ d[2] = (n \div 1) % Base
    <3>1. 1 \in 1..Size /\ 2 \in 1..Size /\ Size - 1 + 1 = 2 /\ Size - 2 + 1 = 1
        BY <1>9
    <3> QED BY <1>7, <3>1, PlaceFacts
  <2>2. q(2) = d[1] * Base + d[2]
    <3>1. q(0 + 1) = q(0) * Base + d[0 + 1] /\ q(1 + 1) = q(1) * Base + d[1 + 1]
        BY <1>4, <1>9
    <3>2. d[1] \in Nat
        BY <1>9, <1>6
    <3>3. q(1) = d[1]
        BY <1>4, <1>5, <3>1, <3>2
    <3> QED BY <3>1, <3>3
  <2>3. n < Base * Base
      BY <1>9, PlaceFacts
  <2> QED BY <1>2, <1>4, <1>5, <1>9, <2>1, <2>2, <2>3, Horner
<1>10. CASE Size = 4
  <2>1. /\ d[1] = (n \div (Base * Base * Base)) % Base /\ d[2] = (n \div (Base * Base)) % Base
        /\ d[3] = (n \div Base) % Base /\ d[4] = (n \div 1) % Base
    <3>1. /\ 1 \in 1..Size /\ 2 \in 1..Size /\ 3 \in 1..Size /\ 4 \in 1..Size
          /\ Size - 1 + 1 = 4 /\ Size - 2 + 1 = 3 /\ Size - 3 + 1 = 2 /\ Size - 4 + 1 = 1
        BY <1>10
    <3> QED BY <1>7, <3>1, PlaceFacts
  <2>2. q(4) = ((d[1] * Base + d[2]) * Base + d[3]) * Base + d[4]
    <3>1. /\ q(0 + 1) = q(0) * Base + d[0 + 1] /\ q(1 + 1) = q(1) * Base + d[1 + 1]
          /\ q(2 + 1) = q(2) * Base + d[2 + 1] /\ q(3 + 1) = q(3) * Base + d[3 + 1]
        BY <1>4, <1>10
    <3>2. d[1] \in Nat
        BY <1>10, <1>6
    <3>3. q(1) = d[1]
        BY <1>4, <1>5, <3>1, <3>2
    <3> QED BY <3>1, <3>3
  <2>3. n < Base * (Base * Base * Base)
      BY <1>10, PlaceFacts
  <2> QED BY <1>2, <1>4, <1>5, <1>10, <2>1, <2>2, <2>3, Horner
<1> QED BY <1>8, <1>9, <1>10, SizeFacts

\* Two sequences joined.
LEMMA JoinFacts ==
    ASSUME NEW S, NEW s \in Seq(S), NEW t \in Seq(S)
    PROVE  /\ s \o t \in Seq(S) /\ Len(s \o t) = Len(s) + Len(t)
           /\ \A i \in 1..Len(s) : (s \o t)[i] = s[i]
           /\ \A i \in 1..Len(t) : (s \o t)[Len(s) + i] = t[i]
<1> DEFINE u == s \o t
           a == Len(s)
           b == Len(t)
<1>1. a \in Nat /\ b \in Nat
    BY LenProperties
<1>2. u \in Seq(S) /\ Len(u) = a + b /\ \A i \in 1..a + b : u[i] = IF i <= a THEN s[i] ELSE t[i - a]
    BY ConcatProperties
<1> HIDE DEF u, a, b
<1>3. \A i \in 1..a : i \in 1..a + b /\ i <= a
    BY <1>1
<1>4. \A i \in 1..b : a + i \in 1..a + b /\ ~(a + i <= a) /\ (a + i) - a = i
    BY <1>1
<1>5. /\ \A i \in 1..a : u[i] = s[i]
      /\ \A i \in 1..b : u[a + i] = t[i]
    BY <1>2, <1>3, <1>4
<1> QED BY <1>2, <1>5 DEF u, a, b

Chain(s, m) == FlattenSeq(SubSeq(s, 1, m))

\* A chain grows block by block.
LEMMA ChainNext ==
    ASSUME NEW S, NEW s \in Seq(Seq(S))
    PROVE  /\ Chain(s, 0) = <<>> /\ Chain(s, Len(s)) = FlattenSeq(s)
           /\ \A m \in 0..Len(s) : Chain(s, m) \in Seq(S)
           /\ \A m \in 0..Len(s) - 1 : Chain(s, m + 1) = Chain(s, m) \o s[m + 1]
<1>1. Len(s) \in Nat /\ SubSeq(s, 1, 0) = <<>> /\ SubSeq(s, 1, Len(s)) = s
    BY LenProperties, SubSeqEmpty, SubSeqFull
<1>2. FlattenSeq(<<>>) = <<>>
    BY FlattenDef, EmptySeq
<1>3. Chain(s, 0) = <<>> /\ Chain(s, Len(s)) = FlattenSeq(s)
    BY <1>1, <1>2 DEF Chain
<1>4. ASSUME NEW m \in 0..Len(s) - 1
      PROVE  /\ Chain(s, m + 1) = Chain(s, m) \o s[m + 1]
             /\ Chain(s, m) \in Seq(S)
  <2>1. m \in Nat /\ m + 1 <= Len(s)
      BY <1>1
  <2> DEFINE p == SubSeq(s, 1, m)
             e == s[m + 1]
  <2>2. p \in Seq(Seq(S)) /\ e \in Seq(S) /\ SubSeq(s, 1, m + 1) = Append(p, e)
      BY <2>1, OneMore
  <2> HIDE DEF p, e
  <2>3. FlattenSeq(Append(p, e)) = FlattenSeq(p) \o e /\ FlattenSeq(p) \in Seq(S)
      BY <2>2, FlattenMore, FlattenType
  <2> QED BY <2>2, <2>3 DEF Chain, p, e
<1>5. FlattenSeq(s) \in Seq(S)
    BY FlattenType
<1>6. \A m \in 0..Len(s) : m = Len(s) \/ m \in 0..Len(s) - 1
  <2> DEFINE n == Len(s)
  <2>1. n \in Nat
      BY <1>1
  <2> HIDE DEF n
  <2>2. \A m \in 0..n : m = n \/ m \in 0..n - 1
      BY <2>1
  <2> QED BY <2>2 DEF n
<1> QED BY <1>3, <1>4, <1>5, <1>6

\* A frame: its prefix, then its payload.
LEMMA FrameFacts ==
    ASSUME kind \in Kinds, frames \in Seq(Nat), NEW i \in 1..Count
    PROVE  /\ frames[i] \in Nat /\ i \in Nat
           /\ Payload(i) \in Seq(Nat) /\ Len(Payload(i)) = frames[i]
           /\ \A j \in 1..frames[i] : Payload(i)[j] = Base + i
           /\ Frame(i) \in Seq(Nat) /\ Len(Frame(i)) = Size + frames[i]
           /\ \A j \in 1..Size : Frame(i)[j] = codec_append(frames[i])[j]
           /\ \A j \in 1..frames[i] : Frame(i)[Size + j] = Base + i
<1>1. frames[i] \in Nat /\ i \in Nat /\ Base \in Nat
    BY PrefixAssumption, LenProperties, ElementOfSeq DEF Count
<1> DEFINE p == Payload(i)
           c == codec_append(frames[i])
<1>2. p \in Seq(Nat) /\ Len(p) = frames[i] /\ \A j \in 1..frames[i] : p[j] = Base + i
    BY <1>1 DEF Payload
<1>3. c \in Seq(Nat) /\ Len(c) = Size
    BY <1>1, AppendFacts
<1>4. Frame(i) = c \o p
    BY DEF Frame
<1> HIDE DEF p, c
<1> DEFINE f == c \o p
<1>5. f \in Seq(Nat) /\ Len(f) = Size + frames[i] /\ (\A j \in 1..Size : f[j] = c[j])
      /\ \A j \in 1..frames[i] : f[Size + j] = p[j]
  <2> DEFINE z == Size
             l == frames[i]
  <2>1. c \in Seq(Nat) /\ Len(c) = z /\ p \in Seq(Nat) /\ Len(p) = l
      BY <1>2, <1>3
  <2> HIDE DEF z, l
  <2>2. c \in Seq(Nat) /\ p \in Seq(Nat)
      BY <2>1
  <2>3. /\ f \in Seq(Nat) /\ Len(f) = Len(c) + Len(p) /\ (\A j \in 1..Len(c) : f[j] = c[j])
        /\ \A j \in 1..Len(p) : f[Len(c) + j] = p[j]
    <3>1. ASSUME NEW s \in Seq(Nat), NEW t \in Seq(Nat)
          PROVE  /\ s \o t \in Seq(Nat) /\ Len(s \o t) = Len(s) + Len(t)
                 /\ \A j \in 1..Len(s) : (s \o t)[j] = s[j]
                 /\ \A j \in 1..Len(t) : (s \o t)[Len(s) + j] = t[j]
        BY JoinFacts
    <3> QED BY <2>2, <3>1, Zenon
  <2> HIDE DEF f
  <2>4. f \in Seq(Nat) /\ Len(f) = z + l /\ (\A j \in 1..z : f[j] = c[j]) /\ \A j \in 1..l : f[z + j] = p[j]
      BY <2>1, <2>3
  <2> QED BY <2>4 DEF z, l
<1> HIDE DEF f
<1>6. \A j \in 1..frames[i] : f[Size + j] = Base + i
    BY <1>2, <1>5
<1> QED BY <1>1, <1>2, <1>4, <1>5, <1>6 DEF f, p, c

\* The peer's stream: where the bytes of each frame are.
LEMMA StreamFacts ==
    ASSUME kind \in Kinds, frames \in Seq(Nat)
    PROVE  /\ AllFrames \in Seq(Nat) /\ Len(AllFrames) = End(Count)
           /\ \A k \in 0..Count - 1 :
                /\ \A i \in 1..Size : AllFrames[End(k) + i] = codec_append(frames[k + 1])[i]
                /\ \A i \in 1..frames[k + 1] : AllFrames[End(k) + Size + i] = Base + (k + 1)
<1> DEFINE n == Count
           b == [i \in DOMAIN frames |-> Frame(i)]
           F(m) == Chain(b, m)
<1>1. n \in Nat /\ DOMAIN frames = 1..n
    BY LenProperties DEF Count
<1>2. Size \in Nat \ {0}
    BY SizeFacts
<1>3. b \in Seq(Seq(Nat)) /\ Len(b) = n /\ \A i \in 1..n : b[i] = Frame(i)
  <2>1. \A i \in 1..n : Frame(i) \in Seq(Nat)
      BY FrameFacts
  <2> DEFINE B == Seq(Nat)
             g(i) == Frame(i)
  <2>2. b = [i \in 1..n |-> g(i)] /\ \A i \in 1..n : g(i) \in B
      BY <1>1, <2>1
  <2> HIDE DEF B, g, n
  <2>3. [i \in 1..n |-> g(i)] \in Seq(B) /\ Len([i \in 1..n |-> g(i)]) = n
      BY <1>1, <2>2
  <2>4. \A i \in 1..n : b[i] = g(i)
      BY <2>2
  <2> QED BY <2>2, <2>3, <2>4 DEF B, g
<1>4. AllFrames = FlattenSeq(b)
    BY DEF AllFrames
<1> HIDE DEF n, b
<1>5. /\ F(0) = <<>> /\ F(n) = AllFrames /\ \A m \in 0..n : F(m) \in Seq(Nat)
      /\ \A m \in 0..n - 1 : F(m + 1) = F(m) \o b[m + 1]
    BY <1>3, <1>4, ChainNext
<1> HIDE DEF F
<1>6. \A k \in 0..n : End(k) \in Nat
    BY <1>2, EndFacts DEF n, Count
<1>7. End(0) = 0 /\ \A k \in 0..n - 1 : End(k + 1) = End(k) + Size + frames[k + 1]
    BY EndNext DEF n, Count
<1>8. \A m \in 0..n - 1 : m \in 0..n /\ m + 1 \in 0..n /\ m + 1 \in 1..n
    BY <1>1
<1>9. \A m \in 0..n - 1 :
        /\ b[m + 1] \in Seq(Nat) /\ b[m + 1] = Frame(m + 1) /\ Len(b[m + 1]) = Size + frames[m + 1]
        /\ frames[m + 1] \in Nat
    BY <1>3, <1>8, FrameFacts DEF n
<1>10. \A m \in 0..n - 1 :
         /\ Len(F(m + 1)) = Len(F(m)) + (Size + frames[m + 1])
         /\ \A i \in 1..Len(F(m)) : F(m + 1)[i] = F(m)[i]
         /\ \A i \in 1..Size + frames[m + 1] : F(m + 1)[Len(F(m)) + i] = Frame(m + 1)[i]
  <2> SUFFICES ASSUME NEW m \in 0..n - 1
               PROVE  /\ Len(F(m + 1)) = Len(F(m)) + (Size + frames[m + 1])
                      /\ \A i \in 1..Len(F(m)) : F(m + 1)[i] = F(m)[i]
                      /\ \A i \in 1..Size + frames[m + 1] : F(m + 1)[Len(F(m)) + i] = Frame(m + 1)[i]
      OBVIOUS
  <2> DEFINE p == F(m)
             q == b[m + 1]
             r == p \o q
  <2>1. p \in Seq(Nat) /\ q \in Seq(Nat) /\ F(m + 1) = r /\ q = Frame(m + 1) /\ Len(q) = Size + frames[m + 1]
      BY <1>5, <1>8, <1>9
  <2> HIDE DEF p, q
  <2>2. Len(r) = Len(p) + Len(q) /\ (\A i \in 1..Len(p) : r[i] = p[i]) /\ \A i \in 1..Len(q) : r[Len(p) + i] = q[i]
      BY <2>1, JoinFacts
  <2> HIDE DEF r
  <2> QED BY <2>1, <2>2 DEF p
<1>11. \A m \in 0..n : Len(F(m)) = End(m)
  <2> DEFINE T == {m \in Nat : m <= n => Len(F(m)) = End(m)}
  <2>1. 0 \in T
      BY <1>5, <1>7
  <2>2. ASSUME NEW m \in T PROVE m + 1 \in T
    <3> SUFFICES ASSUME m + 1 <= n PROVE Len(F(m + 1)) = End(m + 1)
        OBVIOUS
    <3>1. m \in 0..n - 1 /\ m <= n
        BY <1>1
    <3>2. Len(F(m)) = End(m) /\ End(m) \in Nat /\ frames[m + 1] \in Nat
        BY <1>6, <1>8, <1>9, <3>1
    <3> QED BY <1>2, <1>7, <1>10, <3>1, <3>2
  <2>3. T = Nat
    <3>1. T \in SUBSET Nat
        OBVIOUS
    <3> HIDE DEF T
    <3> QED BY <2>1, <2>2, <3>1, AllNat
  <2> QED BY <1>1, <2>3
<1>12. \A j, m \in 0..n : j <= m => End(j) <= End(m)
  <2> SUFFICES ASSUME NEW j \in 0..n, NEW m \in 0..n, j <= m PROVE End(j) <= End(m)
      OBVIOUS
  <2>1. End(j) \in Nat /\ End(m) \in Nat
      BY <1>6
  <2>2. CASE j = m
      BY <2>1, <2>2
  <2>3. CASE j < m
    <3>1. End(j) + Size + frames[j + 1] <= End(m)
        BY <1>2, <2>3, EndFacts DEF n, Count
    <3>2. frames[j + 1] \in Nat
        BY <1>1, <1>9, <2>3
    <3> QED BY <1>2, <2>1, <3>1, <3>2
  <2> QED BY <1>1, <2>2, <2>3
<1>13. \A m \in 0..n : \A j \in 0..m : \A i \in 1..End(j) : F(m)[i] = F(j)[i]
  <2> DEFINE A(m) == \A j \in 0..m : \A i \in 1..End(j) : F(m)[i] = F(j)[i]
             T == {m \in Nat : m <= n => A(m)}
  <2>1. 0 \in T
    <3>1. \A j \in 0..0 : j = 0
        OBVIOUS
    <3> QED BY <3>1
  <2>2. ASSUME NEW m \in T PROVE m + 1 \in T
    <3> SUFFICES ASSUME m + 1 <= n, NEW j \in 0..m + 1, NEW i \in 1..End(j) PROVE F(m + 1)[i] = F(j)[i]
        OBVIOUS
    <3>1. m \in 0..n - 1 /\ m <= n /\ m \in 0..n
        BY <1>1
    <3>2. CASE j = m + 1
        BY <3>2
    <3>3. CASE j \in 0..m
      <4>1. F(m)[i] = F(j)[i]
          BY <3>1, <3>3
      <4>2. End(j) <= End(m) /\ End(j) \in Nat /\ End(m) \in Nat
        <5>1. j \in 0..n /\ j <= m
            BY <1>1, <3>1, <3>3
        <5> QED BY <1>6, <1>12, <3>1, <5>1
      <4>3. i \in 1..Len(F(m))
          BY <1>11, <3>1, <4>2
      <4> QED BY <1>10, <3>1, <4>1, <4>3
    <3> QED BY <3>2, <3>3
  <2>3. T = Nat
    <3>1. T \in SUBSET Nat
        OBVIOUS
    <3> HIDE DEF T
    <3> QED BY <2>1, <2>2, <3>1, AllNat
  <2> QED BY <1>1, <2>3
<1>14. ASSUME NEW k \in 0..n - 1, NEW i \in 1..Size + frames[k + 1]
       PROVE  AllFrames[End(k) + i] = Frame(k + 1)[i]
  <2>1. k \in 0..n /\ k + 1 \in 0..n /\ n \in 0..n
      BY <1>1
  <2>2. End(k) \in Nat /\ frames[k + 1] \in Nat /\ End(k + 1) = End(k) + Size + frames[k + 1]
      BY <1>6, <1>7, <1>9, <2>1
  <2>3. End(k) + i \in 1..End(k + 1)
      BY <1>2, <2>2
  <2>4. F(n)[End(k) + i] = F(k + 1)[End(k) + i]
      BY <1>13, <2>1, <2>3
  <2>5. F(k + 1)[End(k) + i] = Frame(k + 1)[i]
      BY <1>10, <1>11, <2>1
  <2> QED BY <1>5, <2>4, <2>5
<1>15. AllFrames \in Seq(Nat) /\ Len(AllFrames) = End(n)
    BY <1>1, <1>5, <1>11
<1>16. ASSUME NEW k \in 0..n - 1, NEW i \in 1..Size
       PROVE  AllFrames[End(k) + i] = codec_append(frames[k + 1])[i]
  <2>1. k + 1 \in 1..n /\ i \in 1..Size + frames[k + 1]
      BY <1>2, <1>8, <1>9
  <2>2. Frame(k + 1)[i] = codec_append(frames[k + 1])[i]
      BY <2>1, FrameFacts DEF n
  <2> QED BY <1>14, <2>1, <2>2
<1>17. ASSUME NEW k \in 0..n - 1, NEW i \in 1..frames[k + 1]
       PROVE  AllFrames[End(k) + Size + i] = Base + (k + 1)
  <2>1. k + 1 \in 1..n /\ Size + i \in 1..Size + frames[k + 1] /\ frames[k + 1] \in Nat
      BY <1>2, <1>8, <1>9
  <2>2. Frame(k + 1)[Size + i] = Base + (k + 1)
      BY <2>1, FrameFacts DEF n
  <2>3. End(k) \in Nat
      BY <1>6, <1>8
  <2>4. End(k) + (Size + i) = End(k) + Size + i
      BY <1>2, <2>3
  <2>5. AllFrames[End(k) + (Size + i)] = Frame(k + 1)[Size + i]
      BY <1>14, <2>1
  <2> QED BY <2>2, <2>4, <2>5
<1> QED BY <1>15, <1>16, <1>17 DEF n

\* The peer's stream, in these terms.
Layout(z, f, B, w) ==
    /\ z \in Nat \ {0} /\ f \in Seq(Nat) /\ Len(f) \in Nat /\ \A i \in 1..Len(f) : f[i] \in Nat
    /\ \A k \in 0..Len(f) : B[k] \in Nat
    /\ B[0] = 0
    /\ \A k \in 0..Len(f) - 1 : B[k + 1] = B[k] + z + f[k + 1]
    /\ \A j, k \in 0..Len(f) : j < k => B[j] + z + f[j + 1] <= B[k]
    /\ w \in Seq(Nat) /\ Len(w) = B[Len(f)]
    /\ \A k \in 0..Len(f) - 1 : \A i \in 1..f[k + 1] : w[B[k] + z + i] = Base + (k + 1)

LEMMA LayoutFacts ==
    ASSUME FramesOK
    PROVE  /\ Layout(Size, frames, Bounds, AllFrames)
           /\ \A k \in 0..Count : Bounds[k] = End(k)
           /\ Arrived = Bounds[Count] - Len(wire)
<1>1. kind \in Kinds /\ frames \in Seq(Nat)
    BY DEF FramesOK
<1>2. Size \in Nat \ {0}
    BY <1>1, SizeFacts
<1>3. Count = Len(frames) /\ Count \in Nat /\ \A i \in 1..Count : frames[i] \in Nat
    BY <1>1, LenProperties, ElementOfSeq DEF Count
<1>4. \A k \in 0..Count : Bounds[k] = End(k)
    BY DEF Bounds
<1>5. (\A k \in 0..Count : End(k) \in Nat)
      /\ \A j, k \in 0..Count : j < k => End(j) + Size + frames[j + 1] <= End(k)
    BY <1>1, <1>2, EndFacts DEF Count
<1>6. End(0) = 0 /\ \A k \in 0..Count - 1 : End(k + 1) = End(k) + Size + frames[k + 1]
    BY <1>1, EndNext DEF Count
<1>7. /\ AllFrames \in Seq(Nat) /\ Len(AllFrames) = End(Count)
      /\ \A k \in 0..Count - 1 : \A i \in 1..frames[k + 1] : AllFrames[End(k) + Size + i] = Base + (k + 1)
    BY <1>1, StreamFacts
<1>8. 0 \in 0..Count /\ Count \in 0..Count /\ \A k \in 0..Count - 1 : k \in 0..Count /\ k + 1 \in 0..Count
    BY <1>3
<1>9. Arrived = Bounds[Count] - Len(wire)
    BY <1>3, <1>4, <1>8 DEF Arrived
<1>10. Bounds[0] = 0 /\ \A k \in 0..Count - 1 : Bounds[k + 1] = Bounds[k] + Size + frames[k + 1]
    BY <1>4, <1>6, <1>8
<1>11. (\A k \in 0..Count : Bounds[k] \in Nat)
       /\ \A j, k \in 0..Count : j < k => Bounds[j] + Size + frames[j + 1] <= Bounds[k]
    BY <1>4, <1>5
<1>12. /\ Len(AllFrames) = Bounds[Count]
       /\ \A k \in 0..Count - 1 : \A i \in 1..frames[k + 1] : AllFrames[Bounds[k] + Size + i] = Base + (k + 1)
    BY <1>4, <1>7, <1>8
<1> QED BY <1>1, <1>2, <1>3, <1>4, <1>7, <1>9, <1>10, <1>11, <1>12 DEF Layout

\* Slices are put together and taken apart.
LEMMA SliceJoin ==
    ASSUME NEW w, NEW s, NEW t, NEW p \in Int, Slice(w, s, p), NEW q, q = p + Len(s), Slice(w, t, q)
    PROVE  Slice(w, s \o t, p) /\ Len(s \o t) = Len(s) + Len(t) /\ Len(s) \in Nat /\ Len(t) \in Nat
<1> DEFINE u == s \o t
           a == Len(s)
           b == Len(t)
<1>1. s \in Seq(Nat) /\ t \in Seq(Nat) /\ (\A i \in 1..a : s[i] = w[p + i]) /\ \A i \in 1..b : t[i] = w[q + i]
    BY DEF Slice
<1>2. a \in Nat /\ b \in Nat
    BY <1>1, LenProperties
<1>3. u \in Seq(Nat) /\ Len(u) = a + b /\ \A i \in 1..a + b : u[i] = IF i <= a THEN s[i] ELSE t[i - a]
    BY <1>1, ConcatProperties
<1>4. q = p + a
    OBVIOUS
<1> HIDE DEF u, a, b
<1>5. ASSUME NEW i \in 1..a + b PROVE u[i] = w[p + i]
  <2>1. CASE i <= a
    <3>1. i \in 1..a
        BY <1>2, <2>1
    <3> QED BY <1>1, <1>3, <2>1, <3>1
  <2>2. CASE ~(i <= a)
    <3>1. i - a \in 1..b /\ q + (i - a) = p + i
        BY <1>2, <1>4, <2>2
    <3> QED BY <1>1, <1>3, <2>2, <3>1
  <2> QED BY <2>1, <2>2
<1>6. Slice(w, u, p) /\ Len(u) = a + b
    BY <1>3, <1>5 DEF Slice
<1> QED BY <1>2, <1>6 DEF u, a, b

LEMMA SlicePart ==
    ASSUME NEW w, NEW s, NEW p \in Int, Slice(w, s, p), NEW a \in Nat, NEW k \in Nat, a <= k, k <= Len(s)
    PROVE  /\ Slice(w, SubSeq(s, a + 1, k), p + a) /\ Len(SubSeq(s, a + 1, k)) = k - a
<1> DEFINE u == SubSeq(s, a + 1, k)
<1>1. s \in Seq(Nat) /\ (\A i \in 1..Len(s) : s[i] = w[p + i])
    BY DEF Slice
<1>2. Len(s) \in Nat
    BY <1>1, LenProperties
<1>3. u \in Seq(Nat) /\ Len(u) = k - a /\ \A i \in 1..k - a : u[i] = s[a + i]
    BY <1>1, PartFacts
<1> HIDE DEF u
<1>4. ASSUME NEW i \in 1..k - a PROVE u[i] = w[(p + a) + i]
  <2>1. a + i \in 1..Len(s) /\ p + (a + i) = (p + a) + i
      BY <1>2
  <2> QED BY <1>1, <1>3, <2>1
<1>5. Slice(w, u, p + a) /\ Len(u) = k - a
    BY <1>3, <1>4 DEF Slice
<1> QED BY <1>5 DEF u

\* Nothing is a slice anywhere.
LEMMA SliceEmpty == ASSUME NEW w, NEW p PROVE Slice(w, <<>>, p) /\ Len(<<>>) = 0
<1> DEFINE e == <<>>
<1>1. e \in Seq(Nat) /\ Len(e) = 0
    BY EmptySeq
<1> HIDE DEF e
<1>2. Slice(w, e, p) /\ Len(e) = 0
    BY <1>1 DEF Slice
<1> QED BY <1>2 DEF e

Divided(z, f, B, w, k, s) ==
    /\ k \in 0..Len(f) - 1 /\ f[k + 1] \in Nat
    /\ Slice(w, SubSeq(s, z + 1, Len(s)), B[k] + z) /\ Len(SubSeq(s, z + 1, Len(s))) = Len(s) - z
    /\ z > 1 /\ Len(s) >= f[k + 1] => Len(s) - z >= f[k + 1]
    /\ Slice(w, SubSeq(s, 1, z), B[k]) /\ Len(SubSeq(s, 1, z)) = z
Drained(z, f, B, w, k, s) ==
    /\ SubSeq(s, 1, f[k + 1]) = Body(f, k + 1) /\ Body(f, k + 1) \in Seq(Nat)
    /\ Slice(w, SubSeq(s, f[k + 1] + 1, Len(s)), B[k + 1])
    /\ Len(SubSeq(s, f[k + 1] + 1, Len(s))) = Len(s) - f[k + 1]
    /\ B[k + 1] = B[k] + z + f[k + 1] /\ B[k] \in Nat /\ f[k + 1] \in Nat

\* A prefix that is there, and what follows it: if the length says that the payload is
\* there too, it is.
LEMMA PrefixThere ==
    ASSUME NEW z, NEW f, NEW B, NEW w, Layout(z, f, B, w), NEW k \in 0..Len(f), NEW s, Slice(w, s, B[k]),
           B[k] + Len(s) <= B[Len(f)], NEW more, Cut(z, f, B, B[k] + Len(s), more), z <= Len(s)
    PROVE  Divided(z, f, B, w, k, s)
<1> DEFINE n == Len(f)
           l == Len(s)
           e == B[k]
           g == f[k + 1]
<1>1. s \in Seq(Nat)
    BY DEF Slice
<1>2. l \in Nat /\ n \in Nat /\ e \in Nat /\ z \in Nat \ {0} /\ k \in Nat
    BY <1>1, LenProperties DEF Layout
<1>3. k \in 0..n - 1
  <2> SUFFICES ASSUME k = n PROVE FALSE
      BY <1>2
  <2>1. e + l <= e
      OBVIOUS
  <2> QED BY <1>2, <2>1
<1>4. g \in Nat
  <2>1. k + 1 \in 1..n
      BY <1>2, <1>3
  <2> QED BY <2>1 DEF Layout
<1>5. Slice(w, SubSeq(s, z + 1, Len(s)), e + z) /\ Len(SubSeq(s, z + 1, Len(s))) = l - z
  <2>1. z \in Nat /\ Len(s) \in Nat /\ z <= Len(s) /\ Len(s) <= Len(s) /\ B[k] \in Int
      BY <1>2
  <2> QED BY <2>1, SlicePart
<1>6. Slice(w, SubSeq(s, 0 + 1, z), e + 0) /\ Len(SubSeq(s, 0 + 1, z)) = z - 0
  <2> DEFINE o == 0
  <2>1. o \in Nat /\ z \in Nat /\ o <= z /\ z <= Len(s) /\ e \in Int /\ Slice(w, s, e)
      BY <1>2
  <2> HIDE DEF o, e
  <2>2. Slice(w, SubSeq(s, o + 1, z), e + o) /\ Len(SubSeq(s, o + 1, z)) = z - o
      BY <2>1, SlicePart
  <2> QED BY <2>2 DEF o, e
<1>7. 0 + 1 = 1 /\ e + 0 = e /\ z - 0 = z
    BY <1>2
<1>8. z > 1 /\ l >= g => l - z >= g
  <2> SUFFICES ASSUME z > 1, l >= g, ~(l - z >= g) PROVE FALSE
      OBVIOUS
  <2>1. (e + l) - e = l
      BY <1>2
  <2>2. (e + l) - e \in 1..z + g - 1 => ((e + l) - e >= z => (e + l) - e < g)
      BY <1>3 DEF Cut
  <2> HIDE DEF l, e, g
  <2>3. l \in 1..z + g - 1
      BY <1>2, <1>4 DEF l
  <2> QED BY <1>2, <1>4, <2>1, <2>2, <2>3 DEF l
<1> QED BY <1>3, <1>4, <1>5, <1>6, <1>7, <1>8 DEF Divided

\* A payload that is there is drained.
LEMMA PayloadThere ==
    ASSUME NEW z, NEW f, NEW B, NEW w, Layout(z, f, B, w), NEW k \in 0..Len(f) - 1, NEW s, Slice(w, s, B[k] + z),
           f[k + 1] <= Len(s)
    PROVE  Drained(z, f, B, w, k, s)
<1> DEFINE n == Len(f)
           l == Len(s)
           e == B[k]
           g == f[k + 1]
<1>1. s \in Seq(Nat) /\ \A i \in 1..l : s[i] = w[(e + z) + i]
    BY DEF Slice
<1>2. l \in Nat /\ n \in Nat /\ z \in Nat \ {0}
    BY <1>1, LenProperties DEF Layout
<1>3. k \in 0..n /\ k + 1 \in 0..n /\ k + 1 \in 1..n /\ k + 1 \in Nat
    BY <1>2
<1>4. e \in Nat /\ g \in Nat /\ B[k + 1] = e + z + g /\ \A i \in 1..g : w[e + z + i] = Base + (k + 1)
    BY <1>3 DEF Layout
<1>5. Slice(w, SubSeq(s, g + 1, l), (e + z) + g) /\ Len(SubSeq(s, g + 1, l)) = l - g
    BY <1>2, <1>4, SlicePart
<1>6. SubSeq(s, 0 + 1, g) \in Seq(Nat) /\ Len(SubSeq(s, 0 + 1, g)) = g - 0 /\ \A i \in 1..g - 0 : SubSeq(s, 0 + 1, g)[i] = s[0 + i]
  <2>1. 0 \in Nat /\ g \in Nat /\ 0 <= g /\ g <= Len(s) /\ s \in Seq(Nat)
      BY <1>1, <1>4
  <2> HIDE DEF g
  <2> QED BY <2>1, PartFacts
<1> DEFINE u == SubSeq(s, 1, g)
           v == Body(f, k + 1)
<1>7. u \in Seq(Nat) /\ Len(u) = g /\ \A i \in 1..g : u[i] = s[i]
    BY <1>4, <1>6
<1>8. v \in Seq(Nat) /\ Len(v) = g /\ \A i \in 1..g : v[i] = Base + (k + 1)
  <2>1. Base + (k + 1) \in Nat
      BY <1>3, PrefixAssumption
  <2>2. v = [j \in 1..g |-> Base + (k + 1)]
      BY DEF Body
  <2> HIDE DEF v, g
  <2> QED BY <1>4, <2>1, <2>2
<1>9. u = v
  <2>1. \A i \in 1..g : i \in 1..l
      BY <1>2, <1>4
  <2>2. \A i \in 1..g : u[i] = v[i]
    <3> HIDE DEF u, v, g, l, e
    <3> QED BY <1>1, <1>4, <1>7, <1>8, <2>1
  <2> HIDE DEF u, v, g
  <2> QED BY <1>7, <1>8, <2>2, SeqEqual
<1> QED BY <1>4, <1>5, <1>8, <1>9 DEF Drained

\* Part of a prefix that is held is all there is.
LEMMA NothingHeld ==
    ASSUME NEW z, NEW f, NEW B, NEW w, Layout(z, f, B, w), NEW k \in 0..Len(f), NEW s, Slice(w, s, B[k]), Len(s) < z,
           B[k] + Len(s) < B[Len(f)], NEW more, more, Cut(z, f, B, B[k] + Len(s), more)
    PROVE  Len(s) = 0
<1> DEFINE n == Len(f)
           l == Len(s)
           e == B[k]
           g == f[k + 1]
<1>1. s \in Seq(Nat)
    BY DEF Slice
<1>2. l \in Nat /\ n \in Nat /\ e \in Nat /\ z \in Nat \ {0} /\ k \in Nat
    BY <1>1, LenProperties DEF Layout
<1> SUFFICES ASSUME l # 0 PROVE FALSE
    OBVIOUS
<1>3. k \in 0..n - 1
  <2> SUFFICES ASSUME k = n PROVE FALSE
      BY <1>2
  <2>1. e + l < e
      OBVIOUS
  <2> QED BY <1>2, <2>1
<1>4. g \in Nat
  <2>1. k + 1 \in 1..n
      BY <1>2, <1>3
  <2> QED BY <2>1 DEF Layout
<1>5. l < z /\ z > 1
    BY <1>2
<1>6. (e + l) - e = l
    BY <1>2
<1>7. (e + l) - e \in 1..z + g - 1 => ((e + l) - e < z => ~more)
    BY <1>3, <1>5 DEF Cut
<1>8. l \in 1..z + g - 1
  <2> HIDE DEF l, g
  <2> QED BY <1>2, <1>4, <1>5
<1> HIDE DEF l, e, g
<1> QED BY <1>5, <1>6, <1>7, <1>8

\* The number that a prefix announces.
LEMMA AnnouncedThere ==
    ASSUME FramesOK, NEW k \in 0..Count - 1, NEW s, Slice(AllFrames, SubSeq(s, 1, Size), Bounds[k]),
           Len(SubSeq(s, 1, Size)) = Size
    PROVE  Announced(s) = frames[k + 1]
<1> DEFINE p == SubSeq(s, 1, Size)
           c == codec_append(frames[k + 1])
<1>1. kind \in Kinds /\ frames \in Seq(Nat)
    BY DEF FramesOK
<1>2. Count \in Nat
    BY <1>1, LenProperties DEF Count
<1>3. k \in 0..Count /\ k + 1 \in 1..Count
    BY <1>2
<1>4. frames[k + 1] \in Nat /\ frames[k + 1] < Base * Place[Size]
    BY <1>1, <1>3, ElementOfSeq DEF FramesOK, Count
<1>5. c \in Seq(Nat) /\ Len(c) = Size
    BY <1>1, <1>4, AppendFacts
<1>6. \A i \in 1..Size : AllFrames[End(k) + i] = c[i]
    BY <1>1, StreamFacts
<1>7. Bounds[k] = End(k)
    BY <1>3, LayoutFacts
<1>8. p \in Seq(Nat) /\ Len(p) = Size /\ \A i \in 1..Size : p[i] = AllFrames[End(k) + i]
    BY <1>7 DEF Slice
<1> HIDE DEF p, c
<1>9. p = c
    BY <1>5, <1>6, <1>8, SeqEqual
<1>10. codec_read(c) = frames[k + 1]
    BY <1>1, <1>4, ReadBack DEF c
<1> QED BY <1>9, <1>10 DEF Announced, p

\* The stream and the positions in it, from the decoder and the lengths alone.
WriteOf(d, n) ==
    LET digits == [i \in 1..d.size |-> (n \div Place[d.size - i + 1]) % Base]
    IN IF d.be THEN digits ELSE Reverse(digits)
StreamOf(d, f) == FlattenSeq([i \in DOMAIN f |-> WriteOf(d, f[i]) \o [k \in 1..f[i] |-> Base + i]])
BoundsOf(f, z) == [k \in 0..Len(f) |-> Sums(f, z, k)]

LEMMA StreamDef == AllFrames = StreamOf(Decoder, frames)
BY DEF AllFrames, Frame, Payload, codec_append, Size, StreamOf, WriteOf

LEMMA BoundsDef == Bounds = BoundsOf(frames, Size)
BY EndDef DEF Bounds, BoundsOf, Count

LEMMA ArrivedDef == Arrived = Sums(frames, Size, Len(frames)) - Len(wire)
BY EndDef DEF Arrived

\* Nothing that is done after the start moves them.
LEMMA Steady ==
    ASSUME UNCHANGED <<kind, frames>>
    PROVE  /\ frames' = frames /\ Size' = Size /\ Count' = Count
           /\ AllFrames' = AllFrames /\ Bounds' = Bounds
           /\ UNCHANGED wire => Arrived' = Arrived
           /\ FramesOK => FramesOK'
<1>1. kind' = kind /\ frames' = frames
    OBVIOUS
<1>2. Decoder' = Decoder
    BY <1>1 DEF Decoder, U8Prefix, U16bePrefix, U16lePrefix, U32bePrefix, U32lePrefix
<1>3. Size' = Size /\ Count' = Count
    BY <1>1, <1>2 DEF Size, Count
<1>4. AllFrames' = AllFrames
  <2>1. (AllFrames = StreamOf(Decoder, frames))'
      BY StreamDef, PTL
  <2> QED BY <1>1, <1>2, <2>1, StreamDef
<1>5. Bounds' = Bounds
  <2>1. (Bounds = BoundsOf(frames, Size))'
      BY BoundsDef, PTL
  <2> QED BY <1>1, <1>3, <2>1, BoundsDef
<1>6. UNCHANGED wire => Arrived' = Arrived
  <2>1. (Arrived = Sums(frames, Size, Len(frames)) - Len(wire))'
      BY ArrivedDef, PTL
  <2> QED BY <1>1, <1>3, <2>1, ArrivedDef
<1>7. FramesOK => FramesOK'
    BY <1>1, <1>3 DEF FramesOK
<1> QED BY <1>1, <1>3, <1>4, <1>5, <1>6, <1>7

\* What the invariant says, in numbers.
LEMMA InvFacts ==
    ASSUME FrameInv
    PROVE  /\ Layout(Size, frames, Bounds, AllFrames) /\ FramesOK
           /\ Count = Len(frames) /\ Count \in Nat /\ Size \in Nat \ {0}
           /\ Len(out) \in 0..Count /\ Bounds[Len(out)] \in Nat /\ Bounds[Count] \in Nat
           /\ (Len(out) < Count => /\ Len(out) \in 0..Count - 1 /\ frames[Len(out) + 1] \in Nat
                                   /\ Bounds[Len(out) + 1] = Bounds[Len(out)] + Size + frames[Len(out) + 1])
           /\ Arrived = Bounds[Count] - Len(wire) /\ Len(wire) \in Nat /\ wire \in Seq(Nat)
           /\ Arrived \in Nat /\ Arrived <= Bounds[Count] /\ Bounds[Len(out)] <= Arrived
<1>1. FramesOK /\ WireOK /\ OutOK
    BY DEF FrameInv
<1>2. Layout(Size, frames, Bounds, AllFrames) /\ Arrived = Bounds[Count] - Len(wire)
    BY <1>1, LayoutFacts
<1>3. Count = Len(frames)
    BY DEF Count
<1>4. Count \in Nat /\ Size \in Nat \ {0}
    BY <1>2, <1>3 DEF Layout
<1>5. Len(out) \in Nat /\ Len(out) <= Count /\ Bounds[Len(out)] <= Arrived
    BY <1>1, LenProperties DEF OutOK
<1>6. wire \in Seq(Nat) /\ Len(wire) <= Bounds[Count]
    BY <1>1 DEF WireOK, Slice
<1>7. Len(wire) \in Nat
    BY <1>6, LenProperties
<1> DEFINE k == Len(out)
<1>8. k \in 0..Count /\ Count \in 0..Count
    BY <1>4, <1>5
<1>9. Bounds[k] \in Nat /\ Bounds[Count] \in Nat
    BY <1>2, <1>3, <1>8 DEF Layout
<1>10. k < Count => k \in 0..Count - 1 /\ frames[k + 1] \in Nat /\ Bounds[k + 1] = Bounds[k] + Size + frames[k + 1]
  <2> HIDE DEF k
  <2>1. k < Count => k \in 0..Count - 1 /\ k + 1 \in 1..Count
      BY <1>4, <1>8
  <2> QED BY <1>2, <1>3, <2>1 DEF Layout
<1>11. Arrived \in Nat /\ Arrived <= Bounds[Count]
    BY <1>2, <1>6, <1>7, <1>9
<1> QED BY <1>1, <1>2, <1>3, <1>4, <1>5, <1>6, <1>7, <1>8, <1>9, <1>10, <1>11

\* A poll leaves the network alone.
Quiet == UNCHANGED <<kind, frames, wire, net>>

LEMMA QuietFacts ==
    ASSUME FrameInv, Quiet
    PROVE  /\ frames' = frames /\ Size' = Size /\ Count' = Count /\ AllFrames' = AllFrames /\ Bounds' = Bounds
           /\ Arrived' = Arrived /\ net' = net /\ FramesOK' /\ WireOK'
<1>1. UNCHANGED <<kind, frames>> /\ UNCHANGED wire /\ net' = net /\ FramesOK /\ WireOK
    BY DEF Quiet, FrameInv
<1>2. frames' = frames /\ Size' = Size /\ Count' = Count /\ AllFrames' = AllFrames /\ Bounds' = Bounds
      /\ Arrived' = Arrived /\ FramesOK'
    BY <1>1, Steady
<1>3. WireOK'
    BY <1>1, <1>2 DEF WireOK
<1> QED BY <1>1, <1>2, <1>3

\* After a poll the socket holds what it held, or nothing.
LEMMA Feeds ==
    ASSUME FrameInv, Quiet, task = "run", avail' = <<>> \/ avail' = avail
    PROVE  /\ avail' = <<>> => Held' = Arrived
           /\ avail' = avail => Held' = Held
           /\ Held \in Int /\ Held' \in Int /\ Held' <= Arrived
           /\ Slice(AllFrames, avail', Held')
           /\ Cut(Size, frames, Bounds, Held', net' = "open" \/ avail' # <<>>)
<1>1. Arrived \in Nat
    BY InvFacts
<1>2. Arrived' = Arrived /\ net' = net
    BY QuietFacts
<1>3. DataOK /\ WireOK
    BY DEF FrameInv
<1>4. /\ Slice(AllFrames, avail, Held) /\ Cut(Size, frames, Bounds, Held, net = "open" \/ avail # <<>>)
      /\ Cut(Size, frames, Bounds, Arrived, net = "open")
    BY <1>3 DEF DataOK, WireOK
<1>5. Len(avail) \in Nat
    BY <1>4, LenProperties DEF Slice
<1>6. Held = Arrived - Len(avail) /\ Held' = Arrived' - Len(avail')
    BY DEF Held
<1>7. CASE avail' = avail
  <2>1. Held' = Held /\ Held \in Int /\ Held <= Arrived
      BY <1>1, <1>2, <1>5, <1>6, <1>7
  <2>2. avail = <<>> => Held = Arrived
      BY <1>1, <1>6, SliceEmpty
  <2> QED BY <1>2, <1>4, <1>7, <2>1, <2>2
<1>8. CASE avail' = <<>>
  <2>1. Held' = Arrived /\ Held \in Int
      BY <1>1, <1>2, <1>5, <1>6, <1>8, SliceEmpty
  <2>2. Slice(AllFrames, avail', Held')
      BY <1>8, SliceEmpty
  <2>3. (net' = "open" \/ avail' # <<>>) = (net = "open")
      BY <1>2, <1>8
  <2>4. Cut(Size, frames, Bounds, Held', net' = "open" \/ avail' # <<>>)
      BY <1>4, <2>1, <2>3
  <2>5. avail' = avail => Held' = Held
      BY <1>2, <1>6
  <2>6. Held' \in Int /\ Held' <= Arrived
      BY <1>1, <2>1
  <2> QED BY <2>1, <2>2, <2>4, <2>5, <2>6
<1> QED BY <1>7, <1>8

\* Nothing was returned, and the task waits.
LEMMA Keeps ==
    ASSUME FrameInv, Quiet, task = "run", avail' = <<>> \/ avail' = avail, task' = "parked", out' = out,
           \/ /\ state' = Pending /\ Slice(AllFrames, data', Bounds[Len(out)])
              /\ Bounds[Len(out)] + Len(data') = Held'
           \/ /\ Len(out) < Count /\ state' = More(frames[Len(out) + 1])
              /\ Len(data') < frames[Len(out) + 1]
              /\ Slice(AllFrames, data', Bounds[Len(out)] + Size) /\ Bounds[Len(out)] + Size + Len(data') = Held'
    PROVE  FrameInv'
<1>1. /\ frames' = frames /\ Size' = Size /\ Count' = Count /\ AllFrames' = AllFrames /\ Bounds' = Bounds
      /\ Arrived' = Arrived /\ net' = net /\ FramesOK' /\ WireOK'
    BY QuietFacts
<1>2. OutOK'
    BY <1>1 DEF OutOK, FrameInv
<1>3. TaskOK'
    BY DEF TaskOK
<1>4. Slice(AllFrames, avail', Held') /\ Cut(Size, frames, Bounds, Held', net' = "open" \/ avail' # <<>>)
    BY Feeds
<1>5. CASE /\ state' = Pending /\ Slice(AllFrames, data', Bounds[Len(out)])
           /\ Bounds[Len(out)] + Len(data') = Held'
  <2>1. Mark' = Bounds[Len(out)]
      BY <1>1, <1>5 DEF Mark, Pending
  <2>2. DataOK'
      BY <1>1, <1>4, <1>5, <2>1 DEF DataOK
  <2> QED BY <1>1, <1>2, <1>3, <2>2 DEF FrameInv
<1>6. CASE /\ Len(out) < Count /\ state' = More(frames[Len(out) + 1])
           /\ Len(data') < frames[Len(out) + 1]
           /\ Slice(AllFrames, data', Bounds[Len(out)] + Size) /\ Bounds[Len(out)] + Size + Len(data') = Held'
  <2>1. Mark' = Bounds[Len(out)] + Size
      BY <1>1, <1>6 DEF Mark, More
  <2>2. DataOK'
      BY <1>1, <1>4, <1>6, <2>1 DEF DataOK
  <2> QED BY <1>1, <1>2, <1>3, <2>2 DEF FrameInv
<1> QED BY <1>5, <1>6

\* The task ends.
LEMMA Stops ==
    ASSUME FrameInv, Quiet, out' = out,
           \/ task' = "failed"
           \/ task' = "done" /\ net # "open" /\ (Len(out) < Count => Arrived < Bounds[Len(out) + 1])
    PROVE  FrameInv'
<1>1. /\ frames' = frames /\ Size' = Size /\ Count' = Count /\ AllFrames' = AllFrames /\ Bounds' = Bounds
      /\ Arrived' = Arrived /\ net' = net /\ FramesOK' /\ WireOK'
    BY QuietFacts
<1>2. OutOK'
    BY <1>1 DEF OutOK, FrameInv
<1>3. TaskOK' /\ DataOK'
    BY <1>1 DEF TaskOK, DataOK
<1> QED BY <1>1, <1>2, <1>3 DEF FrameInv

\* A frame was returned.
LEMMA Took ==
    ASSUME FrameInv, Quiet, task = "run", avail' = <<>> \/ avail' = avail, task' = "run", state' = Pending,
           Len(out) < Count, out' = Append(out, Body(frames, Len(out) + 1)),
           Body(frames, Len(out) + 1) \in Seq(Nat),
           Slice(AllFrames, data', Bounds[Len(out) + 1]), Bounds[Len(out) + 1] + Len(data') = Held'
    PROVE  FrameInv'
<1> DEFINE k == Len(out)
           S == Seq(Nat)
           e == Body(frames, k + 1)
           b == Bodies(frames, k + 1)
<1>1. /\ frames' = frames /\ Size' = Size /\ Count' = Count /\ AllFrames' = AllFrames /\ Bounds' = Bounds
      /\ Arrived' = Arrived /\ net' = net /\ FramesOK' /\ WireOK'
    BY QuietFacts
<1>2. /\ Count \in Nat /\ k \in 0..Count - 1 /\ Bounds[k + 1] = Bounds[k] + Size + frames[k + 1]
      /\ Bounds[k] \in Nat /\ Size \in Nat /\ frames[k + 1] \in Nat
    BY InvFacts
<1>3. out \in Seq(S) /\ e \in S /\ out = Bodies(frames, k)
    BY DEF OutOK, FrameInv
<1>4. k \in Nat /\ k + 1 <= Count /\ k + 1 \in Nat
    BY <1>2
<1>5. /\ out' \in Seq(S) /\ Len(out') = k + 1
      /\ \A i \in 1..k + 1 : out'[i] = Body(frames, i)
  <2> HIDE DEF S, e
  <2>1. Append(out, e) \in Seq(S) /\ Len(Append(out, e)) = k + 1
        /\ (\A i \in 1..k : Append(out, e)[i] = out[i]) /\ Append(out, e)[k + 1] = e
      BY <1>3, AppendProperties
  <2>2. \A i \in 1..k : out[i] = Body(frames, i)
    <3>1. \A i \in 1..k : Bodies(frames, k)[i] = Body(frames, i)
        BY DEF Bodies
    <3> QED BY <1>3, <3>1
  <2>3. \A i \in 1..k + 1 : i \in 1..k \/ i = k + 1
      BY <1>4
  <2>4. out' = Append(out, e)
      BY DEF e
  <2> DEFINE o == Append(out, e)
  <2>5. ASSUME NEW i \in 1..k + 1 PROVE o[i] = Body(frames, i)
    <3> HIDE DEF o, k
    <3> QED BY <2>1, <2>2, <2>3 DEF e, o
  <2> HIDE DEF o
  <2> QED BY <2>1, <2>4, <2>5 DEF o
<1>6. out' = b
  <2>1. b = [i \in 1..k + 1 |-> Body(frames, i)]
      BY DEF Bodies
  <2>2. DOMAIN out' = 1..k + 1 /\ out' = [i \in DOMAIN out' |-> out'[i]]
    <3>1. DOMAIN out' = 1..Len(out') /\ out' \in [1..Len(out') -> S]
        BY <1>5, LenProperties
    <3> QED BY <1>5, <3>1
  <2> HIDE DEF b, k, S
  <2> QED BY <1>5, <2>1, <2>2
<1>7. Held' <= Arrived /\ Held' \in Int
    BY Feeds
<1>8. Len(data') \in Nat
    BY LenProperties DEF Slice
<1>9. Bounds[k + 1] <= Arrived
  <2>1. Arrived \in Nat /\ Bounds[k + 1] \in Nat
      BY <1>2, InvFacts
  <2> HIDE DEF k
  <2> QED BY <1>7, <1>8, <2>1 DEF k
<1>10. OutOK'
    BY <1>1, <1>4, <1>5, <1>6, <1>9 DEF OutOK
<1>11. TaskOK'
    BY DEF TaskOK
<1>12. Slice(AllFrames, avail', Held') /\ Cut(Size, frames, Bounds, Held', net' = "open" \/ avail' # <<>>)
    BY Feeds
<1>13. Mark' = Bounds[k + 1]
    BY <1>1, <1>5 DEF Mark, Pending
<1>14. DataOK'
    BY <1>1, <1>12, <1>13 DEF DataOK
<1> QED BY <1>1, <1>10, <1>11, <1>14 DEF FrameInv

\* TakeFrame, of bytes that begin with a frame: those that are held, or those just read.
LEMMA TakeStep ==
    ASSUME FrameInv, Quiet, task = "run", avail' = <<>> \/ avail' = avail,
           NEW s, Slice(AllFrames, s, Bounds[Len(out)]), Bounds[Len(out)] + Len(s) = Held', Size <= Len(s),
           TakeFrame(s)
    PROVE  FrameInv'
<1> DEFINE k == Len(out)
           f == frames[k + 1]
           t == After(s)
<1>1. /\ Layout(Size, frames, Bounds, AllFrames) /\ FramesOK /\ Count = Len(frames) /\ Count \in Nat
      /\ Size \in Nat \ {0} /\ k \in 0..Count /\ Bounds[k] \in Nat /\ Arrived \in Nat /\ Arrived <= Bounds[Count]
      /\ Bounds[Count] \in Nat
    BY InvFacts
<1>2. Held' \in Int /\ Held' <= Arrived /\ Cut(Size, frames, Bounds, Held', net' = "open" \/ avail' # <<>>)
    BY Feeds
<1>3. Bounds[k] + Len(s) <= Bounds[Len(frames)]
    BY <1>1, <1>2
<1>4. Len(s) \in Nat
    BY LenProperties DEF Slice
<1> DEFINE more == net' = "open" \/ avail' # <<>>
<1>5. Cut(Size, frames, Bounds, Bounds[k] + Len(s), more)
    BY <1>2
<1> HIDE DEF more
<1>6. /\ k \in 0..Count - 1 /\ f \in Nat
      /\ Slice(AllFrames, t, Bounds[k] + Size) /\ Len(t) = Len(s) - Size
      /\ Size > 1 /\ Len(s) >= f => Len(s) - Size >= f
      /\ Slice(AllFrames, SubSeq(s, 1, Size), Bounds[k]) /\ Len(SubSeq(s, 1, Size)) = Size
  <2>1. Slice(AllFrames, s, Bounds[k]) /\ k \in 0..Len(frames)
      BY <1>1
  <2> HIDE DEF k
  <2>2. Divided(Size, frames, Bounds, AllFrames, k, s)
      BY <1>1, <1>3, <1>5, <2>1, PrefixThere
  <2> QED BY <1>1, <2>2 DEF After, Divided
<1>7. Announced(s) = f
    BY <1>1, <1>6, AnnouncedThere
<1>8. Len(t) >= f
  <2>1. Measured(s) >= f
      BY <1>7 DEF TakeFrame
  <2>2. CASE Size = 1
      BY <2>1, <2>2 DEF Measured
  <2>3. CASE Size # 1
    <3>1. Len(s) >= f /\ Size > 1
        BY <1>1, <2>1, <2>3 DEF Measured
    <3> QED BY <1>6, <3>1
  <2> QED BY <2>2, <2>3
<1>9. /\ state' = Pending /\ out' = Append(out, SubSeq(t, 1, f)) /\ task' = "run"
      /\ data' = SubSeq(t, f + 1, Len(t))
    BY <1>7, <1>8 DEF TakeFrame, Drain, ReturnFrame
<1> HIDE DEF t
<1>10. /\ SubSeq(t, 1, f) = Body(frames, k + 1) /\ Body(frames, k + 1) \in Seq(Nat)
       /\ Slice(AllFrames, SubSeq(t, f + 1, Len(t)), Bounds[k + 1]) /\ Len(SubSeq(t, f + 1, Len(t))) = Len(t) - f
       /\ Bounds[k + 1] = Bounds[k] + Size + f
  <2>1. k \in 0..Len(frames) - 1 /\ frames[k + 1] <= Len(t)
    <3>1. Len(t) \in Int
        BY <1>1, <1>4, <1>6
    <3> QED BY <1>1, <1>6, <1>8, <3>1
  <2> HIDE DEF k
  <2>2. Drained(Size, frames, Bounds, AllFrames, k, t)
      BY <1>1, <1>6, <2>1, PayloadThere
  <2> QED BY <2>2 DEF Drained
<1>11. k < Count
    BY <1>1, <1>6
<1>12. Bounds[k + 1] + Len(data') = Held'
  <2> HIDE DEF k, f
  <2> QED BY <1>1, <1>4, <1>6, <1>9, <1>10 DEF k
<1> QED BY <1>9, <1>10, <1>11, <1>12, Took

\* A prefix without its payload: what follows is kept, with the number.
LEMMA PartFound ==
    ASSUME FrameInv, NEW s, Slice(AllFrames, s, Bounds[Len(out)]), Bounds[Len(out)] + Len(s) <= Arrived,
           NEW more, Cut(Size, frames, Bounds, Bounds[Len(out)] + Len(s), more),
           Size <= Len(s), Measured(s) < Announced(s)
    PROVE  /\ Len(out) < Count /\ Announced(s) = frames[Len(out) + 1] /\ Len(After(s)) < frames[Len(out) + 1]
           /\ Slice(AllFrames, After(s), Bounds[Len(out)] + Size)
           /\ Bounds[Len(out)] + Size + Len(After(s)) = Bounds[Len(out)] + Len(s)
<1> DEFINE k == Len(out)
           f == frames[k + 1]
           t == After(s)
<1>1. /\ Layout(Size, frames, Bounds, AllFrames) /\ FramesOK /\ Count = Len(frames) /\ Count \in Nat
      /\ Size \in Nat \ {0} /\ k \in 0..Count /\ Bounds[k] \in Nat /\ Arrived \in Nat /\ Arrived <= Bounds[Count]
      /\ Bounds[Count] \in Nat
    BY InvFacts
<1>2. Len(s) \in Nat
    BY LenProperties DEF Slice
<1>3. Bounds[k] + Len(s) <= Bounds[Len(frames)]
    BY <1>1, <1>2
<1>4. /\ k \in 0..Count - 1 /\ f \in Nat
      /\ Slice(AllFrames, t, Bounds[k] + Size) /\ Len(t) = Len(s) - Size
      /\ Slice(AllFrames, SubSeq(s, 1, Size), Bounds[k]) /\ Len(SubSeq(s, 1, Size)) = Size
  <2>1. Slice(AllFrames, s, Bounds[k]) /\ k \in 0..Len(frames) /\ Cut(Size, frames, Bounds, Bounds[k] + Len(s), more)
      BY <1>1
  <2> HIDE DEF k
  <2>2. Divided(Size, frames, Bounds, AllFrames, k, s)
      BY <1>1, <1>3, <2>1, PrefixThere
  <2> QED BY <1>1, <2>2 DEF After, Divided
<1>5. Announced(s) = f
    BY <1>1, <1>4, AnnouncedThere
<1>6. Len(t) < f
  <2>1. Len(t) < f \/ Len(s) < f
      BY <1>5 DEF Measured
  <2> HIDE DEF t, f
  <2> QED BY <1>1, <1>2, <1>4, <2>1
<1>7. k < Count
    BY <1>1, <1>4
<1>8. Bounds[k] + Size + Len(t) = Bounds[k] + Len(s)
  <2> HIDE DEF t, k
  <2> QED BY <1>1, <1>2, <1>4
<1> QED BY <1>4, <1>5, <1>6, <1>7, <1>8

\* The bytes that are held, before the poll.
LEMMA HeldFacts ==
    ASSUME FrameInv, task = "run"
    PROVE  /\ Slice(AllFrames, avail, Held) /\ Held = Arrived - Len(avail) /\ Len(avail) \in Nat
           /\ Cut(Size, frames, Bounds, Held, net = "open" \/ avail # <<>>)
           /\ state = Pending => Slice(AllFrames, data, Bounds[Len(out)]) /\ Bounds[Len(out)] + Len(data) = Held
           /\ state.s = "More" => /\ Len(out) < Count /\ state = More(frames[Len(out) + 1])
                                  /\ Len(data) < frames[Len(out) + 1]
                                  /\ Slice(AllFrames, data, Bounds[Len(out)] + Size)
                                  /\ Bounds[Len(out)] + Size + Len(data) = Held
           /\ Len(data) \in Nat
<1>1. DataOK
    BY DEF FrameInv
<1>2. /\ \/ state = Pending
         \/ Len(out) < Count /\ state = More(frames[Len(out) + 1]) /\ Len(data) < frames[Len(out) + 1]
      /\ Slice(AllFrames, avail, Held) /\ Slice(AllFrames, data, Mark) /\ Mark + Len(data) = Held
      /\ Cut(Size, frames, Bounds, Held, net = "open" \/ avail # <<>>)
    BY <1>1 DEF DataOK
<1>3. Len(avail) \in Nat /\ Len(data) \in Nat
    BY <1>2, LenProperties DEF Slice
<1>4. state = Pending => Mark = Bounds[Len(out)] /\ state.s # "More"
    BY DEF Mark, Pending
<1>5. state.s = "More" => Mark = Bounds[Len(out)] + Size
    BY DEF Mark
<1> QED BY <1>2, <1>3, <1>4, <1>5 DEF Held

\* Ends: the stream has no bytes.
LEMMA EndsStep ==
    ASSUME FrameInv, Quiet, task = "run", NEW st, NEW d, Ends(st, d),
           \/ /\ st = Pending /\ Slice(AllFrames, d, Bounds[Len(out)]) /\ Len(d) < Size
              /\ Bounds[Len(out)] + Len(d) = Held
           \/ /\ Len(out) < Count /\ st = More(frames[Len(out) + 1]) /\ Len(d) < frames[Len(out) + 1]
              /\ Slice(AllFrames, d, Bounds[Len(out)] + Size) /\ Bounds[Len(out)] + Size + Len(d) = Held
    PROVE  FrameInv'
<1> DEFINE k == Len(out)
           b == Bounds[k]
           c == Bounds[k + 1]
           f == frames[k + 1]
<1>1. CASE RecvNone /\ ReturnNone
  <2>1. task' = "done" /\ out' = out /\ net = "closed" /\ avail = <<>>
      BY <1>1 DEF RecvNone, ReturnNone
  <2>2. Held = Arrived
    <3>1. Held = Arrived - 0
        BY <2>1, SliceEmpty DEF Held
    <3> QED BY <3>1, InvFacts
  <2>3. k < Count => c = b + Size + f /\ b \in Nat /\ f \in Nat /\ Size \in Nat
      BY InvFacts
  <2>4. Len(d) \in Nat
      BY LenProperties DEF Slice
  <2>5. (b + Len(d) = Arrived /\ Len(d) < Size) \/ (b + Size + Len(d) = Arrived /\ Len(d) < f)
      BY <2>2
  <2>6. k < Count => Arrived < c
    <3> HIDE DEF k, b, c, f
    <3> QED BY <2>3, <2>4, <2>5
  <2> QED BY <2>1, <2>6, Stops
<1>2. CASE RecvNotReady /\ state' = st /\ data' = d /\ ReturnNotReady
  <2>1. avail' = avail /\ task' = "parked" /\ out' = out
      BY <1>2 DEF RecvNotReady, ReturnNotReady, schedule_read
  <2>2. Held' = Held
      BY <2>1, Feeds
  <2> QED BY <1>2, <2>1, <2>2, Keeps
<1>3. CASE RecvErr /\ ReturnErr
    BY <1>3, Stops DEF ReturnErr
<1> QED BY <1>1, <1>2, <1>3 DEF Ends

\* poll_more: more of a payload.
LEMMA MoreStep ==
    ASSUME FrameInv, Quiet, task = "run", NEW d, NEW n, poll_more(d, n),
           Len(out) < Count, n = frames[Len(out) + 1], Len(d) < n,
           Slice(AllFrames, d, Bounds[Len(out)] + Size), Bounds[Len(out)] + Size + Len(d) = Held
    PROVE  FrameInv'
<1> DEFINE k == Len(out)
           all == d \o avail
           b == Bounds[k]
<1>1. CASE RecvSome /\ (IF Len(all) >= n THEN Drain(all, n) /\ state' = Pending
                        ELSE data' = all /\ state' = More(n) /\ ReturnNotReady)
  <2>1. avail' = <<>>
      BY <1>1 DEF RecvSome, readv
  <2>2. Held' = Arrived /\ Held \in Int
      BY <2>1, Feeds
  <2>3. Slice(AllFrames, avail, Held) /\ Held = Arrived - Len(avail) /\ Len(avail) \in Nat
      BY HeldFacts
  <2>4. /\ Layout(Size, frames, Bounds, AllFrames) /\ Count = Len(frames) /\ Size \in Nat /\ b \in Nat
        /\ k \in 0..Count - 1 /\ Arrived \in Nat /\ n \in Nat
      BY InvFacts
  <2>5. Slice(AllFrames, all, b + Size) /\ Len(all) = Len(d) + Len(avail) /\ Len(d) \in Nat
    <3>1. b + Size \in Int
        BY <2>4
    <3> QED BY <2>3, <3>1, SliceJoin
  <2>6. b + Size + Len(all) = Held'
    <3> DEFINE x == Len(d)
               y == Len(avail)
               z == Size
    <3>1. Len(all) = x + y /\ x \in Nat /\ y \in Nat /\ z \in Nat /\ b + z + x = Arrived - y
        BY <2>3, <2>4, <2>5
    <3> HIDE DEF all, b, x, y, z
    <3> QED BY <2>2, <2>4, <3>1 DEF z
  <2> HIDE DEF all
  <2>7. CASE Len(all) >= n
    <3>1. /\ out' = Append(out, SubSeq(all, 1, n)) /\ task' = "run" /\ state' = Pending
          /\ data' = SubSeq(all, n + 1, Len(all))
        BY <1>1, <2>7 DEF Drain, ReturnFrame
    <3>2. /\ SubSeq(all, 1, n) = Body(frames, k + 1) /\ Body(frames, k + 1) \in Seq(Nat)
          /\ Slice(AllFrames, SubSeq(all, n + 1, Len(all)), Bounds[k + 1])
          /\ Len(SubSeq(all, n + 1, Len(all))) = Len(all) - n
          /\ Bounds[k + 1] = b + Size + n
      <4>1. k \in 0..Len(frames) - 1 /\ frames[k + 1] <= Len(all) /\ frames[k + 1] = n
            /\ Slice(AllFrames, all, Bounds[k] + Size)
        <5>1. Len(all) \in Nat
            BY <2>3, <2>5
        <5> QED BY <2>4, <2>5, <2>7, <5>1
      <4> HIDE DEF k
      <4>2. Drained(Size, frames, Bounds, AllFrames, k, all)
          BY <2>4, <4>1, PayloadThere
      <4> QED BY <4>1, <4>2 DEF Drained
    <3>3. Bounds[k + 1] + Len(data') = Held'
      <4> DEFINE h == Held'
                 x == Len(data')
                 y == Len(all)
                 c == Bounds[k + 1]
                 z == Size
      <4>1. y \in Nat
          BY <2>3, <2>5
      <4>2. b \in Nat /\ z \in Nat /\ n \in Nat
          BY <2>4
      <4>3. c = b + z + n /\ x = y - n
          BY <3>1, <3>2
      <4>4. b + z + y = h
          BY <2>6
      <4> HIDE DEF b, h, x, y, c, z
      <4>5. c + x = h
          BY <4>1, <4>2, <4>3, <4>4
      <4> QED BY <4>5 DEF h, x, c
    <3> QED BY <2>1, <3>1, <3>2, <3>3, Took
  <2>8. CASE ~(Len(all) >= n)
    <3>1. data' = all /\ state' = More(n) /\ task' = "parked" /\ out' = out
        BY <1>1, <2>8 DEF ReturnNotReady
    <3>2. Len(all) < n
        BY <2>3, <2>4, <2>5, <2>8
    <3> QED BY <2>1, <2>5, <2>6, <3>1, <3>2, Keeps
  <2> QED BY <2>7, <2>8
<1>2. CASE Ends(More(n), d)
    BY <1>2, EndsStep
<1> QED BY <1>1, <1>2 DEF poll_more

\* Stream::poll keeps the invariant.
LEMMA PollStep ==
    ASSUME FrameInv, Poll
    PROVE  FrameInv'
<1>1. Quiet /\ task = "run"
    BY DEF Poll, Quiet, net_vars
<1> DEFINE k == Len(out)
           b == Bounds[k]
<1>2. /\ Layout(Size, frames, Bounds, AllFrames) /\ Count = Len(frames) /\ Size \in Nat \ {0} /\ b \in Nat
      /\ k \in 0..Count /\ Arrived \in Nat /\ Arrived <= Bounds[Count] /\ Bounds[Count] \in Nat
    BY InvFacts
<1>3. /\ Slice(AllFrames, avail, Held) /\ Held = Arrived - Len(avail) /\ Len(avail) \in Nat
      /\ Cut(Size, frames, Bounds, Held, net = "open" \/ avail # <<>>)
      /\ Len(data) \in Nat
    BY <1>1, HeldFacts
<1>4. Cut(Size, frames, Bounds, Arrived, net = "open")
    BY DEF FrameInv, WireOK
<1>5. CASE PollShort
  <2>1. state = Pending /\ Len(data) < Size /\ poll_pending
      BY <1>5 DEF PollShort
  <2>2. Slice(AllFrames, data, b) /\ b + Len(data) = Held
      BY <1>1, <2>1, HeldFacts
  <2>3. CASE Ends(Pending, data)
      BY <1>1, <2>1, <2>2, <2>3, EndsStep
  <2>4. CASE RecvSome /\ ~Ends(Pending, data)
    <3>1. avail # <<>> /\ avail' = <<>>
        BY <2>4 DEF RecvSome, readv
    <3>2. Held' = Arrived
        BY <1>1, <3>1, Feeds
    <3>3. Len(avail) > 0
      <4>1. avail \in Seq(Nat)
          BY <1>3 DEF Slice
      <4> QED BY <1>3, <3>1, <4>1, EmptySeq
    <3> DEFINE more == net = "open" \/ avail # <<>>
    <3>4. more /\ Cut(Size, frames, Bounds, b + Len(data), more)
        BY <1>3, <2>2, <3>1
    <3> HIDE DEF more
    <3>5. b + Len(data) < Bounds[Len(frames)]
        BY <1>2, <1>3, <2>2, <3>3
    <3>6. Len(data) = 0
        BY <1>2, <2>1, <2>2, <3>4, <3>5, NothingHeld
    <3>7. Held = b
        BY <1>2, <2>2, <3>6
    <3>8. Slice(AllFrames, avail, b) /\ b + Len(avail) = Held'
        BY <1>2, <1>3, <3>2, <3>7
    <3>9. CASE Len(avail) < Size /\ data' = avail /\ state' = Pending /\ ReturnNotReady
        BY <1>1, <3>1, <3>8, <3>9, Keeps DEF ReturnNotReady
    <3>10. CASE Len(avail) >= Size /\ TakeFrame(avail)
      <4>1. Size <= Len(avail)
          BY <1>2, <1>3, <3>10
      <4> QED BY <1>1, <3>1, <3>8, <3>10, <4>1, TakeStep
    <3>11. CASE /\ Len(avail) >= Size /\ Measured(avail) < Announced(avail)
                /\ data' = After(avail) /\ state' = More(Announced(avail)) /\ ReturnNotReady
      <4>1. Size <= Len(avail) /\ b + Len(avail) <= Arrived
          BY <1>2, <1>3, <3>2, <3>8, <3>11
      <4> DEFINE open == net = "open"
      <4>2. Cut(Size, frames, Bounds, b + Len(avail), open)
          BY <1>4, <3>2, <3>8
      <4> HIDE DEF open
      <4>3. /\ k < Count /\ Announced(avail) = frames[k + 1] /\ Len(After(avail)) < frames[k + 1]
            /\ Slice(AllFrames, After(avail), b + Size)
            /\ b + Size + Len(After(avail)) = b + Len(avail)
          BY <3>8, <3>11, <4>1, <4>2, PartFound
      <4> QED BY <1>1, <3>1, <3>8, <3>11, <4>3, Keeps DEF ReturnNotReady
    <3> QED BY <2>1, <2>4, <3>9, <3>10, <3>11 DEF poll_pending
  <2> QED BY <2>1, <2>3, <2>4 DEF poll_pending
<1>6. CASE PollWhole
  <2>1. state = Pending /\ Len(data) >= Size /\ TakeFrame(data) /\ avail' = avail
      BY <1>6 DEF PollWhole
  <2>2. Slice(AllFrames, data, b) /\ b + Len(data) = Held /\ Held' = Held
      BY <1>1, <2>1, HeldFacts, Feeds
  <2>3. Size <= Len(data)
      BY <1>2, <1>3, <2>1
  <2> QED BY <1>1, <2>1, <2>2, <2>3, TakeStep
<1>7. CASE PollPart
  <2>1. state = Pending /\ Len(data) >= Size /\ Measured(data) < Announced(data) /\ poll_more(After(data), Announced(data))
      BY <1>7 DEF PollPart
  <2>2. Slice(AllFrames, data, b) /\ b + Len(data) = Held
      BY <1>1, <2>1, HeldFacts
  <2>3. Size <= Len(data) /\ b + Len(data) <= Arrived
      BY <1>2, <1>3, <2>1, <2>2
  <2> DEFINE more == net = "open" \/ avail # <<>>
  <2>4. Cut(Size, frames, Bounds, b + Len(data), more)
      BY <1>3, <2>2
  <2> HIDE DEF more
  <2>5. /\ k < Count /\ Announced(data) = frames[k + 1] /\ Len(After(data)) < frames[k + 1]
        /\ Slice(AllFrames, After(data), b + Size)
        /\ b + Size + Len(After(data)) = b + Len(data)
      BY <2>1, <2>2, <2>3, <2>4, PartFound
  <2> QED BY <1>1, <2>1, <2>2, <2>5, MoreStep
<1>8. CASE PollMore
  <2>1. state.s = "More" /\ poll_more(data, state.n)
      BY <1>8 DEF PollMore
  <2>2. /\ k < Count /\ state = More(frames[k + 1]) /\ Len(data) < frames[k + 1]
        /\ Slice(AllFrames, data, b + Size) /\ b + Size + Len(data) = Held
      BY <1>1, <2>1, HeldFacts
  <2>3. state.n = frames[k + 1]
      BY <2>2 DEF More
  <2> QED BY <1>1, <2>1, <2>2, <2>3, MoreStep
<1> QED BY <1>5, <1>6, <1>7, <1>8 DEF Poll

\* Where reads may end.
LEMMA MayCutFacts ==
    ASSUME Mild, FramesOK, NEW j \in Nat, NEW then, MayCut(j, then), Arrived \in Int
    PROVE  Cut(Size, frames, Bounds, Arrived + j, then = "open")
<1>1. kind \in Kinds /\ frames \in Seq(Nat)
    BY DEF FramesOK
<1>2. Count = Len(frames) /\ Count \in Nat /\ DOMAIN frames = 1..Count /\ Size \in Nat
    BY <1>1, LenProperties, SizeFacts DEF Count
<1> DEFINE p == Arrived + j
           open == then = "open"
           D(k) == p - Bounds[k]
           R(k) == 1..Size + frames[k + 1] - 1
           G(k) == (D(k) < Size => ~open) /\ (D(k) >= Size => D(k) < frames[k + 1])
<1> HIDE DEF D, R, G
<1> SUFFICES ASSUME Size > 1, NEW k \in 0..Len(frames) - 1, D(k) \in R(k) PROVE G(k)
  <2>1. Size > 1 => \A k \in 0..Len(frames) - 1 : D(k) \in R(k) => G(k)
      OBVIOUS
  <2> HIDE DEF open, p
  <2>2. Cut(Size, frames, Bounds, p, open)
      BY <2>1 DEF Cut, D, R, G
  <2> QED BY <2>2 DEF open, p
<1>3. Cuts = {}
  <2>1. Kinds \subseteq {"u8"} => Size = 1
      BY <1>1, SizeFacts
  <2> QED BY <1>2, <2>1 DEF Mild
<1>4. k + 1 \in DOMAIN frames /\ (k + 1) - 1 = k /\ k \in 0..Count /\ k + 1 \in 1..Count
    BY <1>2
<1>5. Bounds[k] = End(k)
    BY <1>4, LayoutFacts
<1>6. frames[k + 1] \in Nat
    BY <1>1, <1>2, <1>4, ElementOfSeq
<1> DEFINE o == Arrived + j - End(k)
<1>7. o \in 1..Size + frames[k + 1] - 1 /\ D(k) = o
  <2>1. D(k) = o
    <3>1. Bounds[k] \in Nat
        BY <1>2, <1>4, LayoutFacts DEF Layout
    <3> QED BY <1>5, <3>1 DEF D
  <2>2. D(k) \in 1..Size + frames[k + 1] - 1
      BY DEF R
  <2> QED BY <2>1, <2>2
<1>8. \A i \in DOMAIN frames : Arrived + j - End(i - 1) \in 1 .. Size + frames[i] - 1 =>
        /\ Arrived + j - End(i - 1) < Size => "prefix" \in Cuts \/ then = "closed"
        /\ Arrived + j - End(i - 1) >= Size /\ Arrived + j - End(i - 1) >= frames[i] => "short" \in Cuts
    BY DEF MayCut
<1>9. o \in 1 .. Size + frames[k + 1] - 1 =>
        /\ o < Size => "prefix" \in Cuts \/ then = "closed"
        /\ o >= Size /\ o >= frames[k + 1] => "short" \in Cuts
    BY <1>4, <1>8
<1> HIDE DEF o
<1>10. o < Size => ~(then = "open")
    BY <1>3, <1>7, <1>9
<1>11. o >= Size => o < frames[k + 1]
    BY <1>2, <1>3, <1>6, <1>7, <1>9
<1> QED BY <1>7, <1>10, <1>11 DEF G

\* A read that could be followed may be followed by nothing.
LEMMA CutWeaker ==
    ASSUME NEW z, NEW f, NEW B, NEW p, NEW more, NEW less, Cut(z, f, B, p, more), less => more
    PROVE  Cut(z, f, B, p, less)
BY DEF Cut

LEMMA ArriveStep ==
    ASSUME Mild, FrameInv, NEW j \in 1..Len(wire), NEW then \in {"open", "closed"}, Arrive(j, then)
    PROVE  FrameInv'
<1>1. /\ net = "open" /\ MayCut(j, then) /\ net' = then /\ avail' = avail \o SubSeq(wire, 1, j)
      /\ wire' = SubSeq(wire, j + 1, Len(wire))
      /\ UNCHANGED <<kind, frames>> /\ UNCHANGED <<sched, rr, state, data, out, task>>
    BY DEF Arrive
<1>2. frames' = frames /\ Size' = Size /\ Count' = Count /\ AllFrames' = AllFrames /\ Bounds' = Bounds /\ FramesOK'
    BY <1>1, Steady DEF FrameInv
<1>3. /\ FramesOK /\ Count \in Nat /\ Bounds[Count] \in Nat /\ Bounds[Len(out)] \in Nat
      /\ Arrived = Bounds[Count] - Len(wire) /\ Len(wire) \in Nat
      /\ Arrived \in Nat /\ Arrived <= Bounds[Count] /\ Bounds[Len(out)] <= Arrived
    BY InvFacts
<1>4. Slice(AllFrames, wire, Arrived)
    BY DEF FrameInv, WireOK
<1>5. j \in Nat /\ j <= Len(wire) /\ Arrived \in Int
    BY <1>3
<1> DEFINE p == SubSeq(wire, 1, j)
           q == SubSeq(wire, j + 1, Len(wire))
<1>6. Slice(AllFrames, q, Arrived + j) /\ Len(q) = Len(wire) - j
    BY <1>3, <1>4, <1>5, SlicePart
<1>7. Slice(AllFrames, p, Arrived) /\ Len(p) = j
  <2> DEFINE o == 0
  <2>1. o \in Nat /\ o <= j
      BY <1>5
  <2> HIDE DEF o
  <2>2. Slice(AllFrames, SubSeq(wire, o + 1, j), Arrived + o) /\ Len(SubSeq(wire, o + 1, j)) = j - o
      BY <1>4, <1>5, <2>1, SlicePart
  <2>3. o + 1 = 1 /\ Arrived + o = Arrived /\ j - o = j
      BY <1>3, <1>5 DEF o
  <2> QED BY <2>2, <2>3
<1> HIDE DEF p, q
<1>8. (FramesOK => Arrived = Bounds[Count] - Len(wire))'
    BY LayoutFacts, PTL
<1>9. Arrived' = Arrived + j
  <2>1. Arrived' = Bounds[Count] - Len(q)
      BY <1>1, <1>2, <1>8 DEF q
  <2> QED BY <1>3, <1>5, <1>6, <2>1
<1>10. Cut(Size, frames, Bounds, Arrived + j, then = "open")
    BY <1>1, <1>3, <1>5, MayCutFacts
<1>11. WireOK'
  <2>1. Len(q) <= Bounds[Count]
      BY <1>3, <1>5, <1>6
  <2>2. Slice(AllFrames', wire', Arrived') /\ Len(wire') <= Bounds'[Count']
      BY <1>1, <1>2, <1>6, <1>9, <2>1 DEF q
  <2>3. Cut(Size', frames', Bounds', Arrived', net' = "open")
      BY <1>1, <1>2, <1>9, <1>10
  <2> QED BY <2>2, <2>3 DEF WireOK
<1>12. OutOK'
  <2>1. Bounds[Len(out)] <= Arrived + j
      BY <1>3, <1>5
  <2> QED BY <1>1, <1>2, <1>9, <2>1 DEF OutOK, FrameInv
<1>13. TaskOK'
    BY <1>1 DEF TaskOK, FrameInv
<1>14. DataOK'
  <2> SUFFICES ASSUME task \in {"run", "parked"} PROVE DataOK'
      BY <1>1 DEF DataOK
  <2>1. /\ \/ state = Pending
           \/ Len(out) < Count /\ state = More(frames[Len(out) + 1]) /\ Len(data) < frames[Len(out) + 1]
        /\ Slice(AllFrames, avail, Held) /\ Slice(AllFrames, data, Mark) /\ Mark + Len(data) = Held
        /\ Cut(Size, frames, Bounds, Held, net = "open" \/ avail # <<>>)
      BY DEF FrameInv, DataOK
  <2>2. Held = Arrived - Len(avail) /\ Held' = Arrived' - Len(avail')
      BY DEF Held
  <2>3. Len(avail) \in Nat
      BY <2>1, LenProperties DEF Slice
  <2>4. Held \in Int /\ Arrived = Held + Len(avail)
      BY <1>3, <2>2, <2>3
  <2> DEFINE v == avail \o p
  <2>5. Slice(AllFrames, v, Held) /\ Len(v) = Len(avail) + Len(p)
      BY <1>7, <2>1, <2>4, SliceJoin
  <2>6. avail' = v
      BY <1>1 DEF p
  <2> HIDE DEF v
  <2>7. Held' = Held
    <3> DEFINE x == Len(avail)
               y == Len(avail')
               h == Held'
    <3>1. x \in Nat /\ y = x + j /\ h = (Arrived + j) - y /\ Held = Arrived - x
        BY <1>7, <1>9, <2>2, <2>3, <2>5, <2>6
    <3> HIDE DEF x, y, h
    <3>2. h = Held
        BY <1>3, <1>5, <3>1
    <3> QED BY <3>2 DEF h
  <2>8. Mark' = Mark
      BY <1>1, <1>2 DEF Mark
  <2> DEFINE more == net = "open" \/ avail # <<>>
             after == net' = "open" \/ avail' # <<>>
  <2>9. more /\ Cut(Size, frames, Bounds, Held, more)
      BY <1>1, <2>1
  <2> HIDE DEF more
  <2>10. Cut(Size, frames, Bounds, Held, after)
      BY <2>9, CutWeaker
  <2> QED BY <1>1, <1>2, <2>1, <2>5, <2>6, <2>7, <2>8, <2>10 DEF DataOK
<1> QED BY <1>2, <1>11, <1>12, <1>13, <1>14 DEF FrameInv

LEMMA CloseStep ==
    ASSUME FrameInv, NEW how \in {"closed", "reset"}, Close(how)
    PROVE  FrameInv'
<1>1. net = "open" /\ net' = how /\ UNCHANGED <<kind, frames>> /\ UNCHANGED wire /\ UNCHANGED <<avail, state, data, out, task>>
    BY DEF Close
<1>2. /\ frames' = frames /\ Size' = Size /\ Count' = Count /\ AllFrames' = AllFrames /\ Bounds' = Bounds
      /\ Arrived' = Arrived /\ FramesOK'
    BY <1>1, Steady DEF FrameInv
<1>3. Held' = Held /\ Mark' = Mark
    BY <1>1, <1>2 DEF Held, Mark
<1> DEFINE a == net = "open"
           a2 == net' = "open"
           b == net = "open" \/ avail # <<>>
           b2 == net' = "open" \/ avail' # <<>>
<1>4. (a2 => a) /\ (b2 => b)
    BY <1>1
<1>5. WireOK'
  <2>1. Cut(Size, frames, Bounds, Arrived, a)
      BY DEF FrameInv, WireOK
  <2> HIDE DEF a, a2
  <2>2. Cut(Size, frames, Bounds, Arrived, a2)
      BY <1>4, <2>1, CutWeaker
  <2> QED BY <1>1, <1>2, <2>2 DEF WireOK, FrameInv, a2
<1>6. OutOK' /\ TaskOK'
    BY <1>1, <1>2 DEF OutOK, TaskOK, FrameInv
<1>7. DataOK'
  <2> SUFFICES ASSUME task \in {"run", "parked"} PROVE DataOK'
      BY <1>1 DEF DataOK
  <2>1. /\ \/ state = Pending
           \/ Len(out) < Count /\ state = More(frames[Len(out) + 1]) /\ Len(data) < frames[Len(out) + 1]
        /\ Slice(AllFrames, avail, Held) /\ Slice(AllFrames, data, Mark) /\ Mark + Len(data) = Held
        /\ Cut(Size, frames, Bounds, Held, b)
      BY DEF FrameInv, DataOK
  <2> HIDE DEF b, b2
  <2>2. Cut(Size, frames, Bounds, Held, b2)
      BY <1>4, <2>1, CutWeaker
  <2> QED BY <1>1, <1>2, <1>3, <2>1, <2>2 DEF DataOK, b2
<1> QED BY <1>2, <1>5, <1>6, <1>7 DEF FrameInv

\* The task is run again.
LEMMA WakeStep ==
    ASSUME FrameInv, task = "parked", task' = "run", UNCHANGED <<kind, frames, wire, avail, net, state, data, out>>
    PROVE  FrameInv'
<1>1. /\ frames' = frames /\ Size' = Size /\ Count' = Count /\ AllFrames' = AllFrames /\ Bounds' = Bounds
      /\ Arrived' = Arrived /\ net' = net /\ FramesOK' /\ WireOK'
    BY QuietFacts DEF Quiet
<1>2. Held' = Held /\ Mark' = Mark
    BY <1>1 DEF Held, Mark
<1>3. OutOK' /\ TaskOK' /\ DataOK'
    BY <1>1, <1>2 DEF OutOK, TaskOK, DataOK, FrameInv
<1> QED BY <1>1, <1>3 DEF FrameInv

\* The decoder begins with the first byte.
LEMMA FrameInit == ASSUME Init PROVE FrameInv
<1>1. /\ kind \in Kinds /\ wire = AllFrames /\ avail = <<>> /\ net = "open" /\ data = <<>> /\ out = <<>>
      /\ task = "run" /\ state = Pending /\ frames \in BoundedSeq(Lengths, MaxFrames)
      /\ \A i \in DOMAIN frames : frames[i] < Base * Place[Size]
    BY DEF Init, Pending
<1>2. frames \in Seq(Nat)
  <2>1. PICK m \in 0..MaxFrames : frames \in [1..m -> Lengths]
      BY <1>1 DEF BoundedSeq, SeqOf
  <2>2. m \in Nat /\ Lengths \subseteq Nat
      BY PrefixAssumption
  <2>3. frames \in [1..m -> Nat]
      BY <2>1, <2>2
  <2> QED BY <2>2, <2>3
<1>3. FramesOK
    BY <1>1, <1>2, LenProperties DEF FramesOK, Count
<1>4. /\ Layout(Size, frames, Bounds, AllFrames) /\ Arrived = Bounds[Count] - Len(wire)
    BY <1>3, LayoutFacts
<1>5. /\ Count = Len(frames) /\ Count \in Nat /\ Size \in Nat \ {0} /\ Bounds[0] = 0 /\ AllFrames \in Seq(Nat)
      /\ Len(AllFrames) = Bounds[Count] /\ (\A k \in 0..Count : Bounds[k] \in Nat)
    BY <1>4 DEF Layout, Count
<1>6. Count \in 0..Count /\ Bounds[Count] \in Nat
    BY <1>5
<1>7. Arrived = 0
    BY <1>1, <1>4, <1>5, <1>6
<1>8. Len(avail) = 0 /\ Len(data) = 0 /\ Len(out) = 0 /\ out \in Seq(Seq(Nat))
    BY <1>1, EmptySeq
<1>9. Held = 0 /\ Mark = 0
  <2>1. state.s # "More"
      BY <1>1 DEF Pending
  <2>2. Mark = Bounds[0]
      BY <1>8, <2>1 DEF Mark
  <2>3. Held = 0 - 0
      BY <1>7, <1>8 DEF Held
  <2> QED BY <1>5, <2>2, <2>3
<1>10. ASSUME NEW more PROVE Cut(Size, frames, Bounds, 0, more)
  <2>1. \A k \in 0..Count - 1 : ~(0 - Bounds[k] \in 1..Size + frames[k + 1] - 1)
    <3>1. \A k \in 0..Count - 1 : Bounds[k] \in Nat
        BY <1>5
    <3> QED BY <3>1
  <2> QED BY <1>5, <2>1 DEF Cut
<1>11. WireOK
  <2>1. Slice(AllFrames, wire, 0)
    <3>1. \A i \in 1..Len(AllFrames) : 0 + i = i
        BY <1>5, <1>6
    <3> QED BY <1>1, <1>5, <3>1 DEF Slice
  <2> QED BY <1>1, <1>5, <1>6, <1>7, <1>10, <2>1 DEF WireOK
<1>12. OutOK
  <2>1. Bodies(frames, 0) = <<>>
      BY DEF Bodies
  <2> QED BY <1>1, <1>5, <1>7, <1>8, <2>1 DEF OutOK
<1>13. TaskOK
    BY <1>1 DEF TaskOK
<1>14. DataOK
    BY <1>1, <1>8, <1>9, <1>10, SliceEmpty DEF DataOK
<1> QED BY <1>3, <1>11, <1>12, <1>13, <1>14 DEF FrameInv

\* The frames that have wholly arrived.
LEMMA WholeFacts ==
    ASSUME FrameInv
    PROVE  /\ Whole \in 0..Count /\ Len(out) <= Whole
           /\ (Len(out) < Count => Arrived < Bounds[Len(out) + 1]) => Whole = Len(out)
<1> DEFINE k == Len(out)
           K == {m \in 0..Count : End(m) <= Arrived}
           L == {c \in 0..Count : \A m \in K : m <= c}
<1>1. /\ Layout(Size, frames, Bounds, AllFrames) /\ FramesOK /\ Count = Len(frames) /\ Count \in Nat
      /\ k \in 0..Count /\ Arrived \in Nat /\ Bounds[k] <= Arrived /\ Size \in Nat \ {0}
    BY InvFacts
<1>2. \A m \in 0..Count : Bounds[m] = End(m) /\ Bounds[m] \in Nat
    BY <1>1, LayoutFacts DEF Layout
<1>3. k \in K
    BY <1>1, <1>2
<1>4. Count \in L /\ L \in SUBSET Nat
    BY <1>1
<1> HIDE DEF L
<1>5. PICK c \in L : \A d \in L : c <= d
    BY <1>4, LeastNat
<1>6. c \in 0..Count /\ \A m \in K : m <= c
    BY <1>5 DEF L
<1>7. c \in K
  <2> SUFFICES ASSUME c \notin K PROVE FALSE
      OBVIOUS
  <2>1. k <= c /\ k # c /\ k \in Nat /\ c \in Nat
      BY <1>1, <1>3, <1>6
  <2>2. c - 1 \in 0..Count
      BY <1>1, <1>6, <2>1
  <2>3. \A m \in K : m <= c - 1
    <3>1. \A m \in K : m \in Nat /\ m <= c /\ m # c
        BY <1>1, <1>6
    <3> HIDE DEF K
    <3> QED BY <2>1, <3>1
  <2>4. c - 1 \in L
      BY <2>2, <2>3 DEF L
  <2> HIDE DEF K
  <2> QED BY <1>5, <2>1, <2>4
<1>8. Whole = Max(K)
    BY <1>1 DEF Whole
<1>9. \A m \in K : c >= m
  <2>1. \A m \in K : m \in Nat /\ m <= c
      BY <1>1, <1>6
  <2> HIDE DEF K
  <2> QED BY <1>1, <1>6, <2>1
<1>10. Max(K) \in K /\ \A m \in K : Max(K) >= m
  <2> HIDE DEF K
  <2> QED BY <1>7, <1>9 DEF Max
<1>11. Whole \in 0..Count /\ k <= Whole
  <2>1. Max(K) \in 0..Count /\ Max(K) >= k
      BY <1>3, <1>10
  <2> HIDE DEF K, k
  <2> QED BY <1>1, <1>8, <2>1
<1>12. ASSUME k < Count => Arrived < Bounds[k + 1] PROVE Whole = k
  <2> SUFFICES ASSUME k # Whole PROVE FALSE
      OBVIOUS
  <2> DEFINE m == Whole
  <2>1. m \in 0..Count /\ k < m /\ Bounds[m] <= Arrived
      BY <1>1, <1>2, <1>8, <1>10, <1>11
  <2>2. k < Count /\ k + 1 \in 0..Count /\ k \in 0..Count - 1
      BY <1>1, <2>1
  <2>3. Bounds[k] + Size + frames[k + 1] <= Bounds[m] /\ Bounds[k + 1] = Bounds[k] + Size + frames[k + 1]
      BY <1>1, <2>1, <2>2 DEF Layout
  <2>4. Bounds[k + 1] \in Nat /\ Bounds[m] \in Nat
      BY <1>2, <2>1, <2>2
  <2>5. Arrived < Bounds[k + 1]
      BY <1>12, <2>2
  <2> HIDE DEF k, m
  <2> QED BY <1>1, <2>1, <2>3, <2>4, <2>5
<1> QED BY <1>11, <1>12

LEMMA FrameStep == ASSUME Mild, FrameInv, [Next]_vars PROVE FrameInv'
<1>1. CASE \E j \in 1..Len(wire), then \in {"open", "closed"} : Arrive(j, then)
    BY <1>1, ArriveStep
<1>2. CASE \E how \in {"closed", "reset"} : Close(how)
    BY <1>2, CloseStep
<1>3. CASE Wakeup
    BY <1>3, WakeStep DEF Wakeup
<1>4. CASE OtherEvent
    BY <1>4, WakeStep DEF OtherEvent
<1>5. CASE Poll
    BY <1>5, PollStep
<1>6. CASE UNCHANGED vars
  <2>1. UNCHANGED <<kind, frames, wire, avail, net, state, data, out, task>>
      BY <1>6 DEF vars
  <2>2. /\ frames' = frames /\ Size' = Size /\ Count' = Count /\ AllFrames' = AllFrames /\ Bounds' = Bounds
        /\ Arrived' = Arrived /\ net' = net /\ FramesOK' /\ WireOK'
      BY <2>1, QuietFacts DEF Quiet
  <2>3. Held' = Held /\ Mark' = Mark
      BY <2>1, <2>2 DEF Held, Mark
  <2>4. OutOK' /\ TaskOK' /\ DataOK'
      BY <2>1, <2>2, <2>3 DEF OutOK, TaskOK, DataOK, FrameInv
  <2> QED BY <2>2, <2>4 DEF FrameInv
<1> QED BY <1>1, <1>2, <1>3, <1>4, <1>5, <1>6 DEF Next

\* However the reads are cut, the decoders return the payloads that were sent, in order,
\* end after the last that wholly arrived, and never drain a frame that is not there: for
\* U8Prefix always, for the wide prefixes where no read is cut as Mild rules out.
THEOREM PrefixDeliversFrames ==
    ASSUME Mild
    PROVE  Spec => []DeliversFrames
<1>1. Init => FrameInv
    BY FrameInit
<1>2. FrameInv /\ [Next]_vars => FrameInv'
    BY FrameStep
<1>3. FrameInv => DeliversFrames
  <2> SUFFICES ASSUME FrameInv PROVE DeliversFrames
      OBVIOUS
  <2>1. out = Bodies(frames, Len(out)) /\ TaskOK
      BY DEF FrameInv, OutOK
  <2>2. Bodies(frames, Len(out)) = Payloads(Len(out))
      BY DEF Bodies, Body, Payloads, Payload
  <2>3. Len(out) <= Whole /\ ((Len(out) < Count => Arrived < Bounds[Len(out) + 1]) => Whole = Len(out))
      BY WholeFacts
  <2> QED BY <2>1, <2>2, <2>3 DEF DeliversFrames, NeverUnreachable, TaskOK
<1> QED BY <1>1, <1>2, <1>3, PTL DEF Spec
=============================================================================

----------------------------- MODULE SlabProofs -----------------------------
(***************************************************************************)
(* The free list of a Slab is exact, whatever its size and whatever the    *)
(* order of insertions, removals (of stale indices too) and clears.  The   *)
(* list is a chain of indices inside the objects; the history variable     *)
(* freed writes it down as a sequence, so that the invariant speaks of     *)
(* positions and needs no induction along the chain.                       *)
(*                                                                         *)
(* First, what the operations of a Slab (SlabOps) do to a slab that is in  *)
(* order, for slabs of every size: the lemmas about the free list, and for *)
(* a component that keeps its entries in a slab and names them by index,   *)
(* what it needs to know and no more.  insert hands out an index that is   *)
(* not in use and stores the element there; remove, and an assignment      *)
(* through get_mut, change what is at their own index and nothing else.    *)
(***************************************************************************)
EXTENDS Slab, FiniteSetsExt, FiniteSetTheorems, SequenceTheorems,
        NaturalsInduction, WellFoundedInduction, TLAPS

\* A slab is a record of its four fields.
Whole(s) == s = [objs |-> s.objs, n |-> s.n, len |-> s.len, hfree |-> s.hfree]

\* The two fields in which objects differ.
LEMMA ObjFields ==
    ASSUME NEW x
    PROVE  /\ Used(x).tag = "Used" /\ Used(x).val = x
           /\ Free(x).tag = "Free" /\ Free(x).val = x
BY DEF Used, Free

\* The fields of an empty slab.
LEMMA NewFields ==
    /\ SlabNew.n = 0 /\ SlabNew.len = 0 /\ SlabNew.hfree = INVALID_INDEX
    /\ DOMAIN SlabNew.objs = 0..-1
    /\ SlabNew = [objs |-> SlabNew.objs, n |-> SlabNew.n, len |-> SlabNew.len, hfree |-> SlabNew.hfree]
BY DEF SlabNew

\* What insert does to each field when it reuses the head of the free list ...
LEMMA ReuseFields ==
    ASSUME NEW s, Whole(s), NEW e, s.hfree # INVALID_INDEX
    PROVE  LET t == Insert(s, e) IN
           /\ t = [objs |-> t.objs, n |-> t.n, len |-> t.len, hfree |-> t.hfree]
           /\ t.n = s.n /\ t.len = s.len + 1 /\ t.hfree = s.objs[s.hfree].val
           /\ t.objs = [s.objs EXCEPT ![s.hfree] = Used(e)]
BY DEF Whole, Insert

\* ... and when it grows the Vec.
LEMMA GrowFields ==
    ASSUME NEW s, NEW e, s.hfree = INVALID_INDEX
    PROVE  LET t == Insert(s, e) IN
           /\ t = [objs |-> t.objs, n |-> t.n, len |-> t.len, hfree |-> t.hfree]
           /\ t.n = s.n + 1 /\ t.len = s.len + 1 /\ t.hfree = s.hfree
           /\ t.objs = [i \in 0..s.n |-> IF i = s.n THEN Used(e) ELSE s.objs[i]]
BY DEF Insert

\* What remove does to each field when the index names a Used object.
LEMMA RemoveFields ==
    ASSUME NEW s, Whole(s), NEW i, IsUsed(s, i)
    PROVE  LET t == Remove(s, i) IN
           /\ t = [objs |-> t.objs, n |-> t.n, len |-> t.len, hfree |-> t.hfree]
           /\ t.n = s.n /\ t.len = s.len - 1 /\ t.hfree = i
           /\ t.objs = [s.objs EXCEPT ![i] = Free(s.hfree)]
BY DEF Whole, Remove

\* A sequence without its head, position by position.
LEMMA TailFacts ==
    ASSUME NEW S, NEW f \in Seq(S), f # <<>>
    PROVE  /\ Len(f) \in Nat /\ Len(f) >= 1 /\ f[1] = Head(f) /\ Head(f) \in S
           /\ Tail(f) \in Seq(S) /\ Len(Tail(f)) = Len(f) - 1
           /\ DOMAIN Tail(f) = 1..Len(f) - 1
           /\ \A k \in 1..Len(f) - 1 : Tail(f)[k] = f[k + 1]
<1>1. Len(f) \in Nat /\ DOMAIN f = 1..Len(f) /\ Len(f) # 0
    BY EmptySeq, LenProperties
<1>2. /\ Head(f) \in S /\ Tail(f) \in Seq(S) /\ Len(Tail(f)) = Len(f) - 1
      /\ \A k \in 1..Len(Tail(f)) : Tail(f)[k] = f[k + 1]
    BY HeadTailProperties
<1>3. DOMAIN Tail(f) = 1..Len(Tail(f))
    BY <1>2, LenProperties
<1>4. f[1] = Head(f)
    OBVIOUS
<1> QED BY <1>1, <1>2, <1>3, <1>4

\* The same for an element put in front.
LEMMA PushFacts ==
    ASSUME NEW S, NEW f \in Seq(S), NEW x \in S
    PROVE  /\ <<x>> \o f \in Seq(S) /\ Len(<<x>> \o f) = Len(f) + 1 /\ <<x>> \o f # <<>>
           /\ DOMAIN (<<x>> \o f) = 1..Len(f) + 1
           /\ (<<x>> \o f)[1] = x /\ Head(<<x>> \o f) = x
           /\ \A k \in 1..Len(f) : (<<x>> \o f)[k + 1] = f[k]
<1> DEFINE g == <<x>> \o f
<1>1. <<x>> \in Seq(S) /\ Len(<<x>>) = 1 /\ <<x>>[1] = x /\ Len(f) \in Nat
    BY LenProperties
<1>2. /\ g \in Seq(S) /\ Len(g) = 1 + Len(f)
      /\ \A k \in 1..1 + Len(f) : g[k] = IF k <= 1 THEN <<x>>[k] ELSE f[k - 1]
    BY <1>1, ConcatProperties
<1> HIDE DEF g
<1>3. DOMAIN g = 1..Len(f) + 1 /\ g # <<>>
    BY <1>1, <1>2, LenProperties, EmptySeq
<1>4. g[1] = x /\ \A k \in 1..Len(f) : g[k + 1] = f[k]
    BY <1>1, <1>2
<1>5. Head(g) = g[1]
    BY <1>2, <1>3
<1> QED BY <1>1, <1>2, <1>3, <1>4, <1>5 DEF g

\* FreeListExact, of a Vec objs of n objects, a head h and a sequence f.
Chain(objs, n, h, f) ==
    /\ h = IF f = <<>> THEN -1 ELSE Head(f)
    /\ \A k \in DOMAIN f :
         /\ f[k] \in 0..n - 1
         /\ objs[f[k]].tag = "Free"
         /\ objs[f[k]].val = IF k = Len(f) THEN -1 ELSE f[k + 1]
    /\ \A j, k \in DOMAIN f : f[j] = f[k] => j = k
    /\ \A i \in 0..n - 1 : objs[i].tag = "Free" => \E k \in DOMAIN f : f[k] = i

\* insert takes the head off a chain.
LEMMA PopChain ==
    ASSUME NEW n \in Nat, NEW objs, DOMAIN objs = 0..n - 1, NEW f \in Seq(0..n - 1), f # <<>>,
           NEW h, Chain(objs, n, h, f), NEW u, u.tag = "Used"
    PROVE  /\ h \in 0..n - 1
           /\ objs[h].val \in (0..n - 1) \cup {-1}
           /\ Chain([objs EXCEPT ![h] = u], n, objs[h].val, Tail(f))
<1> DEFINE g == Tail(f)
           o == [objs EXCEPT ![h] = u]
<1>1. /\ Len(f) \in Nat /\ Len(f) >= 1 /\ f[1] = h /\ h \in 0..n - 1 /\ DOMAIN f = 1..Len(f)
      /\ Len(g) = Len(f) - 1 /\ DOMAIN g = 1..Len(f) - 1 /\ g \in Seq(0..n - 1)
      /\ \A k \in 1..Len(f) - 1 : g[k] = f[k + 1]
    BY TailFacts, LenProperties DEF Chain
<1>2. /\ \A k \in DOMAIN f : /\ f[k] \in 0..n - 1 /\ objs[f[k]].tag = "Free"
                             /\ objs[f[k]].val = IF k = Len(f) THEN -1 ELSE f[k + 1]
      /\ \A j, k \in DOMAIN f : f[j] = f[k] => j = k
      /\ \A i \in 0..n - 1 : objs[i].tag = "Free" => \E k \in DOMAIN f : f[k] = i
    BY DEF Chain
<1>3. o[h] = u /\ \A i \in 0..n - 1 : i # h => o[i] = objs[i]
    BY <1>1
<1> HIDE DEF g, o
<1>4. objs[h].val = IF g = <<>> THEN -1 ELSE Head(g)
  <2>1. CASE Len(f) = 1
    <3>1. g = <<>>
        BY <1>1, <2>1, EmptySeq
    <3> QED BY <1>1, <1>2, <2>1, <3>1
  <2>2. CASE Len(f) # 1
    <3>1. g # <<>> /\ 1 \in 1..Len(f) - 1 /\ 1 \in DOMAIN f
        BY <1>1, <2>2, EmptySeq
    <3>2. Head(g) = g[1] /\ g[1] = f[1 + 1]
        BY <1>1, <3>1
    <3> QED BY <1>1, <1>2, <2>2, <3>1, <3>2
  <2> QED BY <2>1, <2>2
<1>5. \A k \in DOMAIN g : k \in DOMAIN f /\ k + 1 \in DOMAIN f /\ g[k] = f[k + 1] /\ k \in Nat
    BY <1>1
<1>6. \A k \in DOMAIN g : g[k] # h /\ g[k] \in 0..n - 1
  <2> SUFFICES ASSUME NEW k \in DOMAIN g PROVE g[k] # h /\ g[k] \in 0..n - 1
      OBVIOUS
  <2>1. k + 1 # 1 /\ 1 \in DOMAIN f
      BY <1>1, <1>5
  <2>2. k + 1 \in DOMAIN f /\ g[k] = f[k + 1]
      BY <1>5
  <2>3. f[k + 1] # f[1] /\ f[k + 1] \in 0..n - 1
      BY <1>2, <2>1, <2>2
  <2> QED BY <1>1, <2>2, <2>3
<1>7. \A k \in DOMAIN g : /\ o[g[k]].tag = "Free"
                          /\ o[g[k]].val = IF k = Len(g) THEN -1 ELSE g[k + 1]
  <2> SUFFICES ASSUME NEW k \in DOMAIN g
               PROVE  /\ o[g[k]].tag = "Free"
                      /\ o[g[k]].val = IF k = Len(g) THEN -1 ELSE g[k + 1]
      OBVIOUS
  <2>1. o[g[k]] = objs[f[k + 1]]
      BY <1>3, <1>5, <1>6
  <2>2. k # Len(g) => g[k + 1] = f[k + 1 + 1]
    <3>1. k \in 1..Len(f) - 1 /\ (k # Len(g) => k + 1 \in 1..Len(f) - 1)
        BY <1>1
    <3> QED BY <1>1, <3>1
  <2>3. k = Len(g) <=> k + 1 = Len(f)
      BY <1>1, <1>5
  <2> QED BY <1>2, <1>5, <2>1, <2>2, <2>3
<1>8. \A j, k \in DOMAIN g : g[j] = g[k] => j = k
  <2> SUFFICES ASSUME NEW j \in DOMAIN g, NEW k \in DOMAIN g, g[j] = g[k] PROVE j = k
      OBVIOUS
  <2>1. j + 1 = k + 1
      BY <1>2, <1>5
  <2> QED BY <1>5, <2>1
<1>9. \A i \in 0..n - 1 : o[i].tag = "Free" => \E k \in DOMAIN g : g[k] = i
  <2> SUFFICES ASSUME NEW i \in 0..n - 1, o[i].tag = "Free" PROVE \E k \in DOMAIN g : g[k] = i
      OBVIOUS
  <2>1. i # h /\ objs[i].tag = "Free"
      BY <1>3
  <2>2. PICK k \in DOMAIN f : f[k] = i
      BY <1>2, <2>1
  <2>3. k \in 2..Len(f)
      BY <1>1, <2>1, <2>2
  <2> DEFINE m == Len(f)
  <2>4. m \in Nat /\ k \in 2..m
      BY <1>1, <2>3
  <2> HIDE DEF m
  <2>5. k - 1 \in 1..m - 1 /\ k - 1 + 1 = k
      BY <2>4
  <2>6. k - 1 \in DOMAIN g /\ g[k - 1] = f[k - 1 + 1]
      BY <1>1, <2>5 DEF m
  <2> QED BY <2>2, <2>5, <2>6
<1>10. objs[h].val \in (0..n - 1) \cup {-1}
  <2>1. g = <<>> \/ Head(g) \in 0..n - 1
      BY <1>1, TailFacts
  <2> QED BY <1>4, <2>1
<1>11. Chain(o, n, objs[h].val, g)
    BY <1>4, <1>6, <1>7, <1>8, <1>9 DEF Chain
<1> QED BY <1>1, <1>10, <1>11 DEF g, o

\* remove puts a Used object before a chain.
LEMMA PushChain ==
    ASSUME NEW n \in Nat, NEW objs, DOMAIN objs = 0..n - 1, NEW f \in Seq(0..n - 1),
           NEW h, Chain(objs, n, h, f), NEW i \in 0..n - 1, objs[i].tag = "Used",
           NEW u, u.tag = "Free", u.val = h
    PROVE  Chain([objs EXCEPT ![i] = u], n, i, <<i>> \o f)
<1> DEFINE g == <<i>> \o f
           o == [objs EXCEPT ![i] = u]
<1>1. /\ Len(f) \in Nat /\ DOMAIN f = 1..Len(f)
      /\ g \in Seq(0..n - 1) /\ g # <<>> /\ Len(g) = Len(f) + 1 /\ DOMAIN g = 1..Len(f) + 1
      /\ g[1] = i /\ Head(g) = i
      /\ \A k \in 1..Len(f) : g[k + 1] = f[k]
    BY PushFacts, LenProperties
<1>2. /\ h = IF f = <<>> THEN -1 ELSE Head(f)
      /\ \A k \in DOMAIN f : /\ f[k] \in 0..n - 1 /\ objs[f[k]].tag = "Free"
                             /\ objs[f[k]].val = IF k = Len(f) THEN -1 ELSE f[k + 1]
      /\ \A j, k \in DOMAIN f : f[j] = f[k] => j = k
      /\ \A j \in 0..n - 1 : objs[j].tag = "Free" => \E k \in DOMAIN f : f[k] = j
    BY DEF Chain
<1>3. o[i] = u /\ \A j \in 0..n - 1 : j # i => o[j] = objs[j]
    OBVIOUS
<1> HIDE DEF g, o
<1>4. \A k \in DOMAIN f : f[k] # i /\ o[f[k]] = objs[f[k]]
    BY <1>2, <1>3
<1>5. ASSUME NEW k \in DOMAIN g
      PROVE  k = 1 \/ (k \in Nat /\ k - 1 \in DOMAIN f /\ g[k] = f[k - 1])
  <2>1. k \in Nat /\ (k = 1 \/ k - 1 \in 1..Len(f))
      BY <1>1
  <2>2. k - 1 + 1 = k
      BY <2>1
  <2> QED BY <1>1, <2>1, <2>2
<1>6. ASSUME NEW k \in DOMAIN g
      PROVE  /\ g[k] \in 0..n - 1 /\ o[g[k]].tag = "Free"
             /\ o[g[k]].val = IF k = Len(g) THEN -1 ELSE g[k + 1]
  <2>1. CASE k = 1
    <3>1. h = IF 1 = Len(g) THEN -1 ELSE g[1 + 1]
      <4>1. CASE f = <<>>
          BY <1>1, <1>2, <4>1, EmptySeq
      <4>2. CASE f # <<>>
        <5>1. Len(f) # 0 /\ 1 \in 1..Len(f) /\ Head(f) = f[1]
            BY <1>1, <4>2, EmptySeq
        <5> QED BY <1>1, <1>2, <4>2, <5>1
      <4> QED BY <4>1, <4>2
    <3> QED BY <1>1, <1>3, <2>1, <3>1
  <2>2. CASE k # 1
    <3>1. k \in Nat /\ k - 1 \in DOMAIN f /\ g[k] = f[k - 1]
        BY <1>5, <2>2
    <3>2. k = Len(g) <=> k - 1 = Len(f)
        BY <1>1, <3>1
    <3>3. k # Len(g) => k \in 1..Len(f) /\ g[k + 1] = f[k - 1 + 1]
      <4>1. k - 1 + 1 = k
          BY <3>1
      <4>2. k # Len(g) => k \in 1..Len(f)
        <5>1. Len(f) \in Nat /\ k - 1 \in 1..Len(f) /\ (k # Len(g) => k - 1 # Len(f))
            BY <1>1, <3>1, <3>2
        <5> QED BY <3>1, <5>1
      <4> QED BY <1>1, <4>1, <4>2
    <3> QED BY <1>2, <1>4, <3>1, <3>2, <3>3
  <2> QED BY <2>1, <2>2
<1>7. \A j, k \in DOMAIN g : g[j] = g[k] => j = k
  <2> SUFFICES ASSUME NEW j \in DOMAIN g, NEW k \in DOMAIN g, g[j] = g[k] PROVE j = k
      OBVIOUS
  <2>1. CASE j = 1 \/ k = 1
      BY <1>1, <1>4, <1>5, <2>1
  <2>2. CASE j # 1 /\ k # 1
    <3>1. j \in Nat /\ k \in Nat /\ j - 1 = k - 1
        BY <1>2, <1>5, <2>2
    <3> QED BY <3>1
  <2> QED BY <2>1, <2>2
<1>8. \A j \in 0..n - 1 : o[j].tag = "Free" => \E k \in DOMAIN g : g[k] = j
  <2> SUFFICES ASSUME NEW j \in 0..n - 1, o[j].tag = "Free" PROVE \E k \in DOMAIN g : g[k] = j
      OBVIOUS
  <2>1. CASE j = i
    <3>1. 1 \in DOMAIN g
        BY <1>1
    <3> QED BY <1>1, <2>1, <3>1
  <2>2. CASE j # i
    <3>1. PICK k \in DOMAIN f : f[k] = j
        BY <1>2, <1>3, <2>2
    <3>2. k + 1 \in DOMAIN g /\ g[k + 1] = j
        BY <1>1, <3>1
    <3> QED BY <3>2
  <2> QED BY <2>1, <2>2
<1>9. Chain(o, n, i, g)
    BY <1>1, <1>6, <1>7, <1>8 DEF Chain
<1> QED BY <1>9 DEF g, o

\* A chain beside a Used object is shorter than the Vec (the pigeonhole principle).
LEMMA SomeUsed ==
    ASSUME NEW n \in Nat, NEW objs, NEW f \in Seq(0..n - 1), NEW h, Chain(objs, n, h, f),
           NEW i \in 0..n - 1, objs[i].tag = "Used"
    PROVE  Len(f) # n
<1> SUFFICES ASSUME Len(f) = n PROVE FALSE
    OBVIOUS
<1> DEFINE S == 1..n
           T == (0..n - 1) \ {i}
<1>1. DOMAIN f = S
    BY LenProperties
<1>2. \A k \in S : f[k] \in T
    BY <1>1 DEF Chain
<1>3. f \in [S -> T]
  <2>1. f = [k \in S |-> f[k]]
      BY <1>1
  <2> QED BY <1>2, <2>1
<1>4. IsFiniteSet(S) /\ Cardinality(S) = n
    BY FS_Interval
<1>5. IsFiniteSet(0..n - 1) /\ Cardinality(0..n - 1) = n
    BY FS_Interval
<1>6. IsFiniteSet(T) /\ Cardinality(T) = n - 1
    BY <1>5, FS_RemoveElement
<1>7. \A j, k \in S : f[j] = f[k] => j = k
    BY <1>1 DEF Chain
<1> HIDE DEF S, T
<1>8. Cardinality(T) < Cardinality(S)
    BY <1>4, <1>6
<1>9. \E x, y \in S : x # y /\ f[x] = f[y]
    BY <1>3, <1>4, <1>6, <1>8, FS_PigeonHole
<1> QED BY <1>7, <1>9

----------------------------------------------------------------------------
(* A slab in order, and what its users need of each operation.             *)

\* The free list runs through exactly the free objects.
InOrder(s) ==
    /\ Whole(s) /\ s.n \in Nat /\ DOMAIN s.objs = 0..s.n - 1
    /\ \E f \in Seq(0..s.n - 1) : Chain(s.objs, s.n, s.hfree, f)

\* t is s with index i taken away from, or given to, its user.
SameBut(s, t, i) ==
    \A j : j # i => /\ IsUsed(t, j) <=> IsUsed(s, j)
                    /\ IsUsed(s, j) => Elem(t, j) = Elem(s, j)

\* A new slab is in order and has no element.
LEMMA NewInOrder ==
    InOrder(SlabNew) /\ \A i : ~IsUsed(SlabNew, i)
<1>1. /\ SlabNew.n = 0 /\ SlabNew.hfree = -1 /\ DOMAIN SlabNew.objs = 0..-1
      /\ Whole(SlabNew)
    BY NewFields DEF Whole, INVALID_INDEX
<1> DEFINE s == SlabNew
<1> HIDE DEF s
<1>2. s.n = 0 /\ s.hfree = -1 /\ DOMAIN s.objs = 0..-1 /\ Whole(s)
    BY <1>1 DEF s
<1>3. <<>> \in Seq(0..s.n - 1) /\ DOMAIN <<>> = {} /\ 0..s.n - 1 = {}
    BY <1>2
<1>4. Chain(s.objs, s.n, s.hfree, <<>>)
    BY <1>2, <1>3 DEF Chain
<1>5. s.n \in Nat /\ DOMAIN s.objs = 0..s.n - 1
    BY <1>2
<1>6. InOrder(s)
    BY <1>2, <1>3, <1>4, <1>5 DEF InOrder
<1>7. \A i : ~IsUsed(s, i)
    BY <1>3 DEF IsUsed
<1> QED BY <1>6, <1>7 DEF s

\* insert: the index was not in use, names the element afterwards, and what other
\* indices name is untouched.
LEMMA InsertInOrder ==
    ASSUME NEW s, InOrder(s), NEW e
    PROVE  /\ InOrder(Insert(s, e))
           /\ NextIndex(s) \in Nat
           /\ ~IsUsed(s, NextIndex(s))
           /\ IsUsed(Insert(s, e), NextIndex(s))
           /\ Elem(Insert(s, e), NextIndex(s)) = e
           /\ SameBut(s, Insert(s, e), NextIndex(s))
<1> DEFINE n == s.n
           o == s.objs
           h == s.hfree
           t == Insert(s, e)
           u == Used(e)
<1>1. Whole(s) /\ n \in Nat /\ DOMAIN o = 0..n - 1
    BY DEF InOrder
<1>2. PICK f \in Seq(0..n - 1) : Chain(o, n, h, f)
    BY DEF InOrder
<1>3. u.tag = "Used" /\ u.val = e
    BY ObjFields
<1>4. CASE h # -1
  <2>1. f # <<>>
      BY <1>2, <1>4 DEF Chain
  <2>2. /\ h \in 0..n - 1
        /\ Chain([o EXCEPT ![h] = u], n, o[h].val, Tail(f))
    <3> HIDE DEF n, o, h, u
    <3> QED BY <1>1, <1>2, <1>3, <2>1, PopChain
  <2>3. /\ Whole(t) /\ t.n = n /\ t.hfree = o[h].val /\ t.objs = [o EXCEPT ![h] = u]
      BY <1>1, <1>4, ReuseFields DEF INVALID_INDEX, Whole
  <2>4. o[h].tag = "Free"
    <3>1. 1 \in DOMAIN f /\ f[1] = Head(f)
        BY <1>2, <2>1, TailFacts, LenProperties
    <3>2. h = Head(f)
        BY <1>2, <2>1 DEF Chain
    <3> HIDE DEF n, o, h
    <3> QED BY <1>2, <3>1, <3>2 DEF Chain
  <2>5. NextIndex(s) = h
      BY <1>4 DEF NextIndex, INVALID_INDEX
  <2>6. Tail(f) \in Seq(0..n - 1)
      BY <1>2, <2>1, TailFacts
  <2> HIDE DEF n, o, h, t, u
  <2>7. t.n \in Nat /\ DOMAIN t.objs = 0..t.n - 1
      BY <1>1, <2>3
  <2>8. InOrder(t)
      BY <2>2, <2>3, <2>6, <2>7 DEF InOrder
  <2>9. t.objs[h] = u /\ \A j \in 0..n - 1 : j # h => t.objs[j] = o[j]
      BY <1>1, <2>2, <2>3
  <2>10. /\ \A j : IsUsed(s, j) <=> j \in 0..n - 1 /\ o[j].tag = "Used"
         /\ \A j : IsUsed(t, j) <=> j \in 0..n - 1 /\ t.objs[j].tag = "Used"
         /\ \A j : Elem(s, j) = o[j].val /\ Elem(t, j) = t.objs[j].val
      BY <2>3 DEF IsUsed, Elem, n, o
  <2>11. ~IsUsed(s, h) /\ IsUsed(t, h) /\ Elem(t, h) = e
      BY <1>3, <2>2, <2>4, <2>9, <2>10
  <2>12. SameBut(s, t, h)
      BY <2>9, <2>10 DEF SameBut
  <2>13. h \in Nat
      BY <1>1, <2>2
  <2> QED BY <2>5, <2>8, <2>11, <2>12, <2>13 DEF t
<1>5. CASE h = -1
  <2>1. /\ Whole(t) /\ t.n = n + 1 /\ t.hfree = h
        /\ t.objs = [i \in 0..n |-> IF i = n THEN u ELSE o[i]]
      BY <1>5, GrowFields DEF INVALID_INDEX, Whole
  <2>2. NextIndex(s) = n
      BY <1>5 DEF NextIndex, INVALID_INDEX
  <2>3. /\ \A j : IsUsed(s, j) <=> j \in 0..n - 1 /\ o[j].tag = "Used"
        /\ \A j : IsUsed(t, j) <=> j \in 0..n /\ t.objs[j].tag = "Used"
        /\ \A j : Elem(s, j) = o[j].val /\ Elem(t, j) = t.objs[j].val
    <3>1. t.n - 1 = n
      <4> HIDE DEF n, t
      <4> QED BY <1>1, <2>1
    <3> QED BY <3>1 DEF IsUsed, Elem
  <2> HIDE DEF n, o, h, t, u
  <2>4. t.objs[n] = u /\ \A j \in 0..n - 1 : t.objs[j] = o[j]
      BY <1>1, <2>1
  <2>5. f = <<>>
    <3> SUFFICES ASSUME f # <<>> PROVE FALSE
        OBVIOUS
    <3>1. h = Head(f) /\ Head(f) \in 0..n - 1
        BY <1>2, TailFacts DEF Chain
    <3> QED BY <1>1, <1>5, <3>1
  <2>6. \A i \in 0..n - 1 : o[i].tag # "Free"
      BY <1>2, <2>5 DEF Chain
  <2>7. Chain(t.objs, t.n, t.hfree, <<>>)
    <3>1. \A i \in 0..t.n - 1 : t.objs[i].tag # "Free"
        BY <1>1, <1>3, <2>1, <2>4, <2>6
    <3>2. t.hfree = -1 /\ DOMAIN <<>> = {}
        BY <1>5, <2>1
    <3> QED BY <3>1, <3>2 DEF Chain
  <2>8. InOrder(t)
    <3>1. t.n \in Nat /\ DOMAIN t.objs = 0..t.n - 1 /\ <<>> \in Seq(0..t.n - 1)
        BY <1>1, <2>1
    <3> QED BY <2>1, <2>7, <3>1 DEF InOrder
  <2>9. ~IsUsed(s, n) /\ IsUsed(t, n) /\ Elem(t, n) = e
      BY <1>1, <1>3, <2>3, <2>4
  <2>10. SameBut(s, t, n)
    <3> SUFFICES ASSUME NEW j, j # n
                 PROVE  (IsUsed(t, j) <=> IsUsed(s, j)) /\ (IsUsed(s, j) => Elem(t, j) = Elem(s, j))
        BY DEF SameBut
    <3>1. j \in 0..n <=> j \in 0..n - 1
        BY <1>1
    <3> QED BY <2>3, <2>4, <3>1
  <2> QED BY <1>1, <2>2, <2>8, <2>9, <2>10 DEF t
<1> QED BY <1>4, <1>5

\* remove: the index names nothing afterwards, and what other indices name is
\* untouched; an index that names nothing is no change.
LEMMA RemoveInOrder ==
    ASSUME NEW s, InOrder(s), NEW i
    PROVE  /\ InOrder(Remove(s, i))
           /\ ~IsUsed(Remove(s, i), i)
           /\ SameBut(s, Remove(s, i), i)
           /\ ~IsUsed(s, i) => Remove(s, i) = s
<1> DEFINE n == s.n
           o == s.objs
           h == s.hfree
           t == Remove(s, i)
           u == Free(h)
<1>1. CASE ~IsUsed(s, i)
  <2>1. t = s
      BY <1>1 DEF Remove
  <2> QED BY <1>1, <2>1 DEF SameBut
<1>2. CASE IsUsed(s, i)
  <2>1. Whole(s) /\ n \in Nat /\ DOMAIN o = 0..n - 1
      BY DEF InOrder
  <2>2. PICK f \in Seq(0..n - 1) : Chain(o, n, h, f)
      BY DEF InOrder
  <2>3. u.tag = "Free" /\ u.val = h
      BY ObjFields
  <2>4. /\ Whole(t) /\ t.n = n /\ t.hfree = i /\ t.objs = [o EXCEPT ![i] = u]
      BY <1>2, <2>1, RemoveFields DEF Whole
  <2>5. i \in 0..n - 1 /\ o[i].tag = "Used"
      BY <1>2 DEF IsUsed
  <2>6. Chain([o EXCEPT ![i] = u], n, i, <<i>> \o f)
    <3> HIDE DEF n, o, h, u
    <3> QED BY <2>1, <2>2, <2>3, <2>5, PushChain
  <2>7. <<i>> \o f \in Seq(0..n - 1)
      BY <2>2, <2>5, PushFacts
  <2>8. /\ \A j : IsUsed(s, j) <=> j \in 0..n - 1 /\ o[j].tag = "Used"
        /\ \A j : IsUsed(t, j) <=> j \in 0..n - 1 /\ t.objs[j].tag = "Used"
        /\ \A j : Elem(s, j) = o[j].val /\ Elem(t, j) = t.objs[j].val
      BY <2>4 DEF IsUsed, Elem
  <2> HIDE DEF n, o, h, t, u
  <2>9. t.n \in Nat /\ DOMAIN t.objs = 0..t.n - 1
      BY <2>1, <2>4
  <2>10. InOrder(t)
      BY <2>4, <2>6, <2>7, <2>9 DEF InOrder
  <2>11. t.objs[i] = u /\ \A j \in 0..n - 1 : j # i => t.objs[j] = o[j]
      BY <2>1, <2>4, <2>5
  <2>12. ~IsUsed(t, i)
      BY <2>3, <2>8, <2>11
  <2>13. SameBut(s, t, i)
      BY <2>8, <2>11 DEF SameBut
  <2> QED BY <1>2, <2>10, <2>12, <2>13 DEF t
<1> QED BY <1>1, <1>2

\* An assignment through get_mut: the index names the new element, what other
\* indices name is untouched.
LEMMA UpdateInOrder ==
    ASSUME NEW s, InOrder(s), NEW i, IsUsed(s, i), NEW e
    PROVE  /\ InOrder(Update(s, i, e))
           /\ IsUsed(Update(s, i, e), i)
           /\ Elem(Update(s, i, e), i) = e
           /\ SameBut(s, Update(s, i, e), i)
<1> DEFINE n == s.n
           o == s.objs
           h == s.hfree
           t == Update(s, i, e)
           u == Used(e)
<1>1. Whole(s) /\ n \in Nat /\ DOMAIN o = 0..n - 1
    BY DEF InOrder
<1>2. PICK f \in Seq(0..n - 1) : Chain(o, n, h, f)
    BY DEF InOrder
<1>3. u.tag = "Used" /\ u.val = e
    BY ObjFields
<1>4. /\ Whole(t) /\ t.n = n /\ t.hfree = h /\ t.objs = [o EXCEPT ![i] = u]
    BY <1>1 DEF Update, Whole
<1>5. i \in 0..n - 1 /\ o[i].tag = "Used"
    BY DEF IsUsed
<1>6. /\ \A j : IsUsed(s, j) <=> j \in 0..n - 1 /\ o[j].tag = "Used"
      /\ \A j : IsUsed(t, j) <=> j \in 0..n - 1 /\ t.objs[j].tag = "Used"
      /\ \A j : Elem(s, j) = o[j].val /\ Elem(t, j) = t.objs[j].val
    BY <1>4 DEF IsUsed, Elem
<1> HIDE DEF n, o, h, t, u
<1>7. t.n \in Nat /\ DOMAIN t.objs = 0..t.n - 1
    BY <1>1, <1>4
<1>8. t.objs[i] = u /\ \A j \in 0..n - 1 : j # i => t.objs[j] = o[j]
    BY <1>1, <1>4, <1>5
<1>9. Chain(t.objs, t.n, t.hfree, f)
  <2>1. \A j \in 0..n - 1 : o[j].tag = "Free" => j # i
      BY <1>5
  <2>2. \A k \in DOMAIN f : f[k] # i /\ t.objs[f[k]] = o[f[k]]
      BY <1>2, <1>5, <1>8 DEF Chain
  <2>3. \A j \in 0..n - 1 : t.objs[j].tag = "Free" => o[j].tag = "Free"
      BY <1>3, <1>8
  <2> QED BY <1>2, <1>4, <2>2, <2>3 DEF Chain
<1>10. InOrder(t)
    BY <1>2, <1>4, <1>7, <1>9 DEF InOrder
<1>11. IsUsed(t, i) /\ Elem(t, i) = e
    BY <1>3, <1>5, <1>6, <1>8
<1>12. SameBut(s, t, i)
    BY <1>6, <1>8 DEF SameBut
<1> QED BY <1>10, <1>11, <1>12 DEF t
----------------------------------------------------------------------------
(* Removing a finite set of indices, one after the other.                  *)

\* A nonempty set of natural numbers has a least element: induction, in a form that
\* takes a set and no operator.
LEMMA LeastNat ==
    ASSUME NEW T \in SUBSET Nat, T # {}
    PROVE  \E m \in T : \A k \in T : m <= k
<1> DEFINE R == OpToRel(<, Nat)
<1>1. IsWellFoundedOn(R, Nat)
    BY NatLessThanWellFounded
<1>2. \A x, y \in Nat : x < y => <<x, y>> \in R
    BY DEF OpToRel
<1> HIDE DEF R
<1>3. PICK m \in T : \A y \in T : ~(<<y, m>> \in R)
    BY <1>1, WFMin
<1>4. ASSUME NEW k \in T PROVE m <= k
  <2>1. m \in Nat /\ k \in Nat
      OBVIOUS
  <2>2. ~(k < m)
      BY <1>2, <1>3, <2>1
  <2> QED BY <2>1, <2>2
<1> QED BY <1>4

\* A set of natural numbers with 0 and every successor is all of them.
LEMMA AllNat ==
    ASSUME NEW T \in SUBSET Nat, 0 \in T, \A n \in T : n + 1 \in T
    PROVE  T = Nat
<1> SUFFICES ASSUME T # Nat PROVE FALSE
    OBVIOUS
<1> DEFINE U == Nat \ T
<1>1. U \in SUBSET Nat /\ U # {}
    OBVIOUS
<1>2. PICK m \in U : \A k \in U : m <= k
    BY <1>1, LeastNat
<1>3. m \in Nat /\ m # 0 /\ m - 1 \in Nat /\ ~(m <= m - 1)
    BY <1>2
<1>4. m - 1 \in T
    BY <1>2, <1>3
<1>5. (m - 1) + 1 = m
    BY <1>3
<1> QED BY <1>2, <1>4, <1>5

RemoveAll(s, S) == FoldSet(LAMBDA i, x : Remove(x, i), s, S)

\* The fold takes an element of the set and what the fold makes of the rest.
PickOf(x) == CHOOSE e \in x : TRUE
RestOf(x) == x \ {PickOf(x)}
FoldStep(g, s, D) == [x \in D |-> IF x = {} THEN s ELSE Remove(g[RestOf(x)], PickOf(x))]

\* The definition of the fold, in these terms.
LEMMA RemoveAllDef ==
    ASSUME NEW s, NEW S
    PROVE  RemoveAll(s, S) = (CHOOSE g : g = FoldStep(g, s, SUBSET S))[S]
BY DEF RemoveAll, FoldSet, MapThenFoldSet, FoldStep, PickOf, RestOf

\* Taking one out of a nonempty finite set.
LEMMA RestSmaller ==
    ASSUME NEW S, IsFiniteSet(S), NEW x \in SUBSET S
    PROVE  /\ IsFiniteSet(x) /\ Cardinality(x) \in Nat /\ Cardinality(x) <= Cardinality(S)
           /\ x = {} <=> Cardinality(x) = 0
           /\ x # {} => /\ PickOf(x) \in x /\ RestOf(x) \in SUBSET S
                        /\ Cardinality(RestOf(x)) = Cardinality(x) - 1
<1>1. IsFiniteSet(x) /\ Cardinality(x) <= Cardinality(S)
    BY FS_Subset
<1>2. Cardinality(x) \in Nat
    BY <1>1, FS_CardinalityType
<1>3. x = {} <=> Cardinality(x) = 0
    BY <1>1, FS_EmptySet
<1>4. x # {} => PickOf(x) \in x
    BY DEF PickOf
<1>5. x # {} => Cardinality(RestOf(x)) = Cardinality(x) - 1
    BY <1>1, <1>4, FS_RemoveElement DEF RestOf
<1>6. RestOf(x) \in SUBSET S
    BY DEF RestOf
<1> QED BY <1>1, <1>2, <1>3, <1>4, <1>5, <1>6

\* The fold's equation has a solution: one for the subsets with at most n elements
\* gives one for those with n + 1.
LEMMA FoldExists ==
    ASSUME NEW s, NEW S, IsFiniteSet(S)
    PROVE  \E g : g = FoldStep(g, s, SUBSET S)
<1> DEFINE F(n) == {x \in SUBSET S : Cardinality(x) <= n}
           T == {n \in Nat : \E g : g = FoldStep(g, s, F(n))}
<1>1. 0 \in T
  <2> DEFINE g == [x \in F(0) |-> s]
  <2>1. \A x \in F(0) : x = {}
    <3> SUFFICES ASSUME NEW x \in SUBSET S, Cardinality(x) <= 0 PROVE x = {}
        OBVIOUS
    <3>1. Cardinality(x) \in Nat /\ (x = {} <=> Cardinality(x) = 0)
        BY RestSmaller
    <3> QED BY <3>1
  <2>2. g = FoldStep(g, s, F(0))
    <3> HIDE DEF F
    <3> QED BY <2>1 DEF FoldStep
  <2> QED BY <2>2
<1>2. ASSUME NEW n \in T PROVE n + 1 \in T
  <2>1. n \in Nat /\ n + 1 \in Nat
      OBVIOUS
  <2>2. PICK g : g = FoldStep(g, s, F(n))
      OBVIOUS
  <2> DEFINE h == FoldStep(g, s, F(n + 1))
  <2>3. ASSUME NEW x \in F(n + 1), x # {}
        PROVE  RestOf(x) \in F(n) /\ RestOf(x) \in F(n + 1)
    <3>1. x \in SUBSET S /\ Cardinality(x) <= n + 1
        OBVIOUS
    <3>2. RestOf(x) \in SUBSET S /\ Cardinality(RestOf(x)) = Cardinality(x) - 1 /\ Cardinality(x) \in Nat
        BY <2>3, <3>1, RestSmaller
    <3>3. Cardinality(RestOf(x)) <= n /\ Cardinality(RestOf(x)) <= n + 1
        BY <2>1, <3>1, <3>2
    <3> QED BY <3>2, <3>3
  <2>4. ASSUME NEW y \in F(n) PROVE h[y] = g[y]
    <3>1. y \in F(n + 1)
      <4>1. Cardinality(y) \in Nat /\ Cardinality(y) <= n
          BY RestSmaller
      <4> QED BY <2>1, <4>1
    <3>2. g[y] = IF y = {} THEN s ELSE Remove(g[RestOf(y)], PickOf(y))
      <4> HIDE DEF F
      <4> QED BY <2>2 DEF FoldStep
    <3> HIDE DEF F
    <3> QED BY <3>1, <3>2 DEF FoldStep
  <2>5. h = FoldStep(h, s, F(n + 1))
    <3>1. \A x \in F(n + 1) : x # {} => h[RestOf(x)] = g[RestOf(x)]
        BY <2>3, <2>4
    <3> HIDE DEF F
    <3>2. FoldStep(h, s, F(n + 1)) = [x \in F(n + 1) |-> IF x = {} THEN s ELSE Remove(h[RestOf(x)], PickOf(x))]
        BY DEF FoldStep
    <3>3. h = [x \in F(n + 1) |-> IF x = {} THEN s ELSE Remove(g[RestOf(x)], PickOf(x))]
        BY DEF FoldStep
    <3> HIDE DEF h
    <3> QED BY <3>1, <3>2, <3>3
  <2> HIDE DEF h, F
  <2> QED BY <2>1, <2>5
<1>3. T = Nat
  <2>1. T \in SUBSET Nat
      OBVIOUS
  <2> HIDE DEF T
  <2> QED BY <1>1, <1>2, <2>1, AllNat
<1>4. Cardinality(S) \in Nat
    BY FS_CardinalityType
<1>5. F(Cardinality(S)) = SUBSET S
    BY RestSmaller
<1> HIDE DEF F
<1>6. Cardinality(S) \in T
  <2> HIDE DEF T
  <2> QED BY <1>3, <1>4
<1> QED BY <1>5, <1>6

\* Removing a set of indices from a slab in order: they name nothing afterwards, and
\* what the others name is untouched.
LEMMA RemoveAllInOrder ==
    ASSUME NEW s, InOrder(s), NEW S, IsFiniteSet(S)
    PROVE  /\ InOrder(RemoveAll(s, S))
           /\ \A j : IsUsed(RemoveAll(s, S), j) <=> IsUsed(s, j) /\ j \notin S
           /\ \A j : IsUsed(RemoveAll(s, S), j) => Elem(RemoveAll(s, S), j) = Elem(s, j)
<1> DEFINE g == CHOOSE f : f = FoldStep(f, s, SUBSET S)
           Good(x, t) == /\ InOrder(t)
                         /\ \A j : IsUsed(t, j) <=> IsUsed(s, j) /\ j \notin x
                         /\ \A j : IsUsed(t, j) => Elem(t, j) = Elem(s, j)
           T == {n \in Nat : \A x \in SUBSET S : Cardinality(x) <= n => Good(x, g[x])}
<1>1. g = FoldStep(g, s, SUBSET S)
    BY FoldExists
<1> HIDE DEF g
<1>2. \A x \in SUBSET S : g[x] = IF x = {} THEN s ELSE Remove(g[RestOf(x)], PickOf(x))
    BY <1>1 DEF FoldStep
<1>3. 0 \in T
  <2> SUFFICES ASSUME NEW x \in SUBSET S, Cardinality(x) <= 0 PROVE Good(x, g[x])
      OBVIOUS
  <2>1. x = {}
    <3>1. Cardinality(x) \in Nat /\ (x = {} <=> Cardinality(x) = 0)
        BY RestSmaller
    <3> QED BY <3>1
  <2>2. g[x] = s
      BY <1>2, <2>1
  <2> QED BY <2>1, <2>2
<1>4. ASSUME NEW n \in T PROVE n + 1 \in T
  <2>1. n \in Nat
      OBVIOUS
  <2> SUFFICES ASSUME NEW x \in SUBSET S, Cardinality(x) <= n + 1 PROVE Good(x, g[x])
      OBVIOUS
  <2>2. CASE x = {}
    <3>1. g[x] = s
        BY <1>2, <2>2
    <3> QED BY <2>2, <3>1
  <2>3. CASE x # {}
    <3> DEFINE y == RestOf(x)
               i == PickOf(x)
    <3>1. /\ i \in x /\ y \in SUBSET S /\ Cardinality(x) \in Nat
          /\ Cardinality(y) = Cardinality(x) - 1
        BY <2>3, RestSmaller
    <3>2. Cardinality(y) <= n
      <4> HIDE DEF y
      <4> QED BY <2>1, <3>1
    <3>3. Good(y, g[y])
        BY <3>1, <3>2
    <3>4. g[x] = Remove(g[y], i)
        BY <1>2, <2>3
    <3>5. x = y \cup {i}
        BY <3>1 DEF RestOf
    <3> HIDE DEF y, i
    <3>6. InOrder(g[x]) /\ ~IsUsed(g[x], i) /\ SameBut(g[y], g[x], i)
        BY <3>3, <3>4, RemoveInOrder
    <3>7. \A j : IsUsed(g[x], j) <=> IsUsed(s, j) /\ j \notin x
        BY <3>3, <3>5, <3>6 DEF SameBut
    <3>8. \A j : IsUsed(g[x], j) => Elem(g[x], j) = Elem(s, j)
        BY <3>3, <3>6 DEF SameBut
    <3> QED BY <3>6, <3>7, <3>8
  <2> QED BY <2>2, <2>3
<1>5. T = Nat
  <2>1. T \in SUBSET Nat
      OBVIOUS
  <2> HIDE DEF T
  <2> QED BY <1>3, <1>4, <2>1, AllNat
<1>6. Cardinality(S) \in Nat /\ Cardinality(S) <= Cardinality(S)
    BY FS_CardinalityType
<1>7. Good(S, g[S])
    BY <1>5, <1>6
<1>8. RemoveAll(s, S) = g[S]
    BY RemoveAllDef DEF g
<1> QED BY <1>7, <1>8

----------------------------------------------------------------------------
(* A Slab and its free list.                                               *)

\* The slab is a record of its four fields.
Shape == Whole(slab)

FreedOK == freed \in Seq(0..slab.n - 1)

\* Every free object is on the list, every object on the list is free.
SInv == Shape /\ SlabTypeOK /\ FreedOK /\ FreeListExact /\ LenExact

\* A new Slab satisfies the invariant.
LEMMA InitSInv == SlabInit => SInv
<1> SUFFICES ASSUME SlabInit PROVE SInv
    OBVIOUS
<1>1. slab = SlabNew /\ freed = <<>>
    BY DEF SlabInit
<1>2. Shape
    BY <1>1, NewFields DEF Shape, Whole
<1>3. slab.n = 0 /\ slab.len = 0 /\ slab.hfree = INVALID_INDEX /\ DOMAIN slab.objs = 0..-1
    BY <1>1, NewFields
<1>4. 0..slab.n - 1 = {} /\ DOMAIN slab.objs = 0..slab.n - 1
    BY <1>3
<1>5. SlabTypeOK
    BY <1>3, <1>4, SlabAssumption DEF SlabTypeOK, INVALID_INDEX
<1>6. DOMAIN freed = {} /\ Len(freed) = 0
    BY <1>1
<1>7. FreedOK /\ FreeListExact /\ LenExact
    BY <1>1, <1>3, <1>4, <1>6 DEF FreedOK, FreeListExact, LenExact
<1> QED BY <1>2, <1>5, <1>7 DEF SInv

\* The invariant, in the terms of the lemmas on chains.
LEMMA SlabFacts ==
    ASSUME SInv
    PROVE  /\ Shape /\ slab.n \in Nat /\ slab.n <= MaxObjs /\ slab.len \in Nat /\ MaxObjs \in Nat
           /\ slab.hfree \in (0..slab.n - 1) \cup {-1}
           /\ DOMAIN slab.objs = 0..slab.n - 1
           /\ freed \in Seq(0..slab.n - 1) /\ slab.len + Len(freed) = slab.n
           /\ Chain(slab.objs, slab.n, slab.hfree, freed)
BY SlabAssumption DEF SInv, SlabTypeOK, FreedOK, FreeListExact, LenExact, Chain, INVALID_INDEX

\* The invariant of the next state, from its parts.
LEMMA NextSInv ==
    ASSUME Shape', NEW n \in 0..MaxObjs, NEW l \in 0..n, NEW o, NEW h, NEW f \in Seq(0..n - 1),
           slab'.n = n, slab'.len = l, slab'.hfree = h, slab'.objs = o, freed' = f,
           h \in (0..n - 1) \cup {-1}, DOMAIN o = 0..n - 1,
           \A i \in 0..n - 1 : \/ o[i].tag = "Used" /\ o[i].val \in Elems
                               \/ o[i].tag = "Free" /\ o[i].val \in (0..n - 1) \cup {-1},
           l + Len(f) = n, Chain(o, n, h, f)
    PROVE  SInv'
<1>1. SlabTypeOK'
    BY DEF SlabTypeOK, INVALID_INDEX
<1>2. FreeListExact'
    BY DEF FreeListExact, Chain, INVALID_INDEX
<1>3. FreedOK' /\ LenExact'
    BY DEF FreedOK, LenExact
<1> QED BY <1>1, <1>2, <1>3 DEF SInv

\* insert preserves the invariant: it pops the chain, or there is none and it grows.
LEMMA InsertSInv ==
    ASSUME SInv, NEW e \in Elems, DoInsert(e)
    PROVE  SInv'
<1> DEFINE n == slab.n
           l == slab.len
           o == slab.objs
           h == slab.hfree
           u == Used(e)
<1>1. /\ Shape /\ n \in Nat /\ n <= MaxObjs /\ l \in Nat /\ MaxObjs \in Nat
      /\ DOMAIN o = 0..n - 1 /\ freed \in Seq(0..n - 1) /\ l + Len(freed) = n
      /\ Chain(o, n, h, freed)
    BY SlabFacts
<1>2. \A i \in 0..n - 1 : \/ o[i].tag = "Used" /\ o[i].val \in Elems
                          \/ o[i].tag = "Free" /\ o[i].val \in (0..n - 1) \cup {-1}
    BY DEF SInv, SlabTypeOK, INVALID_INDEX
<1>3. u.tag = "Used" /\ u.val = e
    BY ObjFields
<1>4. CASE freed # <<>>
  <2> DEFINE t == [o EXCEPT ![h] = u]
  <2>1. freed' = Tail(freed)
      BY <1>4 DEF DoInsert
  <2>2. h \in 0..n - 1 /\ o[h].val \in (0..n - 1) \cup {-1} /\ Chain(t, n, o[h].val, Tail(freed))
      BY <1>1, <1>3, <1>4, PopChain
  <2>3. h # INVALID_INDEX
      BY <1>1, <2>2 DEF INVALID_INDEX
  <2>4. Shape' /\ slab'.n = n /\ slab'.len = l + 1 /\ slab'.hfree = o[h].val /\ slab'.objs = t
      BY <1>1, <2>3, ReuseFields DEF DoInsert, Shape, Whole
  <2>5. /\ DOMAIN t = 0..n - 1
        /\ \A i \in 0..n - 1 : t[i] = IF i = h THEN u ELSE o[i]
      BY <1>1
  <2>6. Tail(freed) \in Seq(0..n - 1) /\ l + 1 + Len(Tail(freed)) = n /\ l + 1 \in 0..n
      BY <1>1, <1>4, TailFacts
  <2> HIDE DEF n, l, o, h, u, t
  <2>7. \A i \in 0..n - 1 : \/ t[i].tag = "Used" /\ t[i].val \in Elems
                            \/ t[i].tag = "Free" /\ t[i].val \in (0..n - 1) \cup {-1}
      BY <1>2, <1>3, <2>5
  <2>8. n \in 0..MaxObjs
      BY <1>1
  <2> QED BY <2>1, <2>2, <2>4, <2>5, <2>6, <2>7, <2>8, NextSInv
<1>5. CASE freed = <<>>
  <2> DEFINE t == [i \in 0..n |-> IF i = n THEN u ELSE o[i]]
  <2>1. h = INVALID_INDEX
      BY <1>1, <1>5 DEF Chain, INVALID_INDEX
  <2>2. freed' = <<>> /\ n < MaxObjs
      BY <1>5, <2>1 DEF DoInsert
  <2>3. slab' = Insert(slab, e)
      BY DEF DoInsert
  <2>4. Shape' /\ slab'.n = n + 1 /\ slab'.len = l + 1 /\ slab'.hfree = h /\ slab'.objs = t
      BY <2>1, <2>3, GrowFields DEF Shape, Whole
  <2>5. \A i \in 0..n - 1 : o[i].tag # "Free"
      BY <1>1, <1>5 DEF Chain
  <2>6. DOMAIN t = 0..n /\ \A i \in 0..n : t[i] = IF i = n THEN u ELSE o[i]
      OBVIOUS
  <2> HIDE DEF n, l, o, h, u, t
  <2>7. n + 1 \in 0..MaxObjs /\ l + 1 \in 0..n + 1 /\ 0..(n + 1) - 1 = 0..n
      BY <1>1, <1>5, <2>2, EmptySeq
  <2>8. \A i \in 0..n : i = n \/ i \in 0..n - 1
      BY <1>1
  <2>9. \A i \in 0..n : t[i].tag = "Used" /\ t[i].val \in Elems
      BY <1>2, <1>3, <2>5, <2>6, <2>8
  <2>10. /\ <<>> \in Seq(0..(n + 1) - 1) /\ l + 1 + Len(<<>>) = n + 1
         /\ h \in (0..(n + 1) - 1) \cup {-1}
      BY <1>1, <1>5, <2>1 DEF INVALID_INDEX
  <2>11. Chain(t, n + 1, h, <<>>)
    <3>1. \A i \in 0..(n + 1) - 1 : t[i].tag # "Free"
        BY <2>7, <2>9
    <3>2. DOMAIN <<>> = {}
        OBVIOUS
    <3> QED BY <2>1, <3>1, <3>2 DEF Chain, INVALID_INDEX
  <2> QED BY <2>2, <2>4, <2>6, <2>7, <2>9, <2>10, <2>11, NextSInv
<1> QED BY <1>4, <1>5

\* remove preserves the invariant: it pushes on the chain, or does nothing.
LEMMA RemoveSInv ==
    ASSUME SInv, NEW i, DoRemove(i)
    PROVE  SInv'
<1>1. CASE ~IsUsed(slab, i)
    BY <1>1 DEF DoRemove, Remove, SInv, Shape, Whole, SlabTypeOK, FreedOK, FreeListExact, LenExact
<1>2. CASE IsUsed(slab, i)
  <2> DEFINE n == slab.n
             l == slab.len
             o == slab.objs
             h == slab.hfree
             u == Free(h)
             t == [o EXCEPT ![i] = u]
             f == <<i>> \o freed
  <2>1. /\ Shape /\ n \in Nat /\ n <= MaxObjs /\ l \in Nat /\ MaxObjs \in Nat
        /\ h \in (0..n - 1) \cup {-1}
        /\ DOMAIN o = 0..n - 1 /\ freed \in Seq(0..n - 1) /\ l + Len(freed) = n
        /\ Chain(o, n, h, freed)
      BY SlabFacts
  <2>2. \A j \in 0..n - 1 : \/ o[j].tag = "Used" /\ o[j].val \in Elems
                            \/ o[j].tag = "Free" /\ o[j].val \in (0..n - 1) \cup {-1}
      BY DEF SInv, SlabTypeOK, INVALID_INDEX
  <2>3. u.tag = "Free" /\ u.val = h
      BY ObjFields
  <2>4. i \in 0..n - 1 /\ o[i].tag = "Used"
      BY <1>2 DEF IsUsed
  <2>5. freed' = f /\ slab' = Remove(slab, i)
      BY <1>2 DEF DoRemove
  <2>6. Shape' /\ slab'.n = n /\ slab'.len = l - 1 /\ slab'.hfree = i /\ slab'.objs = t
      BY <1>2, <2>1, <2>5, RemoveFields DEF Shape, Whole
  <2>7. DOMAIN t = 0..n - 1 /\ \A j \in 0..n - 1 : t[j] = IF j = i THEN u ELSE o[j]
      BY <2>1
  <2>8. Chain(t, n, i, f)
      BY <2>1, <2>3, <2>4, PushChain
  <2>9. f \in Seq(0..n - 1) /\ Len(f) = Len(freed) + 1 /\ Len(freed) \in Nat
      BY <2>1, <2>4, PushFacts, LenProperties
  <2>10. Len(freed) # n
      BY <2>1, <2>4, SomeUsed
  <2> DEFINE m == Len(freed)
             p == Len(f)
  <2>11. l + m = n /\ p = m + 1 /\ m \in Nat /\ m # n
      BY <2>1, <2>9, <2>10
  <2> HIDE DEF n, l, o, h, u, t, f, m, p
  <2>12. l - 1 \in 0..n /\ l - 1 + p = n /\ n \in 0..MaxObjs
      BY <2>1, <2>11
  <2>13. l - 1 \in 0..n /\ l - 1 + Len(f) = n /\ n \in 0..MaxObjs
      BY <2>12 DEF p
  <2>14. \A j \in 0..n - 1 : \/ t[j].tag = "Used" /\ t[j].val \in Elems
                             \/ t[j].tag = "Free" /\ t[j].val \in (0..n - 1) \cup {-1}
      BY <2>1, <2>2, <2>3, <2>7
  <2> QED BY <2>4, <2>5, <2>6, <2>7, <2>8, <2>9, <2>13, <2>14, NextSInv
<1> QED BY <1>1, <1>2

\* clear preserves the invariant: it empties the Slab, or does nothing.
LEMMA ClearSInv ==
    ASSUME SInv, DoClear
    PROVE  SInv'
<1>1. CASE slab.len > 0
  <2>1. SlabInit'
      BY <1>1 DEF DoClear, Clear, SlabInit
  <2>2. (SlabInit => SInv)'
      BY InitSInv, PTL
  <2> QED BY <2>1, <2>2
<1>2. CASE ~(slab.len > 0)
    BY <1>2 DEF DoClear, Clear, SInv, Shape, Whole, SlabTypeOK, FreedOK, FreeListExact, LenExact
<1> QED BY <1>1, <1>2

\* The invariant speaks of slab and freed only.
LEMMA StutterSInv ==
    ASSUME SInv, UNCHANGED svars
    PROVE  SInv'
BY DEF SInv, Shape, Whole, SlabTypeOK, FreedOK, FreeListExact, LenExact, svars

\* SInv is inductive: every call on a Slab, in any order and with any index, keeps the
\* chain through the Free objects exact and the counts right.
THEOREM SlabInvariance == SlabSpec => []SInv
<1>1. SlabInit => SInv
    BY InitSInv
<1>2. SInv /\ [SlabNext]_svars => SInv'
    BY InsertSInv, RemoveSInv, ClearSInv, StutterSInv DEF SlabNext
<1> QED BY <1>1, <1>2, PTL DEF SlabSpec

\* The objects of a Slab stay those of a Vec, and the free list's head one of them.
THEOREM SlabTypeCorrect == SlabSpec => []SlabTypeOK
<1>1. SInv => SlabTypeOK
    BY DEF SInv
<1> QED BY <1>1, SlabInvariance, PTL

\* insert never meets a Used object on the free list and never forgets a Free one.
THEOREM SlabFreeList == SlabSpec => []FreeListExact
<1>1. SInv => FreeListExact
    BY DEF SInv
<1> QED BY <1>1, SlabInvariance, PTL

\* len() is the number of elements: the objects that are not on the free list.
THEOREM SlabLen == SlabSpec => []LenExact
<1>1. SInv => LenExact
    BY DEF SInv
<1> QED BY <1>1, SlabInvariance, PTL

----------------------------------------------------------------------------
(* The Slab implements the map, step by step.                              *)

\* The refinement mapping: the element of a Used object, NoElem under any other index.
Abs == [i \in 0..MaxObjs |-> IF IsUsed(slab, i) THEN Elem(slab, i) ELSE NoElem]

\* insert is MapInsert at the index it returns, which named nothing before.
LEMMA InsertMaps ==
    ASSUME SInv, NEW e \in Elems, DoInsert(e)
    PROVE  \E i \in 0..MaxObjs : Abs[i] = NoElem /\ Abs' = [Abs EXCEPT ![i] = e]
<1> DEFINE n == slab.n
           o == slab.objs
           h == slab.hfree
           u == Used(e)
<1>1. /\ Shape /\ n \in Nat /\ n <= MaxObjs /\ MaxObjs \in Nat
      /\ DOMAIN o = 0..n - 1 /\ freed \in Seq(0..n - 1)
      /\ Chain(o, n, h, freed) /\ h \in (0..n - 1) \cup {-1}
    BY SlabFacts
<1>2. u.tag = "Used" /\ u.val = e /\ slab' = Insert(slab, e)
    BY ObjFields DEF DoInsert
<1>3. CASE h # INVALID_INDEX
  <2>1. freed # <<>> /\ h \in 0..n - 1
      BY <1>1, <1>3 DEF Chain, INVALID_INDEX
  <2>2. o[h].tag = "Free"
    <3>1. 1 \in DOMAIN freed /\ freed[1] = Head(freed)
        BY <1>1, <2>1, TailFacts, LenProperties
    <3> QED BY <1>1, <2>1, <3>1 DEF Chain
  <2>3. slab'.n = n /\ slab'.objs = [o EXCEPT ![h] = u]
      BY <1>1, <1>2, <1>3, ReuseFields DEF DoInsert, Shape
  <2>4. \A i \in 0..n - 1 : slab'.objs[i] = IF i = h THEN u ELSE o[i]
      BY <1>1, <2>3
  <2>5. h \in 0..MaxObjs
      BY <1>1, <2>1
  <2>6. Abs[h] = NoElem
      BY <2>2, <2>5 DEF Abs, IsUsed
  <2>7. \A i \in 0..MaxObjs : Abs'[i] = IF i = h THEN e ELSE Abs[i]
      BY <1>2, <2>1, <2>3, <2>4, <2>5 DEF Abs, IsUsed, Elem
  <2>8. Abs' = [Abs EXCEPT ![h] = e]
      BY <2>7 DEF Abs
  <2> QED BY <2>5, <2>6, <2>8
<1>4. CASE h = INVALID_INDEX
  <2>1. n < MaxObjs
      BY <1>4 DEF DoInsert
  <2>2. slab'.n = n + 1 /\ slab'.objs = [i \in 0..n |-> IF i = n THEN u ELSE o[i]]
      BY <1>2, <1>4, GrowFields
  <2>3. n \in 0..MaxObjs /\ n \notin 0..n - 1 /\ 0..(n + 1) - 1 = 0..n
      BY <1>1, <2>1
  <2>4. \A i \in 0..n : i # n => i \in 0..n - 1
      BY <1>1
  <2>5. \A i \in 0..n - 1 : i \in 0..n /\ i # n
      BY <1>1
  <2>6. Abs[n] = NoElem
      BY <2>3 DEF Abs, IsUsed
  <2>7. \A i \in 0..n : slab'.objs[i] = IF i = n THEN u ELSE o[i]
      BY <2>2
  <2>8. slab'.n - 1 = n
      BY <1>1, <2>2
  <2>9. \A i \in 0..MaxObjs : Abs'[i] = IF i = n THEN e ELSE Abs[i]
    <3> SUFFICES ASSUME NEW i \in 0..MaxObjs
                 PROVE  Abs'[i] = IF i = n THEN e ELSE Abs[i]
        OBVIOUS
    <3>1. Abs'[i] = IF i \in 0..n /\ slab'.objs[i].tag = "Used" THEN slab'.objs[i].val ELSE NoElem
        BY <2>8 DEF Abs, IsUsed, Elem
    <3>2. Abs[i] = IF i \in 0..n - 1 /\ o[i].tag = "Used" THEN o[i].val ELSE NoElem
        BY DEF Abs, IsUsed, Elem
    <3>3. n \in 0..n
        BY <1>1
    <3> HIDE DEF n, o, u
    <3> QED BY <1>2, <2>4, <2>5, <2>7, <3>1, <3>2, <3>3
  <2>10. Abs' = [Abs EXCEPT ![n] = e]
      BY <2>9 DEF Abs
  <2> QED BY <2>3, <2>6, <2>10
<1> QED BY <1>3, <1>4

\* remove is MapRemove at its index, and nothing when the index names nothing.
LEMMA RemoveMaps ==
    ASSUME SInv, NEW i \in 0..MaxObjs, DoRemove(i)
    PROVE  Abs' = [Abs EXCEPT ![i] = NoElem]
<1>1. CASE ~IsUsed(slab, i)
  <2>1. slab' = slab
      BY <1>1 DEF DoRemove, Remove
  <2>2. Abs' = Abs /\ Abs[i] = NoElem
      BY <1>1, <2>1 DEF Abs, IsUsed, Elem
  <2> QED BY <2>2 DEF Abs
<1>2. CASE IsUsed(slab, i)
  <2>1. Shape /\ DOMAIN slab.objs = 0..slab.n - 1 /\ i \in 0..slab.n - 1
      BY <1>2, SlabFacts DEF IsUsed
  <2>2. slab'.n = slab.n /\ slab'.objs = [slab.objs EXCEPT ![i] = Free(slab.hfree)]
      BY <1>2, <2>1, RemoveFields DEF DoRemove, Shape
  <2>3. Free(slab.hfree).tag # "Used"
      BY ObjFields
  <2>4. \A j \in 0..slab.n - 1 :
            slab'.objs[j] = IF j = i THEN Free(slab.hfree) ELSE slab.objs[j]
      BY <2>1, <2>2
  <2>5. \A j \in 0..MaxObjs : Abs'[j] = IF j = i THEN NoElem ELSE Abs[j]
      BY <2>1, <2>2, <2>3, <2>4 DEF Abs, IsUsed, Elem
  <2> QED BY <2>5 DEF Abs
<1> QED BY <1>1, <1>2

\* clear is MapClear, and nothing when no index names an element.
LEMMA ClearMaps ==
    ASSUME SInv, DoClear
    PROVE  Abs' = Abs \/ Abs' = [i \in 0..MaxObjs |-> NoElem]
<1>1. CASE slab.len > 0
  <2>1. slab' = SlabNew
      BY <1>1 DEF DoClear, Clear
  <2>2. 0..slab'.n - 1 = {}
      BY <2>1, NewFields
  <2> QED BY <2>2 DEF Abs, IsUsed
<1>2. CASE ~(slab.len > 0)
    BY <1>2 DEF DoClear, Clear, Abs, IsUsed, Elem
<1> QED BY <1>1, <1>2

\* Every execution of a Slab is one of the map: an insertion takes an index that names
\* nothing and disturbs no other element, a removal takes away no element but its own.
THEOREM SlabImplementsMap == SlabSpec => ImplementsMap
<1>1. SlabInit => Map!MapInit
  <2> SUFFICES ASSUME SlabInit PROVE Abs = [i \in 0..MaxObjs |-> NoElem]
      BY DEF Map!MapInit, Abs
  <2>1. 0..slab.n - 1 = {}
      BY NewFields DEF SlabInit
  <2> QED BY <2>1 DEF Abs, IsUsed
<1>2. SInv /\ [SlabNext]_svars => [Map!MapNext]_Abs
  <2> SUFFICES ASSUME SInv, [SlabNext]_svars PROVE Map!MapNext \/ Abs' = Abs
      OBVIOUS
  <2>1. ASSUME NEW e \in Elems, DoInsert(e) PROVE Map!MapNext
      BY <2>1, InsertMaps DEF Map!MapNext, Map!MapInsert, Abs
  <2>2. ASSUME NEW i \in 0..MaxObjs, DoRemove(i) PROVE Map!MapNext
      BY <2>2, RemoveMaps DEF Map!MapNext, Map!MapRemove, Abs
  <2>3. ASSUME DoClear PROVE Map!MapNext \/ Abs' = Abs
      BY <2>3, ClearMaps DEF Map!MapNext, Map!MapClear, Abs
  <2>4. CASE UNCHANGED svars
      BY <2>4 DEF svars, Abs, IsUsed, Elem
  <2> QED BY <2>1, <2>2, <2>3, <2>4 DEF SlabNext
<1> QED BY <1>1, <1>2, SlabInvariance, PTL DEF SlabSpec, ImplementsMap, Map!MapSpec, Abs
=============================================================================

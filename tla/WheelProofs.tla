----------------------------- MODULE WheelProofs -----------------------------
(***************************************************************************)
(* The timing wheel of src/reactor/wheel.rs, for any number of slots,      *)
(* timers and tasks and any timeouts: the list is sound, and every timer   *)
(* expires in the tick it was made for, whatever tasks do to the list in   *)
(* the middle of a tick that walks it.                                     *)
(*                                                                         *)
(* The proofs look at the list as a ring: while tick walks it, the marker  *)
(* it started from and the token it goes to next count as neighbours,      *)
(* which is what the end of the tick makes them.  To visit an entry is     *)
(* then to take it out of the ring.                                        *)
(***************************************************************************)
EXTENDS Wheel, SlabProofs

Tokens == [k : {"E", "S", "Nil"}, i : Int]

\* Places on the wheel, without the modulus.
LEMMA LaterFacts ==
    ASSUME NEW c \in 0..Mask, NEW d \in 0..Mask
    PROVE  /\ Later(c, d) = IF c + d < NumSlots THEN c + d ELSE c + d - NumSlots
           /\ Later(c, d) \in 0..Mask
<1>1. NumSlots \in Nat /\ NumSlots > 1
    BY WheelAssumption DEF WheelAssumption
<1>2. CASE c + d < NumSlots
    BY <1>1, <1>2 DEF Later, effective_slot, Mask
<1>3. CASE ~(c + d < NumSlots)
    BY <1>1, <1>3 DEF Later, effective_slot, Mask
<1> QED BY <1>2, <1>3

----------------------------------------------------------------------------
(* Rings.                                                                  *)

Markers == {S(i) : i \in 0..Mask}

\* The slot of what follows token a.
SlotAfter(sl, a) == IF a.k = "S" THEN Later(a.i, 1) ELSE sl[a]

\* L is a ring under nx and pv; what stands between two markers has the slot of the
\* second; and no entries form a ring of their own, without a marker.
Ring(L, nx, pv, sl) ==
    /\ Markers \subseteq L /\ L \subseteq Tokens /\ \A a \in L : a.k = "S" => a \in Markers
    /\ \A a \in L : a.k # "Nil"
    /\ \A a \in L : nx[a] \in L /\ pv[nx[a]] = a
    /\ \A a \in L : pv[a] \in L /\ nx[pv[a]] = a
    /\ \A a \in L : sl[nx[a]] = SlotAfter(sl, a)
    /\ \A m \in Markers : sl[m] = m.i
    /\ \A T \in SUBSET L : T # {} /\ (\A a \in T : a.k = "E") => \E a \in T : pv[a] \notin T

\* The ring depends on the links of its own tokens only.
LEMMA RingSame ==
    ASSUME NEW L, NEW nx, NEW pv, NEW sl, NEW nx2, NEW pv2, NEW sl2, Ring(L, nx, pv, sl),
           \A a \in L : nx2[a] = nx[a] /\ pv2[a] = pv[a] /\ sl2[a] = sl[a]
    PROVE  Ring(L, nx2, pv2, sl2)
<1> USE DEF Ring, SlotAfter
<1>1. \A a \in L : nx2[a] \in L /\ pv2[nx2[a]] = a /\ pv2[a] \in L /\ nx2[pv2[a]] = a
    OBVIOUS
<1>2. \A a \in L : sl2[nx2[a]] = SlotAfter(sl2, a)
    OBVIOUS
<1>3. \A m \in Markers : sl2[m] = m.i
    OBVIOUS
<1>4. \A T \in SUBSET L : T # {} /\ (\A a \in T : a.k = "E") => \E a \in T : pv2[a] \notin T
    OBVIOUS
<1> QED BY <1>1, <1>2, <1>3, <1>4

\* An entry is taken out.
LEMMA RingOut ==
    ASSUME NEW L, NEW nx, NEW pv, NEW sl, NEW nx2, NEW pv2, NEW sl2, Ring(L, nx, pv, sl),
           NEW e \in L, e.k = "E", nx2[pv[e]] = nx[e], pv2[nx[e]] = pv[e],
           \A a \in L \ {e} : /\ a # pv[e] => nx2[a] = nx[a]
                              /\ a # nx[e] => pv2[a] = pv[a]
                              /\ sl2[a] = sl[a]
    PROVE  Ring(L \ {e}, nx2, pv2, sl2)
<1> DEFINE K == L \ {e}
           p == pv[e]
           n == nx[e]
<1>1. p \in L /\ n \in L /\ nx[p] = e /\ pv[n] = e
    BY DEF Ring
<1>2. p # e /\ n # e
  <2>1. \E a \in {e} : pv[a] \notin {e}
      BY DEF Ring
  <2> QED BY <1>1, <2>1
<1>3. \A a \in K : (a # p => nx[a] \in K) /\ (a # n => pv[a] \in K)
  <2> SUFFICES ASSUME NEW a \in K PROVE (a # p => nx[a] \in K) /\ (a # n => pv[a] \in K)
      OBVIOUS
  <2>1. nx[a] \in L /\ pv[nx[a]] = a /\ pv[a] \in L /\ nx[pv[a]] = a
      BY DEF Ring
  <2> QED BY <2>1
<1>4. ASSUME NEW a \in K
      PROVE  nx2[a] \in K /\ pv2[nx2[a]] = a /\ sl2[nx2[a]] = SlotAfter(sl2, a)
  <2>1. sl2[a] = sl[a] /\ sl[nx[a]] = SlotAfter(sl, a)
      BY DEF Ring
  <2>2. CASE a = p
    <3>1. nx2[a] = n /\ n \in K /\ pv2[n] = p
        BY <1>1, <1>2, <2>2
    <3>2. sl[n] = sl[e] /\ sl[e] = SlotAfter(sl, a) /\ sl2[n] = sl[n]
        BY <1>1, <2>2, <3>1 DEF Ring, SlotAfter
    <3> QED BY <2>1, <2>2, <3>1, <3>2 DEF SlotAfter
  <2>3. CASE a # p
    <3>1. nx2[a] = nx[a] /\ nx[a] \in K /\ pv[nx[a]] = a
        BY <1>3, <2>3 DEF Ring
    <3>2. nx[a] # n
        BY <1>1, <3>1
    <3>3. pv2[nx[a]] = a /\ sl2[nx[a]] = sl[nx[a]]
        BY <3>1, <3>2
    <3> QED BY <2>1, <3>1, <3>3 DEF SlotAfter
  <2> QED BY <2>2, <2>3
<1>5. ASSUME NEW a \in K
      PROVE  pv2[a] \in K /\ nx2[pv2[a]] = a
  <2>1. CASE a = n
      BY <1>1, <1>2, <2>1
  <2>2. CASE a # n
    <3>1. pv2[a] = pv[a] /\ pv[a] \in K /\ nx[pv[a]] = a
        BY <1>3, <2>2 DEF Ring
    <3>2. pv[a] # p
        BY <1>1, <3>1
    <3> QED BY <3>1, <3>2
  <2> QED BY <2>1, <2>2
<1>6. ASSUME NEW T \in SUBSET K, T # {}, \A a \in T : a.k = "E"
      PROVE  \E a \in T : pv2[a] \notin T
  <2> SUFFICES ASSUME \A a \in T : pv2[a] \in T PROVE FALSE
      OBVIOUS
  <2>1. CASE n \in T
    <3> DEFINE U == T \cup {e}
    <3>1. U \in SUBSET L /\ U # {} /\ \A a \in U : a.k = "E"
        BY <1>6
    <3>2. pv[e] \in U
        BY <2>1
    <3>3. \A a \in T : pv[a] \in U
      <4> SUFFICES ASSUME NEW a \in T PROVE pv[a] \in U
          OBVIOUS
      <4>1. a = n => pv[a] = e
          BY <1>1
      <4>2. a # n => pv[a] = pv2[a]
          OBVIOUS
      <4> QED BY <4>1, <4>2
    <3>4. \A a \in U : pv[a] \in U
        BY <3>2, <3>3
    <3> HIDE DEF U
    <3> QED BY <3>1, <3>4 DEF Ring
  <2>2. CASE n \notin T
    <3>1. T \in SUBSET L /\ \A a \in T : pv[a] = pv2[a]
        BY <2>2
    <3> QED BY <1>6, <3>1 DEF Ring
  <2> QED BY <2>1, <2>2
<1>7. Markers \subseteq K
  <2>1. \A m \in Markers : m.k = "S"
      BY DEF Markers, S
  <2> QED BY <2>1 DEF Ring
<1>8. \A m \in Markers : sl2[m] = m.i
    BY <1>7 DEF Ring
<1>9. K \subseteq Tokens /\ \A a \in K : (a.k = "S" => a \in Markers) /\ a.k # "Nil"
    BY DEF Ring
<1> HIDE DEF K
<1>10. Ring(K, nx2, pv2, sl2)
    BY <1>4, <1>5, <1>6, <1>7, <1>8, <1>9 DEF Ring
<1> QED BY <1>10 DEF K

\* An entry is put in front of a marker.
LEMMA RingIn ==
    ASSUME NEW L, NEW nx, NEW pv, NEW sl, NEW nx2, NEW pv2, NEW sl2, Ring(L, nx, pv, sl),
           NEW m \in Markers, NEW e \in Tokens, e \notin L, e.k = "E",
           nx2[pv[m]] = e, nx2[e] = m, pv2[m] = e, pv2[e] = pv[m], sl2[e] = m.i,
           \A a \in L : /\ a # pv[m] => nx2[a] = nx[a]
                        /\ a # m => pv2[a] = pv[a]
                        /\ sl2[a] = sl[a]
    PROVE  Ring(L \cup {e}, nx2, pv2, sl2)
<1> DEFINE K == L \cup {e}
           p == pv[m]
<1>0. m.k = "S"
    BY DEF Markers, S
<1>1. m \in L /\ p \in L /\ nx[p] = m /\ m # e /\ p # e
    BY DEF Ring
<1>2. \A a \in L : nx[a] \in L /\ pv[nx[a]] = a /\ pv[a] \in L /\ nx[pv[a]] = a
    BY DEF Ring
<1>3. ASSUME NEW a \in K
      PROVE  nx2[a] \in K /\ pv2[nx2[a]] = a /\ sl2[nx2[a]] = SlotAfter(sl2, a)
  <2>1. CASE a = e
    <3>1. sl2[m] = m.i
        BY <1>1 DEF Ring
    <3> QED BY <1>1, <2>1, <3>1 DEF SlotAfter
  <2>2. CASE a = p
    <3>1. sl[m] = SlotAfter(sl, p) /\ sl[m] = m.i /\ sl2[p] = sl[p]
        BY <1>1 DEF Ring
    <3> QED BY <1>1, <2>2, <3>1 DEF SlotAfter
  <2>3. CASE a # e /\ a # p
    <3>1. nx2[a] = nx[a] /\ nx[a] \in L /\ pv[nx[a]] = a /\ sl2[a] = sl[a]
        BY <1>2, <2>3
    <3>2. nx[a] # m
        BY <2>3, <3>1
    <3>3. sl[nx[a]] = SlotAfter(sl, a)
        BY <2>3 DEF Ring
    <3> QED BY <3>1, <3>2, <3>3 DEF SlotAfter
  <2> QED BY <2>1, <2>2, <2>3
<1>4. ASSUME NEW a \in K
      PROVE  pv2[a] \in K /\ nx2[pv2[a]] = a
  <2>1. CASE a = e \/ a = m
      BY <1>1, <2>1
  <2>2. CASE a # e /\ a # m
    <3>1. pv2[a] = pv[a] /\ pv[a] \in L /\ nx[pv[a]] = a
        BY <1>2, <2>2
    <3>2. pv[a] # p
        BY <1>1, <2>2, <3>1
    <3> QED BY <3>1, <3>2
  <2> QED BY <2>1, <2>2
<1>5. ASSUME NEW T \in SUBSET K, T # {}, \A a \in T : a.k = "E"
      PROVE  \E a \in T : pv2[a] \notin T
  <2> SUFFICES ASSUME \A a \in T : pv2[a] \in T PROVE FALSE
      OBVIOUS
  <2> DEFINE U == T \ {e}
  <2>1. m \notin T
      BY <1>0, <1>5
  <2>2. U \in SUBSET L /\ \A a \in U : a.k = "E"
      BY <1>5
  <2>3. \A a \in U : pv[a] \in U
    <3> SUFFICES ASSUME NEW a \in U PROVE pv[a] \in U
        OBVIOUS
    <3>1. a \in L /\ a # m /\ pv2[a] \in T
        BY <2>1, <2>2
    <3>2. pv[a] = pv2[a] /\ pv[a] \in L
        BY <1>2, <3>1
    <3> QED BY <3>1, <3>2
  <2>4. U # {}
    <3>1. CASE e \in T
      <4>1. p \in T
          BY <3>1
      <4> QED BY <1>1, <4>1
    <3>2. CASE e \notin T
        BY <1>5, <3>2
    <3> QED BY <3>1, <3>2
  <2> HIDE DEF U
  <2> QED BY <2>2, <2>3, <2>4 DEF Ring
<1>6. Markers \subseteq K /\ \A x \in Markers : sl2[x] = x.i
    BY DEF Ring
<1>7. K \subseteq Tokens /\ \A a \in K : (a.k = "S" => a \in Markers) /\ a.k # "Nil"
    BY DEF Ring
<1> HIDE DEF K
<1>8. Ring(K, nx2, pv2, sl2)
    BY <1>3, <1>4, <1>5, <1>6, <1>7 DEF Ring
<1> QED BY <1>8 DEF K

\* What is in front of the marker after m, if the marker follows m at once: nothing.
LEMMA SlotEmpty ==
    ASSUME NEW L, NEW nx, NEW pv, NEW sl, Ring(L, nx, pv, sl), NEW c \in 0..Mask,
           nx[S(c)].k = "S", NEW e \in L, e.k = "E"
    PROVE  sl[e] # Later(c, 1)
<1> SUFFICES ASSUME sl[e] = Later(c, 1) PROVE FALSE
    OBVIOUS
<1> DEFINE T == {a \in L : a.k = "E" /\ sl[a] = Later(c, 1)}
<1>1. T \in SUBSET L /\ T # {} /\ \A a \in T : a.k = "E"
    OBVIOUS
<1>2. PICK a \in T : pv[a] \notin T
    BY <1>1 DEF Ring
<1>3. a \in L /\ a.k = "E" /\ sl[a] = Later(c, 1) /\ pv[a] \in L /\ nx[pv[a]] = a
    BY <1>2 DEF Ring
<1>4. sl[a] = SlotAfter(sl, pv[a])
    BY <1>3 DEF Ring
<1>5. CASE pv[a].k # "S"
  <2>1. pv[a].k = "E"
      BY <1>3, <1>5 DEF Ring, Tokens
  <2> QED BY <1>2, <1>3, <1>4, <1>5, <2>1 DEF SlotAfter
<1>6. CASE pv[a].k = "S"
  <2>1. PICK i \in 0..Mask : pv[a] = S(i)
      BY <1>3, <1>6 DEF Ring, Markers
  <2>2. S(i).k = "S" /\ S(i).i = i
      BY DEF S
  <2>3. Later(i, 1) = Later(c, 1)
      BY <1>3, <1>4, <2>1, <2>2 DEF SlotAfter
  <2>4. NumSlots \in Nat /\ NumSlots > 1 /\ Mask = NumSlots - 1 /\ 1 \in 0..Mask
      BY WheelAssumption DEF WheelAssumption, Mask
  <2>5. i = c
    <3>1. Later(i, 1) = IF i + 1 < NumSlots THEN i + 1 ELSE i + 1 - NumSlots
        BY <2>4, LaterFacts
    <3>2. Later(c, 1) = IF c + 1 < NumSlots THEN c + 1 ELSE c + 1 - NumSlots
        BY <2>4, LaterFacts
    <3> QED BY <2>3, <2>4, <3>1, <3>2
  <2> QED BY <1>3, <2>1, <2>5
<1> QED BY <1>5, <1>6

----------------------------------------------------------------------------
(* The links.                                                              *)

Links == [prev : Tokens, next : Tokens]
EntryType == [prev : Tokens, next : Tokens, task : Tasks, slot : 0..Mask, exp : Int]

\* Inner, a slab in order among its fields, and no unreachable case reached.
Sound(x) ==
    /\ x = [entries |-> x.entries, slots |-> x.slots, cur |-> x.cur, bad |-> x.bad]
    /\ InOrder(x.entries) /\ \A i : IsUsed(x.entries, i) => Entry(x, i) \in EntryType
    /\ x.slots \in [0..Mask -> Links] /\ x.cur \in 0..Mask /\ x.bad = FALSE

\* A marker, or an entry that is there.
Present(x, a) == a \in Markers \/ (a \in Tokens /\ a.k = "E" /\ IsUsed(x.entries, a.i))
NextIn(x, a) == IF a.k = "S" THEN x.slots[a.i].next ELSE Entry(x, a.i).next
PrevIn(x, a) == IF a.k = "S" THEN x.slots[a.i].prev ELSE Entry(x, a.i).prev

\* Entry i keeps all but its links.
SameEntry(x, y, i) ==
    /\ IsUsed(y.entries, i) <=> IsUsed(x.entries, i)
    /\ IsUsed(x.entries, i) => /\ Entry(y, i).task = Entry(x, i).task
                               /\ Entry(y, i).slot = Entry(x, i).slot
                               /\ Entry(y, i).exp = Entry(x, i).exp

\* Markers and entries as tokens.
LEMMA TokenFacts ==
    /\ \A i : S(i).k = "S" /\ S(i).i = i /\ E(i).k = "E" /\ E(i).i = i
    /\ \A i \in Int : S(i) \in Tokens /\ E(i) \in Tokens
    /\ \A a \in Tokens : (a.k = "E" => a = E(a.i)) /\ (a.k = "S" => a = S(a.i)) /\ (a.k = "Nil" => TRUE)
    /\ Nil \in Tokens /\ Nil.k = "Nil"
    /\ Markers \subseteq Tokens /\ \A m \in Markers : m.k = "S" /\ m.i \in 0..Mask /\ m = S(m.i)
    /\ \A i \in 0..Mask : S(i) \in Markers
    /\ Mask \in Nat /\ Mask >= 1 /\ NumSlots = Mask + 1
<1>1. /\ \A i : S(i).k = "S" /\ S(i).i = i /\ E(i).k = "E" /\ E(i).i = i
      /\ \A i \in Int : S(i) \in Tokens /\ E(i) \in Tokens
    BY DEF S, E, Tokens
<1>2. \A a \in Tokens : (a.k = "E" => a = E(a.i)) /\ (a.k = "S" => a = S(a.i)) /\ (a.k = "Nil" => TRUE)
    BY DEF S, E, Tokens
<1>3. Nil \in Tokens /\ Nil.k = "Nil"
    BY DEF Nil, Tokens
<1>4. Mask \in Nat /\ Mask >= 1 /\ NumSlots = Mask + 1
    BY WheelAssumption DEF WheelAssumption, Mask
<1>5. /\ Markers \subseteq Tokens /\ \A m \in Markers : m.k = "S" /\ m.i \in 0..Mask /\ m = S(m.i)
      /\ \A i \in 0..Mask : S(i) \in Markers
    BY <1>1, <1>4 DEF Markers
<1> QED BY <1>1, <1>2, <1>3, <1>4, <1>5

\* An entry is changed.
LEMMA SetEntryFacts ==
    ASSUME NEW x, Sound(x), NEW id, IsUsed(x.entries, id), NEW e \in EntryType
    PROVE  LET y == SetEntry(x, id, e) IN
           /\ Sound(y) /\ y.cur = x.cur /\ y.slots = x.slots
           /\ IsUsed(y.entries, id) /\ Entry(y, id) = e
           /\ SameBut(x.entries, y.entries, id)
<1> DEFINE z == Update(x.entries, id, e)
           y == SetEntry(x, id, e)
<1>1. y = [x EXCEPT !.entries = z]
    BY DEF SetEntry
<1>2. InOrder(z) /\ IsUsed(z, id) /\ Elem(z, id) = e /\ SameBut(x.entries, z, id)
    BY UpdateInOrder DEF Sound
<1> HIDE DEF z
<1>3. /\ y.entries = z /\ y.slots = x.slots /\ y.cur = x.cur /\ y.bad = x.bad
      /\ y = [entries |-> y.entries, slots |-> y.slots, cur |-> y.cur, bad |-> y.bad]
    BY <1>1 DEF Sound
<1> HIDE DEF y
<1>4. \A i : IsUsed(z, i) => Entry(y, i) \in EntryType
  <2> SUFFICES ASSUME NEW i, IsUsed(z, i) PROVE Entry(y, i) \in EntryType
      OBVIOUS
  <2>1. CASE i = id
      BY <1>2, <1>3, <2>1 DEF Entry
  <2>2. CASE i # id
    <3>1. IsUsed(x.entries, i) /\ Elem(z, i) = Elem(x.entries, i)
        BY <1>2, <2>2 DEF SameBut
    <3> QED BY <1>3, <3>1 DEF Entry, Sound
  <2> QED BY <2>1, <2>2
<1>5. Sound(y)
    BY <1>2, <1>3, <1>4 DEF Sound
<1>6. IsUsed(y.entries, id) /\ Entry(y, id) = e /\ SameBut(x.entries, y.entries, id)
    BY <1>2, <1>3 DEF Entry
<1> QED BY <1>3, <1>5, <1>6 DEF y

\* The links of a slot are changed.
WithSlot(x, s, l) == [x EXCEPT !.slots = [x.slots EXCEPT ![s] = l]]
LEMMA SetSlotFacts ==
    ASSUME NEW x, Sound(x), NEW s \in 0..Mask, NEW l \in Links
    PROVE  LET y == WithSlot(x, s, l) IN
           /\ Sound(y) /\ y.cur = x.cur /\ y.entries = x.entries
           /\ y.slots[s] = l /\ \A i \in 0..Mask : i # s => y.slots[i] = x.slots[i]
<1> DEFINE y == WithSlot(x, s, l)
<1>1. /\ y.entries = x.entries /\ y.slots = [x.slots EXCEPT ![s] = l] /\ y.cur = x.cur /\ y.bad = x.bad
      /\ y = [entries |-> y.entries, slots |-> y.slots, cur |-> y.cur, bad |-> y.bad]
    BY DEF Sound, WithSlot
<1> HIDE DEF y
<1>2. x.slots \in [0..Mask -> Links]
    BY DEF Sound
<1>3. y.slots \in [0..Mask -> Links] /\ y.slots[s] = l /\ \A i \in 0..Mask : i # s => y.slots[i] = x.slots[i]
    BY <1>1, <1>2
<1>4. \A i : Entry(y, i) = Entry(x, i)
    BY <1>1 DEF Entry
<1>5. Sound(y)
    BY <1>1, <1>3, <1>4 DEF Sound
<1> QED BY <1>1, <1>3, <1>5 DEF y

\* prev.next = tok.
LEMMA SetNextFacts ==
    ASSUME NEW x, Sound(x), NEW at, Present(x, at), NEW tok \in Tokens
    PROVE  LET y == SetNext(x, at, tok) IN
           /\ Sound(y) /\ y.cur = x.cur /\ \A i : SameEntry(x, y, i)
           /\ \A a : Present(x, a) => /\ PrevIn(y, a) = PrevIn(x, a)
                                      /\ NextIn(y, a) = IF a = at THEN tok ELSE NextIn(x, a)
<1> DEFINE y == SetNext(x, at, tok)
<1>0. at \in Tokens /\ (at.k = "S" \/ at.k = "E") /\ (at.k = "S" => at.i \in 0..Mask)
    BY TokenFacts DEF Present
<1>1. CASE at.k = "S"
  <2> DEFINE l == [x.slots[at.i] EXCEPT !.next = tok]
  <2>1. y = WithSlot(x, at.i, l)
      BY <1>1 DEF SetNext, WithSlot
  <2>2. x.slots[at.i] \in Links
      BY <1>0, <1>1 DEF Sound
  <2>3. l \in Links /\ l.next = tok /\ l.prev = x.slots[at.i].prev
      BY <2>2 DEF Links
  <2> HIDE DEF l, y
  <2>4. /\ Sound(y) /\ y.cur = x.cur /\ y.entries = x.entries
        /\ y.slots[at.i] = l /\ \A i \in 0..Mask : i # at.i => y.slots[i] = x.slots[i]
      BY <1>0, <1>1, <2>1, <2>3, SetSlotFacts
  <2>5. \A i : Entry(y, i) = Entry(x, i) /\ SameEntry(x, y, i)
      BY <2>4 DEF Entry, SameEntry
  <2>6. ASSUME NEW a, Present(x, a)
        PROVE  PrevIn(y, a) = PrevIn(x, a) /\ NextIn(y, a) = IF a = at THEN tok ELSE NextIn(x, a)
    <3>1. a \in Tokens /\ (a.k = "S" => a.i \in 0..Mask)
        BY <2>6, TokenFacts DEF Present
    <3>2. a.k = "S" => (a = at <=> a.i = at.i)
        BY <1>0, <1>1, <3>1, TokenFacts
    <3> QED BY <1>1, <2>3, <2>4, <2>5, <3>1, <3>2 DEF PrevIn, NextIn
  <2> QED BY <2>4, <2>5, <2>6 DEF y
<1>2. CASE at.k = "E"
  <2> DEFINE e == [Entry(x, at.i) EXCEPT !.next = tok]
  <2>1. IsUsed(x.entries, at.i)
      BY <1>2, TokenFacts DEF Present
  <2>2. y = SetEntry(x, at.i, e)
      BY <1>2, <2>1 DEF SetNext
  <2>3. Entry(x, at.i) \in EntryType
      BY <2>1 DEF Sound
  <2>4. /\ e \in EntryType /\ e.next = tok /\ e.prev = Entry(x, at.i).prev
        /\ e.task = Entry(x, at.i).task /\ e.slot = Entry(x, at.i).slot /\ e.exp = Entry(x, at.i).exp
      BY <2>3 DEF EntryType
  <2> HIDE DEF e
  <2>5. /\ Sound(y) /\ y.cur = x.cur /\ y.slots = x.slots
        /\ IsUsed(y.entries, at.i) /\ Entry(y, at.i) = e
        /\ SameBut(x.entries, y.entries, at.i)
      BY <2>1, <2>2, <2>4, SetEntryFacts
  <2> HIDE DEF y
  <2>6. \A i : i # at.i /\ IsUsed(x.entries, i) => Entry(y, i) = Entry(x, i)
      BY <2>5 DEF SameBut, Entry
  <2>7. ASSUME NEW i PROVE SameEntry(x, y, i)
    <3>1. CASE i = at.i
        BY <2>1, <2>4, <2>5, <3>1 DEF SameEntry
    <3>2. CASE i # at.i
        BY <2>5, <2>6, <3>2 DEF SameEntry, SameBut
    <3> QED BY <3>1, <3>2
  <2>8. ASSUME NEW a, Present(x, a)
        PROVE  PrevIn(y, a) = PrevIn(x, a) /\ NextIn(y, a) = IF a = at THEN tok ELSE NextIn(x, a)
    <3>1. a \in Tokens /\ (a.k # "S" => a.k = "E" /\ IsUsed(x.entries, a.i))
        BY <2>8, TokenFacts DEF Present
    <3>2. a.k # "S" => (a = at <=> a.i = at.i)
        BY <1>0, <1>2, <3>1, TokenFacts
    <3> QED BY <1>2, <2>4, <2>5, <2>6, <3>1, <3>2 DEF PrevIn, NextIn
  <2> QED BY <2>5, <2>7, <2>8 DEF y
<1> QED BY <1>0, <1>1, <1>2

\* next.prev = tok.
LEMMA SetPrevFacts ==
    ASSUME NEW x, Sound(x), NEW at, Present(x, at), NEW tok \in Tokens
    PROVE  LET y == SetPrev(x, at, tok) IN
           /\ Sound(y) /\ y.cur = x.cur /\ \A i : SameEntry(x, y, i)
           /\ \A a : Present(x, a) => /\ NextIn(y, a) = NextIn(x, a)
                                      /\ PrevIn(y, a) = IF a = at THEN tok ELSE PrevIn(x, a)
<1> DEFINE y == SetPrev(x, at, tok)
<1>0. at \in Tokens /\ (at.k = "S" \/ at.k = "E") /\ (at.k = "S" => at.i \in 0..Mask)
    BY TokenFacts DEF Present
<1>1. CASE at.k = "S"
  <2> DEFINE l == [x.slots[at.i] EXCEPT !.prev = tok]
  <2>1. y = WithSlot(x, at.i, l)
      BY <1>1 DEF SetPrev, WithSlot
  <2>2. x.slots[at.i] \in Links
      BY <1>0, <1>1 DEF Sound
  <2>3. l \in Links /\ l.prev = tok /\ l.next = x.slots[at.i].next
      BY <2>2 DEF Links
  <2> HIDE DEF l, y
  <2>4. /\ Sound(y) /\ y.cur = x.cur /\ y.entries = x.entries
        /\ y.slots[at.i] = l /\ \A i \in 0..Mask : i # at.i => y.slots[i] = x.slots[i]
      BY <1>0, <1>1, <2>1, <2>3, SetSlotFacts
  <2>5. \A i : Entry(y, i) = Entry(x, i) /\ SameEntry(x, y, i)
      BY <2>4 DEF Entry, SameEntry
  <2>6. ASSUME NEW a, Present(x, a)
        PROVE  NextIn(y, a) = NextIn(x, a) /\ PrevIn(y, a) = IF a = at THEN tok ELSE PrevIn(x, a)
    <3>1. a \in Tokens /\ (a.k = "S" => a.i \in 0..Mask)
        BY <2>6, TokenFacts DEF Present
    <3>2. a.k = "S" => (a = at <=> a.i = at.i)
        BY <1>0, <1>1, <3>1, TokenFacts
    <3> QED BY <1>1, <2>3, <2>4, <2>5, <3>1, <3>2 DEF PrevIn, NextIn
  <2> QED BY <2>4, <2>5, <2>6 DEF y
<1>2. CASE at.k = "E"
  <2> DEFINE e == [Entry(x, at.i) EXCEPT !.prev = tok]
  <2>1. IsUsed(x.entries, at.i)
      BY <1>2, TokenFacts DEF Present
  <2>2. y = SetEntry(x, at.i, e)
      BY <1>2, <2>1 DEF SetPrev
  <2>3. Entry(x, at.i) \in EntryType
      BY <2>1 DEF Sound
  <2>4. /\ e \in EntryType /\ e.prev = tok /\ e.next = Entry(x, at.i).next
        /\ e.task = Entry(x, at.i).task /\ e.slot = Entry(x, at.i).slot /\ e.exp = Entry(x, at.i).exp
      BY <2>3 DEF EntryType
  <2> HIDE DEF e
  <2>5. /\ Sound(y) /\ y.cur = x.cur /\ y.slots = x.slots
        /\ IsUsed(y.entries, at.i) /\ Entry(y, at.i) = e
        /\ SameBut(x.entries, y.entries, at.i)
      BY <2>1, <2>2, <2>4, SetEntryFacts
  <2> HIDE DEF y
  <2>6. \A i : i # at.i /\ IsUsed(x.entries, i) => Entry(y, i) = Entry(x, i)
      BY <2>5 DEF SameBut, Entry
  <2>7. ASSUME NEW i PROVE SameEntry(x, y, i)
    <3>1. CASE i = at.i
        BY <2>1, <2>4, <2>5, <3>1 DEF SameEntry
    <3>2. CASE i # at.i
        BY <2>5, <2>6, <3>2 DEF SameEntry, SameBut
    <3> QED BY <3>1, <3>2
  <2>8. ASSUME NEW a, Present(x, a)
        PROVE  NextIn(y, a) = NextIn(x, a) /\ PrevIn(y, a) = IF a = at THEN tok ELSE PrevIn(x, a)
    <3>1. a \in Tokens /\ (a.k # "S" => a.k = "E" /\ IsUsed(x.entries, a.i))
        BY <2>8, TokenFacts DEF Present
    <3>2. a.k # "S" => (a = at <=> a.i = at.i)
        BY <1>0, <1>2, <3>1, TokenFacts
    <3> QED BY <1>2, <2>4, <2>5, <2>6, <3>1, <3>2 DEF PrevIn, NextIn
  <2> QED BY <2>5, <2>7, <2>8 DEF y
<1> QED BY <1>0, <1>1, <1>2

----------------------------------------------------------------------------
(* The list as a ring.                                                     *)

InList(x) == {a \in Tokens : Present(x, a) /\ (a.k = "E" => PrevIn(x, a) # Nil)}

\* v is the token tick goes to next, or None.
NxF(x, v) == [a \in Tokens |-> IF v # None /\ a = S(x.cur) THEN v ELSE NextIn(x, a)]
PvF(x, v) == [a \in Tokens |-> IF v # None /\ a = v THEN S(x.cur) ELSE PrevIn(x, a)]
SlF(x) == [a \in Tokens |-> IF a.k = "S" THEN a.i ELSE Entry(x, a.i).slot]
RingAt(L, x, v) == Ring(L, NxF(x, v), PvF(x, v), SlF(x))

\* The three functions, token by token.
LEMMA ViewFacts ==
    ASSUME NEW x, NEW v, NEW a \in Tokens
    PROVE  /\ NxF(x, v)[a] = IF v # None /\ a = S(x.cur) THEN v ELSE NextIn(x, a)
           /\ PvF(x, v)[a] = IF v # None /\ a = v THEN S(x.cur) ELSE PrevIn(x, a)
           /\ SlF(x)[a] = IF a.k = "S" THEN a.i ELSE Entry(x, a.i).slot
BY DEF NxF, PvF, SlF


\* Entry id is taken out of the list, in x or when it has left the slab in x1.
LEMMA TakenOut ==
    ASSUME NEW x, Sound(x), NEW v, v = None \/ v \in Tokens, NEW id, IsUsed(x.entries, id),
           RingAt(InList(x), x, v), E(id) \in InList(x), E(id) # v,
           NEW x1, Sound(x1), x1.cur = x.cur, x1.slots = x.slots,
           SameBut(x.entries, x1.entries, id)
    PROVE  LET y == Unlink(x1, Entry(x, id)) IN
           /\ Sound(y) /\ y.cur = x.cur /\ \A i : SameEntry(x1, y, i)
           /\ InList(y) \ {E(id)} = InList(x) \ {E(id)}
           /\ RingAt(InList(x) \ {E(id)}, y, v)
           /\ \A i : i # id /\ IsUsed(x.entries, i) =>
                     (Entry(y, i).prev = Nil <=> Entry(x, i).prev = Nil)
<1> DEFINE L == InList(x)
           e == E(id)
           p == Entry(x, id).prev
           n == Entry(x, id).next
           z == SetNext(x1, p, n)
           y == SetPrev(z, n, p)
<1>0. Unlink(x1, Entry(x, id)) = y
    BY DEF Unlink
<1>1. e.k = "E" /\ e.i = id /\ e \in Tokens /\ e # S(x.cur) /\ e \in L
    BY TokenFacts DEF InList
<1>2. /\ PvF(x, v)[e] = p /\ NxF(x, v)[e] = n
  <2>1. PrevIn(x, e) = p /\ NextIn(x, e) = n
      BY <1>1 DEF PrevIn, NextIn
  <2> QED BY <1>1, <2>1, ViewFacts
<1>3. p \in L /\ n \in L /\ NxF(x, v)[p] = e /\ PvF(x, v)[n] = e
    BY <1>1, <1>2 DEF RingAt, Ring
<1>4. p # e /\ n # e
  <2>1. \E a \in {e} : PvF(x, v)[a] \notin {e}
      BY <1>1 DEF RingAt, Ring
  <2> QED BY <1>2, <1>3, <2>1
<1>5. \A a \in L : a \in Tokens /\ Present(x, a)
    BY DEF InList
<1>6. v # None => p # S(x.cur) /\ n # v
  <2>1. p \in Tokens /\ n \in Tokens
      BY <1>3, <1>5
  <2>2. v # None /\ p = S(x.cur) => NxF(x, v)[p] = v
      BY <2>1, ViewFacts
  <2>3. v # None /\ n = v => PvF(x, v)[n] = S(x.cur)
      BY <2>1, ViewFacts
  <2> QED BY <1>1, <1>3, <2>2, <2>3
<1>7. \A a : Present(x, a) /\ a # e =>
               /\ Present(x1, a) /\ NextIn(x1, a) = NextIn(x, a) /\ PrevIn(x1, a) = PrevIn(x, a)
  <2> SUFFICES ASSUME NEW a, Present(x, a), a # e
               PROVE  /\ Present(x1, a) /\ NextIn(x1, a) = NextIn(x, a)
                      /\ PrevIn(x1, a) = PrevIn(x, a)
      OBVIOUS
  <2>1. CASE a \in Markers
      BY <2>1, TokenFacts DEF Present, NextIn, PrevIn
  <2>2. CASE a \notin Markers
    <3>1. a \in Tokens /\ a.k = "E" /\ IsUsed(x.entries, a.i) /\ a.i # id
        BY <2>2, TokenFacts DEF Present
    <3>2. IsUsed(x1.entries, a.i) /\ Entry(x1, a.i) = Entry(x, a.i)
        BY <3>1 DEF SameBut, Entry
    <3> QED BY <3>1, <3>2 DEF Present, NextIn, PrevIn
  <2> QED BY <2>1, <2>2
<1>8. Present(x1, p) /\ Present(x1, n) /\ p \in Tokens /\ n \in Tokens
    BY <1>3, <1>4, <1>5, <1>7
<1> HIDE DEF p, n
<1>9. /\ Sound(z) /\ z.cur = x1.cur /\ \A i : SameEntry(x1, z, i)
      /\ \A a : Present(x1, a) => /\ PrevIn(z, a) = PrevIn(x1, a)
                                  /\ NextIn(z, a) = IF a = p THEN n ELSE NextIn(x1, a)
    BY <1>8, SetNextFacts
<1> HIDE DEF z
<1>10. \A a : Present(z, a) <=> Present(x1, a)
    BY <1>9 DEF Present, SameEntry
<1>11. /\ Sound(y) /\ y.cur = z.cur /\ \A i : SameEntry(z, y, i)
       /\ \A a : Present(z, a) => /\ NextIn(y, a) = NextIn(z, a)
                                  /\ PrevIn(y, a) = IF a = n THEN p ELSE PrevIn(z, a)
    BY <1>8, <1>9, <1>10, SetPrevFacts
<1> HIDE DEF y
<1>12. \A i : SameEntry(x1, y, i)
    BY <1>9, <1>11 DEF SameEntry
<1>13. \A a : Present(y, a) <=> Present(x1, a)
    BY <1>12 DEF Present, SameEntry
<1>14. \A a : Present(x, a) /\ a # e =>
               /\ Present(y, a)
               /\ NextIn(y, a) = IF a = p THEN n ELSE NextIn(x, a)
               /\ PrevIn(y, a) = IF a = n THEN p ELSE PrevIn(x, a)
    BY <1>7, <1>9, <1>10, <1>11, <1>13
<1>15. \A a : a # e /\ Present(y, a) => Present(x, a)
  <2> SUFFICES ASSUME NEW a, a # e, Present(x1, a) PROVE Present(x, a)
      BY <1>13
  <2>1. CASE a \in Markers
      BY <2>1 DEF Present
  <2>2. CASE a \notin Markers
    <3>1. a \in Tokens /\ a.k = "E" /\ IsUsed(x1.entries, a.i) /\ a.i # id
        BY <2>2, TokenFacts DEF Present
    <3> QED BY <3>1 DEF Present, SameBut
  <2> QED BY <2>1, <2>2
<1>16. p # Nil /\ (n.k = "E" => PrevIn(x, n) # Nil)
    BY <1>3, TokenFacts DEF RingAt, Ring, InList
<1>17. \A a : Present(x, a) /\ a # e /\ a.k = "E" => (PrevIn(y, a) = Nil <=> PrevIn(x, a) = Nil)
    BY <1>14, <1>16
<1>18. InList(y) \ {e} = L \ {e}
    BY <1>14, <1>15, <1>17 DEF InList
<1>19. RingAt(L \ {e}, y, v)
  <2> DEFINE nx == NxF(x, v)
             pv == PvF(x, v)
             sl == SlF(x)
             nx2 == NxF(y, v)
             pv2 == PvF(y, v)
             sl2 == SlF(y)
  <2>1. y.cur = x.cur
      BY <1>9, <1>11
  <2>2. nx2[p] = n
      BY <1>3, <1>4, <1>5, <1>6, <1>8, <1>14, <2>1, ViewFacts
  <2>3. pv2[n] = p
      BY <1>3, <1>4, <1>5, <1>6, <1>8, <1>14, <2>1, ViewFacts
  <2>4. ASSUME NEW a \in L \ {e}
        PROVE  /\ a # p => nx2[a] = nx[a]
               /\ a # n => pv2[a] = pv[a]
               /\ sl2[a] = sl[a]
    <3>1. a \in Tokens /\ Present(x, a) /\ a # e
        BY <1>5
    <3>2. (a # p => NextIn(y, a) = NextIn(x, a)) /\ (a # n => PrevIn(y, a) = PrevIn(x, a))
        BY <1>14, <3>1
    <3>3. a.k # "S" => Entry(y, a.i).slot = Entry(x, a.i).slot
      <4> SUFFICES ASSUME a.k # "S" PROVE Entry(y, a.i).slot = Entry(x, a.i).slot
          OBVIOUS
      <4>1. a.k = "E" /\ IsUsed(x.entries, a.i) /\ a.i # id
          BY <3>1, TokenFacts DEF Present
      <4>2. IsUsed(x1.entries, a.i) /\ Entry(x1, a.i) = Entry(x, a.i)
          BY <4>1 DEF SameBut, Entry
      <4> QED BY <1>12, <4>2 DEF SameEntry
    <3>4. /\ nx2[a] = IF v # None /\ a = S(x.cur) THEN v ELSE NextIn(y, a)
          /\ pv2[a] = IF v # None /\ a = v THEN S(x.cur) ELSE PrevIn(y, a)
          /\ sl2[a] = IF a.k = "S" THEN a.i ELSE Entry(y, a.i).slot
        BY <2>1, <3>1, ViewFacts
    <3>5. /\ nx[a] = IF v # None /\ a = S(x.cur) THEN v ELSE NextIn(x, a)
          /\ pv[a] = IF v # None /\ a = v THEN S(x.cur) ELSE PrevIn(x, a)
          /\ sl[a] = IF a.k = "S" THEN a.i ELSE Entry(x, a.i).slot
        BY <3>1, ViewFacts
    <3> HIDE DEF nx, pv, sl, nx2, pv2, sl2
    <3> QED BY <3>2, <3>3, <3>4, <3>5
  <2>5. Ring(L, nx, pv, sl) /\ pv[e] = p /\ nx[e] = n
      BY <1>2 DEF RingAt
  <2> HIDE DEF nx, pv, sl, nx2, pv2, sl2, L, e
  <2>6. Ring(L \ {e}, nx2, pv2, sl2)
      BY <1>1, <2>2, <2>3, <2>4, <2>5, RingOut
  <2> QED BY <2>6 DEF RingAt, nx2, pv2, sl2
<1>20. \A i : i # id /\ IsUsed(x.entries, i) => (Entry(y, i).prev = Nil <=> Entry(x, i).prev = Nil)
  <2> SUFFICES ASSUME NEW i, i # id, IsUsed(x.entries, i)
               PROVE  Entry(y, i).prev = Nil <=> Entry(x, i).prev = Nil
      OBVIOUS
  <2>1. i \in Int
      BY DEF IsUsed, Sound, InOrder
  <2>2. E(i) \in Tokens /\ E(i).k = "E" /\ E(i).i = i /\ E(i) # e
      BY <1>1, <2>1, TokenFacts
  <2>3. Present(x, E(i))
      BY <2>2 DEF Present
  <2> QED BY <1>17, <2>2, <2>3 DEF PrevIn
<1> QED BY <1>0, <1>9, <1>11, <1>12, <1>18, <1>19, <1>20

\* Entry id, which is in no list, is put in front of marker s, which is not the token
\* that tick goes to next.
LEMMA PutIn ==
    ASSUME NEW x, Sound(x), NEW v, v = None \/ v \in Tokens, NEW id, IsUsed(x.entries, id),
           NEW s \in 0..Mask, E(id) # v, S(s) # v, RingAt(InList(x) \ {E(id)}, x, v)
    PROVE  LET y == LinkBefore(x, id, s) IN
           /\ Sound(y) /\ y.cur = x.cur
           /\ \A i : i # id => SameEntry(x, y, i)
           /\ \A i : i # id /\ IsUsed(x.entries, i) =>
                     (Entry(y, i).prev = Nil <=> Entry(x, i).prev = Nil)
           /\ IsUsed(y.entries, id) /\ Entry(y, id).task = Entry(x, id).task
           /\ Entry(y, id).exp = Entry(x, id).exp /\ Entry(y, id).slot = s
           /\ Entry(y, id).prev # Nil
           /\ RingAt(InList(y), y, v)
<1> DEFINE e == E(id)
           m == S(s)
           L == InList(x) \ {e}
           p == x.slots[s].prev
           en == [Entry(x, id) EXCEPT !.prev = p, !.next = m, !.slot = s]
           x1 == SetEntry(x, id, en)
           x2 == SetNext(x1, p, e)
           y == SetPrev(x2, m, e)
<1>0. LinkBefore(x, id, s) = y
  <2>1. m.k = "S" /\ m.i = s
      BY TokenFacts
  <2>2. y = [x2 EXCEPT !.slots[s].prev = e]
      BY <2>1 DEF SetPrev
  <2> QED BY <2>2 DEF LinkBefore
<1>1. id \in Int
    BY DEF IsUsed, Sound, InOrder
<1>2. /\ e.k = "E" /\ e.i = id /\ e \in Tokens /\ m.k = "S" /\ m.i = s /\ m \in Tokens /\ m \in Markers
      /\ e # m
    BY <1>1, TokenFacts
<1>3. \A a \in L : a \in Tokens /\ Present(x, a) /\ a # e
    BY DEF InList
<1>4. PvF(x, v)[m] = p
  <2>1. PrevIn(x, m) = p
      BY <1>2 DEF PrevIn
  <2> QED BY <1>2, <2>1, ViewFacts
<1>5. m \in L /\ p \in L /\ NxF(x, v)[p] = m
    BY <1>2, <1>4 DEF RingAt, Ring
<1>6. p \in Tokens /\ Present(x, p) /\ p # e /\ p # Nil
  <2>1. p.k # "Nil"
      BY <1>5 DEF RingAt, Ring
  <2> QED BY <1>3, <1>5, <2>1, TokenFacts
<1>7. v # None => p # S(x.cur)
  <2>1. v # None /\ p = S(x.cur) => NxF(x, v)[p] = v
      BY <1>6, ViewFacts
  <2> QED BY <1>5, <2>1
<1> HIDE DEF p
<1>8. /\ en \in EntryType /\ en.prev = p /\ en.next = m /\ en.slot = s
      /\ en.task = Entry(x, id).task /\ en.exp = Entry(x, id).exp
  <2>1. Entry(x, id) \in EntryType
      BY DEF Sound
  <2> QED BY <1>2, <1>6, <2>1 DEF EntryType
<1> HIDE DEF en
<1>9. /\ Sound(x1) /\ x1.cur = x.cur /\ x1.slots = x.slots
      /\ IsUsed(x1.entries, id) /\ Entry(x1, id) = en
      /\ SameBut(x.entries, x1.entries, id)
    BY <1>8, SetEntryFacts
<1> HIDE DEF x1
<1>10. \A i : i # id => (IsUsed(x1.entries, i) <=> IsUsed(x.entries, i))
               /\ (IsUsed(x.entries, i) => Entry(x1, i) = Entry(x, i))
    BY <1>9 DEF SameBut, Entry
<1>11. \A a : Present(x1, a) <=> Present(x, a)
    BY <1>9, <1>10 DEF Present
<1>12. ASSUME NEW a, Present(x, a), a # e
       PROVE  NextIn(x1, a) = NextIn(x, a) /\ PrevIn(x1, a) = PrevIn(x, a)
  <2>1. CASE a \in Markers
      BY <1>9, <2>1, TokenFacts DEF NextIn, PrevIn
  <2>2. CASE a \notin Markers
    <3>1. a \in Tokens /\ a.k = "E" /\ IsUsed(x.entries, a.i) /\ a.i # id
        BY <1>12, <2>2, TokenFacts DEF Present
    <3> QED BY <1>10, <3>1 DEF NextIn, PrevIn
  <2> QED BY <2>1, <2>2
<1>13. /\ Sound(x2) /\ x2.cur = x1.cur /\ \A i : SameEntry(x1, x2, i)
       /\ \A a : Present(x1, a) => /\ PrevIn(x2, a) = PrevIn(x1, a)
                                   /\ NextIn(x2, a) = IF a = p THEN e ELSE NextIn(x1, a)
    BY <1>2, <1>6, <1>9, <1>11, SetNextFacts
<1> HIDE DEF x2
<1>14. \A a : Present(x2, a) <=> Present(x1, a)
    BY <1>13 DEF Present, SameEntry
<1>15. Present(x2, m)
    BY <1>2 DEF Present
<1>16. /\ Sound(y) /\ y.cur = x2.cur /\ \A i : SameEntry(x2, y, i)
       /\ \A a : Present(x2, a) => /\ NextIn(y, a) = NextIn(x2, a)
                                   /\ PrevIn(y, a) = IF a = m THEN e ELSE PrevIn(x2, a)
    BY <1>2, <1>13, <1>15, SetPrevFacts
<1> HIDE DEF y
<1>17. \A i : SameEntry(x1, y, i)
    BY <1>13, <1>16 DEF SameEntry
<1>18. \A i : i # id => SameEntry(x, y, i)
    BY <1>10, <1>17 DEF SameEntry
<1>19. /\ IsUsed(y.entries, id) /\ Entry(y, id).task = Entry(x, id).task
       /\ Entry(y, id).exp = Entry(x, id).exp /\ Entry(y, id).slot = s
    BY <1>8, <1>9, <1>17 DEF SameEntry
<1>20. y.cur = x.cur
    BY <1>9, <1>13, <1>16
<1>21. \A a : Present(y, a) <=> Present(x, a)
  <2>1. \A a : Present(y, a) <=> Present(x1, a)
      BY <1>17 DEF Present, SameEntry
  <2> QED BY <1>11, <2>1
<1>22. ASSUME NEW a, Present(x, a), a # e
       PROVE  /\ NextIn(y, a) = IF a = p THEN e ELSE NextIn(x, a)
              /\ PrevIn(y, a) = IF a = m THEN e ELSE PrevIn(x, a)
    BY <1>11, <1>12, <1>13, <1>14, <1>16, <1>22
<1>23. PrevIn(y, e) = p /\ NextIn(y, e) = m
  <2>1. Present(x1, e) /\ Present(x2, e)
      BY <1>2, <1>9, <1>14 DEF Present
  <2>2. PrevIn(x1, e) = p /\ NextIn(x1, e) = m
      BY <1>2, <1>8, <1>9 DEF PrevIn, NextIn
  <2> QED BY <1>2, <1>6, <1>13, <1>16, <2>1, <2>2
<1>24. InList(y) = L \cup {e}
  <2>1. ASSUME NEW a \in Tokens, a # e PROVE a \in InList(y) <=> a \in InList(x)
    <3>1. CASE ~Present(x, a)
        BY <1>21, <3>1 DEF InList
    <3>2. CASE Present(x, a)
      <4>1. a.k = "E" => a # m
          BY <1>2
      <4>2. a.k = "E" => PrevIn(y, a) = PrevIn(x, a)
          BY <1>22, <2>1, <3>2, <4>1
      <4> QED BY <1>21, <3>2, <4>2 DEF InList
    <3> QED BY <3>1, <3>2
  <2>2. e \in InList(y)
    <3>1. Present(y, e)
        BY <1>2, <1>19 DEF Present
    <3> QED BY <1>2, <1>6, <1>23, <3>1 DEF InList
  <2>3. InList(y) \subseteq Tokens /\ InList(x) \subseteq Tokens
      BY DEF InList
  <2> QED BY <2>1, <2>2, <2>3
<1>25. RingAt(L \cup {e}, y, v)
  <2> DEFINE nx == NxF(x, v)
             pv == PvF(x, v)
             sl == SlF(x)
             nx2 == NxF(y, v)
             pv2 == PvF(y, v)
             sl2 == SlF(y)
  <2>1. \A a \in Tokens : /\ nx2[a] = IF v # None /\ a = S(x.cur) THEN v ELSE NextIn(y, a)
                          /\ pv2[a] = IF v # None /\ a = v THEN S(x.cur) ELSE PrevIn(y, a)
                          /\ sl2[a] = IF a.k = "S" THEN a.i ELSE Entry(y, a.i).slot
      BY <1>20, ViewFacts
  <2>2. \A a \in Tokens : /\ nx[a] = IF v # None /\ a = S(x.cur) THEN v ELSE NextIn(x, a)
                          /\ pv[a] = IF v # None /\ a = v THEN S(x.cur) ELSE PrevIn(x, a)
                          /\ sl[a] = IF a.k = "S" THEN a.i ELSE Entry(x, a.i).slot
      BY ViewFacts
  <2>3. pv[m] = p /\ Ring(L, nx, pv, sl)
      BY <1>4 DEF RingAt
  <2> HIDE DEF nx, pv, sl, nx2, pv2, sl2, L
  <2>4. e # S(x.cur)
      BY <1>2, TokenFacts
  <2>5. nx2[p] = e
      BY <1>6, <1>7, <1>22, <2>1
  <2>6. nx2[e] = m /\ pv2[e] = p
      BY <1>2, <1>23, <2>1, <2>4
  <2>7. pv2[m] = e
    <3>1. m # v /\ Present(x, m)
        BY <1>3, <1>5
    <3> QED BY <1>2, <1>22, <2>1, <3>1
  <2>8. sl2[e] = m.i
      BY <1>2, <1>19, <2>1
  <2>9. ASSUME NEW a \in L
        PROVE  /\ a # p => nx2[a] = nx[a]
               /\ a # m => pv2[a] = pv[a]
               /\ sl2[a] = sl[a]
    <3>1. a \in Tokens /\ Present(x, a) /\ a # e
        BY <1>3
    <3>2. (a # p => NextIn(y, a) = NextIn(x, a)) /\ (a # m => PrevIn(y, a) = PrevIn(x, a))
        BY <1>22, <3>1
    <3>3. a.k # "S" => Entry(y, a.i).slot = Entry(x, a.i).slot
      <4> SUFFICES ASSUME a.k # "S" PROVE Entry(y, a.i).slot = Entry(x, a.i).slot
          OBVIOUS
      <4>1. a.k = "E" /\ IsUsed(x.entries, a.i) /\ a.i # id
          BY <3>1, TokenFacts DEF Present
      <4> QED BY <1>18, <4>1 DEF SameEntry
    <3> QED BY <2>1, <2>2, <3>1, <3>2, <3>3
  <2>10. e \notin L
      BY DEF L
  <2> HIDE DEF m, e
  <2>11. /\ nx2[pv[m]] = e /\ nx2[e] = m /\ pv2[m] = e /\ pv2[e] = pv[m] /\ sl2[e] = m.i
         /\ \A a \in L : /\ a # pv[m] => nx2[a] = nx[a]
                         /\ a # m => pv2[a] = pv[a]
                         /\ sl2[a] = sl[a]
         /\ Ring(L, nx, pv, sl)
      BY <2>3, <2>5, <2>6, <2>7, <2>8, <2>9
  <2>12. m \in Markers /\ e \in Tokens /\ e \notin L /\ e.k = "E"
      BY <1>2, <2>10
  <2>13. Ring(L \cup {e}, nx2, pv2, sl2)
      BY <2>11, <2>12, RingIn
  <2> QED BY <2>13 DEF RingAt, nx2, pv2, sl2
<1>26. \A i : i # id /\ IsUsed(x.entries, i) => (Entry(y, i).prev = Nil <=> Entry(x, i).prev = Nil)
  <2> SUFFICES ASSUME NEW i, i # id, IsUsed(x.entries, i)
               PROVE  Entry(y, i).prev = Nil <=> Entry(x, i).prev = Nil
      OBVIOUS
  <2>1. i \in Int
      BY DEF IsUsed, Sound, InOrder
  <2>2. E(i) \in Tokens /\ E(i).k = "E" /\ E(i).i = i /\ E(i) # e /\ E(i) # m
      BY <1>2, <2>1, TokenFacts
  <2>3. Present(x, E(i))
      BY <2>2 DEF Present
  <2>4. PrevIn(y, E(i)) = PrevIn(x, E(i))
      BY <1>22, <2>2, <2>3
  <2> QED BY <2>2, <2>4 DEF PrevIn
<1>27. Entry(y, id).prev # Nil
    BY <1>2, <1>6, <1>23 DEF PrevIn
<1>28. RingAt(InList(y), y, v)
    BY <1>24, <1>25
<1> QED BY <1>0, <1>16, <1>18, <1>19, <1>20, <1>26, <1>27, <1>28

\* Two distances from one place lead to different places, and a place at distance d is
\* at d - 1 from the next.
LEMMA LaterMore ==
    ASSUME NEW c \in 0..Mask
    PROVE  /\ \A d \in 0..Mask, f \in 0..Mask : Later(c, d) = Later(c, f) => d = f
           /\ \A d \in 1..Mask : Later(Later(c, 1), d - 1) = Later(c, d)
           /\ Later(Later(c, 1), Mask) = c /\ Later(Later(c, Mask), 1) = c
<1>1. Mask \in Nat /\ Mask >= 1 /\ NumSlots = Mask + 1
    BY TokenFacts
<1>3. ASSUME NEW d \in 0..Mask, NEW f \in 0..Mask, Later(c, d) = Later(c, f) PROVE d = f
  <2>1. /\ Later(c, d) = IF c + d < NumSlots THEN c + d ELSE c + d - NumSlots
        /\ Later(c, f) = IF c + f < NumSlots THEN c + f ELSE c + f - NumSlots
      BY LaterFacts
  <2>2. (IF c + d < NumSlots THEN c + d ELSE c + d - NumSlots)
          = (IF c + f < NumSlots THEN c + f ELSE c + f - NumSlots)
      BY <1>3, <2>1
  <2>3. NumSlots \in Nat /\ c \in 0..NumSlots - 1 /\ d \in 0..NumSlots - 1 /\ f \in 0..NumSlots - 1
      BY <1>1
  <2> QED BY <2>2, <2>3
<1>4. ASSUME NEW d \in 1..Mask PROVE Later(Later(c, 1), d - 1) = Later(c, d)
  <2>1. d - 1 \in 0..Mask /\ d \in 0..Mask /\ 1 \in 0..Mask
      BY <1>1
  <2> DEFINE b == Later(c, 1)
  <2>2. /\ b = IF c + 1 < NumSlots THEN c + 1 ELSE c + 1 - NumSlots
        /\ b \in 0..Mask
        /\ Later(c, d) = IF c + d < NumSlots THEN c + d ELSE c + d - NumSlots
      BY <2>1, LaterFacts
  <2> HIDE DEF b
  <2>3. Later(b, d - 1) = IF b + (d - 1) < NumSlots THEN b + (d - 1) ELSE b + (d - 1) - NumSlots
      BY <2>1, <2>2, LaterFacts
  <2>4. Later(b, d - 1) = Later(c, d)
      BY <1>1, <2>2, <2>3
  <2> QED BY <2>4 DEF b
<1>5. Later(Later(c, 1), Mask) = c /\ Later(Later(c, Mask), 1) = c
  <2>1. 1 \in 0..Mask /\ Mask \in 0..Mask
      BY <1>1
  <2> DEFINE b == Later(c, 1)
             a == Later(c, Mask)
  <2>2. /\ b = IF c + 1 < NumSlots THEN c + 1 ELSE c + 1 - NumSlots
        /\ a = IF c + Mask < NumSlots THEN c + Mask ELSE c + Mask - NumSlots
        /\ b \in 0..Mask /\ a \in 0..Mask
      BY <2>1, LaterFacts
  <2> HIDE DEF a, b
  <2>3. /\ Later(b, Mask) = IF b + Mask < NumSlots THEN b + Mask ELSE b + Mask - NumSlots
        /\ Later(a, 1) = IF a + 1 < NumSlots THEN a + 1 ELSE a + 1 - NumSlots
      BY <2>1, <2>2, LaterFacts
  <2>4. Later(b, Mask) = c /\ Later(a, 1) = c
      BY <1>1, <2>2, <2>3
  <2> QED BY <2>4 DEF a, b
<1> QED BY <1>3, <1>4, <1>5

\* What tick goes to next is in front of the next marker, or that marker.
LEMMA WalkSlot ==
    ASSUME NEW x, Sound(x), NEW v \in Tokens, RingAt(InList(x), x, v)
    PROVE  /\ v # None /\ v \in InList(x) /\ Present(x, v)
           /\ v.k = "S" => v.i = Later(x.cur, 1)
           /\ v.k # "S" => /\ v.k = "E" /\ IsUsed(x.entries, v.i)
                           /\ Entry(x, v.i).slot = Later(x.cur, 1)
           /\ PvF(x, v)[v] = S(x.cur)
<1> DEFINE c == S(x.cur)
<1>1. v # None
    BY WheelAssumption DEF WheelAssumption, Tokens
<1>2. c \in Markers /\ c.k = "S" /\ c.i = x.cur /\ c \in Tokens
    BY TokenFacts DEF Sound
<1>3. NxF(x, v)[c] = v /\ PvF(x, v)[v] = c
    BY <1>1, <1>2, ViewFacts
<1>4. c \in InList(x)
    BY <1>2 DEF RingAt, Ring
<1>5. v \in InList(x) /\ SlF(x)[v] = SlotAfter(SlF(x), c)
    BY <1>3, <1>4 DEF RingAt, Ring
<1>6. SlF(x)[v] = Later(x.cur, 1)
    BY <1>2, <1>5 DEF SlotAfter
<1>7. Present(x, v)
    BY <1>5 DEF InList
<1>8. v.k # "S" => v.k = "E" /\ IsUsed(x.entries, v.i)
    BY <1>7, TokenFacts DEF Present
<1> QED BY <1>1, <1>3, <1>5, <1>6, <1>7, <1>8, ViewFacts

\* A place two or more on is not in front of the marker that tick is going to.
LEMMA NotWalked ==
    ASSUME NEW x, Sound(x), NEW v, v = None \/ v \in Tokens, RingAt(InList(x), x, v),
           NEW d \in 1..Mask, v # None => d # 1
    PROVE  S(Later(x.cur, d)) # v /\ Later(x.cur, d) \in 0..Mask
<1>1. x.cur \in 0..Mask /\ 1 \in 0..Mask /\ d \in 0..Mask /\ Mask \in Nat
    BY TokenFacts DEF Sound
<1>2. Later(x.cur, d) \in 0..Mask /\ (v # None => Later(x.cur, d) # Later(x.cur, 1))
    BY <1>1, LaterFacts, LaterMore
<1>3. CASE v = None
  <2>1. S(Later(x.cur, d)) \in Tokens
      BY <1>1, <1>2, TokenFacts
  <2>2. None \notin Tokens
      BY WheelAssumption DEF WheelAssumption, Tokens
  <2> QED BY <1>2, <1>3, <2>1, <2>2
<1>4. CASE v # None
  <2>1. v.k = "S" => v.i = Later(x.cur, 1)
      BY <1>4, WalkSlot
  <2> QED BY <1>2, <1>4, <2>1, TokenFacts
<1> QED BY <1>3, <1>4

\* An entry that is out of the list is changed, comes or goes: the list stays.
LEMMA OutChanged ==
    ASSUME NEW x, Sound(x), NEW v, v = None \/ v \in Tokens, NEW id \in Int,
           NEW L, L \subseteq InList(x), E(id) \notin L, RingAt(L, x, v),
           NEW y, Sound(y), y.cur = x.cur, y.slots = x.slots, SameBut(x.entries, y.entries, id)
    PROVE  /\ InList(y) \ {E(id)} = InList(x) \ {E(id)}
           /\ RingAt(L, y, v)
<1> DEFINE e == E(id)
<1>1. e.k = "E" /\ e.i = id /\ e \in Tokens
    BY TokenFacts
<1>2. ASSUME NEW a \in Tokens, a # e
      PROVE  Present(y, a) <=> Present(x, a)
  <2>1. a.k = "E" => a.i # id
      BY <1>1, <1>2, TokenFacts
  <2> QED BY <2>1 DEF Present, SameBut
<1>3. ASSUME NEW a \in Tokens, a # e, Present(x, a)
      PROVE  /\ NextIn(y, a) = NextIn(x, a) /\ PrevIn(y, a) = PrevIn(x, a)
             /\ a.k # "S" => Entry(y, a.i) = Entry(x, a.i)
  <2>1. a.k # "S" => a.k = "E" /\ IsUsed(x.entries, a.i) /\ a.i # id
      BY <1>1, <1>3, TokenFacts DEF Present
  <2>2. a.k # "S" => Entry(y, a.i) = Entry(x, a.i)
      BY <2>1 DEF SameBut, Entry
  <2> QED BY <2>2 DEF NextIn, PrevIn
<1>4. InList(y) \ {e} = InList(x) \ {e}
    BY <1>2, <1>3 DEF InList
<1>5. ASSUME NEW a \in L
      PROVE  /\ NxF(y, v)[a] = NxF(x, v)[a] /\ PvF(y, v)[a] = PvF(x, v)[a]
             /\ SlF(y)[a] = SlF(x)[a]
  <2>1. a \in Tokens /\ a # e /\ Present(x, a)
      BY DEF InList
  <2>2. /\ NextIn(y, a) = NextIn(x, a) /\ PrevIn(y, a) = PrevIn(x, a)
        /\ a.k # "S" => Entry(y, a.i) = Entry(x, a.i)
      BY <1>3, <2>1
  <2> QED BY <2>1, <2>2 DEF NxF, PvF, SlF
<1>6. RingAt(L, y, v)
    BY <1>5, RingSame DEF RingAt
<1> QED BY <1>4, <1>6

\* The visit of an entry takes it out of the ring.
LEMMA VisitedOut ==
    ASSUME NEW x, Sound(x), NEW v \in Tokens, v.k = "E", RingAt(InList(x), x, v),
           NEW en \in EntryType, en.prev = Nil
    PROVE  LET y == SetEntry(x, v.i, en)
               n == Entry(x, v.i).next
           IN /\ Sound(y) /\ y.cur = x.cur /\ IsUsed(y.entries, v.i) /\ Entry(y, v.i) = en
              /\ SameBut(x.entries, y.entries, v.i)
              /\ n \in Tokens /\ n # None /\ n # v
              /\ RingAt(InList(y), y, n)
<1> DEFINE L == InList(x)
           c == S(x.cur)
           n == Entry(x, v.i).next
           y == SetEntry(x, v.i, en)
<1>1. v # None /\ v \in L /\ IsUsed(x.entries, v.i) /\ PvF(x, v)[v] = c
    BY WalkSlot
<1>2. c \in Tokens /\ c.k = "S" /\ c # v /\ v = E(v.i)
    BY TokenFacts DEF Sound
<1>3. NxF(x, v)[v] = n
    BY <1>2, ViewFacts DEF NextIn
<1>4. n \in L /\ PvF(x, v)[n] = v
    BY <1>1, <1>3 DEF RingAt, Ring
<1>5. \A a \in L : a \in Tokens /\ Present(x, a)
    BY DEF InList
<1>6. n \in Tokens /\ n # v /\ n # None
  <2>1. None \notin Tokens
      BY WheelAssumption DEF WheelAssumption, Tokens
  <2> QED BY <1>1, <1>2, <1>4, <1>5, <2>1
<1>7. /\ Sound(y) /\ y.cur = x.cur /\ y.slots = x.slots
      /\ IsUsed(y.entries, v.i) /\ Entry(y, v.i) = en
      /\ SameBut(x.entries, y.entries, v.i)
    BY <1>1, SetEntryFacts
<1> HIDE DEF y, n
<1>8. ASSUME NEW a \in Tokens, a # v
      PROVE  Present(y, a) <=> Present(x, a)
  <2>1. a.k = "E" => a.i # v.i
      BY <1>2, <1>8, TokenFacts
  <2> QED BY <1>7, <2>1 DEF Present, SameBut
<1>9. ASSUME NEW a \in Tokens, a # v, Present(x, a)
      PROVE  /\ NextIn(y, a) = NextIn(x, a) /\ PrevIn(y, a) = PrevIn(x, a)
             /\ a.k # "S" => Entry(y, a.i) = Entry(x, a.i)
  <2>1. a.k # "S" => a.k = "E" /\ IsUsed(x.entries, a.i) /\ a.i # v.i
      BY <1>2, <1>9, TokenFacts DEF Present
  <2>2. a.k # "S" => Entry(y, a.i) = Entry(x, a.i)
      BY <1>7, <2>1 DEF SameBut, Entry
  <2> QED BY <1>7, <2>2 DEF NextIn, PrevIn
<1>10. InList(y) = L \ {v}
  <2>1. v \notin InList(y)
      BY <1>7 DEF InList, PrevIn
  <2>2. \A a \in Tokens : a # v => (a \in InList(y) <=> a \in L)
      BY <1>8, <1>9 DEF InList
  <2> QED BY <2>1, <2>2 DEF InList
<1>11. RingAt(L \ {v}, y, n)
  <2> DEFINE nx == NxF(x, v)
             pv == PvF(x, v)
             sl == SlF(x)
             nx2 == NxF(y, n)
             pv2 == PvF(y, n)
             sl2 == SlF(y)
  <2>1. \A a \in Tokens : /\ nx2[a] = IF a = c THEN n ELSE NextIn(y, a)
                          /\ pv2[a] = IF a = n THEN c ELSE PrevIn(y, a)
                          /\ sl2[a] = IF a.k = "S" THEN a.i ELSE Entry(y, a.i).slot
      BY <1>6, <1>7, ViewFacts
  <2>2. \A a \in Tokens : /\ nx[a] = IF a = c THEN v ELSE NextIn(x, a)
                          /\ pv[a] = IF a = v THEN c ELSE PrevIn(x, a)
                          /\ sl[a] = IF a.k = "S" THEN a.i ELSE Entry(x, a.i).slot
    <3> SUFFICES ASSUME NEW a \in Tokens
                 PROVE  /\ nx[a] = IF a = c THEN v ELSE NextIn(x, a)
                        /\ pv[a] = IF a = v THEN c ELSE PrevIn(x, a)
                        /\ sl[a] = IF a.k = "S" THEN a.i ELSE Entry(x, a.i).slot
        OBVIOUS
    <3>1. v # None
        BY <1>1
    <3> QED BY <3>1, ViewFacts
  <2>3. Ring(L, nx, pv, sl) /\ pv[v] = c /\ nx[v] = n
      BY <1>1, <1>3 DEF RingAt
  <2> HIDE DEF nx, pv, sl, nx2, pv2, sl2, L, c
  <2>4. nx2[pv[v]] = nx[v] /\ pv2[nx[v]] = pv[v]
      BY <1>2, <1>6, <2>1, <2>3
  <2>5. ASSUME NEW a \in L \ {v}
        PROVE  /\ a # pv[v] => nx2[a] = nx[a]
               /\ a # nx[v] => pv2[a] = pv[a]
               /\ sl2[a] = sl[a]
    <3>1. a \in Tokens /\ a # v /\ Present(x, a)
        BY <1>5
    <3>2. /\ NextIn(y, a) = NextIn(x, a) /\ PrevIn(y, a) = PrevIn(x, a)
          /\ a.k # "S" => Entry(y, a.i) = Entry(x, a.i)
        BY <1>9, <3>1
    <3> QED BY <2>1, <2>2, <2>3, <3>1, <3>2
  <2>6. Ring(L \ {v}, nx2, pv2, sl2)
      BY <1>1, <2>3, <2>4, <2>5, RingOut
  <2> QED BY <2>6 DEF RingAt, nx2, pv2, sl2
<1> QED BY <1>6, <1>7, <1>10, <1>11 DEF y, n

\* Before and after the walk: neighbours in fact.
LEMMA WalkStarts ==
    ASSUME NEW x, Sound(x), RingAt(InList(x), x, None)
    PROVE  LET v == x.slots[x.cur].next IN
           v \in InList(x) /\ v \in Tokens /\ v.k # "Nil" /\ RingAt(InList(x), x, v)
<1> DEFINE L == InList(x)
           c == S(x.cur)
           v == x.slots[x.cur].next
<1>1. c \in Tokens /\ c.k = "S" /\ c.i = x.cur /\ c \in Markers
    BY TokenFacts DEF Sound
<1>2. c \in L
    BY <1>1 DEF RingAt, Ring
<1>3. NxF(x, None)[c] = v
    BY <1>1, ViewFacts DEF NextIn
<1>4. v \in L /\ PvF(x, None)[v] = c /\ v.k # "Nil"
    BY <1>2, <1>3 DEF RingAt, Ring
<1>5. \A a \in L : a \in Tokens
    BY DEF InList
<1>6. v \in Tokens /\ v # None
    BY <1>4, <1>5, WheelAssumption DEF WheelAssumption, Tokens
<1> HIDE DEF v
<1>7. ASSUME NEW a \in L
      PROVE  NxF(x, v)[a] = NxF(x, None)[a] /\ PvF(x, v)[a] = PvF(x, None)[a]
  <2>1. a \in Tokens
      BY <1>5
  <2>2. /\ NxF(x, v)[a] = IF a = c THEN v ELSE NextIn(x, a)
        /\ PvF(x, v)[a] = IF a = v THEN c ELSE PrevIn(x, a)
      BY <1>6, <2>1, ViewFacts
  <2>3. NxF(x, None)[a] = NextIn(x, a) /\ PvF(x, None)[a] = PrevIn(x, a)
      BY <2>1, ViewFacts
  <2> QED BY <1>3, <1>4, <2>2, <2>3
<1>8. RingAt(L, x, v)
    BY <1>7, RingSame DEF RingAt
<1> QED BY <1>4, <1>6, <1>8 DEF v

\* cur goes on.
WithCur(x, c) == [x EXCEPT !.cur = c]
LEMMA CurMoved ==
    ASSUME NEW x, Sound(x), RingAt(InList(x), x, None), NEW c \in 0..Mask
    PROVE  LET y == WithCur(x, c) IN
           /\ Sound(y) /\ y.cur = c /\ y.entries = x.entries /\ y.slots = x.slots
           /\ RingAt(InList(y), y, None)
<1> DEFINE y == WithCur(x, c)
<1>1. /\ y.entries = x.entries /\ y.slots = x.slots /\ y.cur = c /\ y.bad = x.bad
      /\ y = [entries |-> y.entries, slots |-> y.slots, cur |-> y.cur, bad |-> y.bad]
    BY DEF Sound, WithCur
<1> HIDE DEF y
<1>2. \A i : Entry(y, i) = Entry(x, i)
    BY <1>1 DEF Entry
<1>3. Sound(y)
    BY <1>1, <1>2 DEF Sound
<1>4. \A a : Present(y, a) = Present(x, a) /\ NextIn(y, a) = NextIn(x, a) /\ PrevIn(y, a) = PrevIn(x, a)
    BY <1>1, <1>2 DEF Present, NextIn, PrevIn
<1>5. InList(y) = InList(x)
    BY <1>4 DEF InList
<1>6. ASSUME NEW a \in InList(x)
      PROVE  /\ NxF(y, None)[a] = NxF(x, None)[a] /\ PvF(y, None)[a] = PvF(x, None)[a]
             /\ SlF(y)[a] = SlF(x)[a]
  <2>1. a \in Tokens
      BY DEF InList
  <2> QED BY <1>2, <1>4, <2>1, ViewFacts
<1>7. RingAt(InList(x), y, None)
    BY <1>6, RingSame DEF RingAt
<1> QED BY <1>1, <1>3, <1>5, <1>7 DEF y

\* The end of the walk makes the two markers neighbours.
LEMMA WalkEnds ==
    ASSUME NEW x, Sound(x), NEW v \in Tokens, v.k = "S", RingAt(InList(x), x, v)
    PROVE  LET y == SetPrev(SetNext(x, S(x.cur), v), v, S(x.cur)) IN
           /\ Sound(y) /\ y.cur = x.cur
           /\ \A i : SameEntry(x, y, i)
           /\ \A i : IsUsed(x.entries, i) => Entry(y, i).prev = Entry(x, i).prev
           /\ RingAt(InList(y), y, None)
<1> DEFINE L == InList(x)
           c == S(x.cur)
           z == SetNext(x, c, v)
           y == SetPrev(z, v, c)
<1>1. v # None /\ v \in L /\ Present(x, v)
    BY WalkSlot
<1>2. c \in Tokens /\ c.k = "S" /\ Present(x, c)
    BY TokenFacts DEF Sound, Present
<1>3. /\ Sound(z) /\ z.cur = x.cur /\ \A i : SameEntry(x, z, i)
      /\ \A a : Present(x, a) => /\ PrevIn(z, a) = PrevIn(x, a)
                                 /\ NextIn(z, a) = IF a = c THEN v ELSE NextIn(x, a)
    BY <1>2, SetNextFacts
<1> HIDE DEF z
<1>4. \A a : Present(z, a) <=> Present(x, a)
    BY <1>3 DEF Present, SameEntry
<1>5. /\ Sound(y) /\ y.cur = z.cur /\ \A i : SameEntry(z, y, i)
      /\ \A a : Present(z, a) => /\ NextIn(y, a) = NextIn(z, a)
                                 /\ PrevIn(y, a) = IF a = v THEN c ELSE PrevIn(z, a)
    BY <1>1, <1>2, <1>3, <1>4, SetPrevFacts
<1> HIDE DEF y
<1>6. \A i : SameEntry(x, y, i)
    BY <1>3, <1>5 DEF SameEntry
<1>7. \A a : Present(y, a) <=> Present(x, a)
    BY <1>6 DEF Present, SameEntry
<1>8. \A a : Present(x, a) => /\ PrevIn(y, a) = IF a = v THEN c ELSE PrevIn(x, a)
                              /\ NextIn(y, a) = IF a = c THEN v ELSE NextIn(x, a)
    BY <1>3, <1>4, <1>5
<1>9. \A a : Present(x, a) /\ a.k = "E" => PrevIn(y, a) = PrevIn(x, a)
    BY <1>8
<1>10. InList(y) = L
    BY <1>7, <1>9 DEF InList
<1>11. ASSUME NEW a \in L
       PROVE  /\ NxF(y, None)[a] = NxF(x, v)[a] /\ PvF(y, None)[a] = PvF(x, v)[a]
              /\ SlF(y)[a] = SlF(x)[a]
  <2>1. a \in Tokens /\ Present(x, a)
      BY DEF InList
  <2>2. a.k # "S" => IsUsed(x.entries, a.i)
      BY <2>1, TokenFacts DEF Present
  <2>3. a.k # "S" => Entry(y, a.i).slot = Entry(x, a.i).slot
      BY <1>6, <2>2 DEF SameEntry
  <2>4. /\ NxF(x, v)[a] = IF a = c THEN v ELSE NextIn(x, a)
        /\ PvF(x, v)[a] = IF a = v THEN c ELSE PrevIn(x, a)
        /\ SlF(x)[a] = IF a.k = "S" THEN a.i ELSE Entry(x, a.i).slot
      BY <1>1, <2>1, ViewFacts
  <2>5. /\ NxF(y, None)[a] = NextIn(y, a) /\ PvF(y, None)[a] = PrevIn(y, a)
        /\ SlF(y)[a] = IF a.k = "S" THEN a.i ELSE Entry(y, a.i).slot
      BY <2>1, ViewFacts
  <2> QED BY <1>8, <2>1, <2>3, <2>4, <2>5
<1>12. RingAt(L, y, None)
    BY <1>11, RingSame DEF RingAt
<1>13. \A i : IsUsed(x.entries, i) => Entry(y, i).prev = Entry(x, i).prev
  <2> SUFFICES ASSUME NEW i, IsUsed(x.entries, i) PROVE Entry(y, i).prev = Entry(x, i).prev
      OBVIOUS
  <2>1. i \in Int
      BY DEF IsUsed, Sound, InOrder
  <2>2. E(i) \in Tokens /\ E(i).k = "E" /\ E(i).i = i
      BY <2>1, TokenFacts
  <2> QED BY <1>9, <2>2 DEF PrevIn, Present
<1> QED BY <1>3, <1>5, <1>6, <1>10, <1>12, <1>13 DEF y, z

----------------------------------------------------------------------------
(* The invariant.                                                          *)

\* What the theorems take for granted: tasks do none of the things Races lists to the
\* list (each of them breaks one of the properties), the wheel has more than two slots
\* (NUM_OF_SLOTS is 128), and timeouts longer than the wheel, which are moved on by the
\* clock and not by the ticks, are used only if ticks are on time.
Steady == Races = {} /\ NumSlots > 2 /\ (Lag = 0 \/ Secs \subseteq 0..Mask)

HeldIn(tm) == {t \in Names : tm[t].state = "Scheduled"}
TimerType == [state : {"Free", "Unscheduled", "Scheduled", "Expired"}, id : Int, secs : Nat]

\* The type invariant.
WheelTypes ==
    /\ Sound(w) /\ inner \in BOOLEAN /\ driver \in BOOLEAN
    /\ timer \in [Names -> TimerType]
    /\ \A t \in Names : timer[t].state \in {"Unscheduled", "Scheduled"} =>
                          timer[t].secs \in Secs /\ timer[t].secs >= 1
    /\ clock \in Nat /\ ticks \in Nat /\ since \in [Names -> Nat]
    /\ walk = None \/ walk \in Tokens
    /\ run = None \/ run \in Tasks

\* Timers and entries go together.
Handles(x, tm) ==
    /\ \A t \in HeldIn(tm) : IsUsed(x.entries, tm[t].id) /\ Entry(x, tm[t].id).task = Owner[t]
    /\ \A t, u \in HeldIn(tm) : tm[t].id = tm[u].id => t = u
    /\ \A i : IsUsed(x.entries, i) => \E t \in HeldIn(tm) : tm[t].id = i

\* Where entry e of a timer of secs seconds is after tk ticks, when tick end is the one
\* to expire it: in front of the marker as many places on as there are ticks to come, if
\* it is on its last lap; on the list, however long the timer, until then; and off the
\* list no sooner than due, where lim is 1 in the middle of a tick - unless the loop is
\* ending (ex), when tick takes what it walks off the list and runs nothing.
Placed(cur, e, secs, end, tk, lim, ex) ==
    /\ e.prev # Nil =>
         \E d \in 1..Mask :
           /\ e.slot = Later(cur, d)
           /\ e.exp = NoExp => end - tk = d
           /\ e.exp # NoExp => secs > Mask /\ e.exp = 2 * end + 1 /\ d <= end - tk
    /\ e.prev = Nil /\ (secs <= Mask \/ ~ex) => end - tk <= lim

Lim(v) == IF v = None THEN 0 ELSE 1
AllPlaced(x, tm, sn, tk, v, ex) ==
    \A t \in HeldIn(tm) :
      Placed(x.cur, Entry(x, tm[t].id), tm[t].secs, sn[t] + tm[t].secs, tk, Lim(v), ex)

\* The wheel's task keeps up with the clock, and only it walks the list.
LoopOK ==
    /\ ~inner => ~driver /\ HeldIn(timer) = {} /\ clock = 0 /\ ticks = 0 /\ walk = None
    /\ walk # None => driver /\ 2 * (ticks + 1) <= clock
    /\ HeldIn(timer) # {} => driver
    /\ driver => clock <= 2 * (ticks + 1) + Lag
    /\ 2 * ticks <= clock

WheelInv ==
    /\ WheelTypes
    /\ RingAt(InList(w), w, walk)
    /\ Handles(w, timer)
    /\ AllPlaced(w, timer, since, ticks, walk, exit)
    /\ LoopOK

\* The first wheel is a ring of markers.
LEMMA WheelStarts == WheelInit => WheelInv
<1> SUFFICES ASSUME WheelInit PROVE WheelInv
    OBVIOUS
<1>1. /\ w.entries = SlabNew /\ w.cur = 0 /\ w.bad = FALSE
      /\ w.slots = [i \in 0..Mask |-> [prev |-> S(Later(i, Mask)), next |-> S(Later(i, 1))]]
      /\ w = [entries |-> w.entries, slots |-> w.slots, cur |-> w.cur, bad |-> w.bad]
    BY DEF WheelInit
<1>2. Mask \in Nat /\ Mask >= 1 /\ 1 \in 0..Mask /\ Mask \in 0..Mask /\ 0 \in 0..Mask
    BY TokenFacts
<1>3. \A i \in 0..Mask : Later(i, 1) \in 0..Mask /\ Later(i, Mask) \in 0..Mask
    BY <1>2, LaterFacts
<1>4. InOrder(SlabNew) /\ \A i : ~IsUsed(SlabNew, i)
    BY NewInOrder
<1>5. \A i \in 0..Mask : /\ w.slots[i].next = S(Later(i, 1)) /\ w.slots[i].prev = S(Later(i, Mask))
                         /\ w.slots[i] \in Links
  <2> SUFFICES ASSUME NEW i \in 0..Mask
               PROVE  /\ w.slots[i].next = S(Later(i, 1)) /\ w.slots[i].prev = S(Later(i, Mask))
                      /\ w.slots[i] \in Links
      OBVIOUS
  <2>1. S(Later(i, 1)) \in Tokens /\ S(Later(i, Mask)) \in Tokens
      BY <1>2, <1>3, TokenFacts
  <2> QED BY <1>1, <2>1 DEF Links
<1>6. Sound(w)
  <2>1. w.slots \in [0..Mask -> Links]
      BY <1>1, <1>5
  <2> QED BY <1>1, <1>2, <1>4, <2>1 DEF Sound
<1>7. HeldIn(timer) = {} /\ timer \in [Names -> TimerType]
      /\ \A t \in Names : timer[t].state = "Free"
  <2>1. Unused \in TimerType /\ Unused.state = "Free"
      BY DEF Unused, TimerType, INVALID_INDEX
  <2>2. timer = [t \in Names |-> Unused]
      BY DEF WheelInit
  <2> QED BY <2>1, <2>2 DEF HeldIn
<1>8. WheelTypes
  <2>1. /\ inner \in BOOLEAN /\ driver \in BOOLEAN /\ clock \in Nat /\ ticks \in Nat
        /\ since \in [Names -> Nat] /\ walk = None /\ run = None
      BY DEF WheelInit
  <2> QED BY <1>6, <1>7, <2>1 DEF WheelTypes
<1>9. InList(w) = Markers
  <2>1. \A a \in Tokens : Present(w, a) <=> a \in Markers
      BY <1>1, <1>4 DEF Present
  <2>2. \A m \in Markers : m \in Tokens /\ m.k = "S"
      BY TokenFacts
  <2> QED BY <2>1, <2>2 DEF InList
<1>10. RingAt(Markers, w, None)
  <2> DEFINE nx == NxF(w, None)
             pv == PvF(w, None)
             sl == SlF(w)
  <2>1. \A i \in 0..Mask : nx[S(i)] = S(Later(i, 1)) /\ pv[S(i)] = S(Later(i, Mask)) /\ sl[S(i)] = i
    <3> SUFFICES ASSUME NEW i \in 0..Mask
                 PROVE  nx[S(i)] = S(Later(i, 1)) /\ pv[S(i)] = S(Later(i, Mask)) /\ sl[S(i)] = i
        OBVIOUS
    <3>1. S(i) \in Tokens /\ S(i).k = "S" /\ S(i).i = i
        BY TokenFacts
    <3>2. NextIn(w, S(i)) = S(Later(i, 1)) /\ PrevIn(w, S(i)) = S(Later(i, Mask))
        BY <1>5, <3>1 DEF NextIn, PrevIn
    <3> QED BY <3>1, <3>2, ViewFacts
  <2> HIDE DEF nx, pv, sl
  <2>2. ASSUME NEW a \in Markers
        PROVE  /\ nx[a] \in Markers /\ pv[nx[a]] = a /\ pv[a] \in Markers /\ nx[pv[a]] = a
               /\ sl[nx[a]] = SlotAfter(sl, a) /\ sl[a] = a.i
    <3>1. PICK i \in 0..Mask : a = S(i) /\ a.i = i /\ a.k = "S"
        BY TokenFacts
    <3>2. /\ nx[a] = S(Later(i, 1)) /\ pv[a] = S(Later(i, Mask))
          /\ nx[a] \in Markers /\ pv[a] \in Markers
        BY <1>3, <2>1, <3>1, TokenFacts
    <3>3. pv[nx[a]] = S(Later(Later(i, 1), Mask)) /\ sl[nx[a]] = Later(i, 1) /\ sl[a] = i
        BY <1>3, <2>1, <3>1, <3>2
    <3>4. nx[pv[a]] = S(Later(Later(i, Mask), 1))
        BY <1>3, <2>1, <3>1, <3>2
    <3>5. Later(Later(i, 1), Mask) = i /\ Later(Later(i, Mask), 1) = i
        BY LaterMore
    <3> QED BY <3>1, <3>2, <3>3, <3>4, <3>5 DEF SlotAfter
  <2>3. \A m \in Markers : m \in Tokens /\ m.k = "S"
      BY TokenFacts
  <2>4. \A T \in SUBSET Markers : T # {} /\ (\A a \in T : a.k = "E") => \E a \in T : pv[a] \notin T
      BY <2>3
  <2>5. Ring(Markers, nx, pv, sl)
      BY <2>2, <2>3, <2>4 DEF Ring
  <2> QED BY <2>5 DEF RingAt, nx, pv, sl
<1>11. walk = None /\ RingAt(InList(w), w, walk)
    BY <1>9, <1>10 DEF WheelInit
<1>12. Handles(w, timer) /\ AllPlaced(w, timer, since, ticks, walk, exit)
    BY <1>1, <1>4, <1>7 DEF Handles, AllPlaced
<1>13. LoopOK
  <2>1. Lag \in Nat
      BY WheelAssumption DEF WheelAssumption
  <2> QED BY <1>7, <2>1 DEF WheelInit, LoopOK
<1> QED BY <1>8, <1>11, <1>12, <1>13 DEF WheelInv

\* A place is kept by an entry that keeps its slot.
LEMMA PlacedSame ==
    ASSUME NEW cur, NEW e, NEW secs, NEW end, NEW tk, NEW lim, NEW ex, Placed(cur, e, secs, end, tk, lim, ex),
           NEW f, f.slot = e.slot, f.exp = e.exp, f.prev = Nil <=> e.prev = Nil
    PROVE  Placed(cur, f, secs, end, tk, lim, ex)
BY DEF Placed

\* y has entry id of timer t anew; all others are as they were in x.
Others(x, y, id) ==
    /\ y.cur = x.cur
    /\ \A i : i # id => SameEntry(x, y, i)
    /\ \A i : i # id /\ IsUsed(x.entries, i) => (Entry(y, i).prev = Nil <=> Entry(x, i).prev = Nil)

LEMMA OneMoved ==
    ASSUME NEW x, NEW y, NEW tm, NEW tm2, NEW t \in Names, NEW id, Handles(x, tm), Others(x, y, id),
           HeldIn(tm2) = HeldIn(tm) \cup {t}, tm2[t].id = id,
           t \in HeldIn(tm) => tm[t].id = id, t \notin HeldIn(tm) => ~IsUsed(x.entries, id),
           \A u \in HeldIn(tm) \ {t} : tm2[u] = tm[u],
           IsUsed(y.entries, id), Entry(y, id).task = Owner[t],
           NEW sn, NEW sn2, \A u \in Names \ {t} : sn2[u] = sn[u],
           NEW tk, NEW v, NEW ex, AllPlaced(x, tm, sn, tk, v, ex),
           Placed(y.cur, Entry(y, id), tm2[t].secs, sn2[t] + tm2[t].secs, tk, Lim(v), ex)
    PROVE  Handles(y, tm2) /\ AllPlaced(y, tm2, sn2, tk, v, ex)
<1>1. ASSUME NEW u \in HeldIn(tm) \ {t}
      PROVE  /\ tm2[u] = tm[u] /\ tm[u].id # id /\ IsUsed(x.entries, tm[u].id) /\ u \in Names
             /\ SameEntry(x, y, tm[u].id)
             /\ Entry(y, tm[u].id).prev = Nil <=> Entry(x, tm[u].id).prev = Nil
  <2>1. IsUsed(x.entries, tm[u].id) /\ tm[u].id # id /\ u \in Names
      BY DEF Handles, HeldIn
  <2> QED BY <2>1 DEF Others
<1>2. \A u \in HeldIn(tm2) : IsUsed(y.entries, tm2[u].id) /\ Entry(y, tm2[u].id).task = Owner[u]
  <2> SUFFICES ASSUME NEW u \in HeldIn(tm2), u # t
               PROVE  IsUsed(y.entries, tm2[u].id) /\ Entry(y, tm2[u].id).task = Owner[u]
      OBVIOUS
  <2>1. u \in HeldIn(tm) \ {t} /\ Entry(x, tm[u].id).task = Owner[u]
      BY DEF Handles
  <2> QED BY <1>1, <2>1 DEF SameEntry
<1>3. \A u1, u2 \in HeldIn(tm2) : tm2[u1].id = tm2[u2].id => u1 = u2
    BY <1>1 DEF Handles
<1>4. \A i : IsUsed(y.entries, i) => \E u \in HeldIn(tm2) : tm2[u].id = i
  <2> SUFFICES ASSUME NEW i, IsUsed(y.entries, i), i # id
               PROVE  \E u \in HeldIn(tm2) : tm2[u].id = i
      OBVIOUS
  <2>1. IsUsed(x.entries, i)
      BY DEF Others, SameEntry
  <2>2. PICK u \in HeldIn(tm) : tm[u].id = i
      BY <2>1 DEF Handles
  <2> QED BY <1>1, <2>2
<1>5. ASSUME NEW u \in HeldIn(tm2)
      PROVE  Placed(y.cur, Entry(y, tm2[u].id), tm2[u].secs, sn2[u] + tm2[u].secs, tk, Lim(v), ex)
  <2>1. CASE u = t
      BY <2>1
  <2>2. CASE u # t
    <3>1. u \in HeldIn(tm) \ {t}
        BY <2>2
    <3>2. /\ tm2[u] = tm[u] /\ IsUsed(x.entries, tm[u].id) /\ SameEntry(x, y, tm[u].id)
          /\ Entry(y, tm[u].id).prev = Nil <=> Entry(x, tm[u].id).prev = Nil
          /\ sn2[u] = sn[u]
        BY <1>1, <3>1
    <3>3. Placed(x.cur, Entry(x, tm[u].id), tm[u].secs, sn[u] + tm[u].secs, tk, Lim(v), ex)
        BY <3>1 DEF AllPlaced
    <3>4. y.cur = x.cur
        BY DEF Others
    <3>5. Placed(x.cur, Entry(y, tm[u].id), tm[u].secs, sn[u] + tm[u].secs, tk, Lim(v), ex)
        BY <3>2, <3>3, PlacedSame DEF SameEntry
    <3> QED BY <3>2, <3>4, <3>5
  <2> QED BY <2>1, <2>2
<1> QED BY <1>2, <1>3, <1>4, <1>5 DEF Handles, AllPlaced

----------------------------------------------------------------------------
(* The steps.                                                              *)

\* One tick more: what is on the list is a place nearer.
LEMMA PlacedOn ==
    ASSUME NEW c \in 0..Mask, NEW e, NEW secs \in Nat, NEW end \in Nat, NEW tk \in Nat,
           NEW lim \in {0, 1}, NEW ex, Placed(c, e, secs, end, tk, lim, ex),
           e.prev # Nil => e.slot # Later(c, 1)
    PROVE  Placed(Later(c, 1), e, secs, end, tk + 1, 0, ex)
<1>1. CASE e.prev # Nil
  <2>1. PICK d \in 1..Mask :
          /\ e.slot = Later(c, d)
          /\ e.exp = NoExp => end - tk = d
          /\ e.exp # NoExp => secs > Mask /\ e.exp = 2 * end + 1 /\ d <= end - tk
      BY <1>1 DEF Placed
  <2>2. d # 1 /\ Mask \in Nat
      BY <1>1, <2>1, TokenFacts
  <2>3. d - 1 \in 1..Mask
      BY <2>2
  <2>4. e.slot = Later(Later(c, 1), d - 1)
      BY <2>1, LaterMore
  <2>5. /\ e.exp = NoExp => end - (tk + 1) = d - 1
        /\ e.exp # NoExp => secs > Mask /\ e.exp = 2 * end + 1 /\ d - 1 <= end - (tk + 1)
      BY <2>1
  <2> QED BY <1>1, <2>3, <2>4, <2>5 DEF Placed
<1>2. CASE e.prev = Nil
  <2>1. secs <= Mask \/ ~ex => end - tk <= lim
      BY <1>2 DEF Placed
  <2>2. end - tk <= lim => end - (tk + 1) <= 0
      OBVIOUS
  <2> QED BY <1>2, <2>1, <2>2 DEF Placed
<1> QED BY <1>1, <1>2

\* A tick that ends: no entry is left in front of the marker it ends at.
LEMMA TickedOn ==
    ASSUME NEW x, Sound(x), NEW v, NEW ex, v = None \/ v \in Tokens, RingAt(InList(x), x, v),
           NxF(x, v)[S(x.cur)].k = "S",
           NEW tm \in [Names -> TimerType], NEW sn \in [Names -> Nat], NEW tk \in Nat,
           Handles(x, tm), AllPlaced(x, tm, sn, tk, v, ex),
           NEW y, y.cur = Later(x.cur, 1), \A i : SameEntry(x, y, i),
           \A i : IsUsed(x.entries, i) => Entry(y, i).prev = Entry(x, i).prev
    PROVE  Handles(y, tm) /\ AllPlaced(y, tm, sn, tk + 1, None, ex)
<1>1. Handles(y, tm)
    BY DEF Handles, SameEntry
<1>2. ASSUME NEW t \in HeldIn(tm)
      PROVE  Placed(y.cur, Entry(y, tm[t].id), tm[t].secs, sn[t] + tm[t].secs, tk + 1, Lim(None), ex)
  <2> DEFINE id == tm[t].id
             e == Entry(x, id)
             f == Entry(y, id)
             secs == tm[t].secs
             end == sn[t] + tm[t].secs
  <2>1. IsUsed(x.entries, id) /\ SameEntry(x, y, id) /\ f.prev = e.prev
      BY DEF Handles
  <2>2. f.slot = e.slot /\ f.exp = e.exp
      BY <2>1 DEF SameEntry
  <2>3. Placed(x.cur, e, secs, end, tk, Lim(v), ex)
      BY DEF AllPlaced
  <2>4. secs \in Nat /\ end \in Nat /\ Lim(v) \in {0, 1} /\ x.cur \in 0..Mask /\ Lim(None) = 0
      BY DEF HeldIn, TimerType, Lim, Sound
  <2>5. e.prev # Nil => e.slot # Later(x.cur, 1)
    <3> SUFFICES ASSUME e.prev # Nil PROVE e.slot # Later(x.cur, 1)
        OBVIOUS
    <3>1. id \in Int
        BY <2>1 DEF IsUsed, Sound, InOrder
    <3>2. E(id) \in Tokens /\ E(id).k = "E" /\ E(id).i = id
        BY <3>1, TokenFacts
    <3>3. E(id) \in InList(x)
        BY <2>1, <3>2 DEF InList, Present, PrevIn
    <3>4. SlF(x)[E(id)] = e.slot
      <4>1. SlF(x)[E(id)] = IF E(id).k = "S" THEN E(id).i ELSE Entry(x, E(id).i).slot
          BY <3>2, ViewFacts
      <4> QED BY <3>2, <4>1
    <3>5. SlF(x)[E(id)] # Later(x.cur, 1)
        BY <2>4, <3>2, <3>3, SlotEmpty DEF RingAt
    <3> QED BY <3>4, <3>5
  <2> HIDE DEF e, f, secs, end, id
  <2>6. Placed(Later(x.cur, 1), e, secs, end, tk + 1, 0, ex)
      BY <2>3, <2>4, <2>5, PlacedOn
  <2>7. Placed(Later(x.cur, 1), f, secs, end, tk + 1, 0, ex)
      BY <2>1, <2>2, <2>6, PlacedSame
  <2> QED BY <2>4, <2>7 DEF e, f, secs, end, id
<1> QED BY <1>1, <1>2 DEF AllPlaced

LEMMA AdvanceKeeps == WheelInv /\ Advance => WheelInv'
<1> SUFFICES ASSUME WheelInv, Advance PROVE WheelInv'
    OBVIOUS
<1>1. WheelTypes'
    BY DEF WheelInv, WheelTypes, Advance, wheel
<1>2. (RingAt(InList(w), w, walk) /\ Handles(w, timer) /\ AllPlaced(w, timer, since, ticks, walk, exit))'
    BY DEF WheelInv, Advance, wheel
<1>3. LoopOK'
  <2>1. /\ clock \in Nat /\ ticks \in Nat /\ Lag \in Nat /\ clock' = clock + 1 /\ inner
        /\ driver => clock < 2 * (ticks + 1) + Lag
        /\ timer' = timer /\ driver' = driver /\ walk' = walk /\ ticks' = ticks /\ inner' = inner
      BY WheelAssumption DEF WheelAssumption, WheelInv, WheelTypes, Advance, wheel
  <2>2. LoopOK
      BY DEF WheelInv
  <2> QED BY <2>1, <2>2 DEF LoopOK, HeldIn
<1> QED BY <1>1, <1>2, <1>3 DEF WheelInv

LEMMA TickStartKeeps == WheelInv /\ TickStart => WheelInv'
<1> SUFFICES ASSUME WheelInv, TickStart PROVE WheelInv'
    OBVIOUS
<1> DEFINE first == w.slots[w.cur].next
<1>1. /\ Sound(w) /\ walk = None /\ RingAt(InList(w), w, None) /\ run = None
      /\ Handles(w, timer) /\ AllPlaced(w, timer, since, ticks, None, exit) /\ LoopOK
      /\ timer \in [Names -> TimerType] /\ since \in [Names -> Nat]
    BY DEF WheelInv, WheelTypes, TickStart
<1>2. /\ clock \in Nat /\ ticks \in Nat /\ Lag \in Nat /\ driver /\ 2 * (ticks + 1) <= clock
      /\ UNCHANGED <<inner, driver, timer, live, clock, run, exit, since, made>>
    BY WheelAssumption DEF WheelAssumption, WheelInv, WheelTypes, TickStart
<1>3. first \in InList(w) /\ first \in Tokens /\ first.k # "Nil" /\ RingAt(InList(w), w, first)
    BY <1>1, WalkStarts
<1>4. first # None
    BY <1>3, WheelAssumption DEF WheelAssumption, Tokens
<1>5. CASE first.k = "S"
  <2>1. first.i = Later(w.cur, 1)
      BY <1>1, <1>3, <1>5, WalkSlot
  <2>2. Later(w.cur, 1) \in 0..Mask
      BY <1>1, LaterFacts, TokenFacts DEF Sound
  <2>3. w' = WithCur(w, Later(w.cur, 1)) /\ ticks' = ticks + 1 /\ walk' = None
      BY <1>1, <1>5, <2>1 DEF TickStart, WithCur
  <2>4. /\ Sound(w') /\ w'.cur = Later(w.cur, 1) /\ w'.entries = w.entries /\ w'.slots = w.slots
        /\ RingAt(InList(w'), w', None)
      BY <1>1, <2>2, <2>3, CurMoved
  <2>5. \A i : Entry(w', i) = Entry(w, i) /\ SameEntry(w, w', i)
      BY <2>4 DEF Entry, SameEntry
  <2>6. NxF(w, None)[S(w.cur)].k = "S"
    <3>1. S(w.cur) \in Tokens /\ S(w.cur).k = "S" /\ S(w.cur).i = w.cur
        BY <1>1, TokenFacts DEF Sound
    <3>2. NxF(w, None)[S(w.cur)] = first
        BY <3>1, ViewFacts DEF NextIn
    <3> QED BY <1>5, <3>2
  <2>7. Handles(w', timer) /\ AllPlaced(w', timer, since, ticks + 1, None, exit)
      BY <1>1, <1>2, <2>4, <2>5, <2>6, TickedOn
  <2>8. WheelTypes'
      BY <1>1, <1>2, <2>3, <2>4 DEF WheelInv, WheelTypes
  <2>9. LoopOK'
      BY <1>1, <1>2, <2>3 DEF LoopOK, HeldIn
  <2> QED BY <1>2, <2>3, <2>4, <2>7, <2>8, <2>9 DEF WheelInv
<1>6. CASE first.k = "E"
  <2>1. walk' = first /\ w' = w /\ ticks' = ticks
      BY <1>6 DEF TickStart
  <2>2. WheelTypes'
      BY <1>1, <1>2, <1>3, <2>1 DEF WheelInv, WheelTypes
  <2>3. AllPlaced(w, timer, since, ticks, first, exit)
    <3> SUFFICES ASSUME NEW t \in HeldIn(timer)
                 PROVE  Placed(w.cur, Entry(w, timer[t].id), timer[t].secs,
                               since[t] + timer[t].secs, ticks, Lim(first), exit)
        BY DEF AllPlaced
    <3> DEFINE secs == timer[t].secs
               end == since[t] + timer[t].secs
               e == Entry(w, timer[t].id)
    <3>1. Placed(w.cur, e, secs, end, ticks, 0, exit)
        BY <1>1 DEF AllPlaced, Lim
    <3>2. secs \in Nat /\ end \in Nat /\ Lim(first) = 1
        BY <1>1, <1>4 DEF HeldIn, TimerType, Lim
    <3> HIDE DEF e, secs, end
    <3>3. end - ticks <= 0 => end - ticks <= 1
        BY <1>2, <3>2
    <3>4. Placed(w.cur, e, secs, end, ticks, 1, exit)
        BY <3>1, <3>3 DEF Placed
    <3> QED BY <3>2, <3>4 DEF e, secs, end
  <2>4. LoopOK'
    <3>1. inner
        BY <1>1, <1>2 DEF LoopOK
    <3> QED BY <1>1, <1>2, <2>1, <3>1 DEF LoopOK, HeldIn
  <2> QED BY <1>1, <1>2, <1>3, <2>1, <2>2, <2>3, <2>4 DEF WheelInv
<1> QED BY <1>3, <1>5, <1>6 DEF Tokens

LEMMA TickEndKeeps == WheelInv /\ TickEnd => WheelInv'
<1> SUFFICES ASSUME WheelInv, TickEnd PROVE WheelInv'
    OBVIOUS
<1>1. /\ Sound(w) /\ walk # None /\ walk \in Tokens /\ RingAt(InList(w), w, walk) /\ run = None
      /\ Handles(w, timer) /\ AllPlaced(w, timer, since, ticks, walk, exit) /\ LoopOK
      /\ timer \in [Names -> TimerType] /\ since \in [Names -> Nat] /\ walk.k # "E"
    BY DEF WheelInv, WheelTypes, TickEnd
<1>2. /\ clock \in Nat /\ ticks \in Nat /\ Lag \in Nat
      /\ UNCHANGED <<inner, driver, timer, live, clock, run, exit, since, made>>
    BY WheelAssumption DEF WheelAssumption, WheelInv, WheelTypes, TickEnd
<1>3. walk.k = "S" /\ walk.i = Later(w.cur, 1)
    BY <1>1, WalkSlot
<1> DEFINE z == SetPrev(SetNext(w, S(w.cur), walk), walk, S(w.cur))
<1>4. Later(w.cur, 1) \in 0..Mask /\ w.cur \in 0..Mask /\ S(w.cur).k = "S" /\ S(w.cur).i = w.cur
  <2>1. w.cur \in 0..Mask /\ 1 \in 0..Mask
      BY <1>1, TokenFacts DEF Sound
  <2> QED BY <2>1, LaterFacts, TokenFacts
<1>5. w' = WithCur(z, Later(w.cur, 1)) /\ ticks' = ticks + 1 /\ walk' = None
  <2>1. SetNext(w, S(w.cur), walk) = [w EXCEPT !.slots[w.cur].next = walk]
      BY <1>4 DEF SetNext
  <2>2. z = [[w EXCEPT !.slots[w.cur].next = walk] EXCEPT !.slots[walk.i].prev = S(w.cur)]
      BY <1>3, <2>1 DEF SetPrev
  <2>3. w' = [w EXCEPT !.slots[w.cur].next = walk,
                       !.slots[walk.i].prev = S(w.cur),
                       !.cur = walk.i]
      BY <1>3 DEF TickEnd
  <2>4. w' = WithCur(z, walk.i)
      BY <2>2, <2>3 DEF WithCur
  <2> QED BY <1>3, <2>4 DEF TickEnd
<1>6. /\ Sound(z) /\ z.cur = w.cur
      /\ \A i : SameEntry(w, z, i)
      /\ \A i : IsUsed(w.entries, i) => Entry(z, i).prev = Entry(w, i).prev
      /\ RingAt(InList(z), z, None)
    BY <1>1, <1>3, WalkEnds
<1> HIDE DEF z
<1>7. /\ Sound(w') /\ w'.cur = Later(w.cur, 1) /\ w'.entries = z.entries
      /\ RingAt(InList(w'), w', None)
    BY <1>4, <1>5, <1>6, CurMoved
<1>8. /\ \A i : SameEntry(w, w', i)
      /\ \A i : IsUsed(w.entries, i) => Entry(w', i).prev = Entry(w, i).prev
    BY <1>6, <1>7 DEF SameEntry, Entry
<1>9. NxF(w, walk)[S(w.cur)].k = "S"
  <2>1. S(w.cur) \in Tokens
      BY <1>1, TokenFacts DEF Sound
  <2>2. NxF(w, walk)[S(w.cur)] = walk
      BY <1>1, <2>1, ViewFacts
  <2> QED BY <1>3, <2>2
<1>10. Handles(w', timer) /\ AllPlaced(w', timer, since, ticks + 1, None, exit)
    BY <1>1, <1>2, <1>7, <1>8, <1>9, TickedOn
<1>11. WheelTypes'
    BY <1>1, <1>2, <1>5, <1>7 DEF WheelInv, WheelTypes
<1>12. LoopOK'
    BY <1>1, <1>2, <1>5 DEF LoopOK, HeldIn
<1> QED BY <1>2, <1>5, <1>7, <1>10, <1>11, <1>12 DEF WheelInv

\* Steps that leave the wheel alone: the program's tasks run and return.
LEMMA RunKeeps ==
    WheelInv /\ (RunEnd \/ RunEndExit \/ (\E k \in Tasks : IoRun(k)) \/ UNCHANGED wvars) => WheelInv'
<1> SUFFICES ASSUME WheelInv,
                    RunEnd \/ RunEndExit \/ (\E k \in Tasks : IoRun(k)) \/ UNCHANGED wvars
             PROVE  WheelInv'
    OBVIOUS
<1>1. UNCHANGED <<w, inner, driver, timer, clock, walk, ticks, since>>
    BY DEF RunEnd, RunEndExit, IoRun, wvars, wheel
<1>2. run' = None \/ run' \in Tasks
    BY DEF RunEnd, RunEndExit, IoRun, wvars, WheelInv, WheelTypes
<1>3. WheelTypes'
    BY <1>1, <1>2 DEF WheelInv, WheelTypes
<1>4. exit => exit'
    BY DEF RunEnd, RunEndExit, IoRun, wvars
<1>5. \A t \in HeldIn(timer) :
        Placed(w.cur, Entry(w, timer[t].id), timer[t].secs, since[t] + timer[t].secs,
               ticks, Lim(walk), exit')
    BY <1>4 DEF WheelInv, AllPlaced, Placed
<1>6. AllPlaced(w, timer, since, ticks, walk, exit)'
    BY <1>1, <1>5 DEF AllPlaced
<1> QED BY <1>1, <1>3, <1>6 DEF WheelInv, LoopOK

LEMMA RerunKeeps == WheelInv /\ Rerun => WheelInv'
<1> SUFFICES ASSUME WheelInv, Rerun PROVE WheelInv'
    OBVIOUS
<1>1. UNCHANGED <<w, inner, timer, clock, walk, run, ticks, since>> /\ driver' = FALSE
    BY DEF Rerun
<1>2. HeldIn(timer) = {} /\ walk = None
    BY DEF Rerun, HeldIn
<1>3. WheelTypes'
    BY <1>1 DEF WheelInv, WheelTypes
<1>4. LoopOK'
    BY <1>1, <1>2 DEF WheelInv, LoopOK
<1>5. AllPlaced(w, timer, since, ticks, walk, exit)'
    BY <1>1, <1>2 DEF AllPlaced
<1> QED BY <1>1, <1>3, <1>4, <1>5 DEF WheelInv

\* reschedule_internal for an entry that is out of the list.
LEMMA Relinked ==
    ASSUME NEW x, Sound(x), NEW v, v = None \/ v \in Tokens, NEW id, IsUsed(x.entries, id),
           RingAt(InList(x) \ {E(id)}, x, v), E(id) # v, NEW half, NEW exp \in Int,
           NEW secs, secs = round_to_secs(half), NEW timeout,
           timeout = (IF secs > Mask THEN Mask ELSE secs),
           S(Later(x.cur, timeout)) # v, Later(x.cur, timeout) \in 0..Mask,
           clock + half \in Int
    PROVE  LET y == reschedule_internal(x, half, exp, id) IN
           /\ Sound(y) /\ Others(x, y, id)
           /\ IsUsed(y.entries, id) /\ Entry(y, id).task = Entry(x, id).task
           /\ Entry(y, id).exp = IF secs > Mask THEN (IF exp = NoExp THEN clock + half ELSE exp)
                                                ELSE Entry(x, id).exp
           /\ Entry(y, id).slot = Later(x.cur, timeout) /\ Entry(y, id).prev # Nil
           /\ RingAt(InList(y), y, v)
<1> DEFINE new == IF exp = NoExp THEN clock + half ELSE exp
           en == [Entry(x, id) EXCEPT !.exp = new]
           x1 == IF secs > Mask THEN SetEntry(x, id, en) ELSE x
           s == Later(x.cur, timeout)
           y == LinkBefore(x1, id, s)
<1>1. reschedule_internal(x, half, exp, id) = y
    BY DEF reschedule_internal
<1>2. new \in Int
    OBVIOUS
<1> HIDE DEF new
<1>3. Entry(x, id) \in EntryType
    BY DEF Sound
<1>4. /\ en \in EntryType /\ en.exp = new /\ en.task = Entry(x, id).task
    BY <1>2, <1>3 DEF EntryType
<1> HIDE DEF en
<1>5. /\ Sound(x1) /\ x1.cur = x.cur /\ x1.slots = x.slots /\ SameBut(x.entries, x1.entries, id)
      /\ IsUsed(x1.entries, id) /\ Entry(x1, id).task = Entry(x, id).task
      /\ Entry(x1, id).exp = IF secs > Mask THEN new ELSE Entry(x, id).exp
  <2>1. CASE secs > Mask
      BY <1>4, <2>1, SetEntryFacts
  <2>2. CASE ~(secs > Mask)
      BY <2>2 DEF SameBut
  <2> QED BY <2>1, <2>2
<1> HIDE DEF x1
<1>6. id \in Int
    BY DEF IsUsed, Sound, InOrder
<1>7. RingAt(InList(x1) \ {E(id)}, x1, v)
  <2> DEFINE L == InList(x) \ {E(id)}
  <2>1. L \subseteq InList(x) /\ E(id) \notin L /\ RingAt(L, x, v)
      OBVIOUS
  <2> HIDE DEF L
  <2>2. InList(x1) \ {E(id)} = InList(x) \ {E(id)} /\ RingAt(L, x1, v)
      BY <1>5, <1>6, <2>1, OutChanged
  <2> QED BY <2>2 DEF L
<1> HIDE DEF s
<1>8. s \in 0..Mask /\ S(s) # v
    BY DEF s
<1>9. /\ Sound(y) /\ y.cur = x1.cur
      /\ \A i : i # id => SameEntry(x1, y, i)
      /\ \A i : i # id /\ IsUsed(x1.entries, i) =>
                (Entry(y, i).prev = Nil <=> Entry(x1, i).prev = Nil)
      /\ IsUsed(y.entries, id) /\ Entry(y, id).task = Entry(x1, id).task
      /\ Entry(y, id).exp = Entry(x1, id).exp /\ Entry(y, id).slot = s
      /\ Entry(y, id).prev # Nil
      /\ RingAt(InList(y), y, v)
    BY <1>5, <1>7, <1>8, PutIn
<1> HIDE DEF y
<1>10. Others(x, y, id)
    BY <1>5, <1>9 DEF Others, SameEntry, SameBut, Entry
<1> QED BY <1>1, <1>5, <1>9, <1>10 DEF new, s

\* The clock in the middle of a tick, if the program uses timeouts longer than the wheel.
LEMMA LongOnTime ==
    ASSUME Steady, LoopOK, walk # None, clock \in Nat, ticks \in Nat,
           NEW secs \in Secs, secs > Mask
    PROVE  clock = 2 * (ticks + 1)
<1>1. secs \in Nat /\ Mask \in Nat
    BY TokenFacts, WheelAssumption DEF WheelAssumption
<1>2. Lag = 0
    BY <1>1 DEF Steady
<1>3. driver /\ 2 * (ticks + 1) <= clock /\ clock <= 2 * (ticks + 1) + Lag
    BY DEF LoopOK
<1> QED BY <1>2, <1>3

LEMMA VisitKeeps == Steady /\ WheelInv /\ Visit => WheelInv'
<1> SUFFICES ASSUME Steady, WheelInv, Visit PROVE WheelInv'
    OBVIOUS
<1> DEFINE id == walk.i
           e == Entry(w, id)
           en == [e EXCEPT !.prev = Nil, !.next = Nil, !.exp = NoExp]
           x == SetEntry(w, id, en)
           n == e.next
           again == e.exp # NoExp /\ e.exp >= clock + 2
<1>1. /\ Sound(w) /\ walk # None /\ walk \in Tokens /\ walk.k = "E" /\ RingAt(InList(w), w, walk)
      /\ Handles(w, timer) /\ AllPlaced(w, timer, since, ticks, walk, exit) /\ LoopOK
      /\ timer \in [Names -> TimerType] /\ since \in [Names -> Nat] /\ run = None
    BY DEF WheelInv, WheelTypes, Visit
<1>2. /\ clock \in Nat /\ ticks \in Nat /\ Lag \in Nat
      /\ UNCHANGED <<inner, driver, timer, live, clock, exit, ticks, since, made>>
    BY WheelAssumption DEF WheelAssumption, WheelInv, WheelTypes, Visit
<1>3. /\ walk \in InList(w) /\ IsUsed(w.entries, id) /\ e.slot = Later(w.cur, 1) /\ walk = E(id)
    BY <1>1, WalkSlot, TokenFacts
<1>4. /\ walk' = n
      /\ w' = IF ~exit /\ again THEN reschedule_internal(x, e.exp - clock, e.exp, id) ELSE x
      /\ run' = IF ~exit /\ ~again THEN e.task ELSE None
    BY <1>1, <1>3 DEF Visit
<1>5. e \in EntryType /\ e.prev # Nil
    BY <1>1, <1>3 DEF Sound, InList, PrevIn
<1>6. e.exp \in Int /\ e.task \in Tasks /\ en \in EntryType /\ en.prev = Nil /\ en.exp = NoExp
      /\ en.task = e.task
  <2>1. Nil \in Tokens /\ NoExp \in Int
      BY TokenFacts DEF NoExp
  <2> HIDE DEF e
  <2> QED BY <1>5, <2>1 DEF EntryType
<1> HIDE DEF en
<1>7. /\ Sound(x) /\ x.cur = w.cur /\ IsUsed(x.entries, id) /\ Entry(x, id) = en
      /\ SameBut(w.entries, x.entries, id)
      /\ n \in Tokens /\ n # None /\ n # walk
      /\ RingAt(InList(x), x, n)
    BY <1>1, <1>6, VisitedOut
<1> HIDE DEF x, n
<1>8. id \in Int
    BY <1>1, <1>3 DEF IsUsed, Sound, InOrder
<1>9. Others(w, x, id)
    BY <1>7 DEF Others, SameBut, SameEntry, Entry
<1>10. PICK t \in HeldIn(timer) : timer[t].id = id
    BY <1>1, <1>3 DEF Handles
<1> DEFINE secs == timer[t].secs
           end == since[t] + timer[t].secs
<1>11. /\ t \in Names /\ secs \in Nat /\ end \in Nat /\ secs \in Secs /\ e.task = Owner[t]
       /\ Placed(w.cur, e, secs, end, ticks, 1, exit)
  <2>1. Placed(w.cur, e, secs, end, ticks, Lim(walk), exit) /\ Lim(walk) = 1
      BY <1>1, <1>10 DEF AllPlaced, Lim
  <2>2. secs \in Secs
      BY <1>10 DEF WheelInv, WheelTypes, HeldIn
  <2> QED BY <1>1, <1>10, <2>1, <2>2 DEF HeldIn, Handles, TimerType
<1> HIDE DEF secs, end
<1>12. /\ e.exp = NoExp => end - ticks = 1
       /\ e.exp # NoExp => secs > Mask /\ e.exp = 2 * end + 1 /\ 1 <= end - ticks
  <2>1. PICK d \in 1..Mask :
          /\ e.slot = Later(w.cur, d)
          /\ e.exp = NoExp => end - ticks = d
          /\ e.exp # NoExp => secs > Mask /\ e.exp = 2 * end + 1 /\ d <= end - ticks
      BY <1>5, <1>11 DEF Placed
  <2>2. d = 1
    <3>1. w.cur \in 0..Mask /\ d \in 0..Mask /\ 1 \in 0..Mask
        BY <1>1, TokenFacts DEF Sound
    <3> QED BY <1>3, <2>1, <3>1, LaterMore
  <2> QED BY <2>1, <2>2
<1>13. AllPlaced(w, timer, since, ticks, n, exit) /\ Lim(n) = 1
    BY <1>1, <1>7 DEF AllPlaced, Lim
<1>14. HeldIn(timer) = HeldIn(timer) \cup {t}
    BY <1>10
<1>15. LoopOK' /\ (run' = None \/ run' \in Tasks)
  <2>1. walk # None /\ walk' # None
      BY <1>1, <1>4, <1>7
  <2> QED BY <1>1, <1>2, <1>4, <1>6, <2>1 DEF LoopOK
<1>16. CASE ~(~exit /\ again)
  <2>1. w' = x
      BY <1>4, <1>16
  <2>2. Placed(x.cur, Entry(x, id), secs, end, ticks, Lim(n), exit)
    <3>1. secs <= Mask => end - ticks <= 1
      <4>1. secs <= Mask => ~(secs > Mask)
          BY <1>11, TokenFacts
      <4> QED BY <1>2, <1>11, <1>12, <4>1
    <3>2. ~exit => end - ticks <= 1
      <4> SUFFICES ASSUME ~exit, e.exp # NoExp PROVE end - ticks <= 1
          BY <1>2, <1>11, <1>12
      <4>1. secs > Mask /\ e.exp = 2 * end + 1 /\ ~(e.exp >= clock + 2)
          BY <1>12, <1>16
      <4>2. clock = 2 * (ticks + 1)
          BY <1>1, <1>2, <1>11, <4>1, LongOnTime
      <4> QED BY <1>2, <1>11, <4>1, <4>2
    <3> QED BY <1>6, <1>7, <1>13, <3>1, <3>2 DEF Placed
  <2>3. Handles(x, timer) /\ AllPlaced(x, timer, since, ticks, n, exit)
    <3>1. /\ Placed(x.cur, Entry(x, id), timer[t].secs, since[t] + timer[t].secs, ticks, Lim(n), exit)
          /\ Entry(x, id).task = Owner[t]
        BY <1>6, <1>7, <1>11, <2>2 DEF secs, end
    <3> HIDE DEF id, e
    <3> QED BY <1>1, <1>7, <1>9, <1>10, <1>11, <1>13, <1>14, <3>1, OneMoved
  <2>4. WheelTypes'
      BY <1>2, <1>4, <1>7, <1>15, <2>1 DEF WheelInv, WheelTypes
  <2> QED BY <1>2, <1>4, <1>7, <1>15, <2>1, <2>3, <2>4 DEF WheelInv
<1>17. CASE ~exit /\ again
  <2> DEFINE half == e.exp - clock
             due == end - ticks
             timeout == IF due > Mask THEN Mask ELSE due
             y == reschedule_internal(x, half, e.exp, id)
  <2>1. Mask \in Nat /\ Mask >= 2
      BY TokenFacts DEF Steady
  <2>2. secs > Mask /\ e.exp = 2 * end + 1 /\ e.exp >= clock + 2
      BY <1>12, <1>17
  <2>3. clock = 2 * (ticks + 1)
      BY <1>1, <1>2, <1>11, <2>2, LongOnTime
  <2>4. half = 2 * due - 1 /\ due >= 2 /\ due \in Nat
      BY <1>2, <1>11, <2>2, <2>3
  <2> HIDE DEF half, due
  <2>5. round_to_secs(half) = due
      BY <2>4 DEF round_to_secs
  <2>6. timeout \in 1..Mask /\ timeout # 1 /\ timeout <= due
      BY <2>1, <2>4
  <2>7. S(Later(x.cur, timeout)) # n /\ Later(x.cur, timeout) \in 0..Mask
    <3> HIDE DEF timeout
    <3> QED BY <1>7, <2>6, NotWalked
  <2>8. RingAt(InList(x) \ {E(id)}, x, n) /\ E(id) # n
    <3>1. E(id) \notin InList(x)
        BY <1>3, <1>6, <1>7, TokenFacts DEF InList, PrevIn
    <3>2. InList(x) \ {E(id)} = InList(x)
        BY <3>1
    <3> QED BY <1>3, <1>7, <3>2
  <2>9. clock + half \in Int
      BY <1>2, <2>4
  <2> DEFINE new == IF e.exp = NoExp THEN clock + half ELSE e.exp
  <2>10. /\ Sound(y) /\ Others(x, y, id)
         /\ IsUsed(y.entries, id) /\ Entry(y, id).task = Entry(x, id).task
         /\ Entry(y, id).exp = IF due > Mask THEN new ELSE Entry(x, id).exp
         /\ Entry(y, id).slot = Later(x.cur, timeout) /\ Entry(y, id).prev # Nil
         /\ RingAt(InList(y), y, n)
    <3> DEFINE ex == e.exp
    <3>1. ex \in Int
        BY <1>6
    <3>2. timeout = IF due > Mask THEN Mask ELSE due
        OBVIOUS
    <3> HIDE DEF timeout, id, e, ex
    <3>3. LET yy == reschedule_internal(x, half, ex, id) IN
          /\ Sound(yy) /\ Others(x, yy, id)
          /\ IsUsed(yy.entries, id) /\ Entry(yy, id).task = Entry(x, id).task
          /\ Entry(yy, id).exp = IF due > Mask THEN (IF ex = NoExp THEN clock + half ELSE ex)
                                               ELSE Entry(x, id).exp
          /\ Entry(yy, id).slot = Later(x.cur, timeout) /\ Entry(yy, id).prev # Nil
          /\ RingAt(InList(yy), yy, n)
        BY <1>7, <2>5, <2>7, <2>8, <2>9, <3>1, <3>2, Relinked
    <3> QED BY <3>3 DEF ex
  <2>11. w' = y
      BY <1>4, <1>17 DEF half
  <2> HIDE DEF y
  <2>12. Others(w, y, id)
      BY <1>9, <2>10 DEF Others, SameEntry
  <2>13. Placed(y.cur, Entry(y, id), secs, end, ticks, Lim(n), exit)
    <3>1. y.cur = x.cur
        BY <2>10 DEF Others
    <3>2. Entry(y, id).slot = Later(y.cur, timeout)
        BY <2>10, <3>1
    <3>3. CASE due > Mask
      <4>1. Entry(y, id).exp = 2 * end + 1 /\ Entry(y, id).exp # NoExp
          BY <1>11, <2>2, <2>10, <3>3 DEF NoExp
      <4> QED BY <2>2, <2>6, <2>10, <3>2, <4>1 DEF Placed, due
    <3>4. CASE ~(due > Mask)
      <4>1. Entry(y, id).exp = NoExp /\ timeout = due
          BY <1>6, <1>7, <2>10, <3>4
      <4> QED BY <2>6, <2>10, <3>2, <4>1 DEF Placed, due
    <3> QED BY <3>3, <3>4
  <2>14. Handles(y, timer) /\ AllPlaced(y, timer, since, ticks, n, exit)
    <3>1. /\ Placed(y.cur, Entry(y, id), timer[t].secs, since[t] + timer[t].secs, ticks, Lim(n), exit)
          /\ Entry(y, id).task = Owner[t]
        BY <1>6, <1>7, <1>11, <2>10, <2>13 DEF secs, end
    <3> HIDE DEF id, e
    <3> QED BY <1>1, <1>10, <1>11, <1>13, <1>14, <2>10, <2>12, <3>1, OneMoved
  <2>15. WheelTypes'
      BY <1>2, <1>4, <1>7, <1>15, <2>10, <2>11 DEF WheelInv, WheelTypes
  <2> QED BY <1>2, <1>4, <1>15, <2>10, <2>11, <2>14, <2>15 DEF WheelInv
<1> QED BY <1>16, <1>17

\* The slab of entries is replaced.
WithEntries(x, s) == [x EXCEPT !.entries = s]
LEMMA WithEntriesFacts ==
    ASSUME NEW x, Sound(x), NEW s, InOrder(s), \A i : IsUsed(s, i) => Elem(s, i) \in EntryType
    PROVE  LET y == WithEntries(x, s) IN
           Sound(y) /\ y.entries = s /\ y.slots = x.slots /\ y.cur = x.cur
<1> DEFINE y == WithEntries(x, s)
<1>1. /\ y.entries = s /\ y.slots = x.slots /\ y.cur = x.cur /\ y.bad = x.bad
      /\ y = [entries |-> y.entries, slots |-> y.slots, cur |-> y.cur, bad |-> y.bad]
    BY DEF Sound, WithEntries
<1> HIDE DEF y
<1>2. \A i : IsUsed(y.entries, i) => Entry(y, i) \in EntryType
    BY <1>1 DEF Entry
<1>3. Sound(y)
    BY <1>1, <1>2 DEF Sound
<1> QED BY <1>1, <1>3 DEF y

\* y is x with a new entry, in front of the marker it is for.
Entered(x, y, v, secs, task, id, timeout) ==
    /\ id \in Int /\ ~IsUsed(x.entries, id)
    /\ Sound(y) /\ Others(x, y, id)
    /\ IsUsed(y.entries, id) /\ Entry(y, id).task = task
    /\ Entry(y, id).exp = IF secs > Mask THEN clock + 2 * secs ELSE NoExp
    /\ Entry(y, id).slot = Later(x.cur, timeout) /\ Entry(y, id).prev # Nil
    /\ RingAt(InList(y), y, v)

\* That is what schedule does.
LEMMA ScheduleFacts ==
    ASSUME NEW x, Sound(x), NEW v, v = None \/ v \in Tokens, RingAt(InList(x), x, v),
           NEW secs \in Nat, secs >= 1, v # None => secs # 1, Mask >= 2,
           NEW task \in Tasks, clock \in Nat, NEW id, id = NextIndex(x.entries),
           NEW timeout, timeout = (IF secs > Mask THEN Mask ELSE secs)
    PROVE  Entered(x, schedule(x, secs, task), v, secs, task, id, timeout)
<1> DEFINE exp == IF secs > Mask THEN clock + 2 * secs ELSE NoExp
           e == [prev |-> Nil, next |-> Nil, task |-> task, slot |-> 0, exp |-> exp]
           s == Insert(x.entries, e)
           x1 == WithEntries(x, s)
           p == Later(x.cur, timeout)
           y == LinkBefore(x1, id, p)
<1>1. schedule(x, secs, task) = y
    BY DEF schedule, WithEntries
<1>2. exp \in Int
    BY DEF NoExp
<1> HIDE DEF exp
<1>3. e \in EntryType /\ e.task = task /\ e.exp = exp /\ e.prev = Nil
  <2>1. Nil \in Tokens /\ 0 \in 0..Mask
      BY TokenFacts
  <2> QED BY <1>2, <2>1 DEF EntryType
<1> HIDE DEF e
<1>4. /\ InOrder(s) /\ id \in Nat /\ ~IsUsed(x.entries, id) /\ IsUsed(s, id) /\ Elem(s, id) = e
      /\ SameBut(x.entries, s, id)
    BY InsertInOrder DEF Sound
<1> HIDE DEF s
<1>5. \A i : IsUsed(s, i) => Elem(s, i) \in EntryType
  <2> SUFFICES ASSUME NEW i, IsUsed(s, i), i # id PROVE Elem(s, i) \in EntryType
      BY <1>3, <1>4
  <2>1. IsUsed(x.entries, i) /\ Elem(s, i) = Elem(x.entries, i)
      BY <1>4 DEF SameBut
  <2> QED BY <2>1 DEF Sound, Entry
<1>6. Sound(x1) /\ x1.entries = s /\ x1.slots = x.slots /\ x1.cur = x.cur
    BY <1>4, <1>5, WithEntriesFacts
<1> HIDE DEF x1
<1>7. Entry(x1, id) = e /\ IsUsed(x1.entries, id)
    BY <1>4, <1>6 DEF Entry
<1>8. E(id) \notin InList(x)
  <2>1. ~Present(x, E(id))
      BY <1>4, TokenFacts DEF Present
  <2> QED BY <2>1 DEF InList
<1>9. E(id) # v
  <2>1. CASE v = None
    <3>1. E(id) \in Tokens /\ None \notin Tokens
        BY <1>4, TokenFacts, WheelAssumption DEF WheelAssumption, Tokens
    <3> QED BY <2>1, <3>1
  <2>2. CASE v # None
      BY <1>8, <2>2, WalkSlot
  <2> QED BY <2>1, <2>2
<1>10. RingAt(InList(x1) \ {E(id)}, x1, v)
  <2>1. InList(x1) \ {E(id)} = InList(x) \ {E(id)} /\ RingAt(InList(x), x1, v)
      BY <1>4, <1>6, <1>8, OutChanged
  <2>2. InList(x) \ {E(id)} = InList(x)
      BY <1>8
  <2> QED BY <2>1, <2>2
<1>11. p \in 0..Mask /\ S(p) # v
  <2>1. timeout \in 1..Mask /\ (v # None => timeout # 1)
      BY TokenFacts
  <2> QED BY <2>1, NotWalked
<1> HIDE DEF p
<1>12. /\ Sound(y) /\ y.cur = x1.cur
       /\ \A i : i # id => SameEntry(x1, y, i)
       /\ \A i : i # id /\ IsUsed(x1.entries, i) =>
                 (Entry(y, i).prev = Nil <=> Entry(x1, i).prev = Nil)
       /\ IsUsed(y.entries, id) /\ Entry(y, id).task = Entry(x1, id).task
       /\ Entry(y, id).exp = Entry(x1, id).exp /\ Entry(y, id).slot = p
       /\ Entry(y, id).prev # Nil
       /\ RingAt(InList(y), y, v)
    BY <1>6, <1>7, <1>9, <1>10, <1>11, PutIn
<1> HIDE DEF y
<1>13. Others(x, y, id)
    BY <1>4, <1>6, <1>12 DEF Others, SameEntry, SameBut, Entry
<1>14. id \in Int
    BY <1>4
<1> QED BY <1>1, <1>3, <1>4, <1>7, <1>12, <1>13, <1>14 DEF p, exp, Entered

\* reschedule of a timer on the list, in front of another marker than the one that tick
\* is going to.
LEMMA RescheduleFacts ==
    ASSUME NEW x, Sound(x), NEW v, v = None \/ v \in Tokens, RingAt(InList(x), x, v),
           NEW secs \in Nat, secs >= 1, v # None => secs # 1, Mask >= 2, clock \in Nat,
           NEW id, IsUsed(x.entries, id), Entry(x, id).prev # Nil, E(id) # v,
           NEW timeout, timeout = (IF secs > Mask THEN Mask ELSE secs)
    PROVE  LET y == reschedule(x, 2 * secs, id) IN
           /\ Sound(y) /\ Others(x, y, id)
           /\ IsUsed(y.entries, id) /\ Entry(y, id).task = Entry(x, id).task
           /\ Entry(y, id).exp = IF secs > Mask THEN clock + 2 * secs ELSE Entry(x, id).exp
           /\ Entry(y, id).slot = Later(x.cur, timeout) /\ Entry(y, id).prev # Nil
           /\ RingAt(InList(y), y, v)
<1> DEFINE x1 == Unlink(x, Entry(x, id))
           half == 2 * secs
           y == reschedule_internal(x1, half, NoExp, id)
<1>1. reschedule(x, half, id) = y
    BY DEF reschedule
<1>2. round_to_secs(half) = secs /\ clock + half \in Int
  <2>1. (2 * secs + 1) \div 2 = secs
      OBVIOUS
  <2> QED BY <2>1 DEF round_to_secs
<1> HIDE DEF half
<1>3. id \in Int
    BY DEF IsUsed, Sound, InOrder
<1>4. E(id) \in InList(x)
  <2>1. E(id) \in Tokens /\ E(id).k = "E" /\ E(id).i = id
      BY <1>3, TokenFacts
  <2> QED BY <2>1 DEF InList, Present, PrevIn
<1>5. /\ Sound(x1) /\ x1.cur = x.cur /\ \A i : SameEntry(x, x1, i)
      /\ InList(x1) \ {E(id)} = InList(x) \ {E(id)}
      /\ RingAt(InList(x) \ {E(id)}, x1, v)
      /\ \A i : i # id /\ IsUsed(x.entries, i) =>
                (Entry(x1, i).prev = Nil <=> Entry(x, i).prev = Nil)
  <2>1. SameBut(x.entries, x.entries, id)
      BY DEF SameBut
  <2> QED BY <1>4, <2>1, TakenOut
<1> HIDE DEF x1
<1>6. IsUsed(x1.entries, id) /\ Entry(x1, id).task = Entry(x, id).task /\ Entry(x1, id).exp = Entry(x, id).exp
    BY <1>5 DEF SameEntry
<1>7. S(Later(x1.cur, timeout)) # v /\ Later(x1.cur, timeout) \in 0..Mask
  <2>1. timeout \in 1..Mask /\ (v # None => timeout # 1)
      BY TokenFacts
  <2> QED BY <1>5, <2>1, NotWalked
<1>8. RingAt(InList(x1) \ {E(id)}, x1, v) /\ NoExp \in Int
    BY <1>5 DEF NoExp
<1>9. /\ Sound(y) /\ Others(x1, y, id)
      /\ IsUsed(y.entries, id) /\ Entry(y, id).task = Entry(x1, id).task
      /\ Entry(y, id).exp = IF secs > Mask THEN clock + half ELSE Entry(x1, id).exp
      /\ Entry(y, id).slot = Later(x1.cur, timeout) /\ Entry(y, id).prev # Nil
      /\ RingAt(InList(y), y, v)
    BY <1>2, <1>5, <1>6, <1>7, <1>8, Relinked
<1> HIDE DEF y
<1>10. Others(x, y, id)
    BY <1>5, <1>9 DEF Others, SameEntry
<1> QED BY <1>1, <1>5, <1>6, <1>9, <1>10 DEF half

\* cancel of a timer that is not the one tick goes to next.
LEMMA CancelFacts ==
    ASSUME NEW x, Sound(x), NEW v, v = None \/ v \in Tokens, RingAt(InList(x), x, v),
           NEW id, IsUsed(x.entries, id), E(id) # v
    PROVE  LET y == cancel(x, id) IN
           /\ Sound(y) /\ Others(x, y, id) /\ ~IsUsed(y.entries, id)
           /\ RingAt(InList(y), y, v)
<1> DEFINE s == Remove(x.entries, id)
           e == Entry(x, id)
           x1 == WithEntries(x, s)
           y == cancel(x, id)
<1>1. y = IF e.prev = Nil THEN x1 ELSE Unlink(x1, e)
    BY DEF cancel, WithEntries
<1> HIDE DEF y
<1>2. InOrder(s) /\ ~IsUsed(s, id) /\ SameBut(x.entries, s, id)
    BY RemoveInOrder DEF Sound
<1> HIDE DEF s
<1>3. \A i : IsUsed(s, i) => Elem(s, i) \in EntryType
  <2> SUFFICES ASSUME NEW i, IsUsed(s, i) PROVE Elem(s, i) \in EntryType
      OBVIOUS
  <2>1. IsUsed(x.entries, i) /\ Elem(s, i) = Elem(x.entries, i)
      BY <1>2 DEF SameBut
  <2> QED BY <2>1 DEF Sound, Entry
<1>4. Sound(x1) /\ x1.entries = s /\ x1.slots = x.slots /\ x1.cur = x.cur
    BY <1>2, <1>3, WithEntriesFacts
<1> HIDE DEF x1
<1>5. id \in Int
    BY DEF IsUsed, Sound, InOrder
<1>6. E(id) \in Tokens /\ E(id).k = "E" /\ E(id).i = id
    BY <1>5, TokenFacts
<1>7. ASSUME NEW z, ~IsUsed(z.entries, id) PROVE E(id) \notin InList(z)
    BY <1>6, <1>7, TokenFacts DEF InList, Present
<1>8. CASE e.prev = Nil
  <2>1. E(id) \notin InList(x)
      BY <1>6, <1>8 DEF InList, PrevIn
  <2>2. InList(x1) \ {E(id)} = InList(x) \ {E(id)} /\ RingAt(InList(x), x1, v)
      BY <1>2, <1>4, <1>5, <2>1, OutChanged
  <2>3. E(id) \notin InList(x1)
      BY <1>2, <1>4, <1>7
  <2>4. InList(x1) = InList(x)
      BY <2>1, <2>2, <2>3
  <2>5. Others(x, x1, id)
      BY <1>2, <1>4 DEF Others, SameEntry, SameBut, Entry
  <2> QED BY <1>1, <1>2, <1>4, <1>8, <2>2, <2>4, <2>5 DEF y
<1>9. CASE e.prev # Nil
  <2> DEFINE z == Unlink(x1, e)
  <2>1. E(id) \in InList(x)
      BY <1>6, <1>9 DEF InList, Present, PrevIn
  <2>2. /\ Sound(z) /\ z.cur = x.cur /\ \A i : SameEntry(x1, z, i)
        /\ InList(z) \ {E(id)} = InList(x) \ {E(id)}
        /\ RingAt(InList(x) \ {E(id)}, z, v)
        /\ \A i : i # id /\ IsUsed(x.entries, i) =>
                  (Entry(z, i).prev = Nil <=> Entry(x, i).prev = Nil)
      BY <1>2, <1>4, <2>1, TakenOut
  <2> HIDE DEF z
  <2>3. ~IsUsed(z.entries, id)
      BY <1>2, <1>4, <2>2 DEF SameEntry
  <2>4. InList(z) = InList(x) \ {E(id)}
      BY <1>7, <2>2, <2>3
  <2>5. Others(x, z, id)
      BY <1>2, <1>4, <2>2 DEF Others, SameEntry, SameBut, Entry
  <2>6. y = z
      BY <1>1, <1>9 DEF z
  <2> QED BY <2>2, <2>3, <2>4, <2>5, <2>6 DEF y
<1> QED BY <1>8, <1>9

\* Timers that hold no entry come, go and change.
LEMMA SameHeld ==
    ASSUME NEW x, NEW tm, NEW tm2, NEW sn, NEW tk, NEW v, NEW ex, HeldIn(tm2) = HeldIn(tm),
           \A u \in HeldIn(tm) : tm2[u] = tm[u], Handles(x, tm), AllPlaced(x, tm, sn, tk, v, ex)
    PROVE  Handles(x, tm2) /\ AllPlaced(x, tm2, sn, tk, v, ex)
<1>1. Handles(x, tm2)
    BY DEF Handles
<1>2. AllPlaced(x, tm2, sn, tk, v, ex)
    BY DEF AllPlaced
<1> QED BY <1>1, <1>2

LEMMA NewKeeps == ASSUME WheelInv, NEW t \in Names, NEW s \in Secs, New(t, s) PROVE WheelInv'
<1>1. /\ timer \in [Names -> TimerType] /\ timer[t].state = "Free"
      /\ UNCHANGED <<w, inner, driver, clock, walk, run, exit, ticks, since>>
      /\ Handles(w, timer) /\ AllPlaced(w, timer, since, ticks, walk, exit) /\ LoopOK
    BY DEF WheelInv, WheelTypes, New, wheel, loop
<1> DEFINE r == [state |-> IF s = 0 THEN "Expired" ELSE "Unscheduled", id |-> INVALID_INDEX, secs |-> s]
<1>2. timer' = [timer EXCEPT ![t] = r]
    BY DEF New
<1>3. s \in Nat
    BY WheelAssumption DEF WheelAssumption
<1>4. /\ r \in TimerType /\ r.state # "Scheduled" /\ r.secs = s
      /\ r.state = "Unscheduled" => s >= 1
    BY <1>3 DEF TimerType, INVALID_INDEX
<1> HIDE DEF r
<1>5. /\ timer' \in [Names -> TimerType] /\ timer'[t] = r
      /\ \A u \in Names : u # t => timer'[u] = timer[u]
    BY <1>1, <1>2, <1>4
<1>6. HeldIn(timer') = HeldIn(timer) /\ \A u \in HeldIn(timer) : timer'[u] = timer[u]
    BY <1>1, <1>4, <1>5 DEF HeldIn
<1>7. Handles(w, timer') /\ AllPlaced(w, timer', since, ticks, walk, exit)
    BY <1>1, <1>6, SameHeld
<1>8. \A u \in Names : timer'[u].state \in {"Unscheduled", "Scheduled"} =>
                         timer'[u].secs \in Secs /\ timer'[u].secs >= 1
    BY <1>4, <1>5 DEF WheelInv, WheelTypes
<1>9. WheelTypes'
    BY <1>1, <1>5, <1>8 DEF WheelInv, WheelTypes
<1>10. LoopOK'
    BY <1>1, <1>6 DEF LoopOK
<1> QED BY <1>1, <1>7, <1>9, <1>10 DEF WheelInv

LEMMA PollExpiredKeeps == ASSUME WheelInv, NEW t \in Names, PollExpired(t) PROVE WheelInv'
<1>1. UNCHANGED <<w, inner, driver, timer, clock, walk, run, exit, ticks, since>>
    BY DEF PollExpired, wheel, loop
<1>2. WheelTypes'
    BY <1>1 DEF WheelInv, WheelTypes
<1> QED BY <1>1, <1>2 DEF WheelInv, LoopOK

\* Where a timer that is scheduled now is put, by schedule and by reschedule.
LEMMA PlacedNow ==
    ASSUME NEW c \in 0..Mask, NEW secs \in Nat, secs >= 1, NEW tk \in Nat, NEW lim, NEW ex, NEW f,
           NEW timeout, timeout = (IF secs > Mask THEN Mask ELSE secs),
           f.slot = Later(c, timeout), f.prev # Nil,
           secs > Mask => f.exp = 2 * (tk + secs) + 1, ~(secs > Mask) => f.exp = NoExp
    PROVE  Placed(c, f, secs, tk + secs, tk, lim, ex)
<1>1. Mask \in Nat /\ Mask >= 1
    BY TokenFacts
<1>2. timeout \in 1..Mask /\ timeout <= tk + secs - tk
    BY <1>1
<1>3. CASE secs > Mask
  <2>1. f.exp # NoExp
      BY <1>3 DEF NoExp
  <2> QED BY <1>2, <1>3, <2>1 DEF Placed
<1>4. CASE ~(secs > Mask)
  <2>1. timeout = tk + secs - tk
      BY <1>4
  <2> QED BY <1>2, <1>4, <2>1 DEF Placed
<1> QED BY <1>3, <1>4

\* In the first half of a second, ticks being on time.
LEMMA OddTime ==
    ASSUME NEW c \in Nat, NEW k \in Nat, 2 * k <= c, c <= 2 * (k + 1), c % 2 # 0
    PROVE  c = 2 * k + 1
<1>1. c = 2 * k \/ c = 2 * k + 1 \/ c = 2 * k + 2
    OBVIOUS
<1>2. (2 * k) % 2 = 0 /\ (2 * k + 2) % 2 = 0
    OBVIOUS
<1> QED BY <1>1, <1>2

LEMMA ScheduleKeeps ==
    ASSUME Steady, WheelInv, NEW t \in Names, Runs(t), Schedule(t) PROVE WheelInv'
<1> DEFINE secs == timer[t].secs
           timeout == IF secs > Mask THEN Mask ELSE secs
           id == NextIndex(w.entries)
           y == schedule(w, secs, run)
           tm2 == [timer EXCEPT ![t].state = "Scheduled", ![t].id = id]
           sn2 == [since EXCEPT ![t] = ticks]
<1>1. /\ Sound(w) /\ (walk = None \/ walk \in Tokens) /\ RingAt(InList(w), w, walk)
      /\ Handles(w, timer) /\ AllPlaced(w, timer, since, ticks, walk, exit) /\ LoopOK
      /\ timer \in [Names -> TimerType] /\ since \in [Names -> Nat]
    BY DEF WheelInv, WheelTypes
<1>2. /\ clock \in Nat /\ ticks \in Nat /\ Lag \in Nat /\ inner \in BOOLEAN /\ driver \in BOOLEAN
      /\ UNCHANGED <<clock, walk, run, exit, ticks>> /\ run = Owner[t] /\ run \in Tasks
    BY WheelAssumption DEF WheelAssumption, WheelInv, WheelTypes, Schedule, loop, Runs
<1>3. /\ w' = y /\ timer' = tm2 /\ since' = sn2
      /\ inner' = TRUE /\ driver' = IF inner THEN driver ELSE TRUE
    BY DEF Schedule, FirstUse
<1>4. /\ timer[t].state = "Unscheduled" /\ secs \in Secs /\ secs >= 1 /\ secs \in Nat
    BY <1>1 DEF Schedule, WheelInv, WheelTypes, TimerType
<1>5. /\ walk # None => secs # 1
      /\ secs > Mask => clock % 2 # 0
      /\ inner => driver
    BY DEF Steady, Schedule, Allowed, InTick
<1>6. Mask \in Nat /\ Mask >= 2
    BY TokenFacts DEF Steady
<1>7. driver' /\ LoopOK'
  <2>1. driver'
      BY <1>3, <1>5
  <2> QED BY <1>1, <1>2, <1>3, <1>5, <2>1 DEF LoopOK
<1>8. secs > Mask => clock + 2 * secs = 2 * (ticks + secs) + 1
  <2> SUFFICES ASSUME secs > Mask PROVE clock + 2 * secs = 2 * (ticks + secs) + 1
      OBVIOUS
  <2>1. Lag = 0
      BY <1>4, <1>6 DEF Steady
  <2>2. clock % 2 # 0
      BY <1>5
  <2>3. driver
      BY <1>1, <1>5, <2>2 DEF LoopOK
  <2>4. 2 * ticks <= clock /\ clock <= 2 * (ticks + 1)
      BY <1>1, <1>2, <2>1, <2>3 DEF LoopOK
  <2>5. clock = 2 * ticks + 1
      BY <1>2, <2>2, <2>4, OddTime
  <2> QED BY <1>2, <1>4, <2>5
<1>9. timeout = IF secs > Mask THEN Mask ELSE secs
    OBVIOUS
<1> HIDE DEF secs, id, timeout
<1>10. /\ id \in Int /\ ~IsUsed(w.entries, id)
       /\ Sound(y) /\ Others(w, y, id)
       /\ IsUsed(y.entries, id) /\ Entry(y, id).task = run
       /\ Entry(y, id).exp = IF secs > Mask THEN clock + 2 * secs ELSE NoExp
       /\ Entry(y, id).slot = Later(w.cur, timeout) /\ Entry(y, id).prev # Nil
       /\ RingAt(InList(y), y, walk)
  <2>1. id = NextIndex(w.entries)
      BY DEF id
  <2>2. Entered(w, y, walk, secs, run, id, timeout)
      BY <1>1, <1>2, <1>4, <1>5, <1>6, <1>9, <2>1, ScheduleFacts
  <2> QED BY <2>2 DEF Entered
<1> HIDE DEF y
<1>11. /\ tm2 \in [Names -> TimerType] /\ tm2[t].state = "Scheduled" /\ tm2[t].id = id /\ tm2[t].secs = secs
       /\ \A u \in Names : u # t => tm2[u] = timer[u]
    BY <1>1, <1>10 DEF TimerType, secs
<1>12. sn2 \in [Names -> Nat] /\ sn2[t] = ticks /\ \A u \in Names \ {t} : sn2[u] = since[u]
    BY <1>1, <1>2
<1> HIDE DEF tm2, sn2
<1>13. HeldIn(tm2) = HeldIn(timer) \cup {t} /\ t \notin HeldIn(timer)
       /\ \A u \in HeldIn(timer) \ {t} : tm2[u] = timer[u]
    BY <1>4, <1>11 DEF HeldIn
<1>14. Placed(y.cur, Entry(y, id), tm2[t].secs, sn2[t] + tm2[t].secs, ticks, Lim(walk), exit)
  <2>1. y.cur = w.cur /\ w.cur \in 0..Mask
      BY <1>1, <1>10 DEF Others, Sound
  <2>2. Placed(w.cur, Entry(y, id), secs, ticks + secs, ticks, Lim(walk), exit)
      BY <1>2, <1>4, <1>8, <1>9, <1>10, <2>1, PlacedNow
  <2> QED BY <1>11, <1>12, <2>1, <2>2
<1>15. Handles(y, tm2) /\ AllPlaced(y, tm2, sn2, ticks, walk, exit)
    BY <1>1, <1>2, <1>10, <1>11, <1>12, <1>13, <1>14, OneMoved
<1>16. \A u \in Names : tm2[u].state \in {"Unscheduled", "Scheduled"} => tm2[u].secs \in Secs /\ tm2[u].secs >= 1
    BY <1>4, <1>11 DEF WheelInv, WheelTypes
<1>17. WheelTypes'
    BY <1>1, <1>2, <1>3, <1>10, <1>11, <1>12, <1>16 DEF WheelTypes
<1> QED BY <1>2, <1>3, <1>7, <1>10, <1>15, <1>17 DEF WheelInv

\* A timer that is on the list and not being walked is not the one tick goes to next.
LEMMA NotNext ==
    ASSUME WheelInv, NEW t \in HeldIn(timer),
           walk # None => Expired(t) \/ Entry(w, timer[t].id).slot # Later(w.cur, 1)
    PROVE  E(timer[t].id) # walk
<1> DEFINE id == timer[t].id
<1>1. Sound(w) /\ (walk = None \/ walk \in Tokens) /\ RingAt(InList(w), w, walk) /\ IsUsed(w.entries, id)
    BY DEF WheelInv, WheelTypes, Handles
<1>2. id \in Int
    BY <1>1 DEF IsUsed, Sound, InOrder
<1>3. E(id) \in Tokens /\ E(id).k = "E" /\ E(id).i = id
    BY <1>2, TokenFacts
<1>4. CASE walk = None
    BY <1>3, <1>4, WheelAssumption DEF WheelAssumption, Tokens
<1>5. CASE walk # None
  <2>1. walk \in InList(w) /\ (walk.k # "S" => Entry(w, walk.i).slot = Later(w.cur, 1))
      BY <1>1, <1>5, WalkSlot
  <2>2. Expired(t) => E(id) \notin InList(w)
      BY <1>3 DEF InList, PrevIn, Expired
  <2> QED BY <1>3, <1>5, <2>1, <2>2
<1> QED BY <1>4, <1>5

LEMMA RescheduleKeeps ==
    ASSUME Steady, WheelInv, NEW t \in Names, Reschedule(t) PROVE WheelInv'
<1> DEFINE secs == timer[t].secs
           timeout == IF secs > Mask THEN Mask ELSE secs
           id == timer[t].id
           y == reschedule(w, 2 * secs, id)
           sn2 == [since EXCEPT ![t] = ticks]
<1>1. /\ Sound(w) /\ (walk = None \/ walk \in Tokens) /\ RingAt(InList(w), w, walk)
      /\ Handles(w, timer) /\ AllPlaced(w, timer, since, ticks, walk, exit) /\ LoopOK
      /\ timer \in [Names -> TimerType] /\ since \in [Names -> Nat]
    BY DEF WheelInv, WheelTypes
<1>2. /\ clock \in Nat /\ ticks \in Nat /\ Lag \in Nat
      /\ UNCHANGED <<inner, driver, timer, clock, walk, run, exit, ticks>>
    BY WheelAssumption DEF WheelAssumption, WheelInv, WheelTypes, Reschedule, loop
<1>3. w' = y /\ since' = sn2
    BY DEF Reschedule
<1>4. /\ t \in HeldIn(timer) /\ secs \in Secs /\ secs >= 1 /\ secs \in Nat
    BY <1>1 DEF Reschedule, WheelInv, WheelTypes, TimerType, HeldIn
<1>5. /\ walk # None => secs # 1
      /\ secs > Mask => clock % 2 # 0
      /\ Entry(w, id).prev # Nil
      /\ walk # None => Entry(w, id).slot # Later(w.cur, 1)
    BY DEF Steady, Reschedule, Allowed, InTick, Expired, Walked
<1>6. Mask \in Nat /\ Mask >= 2
    BY TokenFacts DEF Steady
<1>7. LoopOK' /\ driver
    BY <1>1, <1>2, <1>4 DEF LoopOK
<1>8. secs > Mask => clock + 2 * secs = 2 * (ticks + secs) + 1
  <2> SUFFICES ASSUME secs > Mask PROVE clock + 2 * secs = 2 * (ticks + secs) + 1
      OBVIOUS
  <2>1. Lag = 0
      BY <1>4, <1>6 DEF Steady
  <2>2. clock % 2 # 0
      BY <1>5
  <2>3. 2 * ticks <= clock /\ clock <= 2 * (ticks + 1)
      BY <1>1, <1>2, <1>7, <2>1 DEF LoopOK
  <2>4. clock = 2 * ticks + 1
      BY <1>2, <2>2, <2>3, OddTime
  <2> QED BY <1>2, <1>4, <2>4
<1>9. timeout = IF secs > Mask THEN Mask ELSE secs
    OBVIOUS
<1>10. E(id) # walk /\ IsUsed(w.entries, id) /\ Entry(w, id).task = Owner[t]
    BY <1>1, <1>4, <1>5, NotNext DEF Handles
<1>11. ~(secs > Mask) => Entry(w, id).exp = NoExp
  <2>1. Placed(w.cur, Entry(w, id), secs, since[t] + secs, ticks, Lim(walk), exit)
      BY <1>1, <1>4 DEF AllPlaced
  <2> HIDE DEF secs, id
  <2> QED BY <1>5, <2>1 DEF Placed
<1> HIDE DEF secs, id, timeout
<1>12. /\ Sound(y) /\ Others(w, y, id)
       /\ IsUsed(y.entries, id) /\ Entry(y, id).task = Entry(w, id).task
       /\ Entry(y, id).exp = IF secs > Mask THEN clock + 2 * secs ELSE Entry(w, id).exp
       /\ Entry(y, id).slot = Later(w.cur, timeout) /\ Entry(y, id).prev # Nil
       /\ RingAt(InList(y), y, walk)
    BY <1>1, <1>2, <1>4, <1>5, <1>6, <1>9, <1>10, RescheduleFacts
<1> HIDE DEF y
<1>13. sn2 \in [Names -> Nat] /\ sn2[t] = ticks /\ \A u \in Names \ {t} : sn2[u] = since[u]
    BY <1>1, <1>2
<1> HIDE DEF sn2
<1>14. Placed(y.cur, Entry(y, id), timer[t].secs, sn2[t] + timer[t].secs, ticks, Lim(walk), exit)
  <2>1. y.cur = w.cur /\ w.cur \in 0..Mask
      BY <1>1, <1>12 DEF Others, Sound
  <2>2. Placed(w.cur, Entry(y, id), secs, ticks + secs, ticks, Lim(walk), exit)
      BY <1>2, <1>4, <1>8, <1>9, <1>11, <1>12, <2>1, PlacedNow
  <2> QED BY <1>13, <2>1, <2>2 DEF secs
<1>15. Handles(y, timer) /\ AllPlaced(y, timer, sn2, ticks, walk, exit)
  <2>1. HeldIn(timer) = HeldIn(timer) \cup {t} /\ timer[t].id = id
      BY <1>4 DEF id
  <2> QED BY <1>1, <1>2, <1>4, <1>10, <1>12, <1>13, <1>14, <2>1, OneMoved
<1>16. WheelTypes'
    BY <1>2, <1>3, <1>12, <1>13 DEF WheelInv, WheelTypes
<1> QED BY <1>2, <1>3, <1>7, <1>12, <1>15, <1>16 DEF WheelInv

LEMMA DropKeeps ==
    ASSUME Steady, WheelInv, NEW t \in Names, Drop(t) PROVE WheelInv'
<1> DEFINE id == timer[t].id
           y == cancel(w, id)
           tm2 == [timer EXCEPT ![t] = Unused]
<1>1. /\ Sound(w) /\ (walk = None \/ walk \in Tokens) /\ RingAt(InList(w), w, walk)
      /\ Handles(w, timer) /\ AllPlaced(w, timer, since, ticks, walk, exit) /\ LoopOK
      /\ timer \in [Names -> TimerType] /\ since \in [Names -> Nat]
    BY DEF WheelInv, WheelTypes
<1>2. UNCHANGED <<inner, driver, clock, walk, run, exit, ticks, since>>
    BY DEF Drop, loop
<1>3. timer' = tm2 /\ w' = IF timer[t].state = "Scheduled" THEN y ELSE w
    BY DEF Drop
<1>4. /\ tm2 \in [Names -> TimerType] /\ tm2[t].state = "Free"
      /\ \A u \in Names : u # t => tm2[u] = timer[u]
  <2>1. Unused \in TimerType /\ Unused.state = "Free"
      BY DEF Unused, TimerType, INVALID_INDEX
  <2> QED BY <1>1, <2>1
<1> HIDE DEF tm2
<1>5. HeldIn(tm2) = HeldIn(timer) \ {t} /\ \A u \in HeldIn(tm2) : tm2[u] = timer[u] /\ u \in Names
    BY <1>4 DEF HeldIn
<1>6. LoopOK'
    BY <1>1, <1>2, <1>3, <1>5 DEF LoopOK
<1>7. \A u \in Names : tm2[u].state \in {"Unscheduled", "Scheduled"} => tm2[u].secs \in Secs /\ tm2[u].secs >= 1
    BY <1>4 DEF WheelInv, WheelTypes
<1>8. CASE timer[t].state # "Scheduled"
  <2>1. HeldIn(tm2) = HeldIn(timer) /\ w' = w
      BY <1>3, <1>5, <1>8 DEF HeldIn
  <2>2. Handles(w, tm2) /\ AllPlaced(w, tm2, since, ticks, walk, exit)
      BY <1>1, <1>5, <2>1, SameHeld
  <2>3. WheelTypes'
      BY <1>2, <1>3, <1>4, <1>7, <2>1 DEF WheelInv, WheelTypes
  <2> QED BY <1>1, <1>2, <1>3, <1>6, <2>1, <2>2, <2>3 DEF WheelInv
<1>9. CASE timer[t].state = "Scheduled"
  <2>1. t \in HeldIn(timer)
      BY <1>9 DEF HeldIn
  <2>2. walk # None => Expired(t) \/ Entry(w, timer[t].id).slot # Later(w.cur, 1)
      BY <1>9 DEF Drop, Steady, Walked, InTick
  <2>3. E(id) # walk /\ IsUsed(w.entries, id)
      BY <1>1, <2>1, <2>2, NotNext DEF Handles
  <2>4. /\ Sound(y) /\ Others(w, y, id) /\ ~IsUsed(y.entries, id)
        /\ RingAt(InList(y), y, walk)
    <3> HIDE DEF id
    <3> QED BY <1>1, <2>3, CancelFacts
  <2>5. w' = y
      BY <1>3, <1>9
  <2> HIDE DEF y
  <2>6. ASSUME NEW u \in HeldIn(tm2)
        PROVE  /\ tm2[u] = timer[u] /\ timer[u].id # id /\ u \in HeldIn(timer)
               /\ IsUsed(w.entries, timer[u].id) /\ SameEntry(w, y, timer[u].id)
               /\ Entry(y, timer[u].id).prev = Nil <=> Entry(w, timer[u].id).prev = Nil
    <3>1. tm2[u] = timer[u] /\ u \in HeldIn(timer) /\ u # t
        BY <1>5
    <3>2. IsUsed(w.entries, timer[u].id) /\ timer[u].id # id
        BY <1>1, <2>1, <3>1 DEF Handles
    <3> QED BY <2>4, <3>1, <3>2 DEF Others
  <2>7. Handles(y, tm2)
    <3>1. \A u \in HeldIn(tm2) : IsUsed(y.entries, tm2[u].id) /\ Entry(y, tm2[u].id).task = Owner[u]
        BY <1>1, <2>6 DEF Handles, SameEntry
    <3>2. \A u1, u2 \in HeldIn(tm2) : tm2[u1].id = tm2[u2].id => u1 = u2
        BY <1>1, <2>6 DEF Handles
    <3>3. ASSUME NEW i, IsUsed(y.entries, i) PROVE \E u \in HeldIn(tm2) : tm2[u].id = i
      <4>1. i # id /\ IsUsed(w.entries, i)
          BY <2>4, <3>3 DEF Others, SameEntry
      <4>2. PICK u \in HeldIn(timer) : timer[u].id = i
          BY <1>1, <4>1 DEF Handles
      <4>3. u # t
          BY <4>1, <4>2
      <4> QED BY <1>5, <4>2, <4>3
    <3> QED BY <3>1, <3>2, <3>3 DEF Handles
  <2>8. AllPlaced(y, tm2, since, ticks, walk, exit)
    <3> SUFFICES ASSUME NEW u \in HeldIn(tm2)
                 PROVE  Placed(y.cur, Entry(y, tm2[u].id), tm2[u].secs, since[u] + tm2[u].secs,
                               ticks, Lim(walk), exit)
        BY DEF AllPlaced
    <3>1. Placed(w.cur, Entry(w, timer[u].id), timer[u].secs, since[u] + timer[u].secs,
                 ticks, Lim(walk), exit)
        BY <1>1, <2>6 DEF AllPlaced
    <3>2. Placed(w.cur, Entry(y, timer[u].id), timer[u].secs, since[u] + timer[u].secs,
                 ticks, Lim(walk), exit)
        BY <2>6, <3>1, PlacedSame DEF SameEntry
    <3>3. y.cur = w.cur
        BY <2>4 DEF Others
    <3> QED BY <2>6, <3>2, <3>3
  <2>9. WheelTypes'
      BY <1>2, <1>3, <1>4, <1>7, <2>4, <2>5 DEF WheelInv, WheelTypes
  <2> QED BY <1>2, <1>3, <1>6, <2>4, <2>5, <2>7, <2>8, <2>9 DEF WheelInv
<1> QED BY <1>8, <1>9

\* Every step keeps the invariant.
LEMMA WheelStep == ASSUME Steady PROVE WheelInv /\ [WheelNext]_wvars => WheelInv'
<1> SUFFICES ASSUME WheelInv, [WheelNext]_wvars PROVE WheelInv'
    OBVIOUS
<1>1. CASE Advance
    BY <1>1, AdvanceKeeps
<1>2. CASE TickStart
    BY <1>2, TickStartKeeps
<1>3. CASE Visit
    BY <1>3, VisitKeeps
<1>4. CASE TickEnd
    BY <1>4, TickEndKeeps
<1>5. CASE RunEnd \/ RunEndExit \/ (\E k \in Tasks : IoRun(k)) \/ UNCHANGED wvars
    BY <1>5, RunKeeps
<1>6. CASE Rerun
    BY <1>6, RerunKeeps
<1>7. ASSUME NEW t \in Names, TimerOp(t) PROVE WheelInv'
  <2>1. ASSUME NEW s \in Secs, New(t, s) PROVE WheelInv'
      BY <2>1, NewKeeps
  <2>2. CASE PollNotReady(t)
      BY <2>2, ScheduleKeeps DEF PollNotReady
  <2>3. CASE PollExpired(t)
      BY <2>3, PollExpiredKeeps
  <2>4. CASE PollItem(t)
      BY <2>4, ScheduleKeeps, RescheduleKeeps DEF PollItem
  <2>5. CASE Drop(t)
      BY <2>5, DropKeeps
  <2> QED BY <1>7, <2>1, <2>2, <2>3, <2>4, <2>5 DEF TimerOp
<1> QED BY <1>1, <1>2, <1>3, <1>4, <1>5, <1>6, <1>7 DEF WheelNext

----------------------------------------------------------------------------
(* What the invariant says.                                                *)

\* The invariant holds of every state the wheel can be in.
THEOREM WheelInvariance == ASSUME Steady PROVE WheelSpec => []WheelInv
<1>1. WheelInit => WheelInv
    BY WheelStarts
<1>2. WheelInv /\ [WheelNext]_wvars => WheelInv'
    BY WheelStep
<1> QED BY <1>1, <1>2, PTL DEF WheelSpec

\* Between ticks wheel.rs keeps its list sound: next and prev undo each other, no link
\* leads to an entry that was freed, and what is in front of a marker belongs there.
THEOREM WheelListSound == ASSUME Steady PROVE WheelSpec => []ListSound
<1>1. ASSUME WheelInv PROVE ListSound
  <2> SUFFICES ASSUME walk = None, NEW tok \in Linked
               PROVE  /\ NextOf(tok) \in Linked /\ PrevOf(NextOf(tok)) = tok
                      /\ PrevOf(tok) \in Linked /\ NextOf(PrevOf(tok)) = tok
                      /\ tok.k = "E" =>
                           \/ NextOf(tok) = S(Entry(w, tok.i).slot)
                           \/ /\ NextOf(tok).k = "E"
                              /\ Entry(w, NextOf(tok).i).slot = Entry(w, tok.i).slot
      BY DEF ListSound, InTick
  <2>1. Sound(w) /\ RingAt(InList(w), w, None)
      BY <1>1 DEF WheelInv, WheelTypes
  <2>2. Linked = InList(w)
    <3>1. ASSUME NEW a \in Linked PROVE a \in InList(w)
      <4>1. CASE a \in Markers
          BY <4>1, TokenFacts DEF InList, Present
      <4>2. CASE a \notin Markers
        <5>1. PICK i \in 0..w.entries.n - 1 : a = E(i) /\ IsUsed(w.entries, i) /\ Entry(w, i).prev # Nil
            BY <3>1, <4>2 DEF Linked, Markers
        <5>2. a \in Tokens /\ a.k = "E" /\ a.i = i
            BY <2>1, <5>1, TokenFacts DEF Sound, InOrder
        <5> QED BY <5>1, <5>2 DEF InList, Present, PrevIn
      <4> QED BY <4>1, <4>2
    <3>2. ASSUME NEW a \in InList(w) PROVE a \in Linked
      <4>1. CASE a \in Markers
          BY <4>1 DEF Linked, Markers
      <4>2. CASE a \notin Markers
        <5>1. a = E(a.i) /\ IsUsed(w.entries, a.i) /\ Entry(w, a.i).prev # Nil
            BY <3>2, <4>2, TokenFacts DEF InList, Present, PrevIn
        <5>2. a.i \in 0..w.entries.n - 1
            BY <5>1 DEF IsUsed
        <5> QED BY <5>1, <5>2 DEF Linked
      <4> QED BY <4>1, <4>2
    <3> QED BY <3>1, <3>2
  <2> DEFINE nx == NxF(w, None)
             pv == PvF(w, None)
             sl == SlF(w)
  <2>3. \A a \in InList(w) : /\ a \in Tokens /\ nx[a] = NextOf(a) /\ pv[a] = PrevOf(a)
                             /\ sl[a] = IF a.k = "S" THEN a.i ELSE Entry(w, a.i).slot
    <3> SUFFICES ASSUME NEW a \in InList(w)
                 PROVE  /\ a \in Tokens /\ nx[a] = NextOf(a) /\ pv[a] = PrevOf(a)
                        /\ sl[a] = IF a.k = "S" THEN a.i ELSE Entry(w, a.i).slot
        OBVIOUS
    <3>1. a \in Tokens
        BY DEF InList
    <3>2. nx[a] = NextIn(w, a) /\ pv[a] = PrevIn(w, a)
        BY <3>1, ViewFacts
    <3> QED BY <3>1, <3>2, ViewFacts DEF NextIn, PrevIn, NextOf, PrevOf
  <2>4. Ring(InList(w), nx, pv, sl)
      BY <2>1 DEF RingAt
  <2> HIDE DEF nx, pv, sl
  <2>5. /\ nx[tok] \in InList(w) /\ pv[nx[tok]] = tok
        /\ pv[tok] \in InList(w) /\ nx[pv[tok]] = tok
        /\ sl[nx[tok]] = SlotAfter(sl, tok) /\ nx[tok].k # "Nil"
      BY <2>2, <2>4 DEF Ring
  <2>6. tok \in InList(w)
      BY <2>2
  <2>7. /\ NextOf(tok) \in Linked /\ PrevOf(NextOf(tok)) = tok
        /\ PrevOf(tok) \in Linked /\ NextOf(PrevOf(tok)) = tok
      BY <2>2, <2>3, <2>5, <2>6
  <2>8. ASSUME tok.k = "E"
        PROVE  \/ NextOf(tok) = S(Entry(w, tok.i).slot)
               \/ NextOf(tok).k = "E" /\ Entry(w, NextOf(tok).i).slot = Entry(w, tok.i).slot
    <3> DEFINE n == nx[tok]
    <3>1. n = NextOf(tok) /\ n \in Tokens
        BY <2>3, <2>5, <2>6
    <3>2. sl[tok] = Entry(w, tok.i).slot /\ sl[n] = sl[tok]
        BY <2>3, <2>5, <2>6, <2>8 DEF SlotAfter
    <3>3. sl[n] = IF n.k = "S" THEN n.i ELSE Entry(w, n.i).slot
        BY <2>3, <2>5
    <3> HIDE DEF n
    <3>4. CASE n.k = "S"
      <4>1. n = S(n.i)
          BY <3>1, <3>4, TokenFacts
      <4> QED BY <3>1, <3>2, <3>3, <3>4, <4>1
    <3>5. CASE n.k # "S"
      <4>1. n.k = "E"
          BY <2>5, <3>1, <3>5 DEF Tokens, n
      <4> QED BY <3>1, <3>2, <3>3, <3>5, <4>1
    <3> QED BY <3>4, <3>5
  <2> QED BY <2>7, <2>8
<1> QED BY <1>1, WheelInvariance, PTL

\* A timer names an entry of its own, of its own task; cancel frees it, and nothing else
\* does: as many entries are in use as there are timers that name one.
THEOREM WheelHandleOwnsEntry == ASSUME Steady PROVE WheelSpec => []HandleOwnsEntry
<1>1. ASSUME WheelInv PROVE HandleOwnsEntry
  <2> DEFINE held == HeldIn(timer)
             used == {i \in 0..w.entries.n - 1 : IsUsed(w.entries, i)}
             f == [i \in used |-> CHOOSE t \in held : timer[t].id = i]
  <2>1. Handles(w, timer) /\ w.entries.n \in Nat
      BY <1>1 DEF WheelInv, WheelTypes, Sound, InOrder
  <2>2. \A i : i \in used <=> IsUsed(w.entries, i)
      BY DEF IsUsed
  <2>3. IsFiniteSet(used)
    <3>1. IsFiniteSet(0..w.entries.n - 1)
        BY <2>1, FS_Interval
    <3> QED BY <3>1, FS_Subset
  <2> HIDE DEF used, held
  <2>4. \A i \in used : f[i] \in held /\ timer[f[i]].id = i
    <3> SUFFICES ASSUME NEW i \in used PROVE f[i] \in held /\ timer[f[i]].id = i
        OBVIOUS
    <3>1. \E t \in held : timer[t].id = i
        BY <2>1, <2>2 DEF Handles, held
    <3> QED BY <3>1
  <2>5. f \in [used -> held]
      BY <2>4
  <2>6. \A t \in held : timer[t].id \in used
      BY <2>1, <2>2 DEF Handles, held
  <2> HIDE DEF f
  <2>7. \A t \in held : f[timer[t].id] = t
      BY <2>1, <2>4, <2>6 DEF Handles, held
  <2>8. f \in Bijection(used, held)
    <3>1. f \in Injection(used, held)
        BY <2>4, <2>5 DEF Injection, IsInjective
    <3>2. f \in Surjection(used, held)
        BY <2>5, <2>6, <2>7 DEF Surjection
    <3> QED BY <3>1, <3>2 DEF Bijection
  <2>9. Cardinality(held) = Cardinality(used)
      BY <2>3, <2>8, FS_Bijection DEF ExistsBijection
  <2>10. held = {t \in Names : timer[t].state = "Scheduled"}
      BY DEF held, HeldIn
  <2>11. \A t \in held : /\ IsUsed(w.entries, timer[t].id)
                         /\ Entry(w, timer[t].id).task = Owner[t]
                         /\ \A u \in held \ {t} : timer[u].id # timer[t].id
      BY <2>1 DEF Handles, held
  <2> QED BY <2>9, <2>10, <2>11 DEF HandleOwnsEntry, used
<1> QED BY <1>1, WheelInvariance, PTL

\* While the loop runs, every timer expires in the tick that its timeout names, neither
\* sooner nor later, those longer than the wheel like the others.
THEOREM WheelOnTime == ASSUME Steady PROVE WheelSpec => []OnTime
<1>1. ASSUME WheelInv PROVE OnTime
  <2> SUFFICES ASSUME walk = None, ~exit, NEW t \in Names, timer[t].state = "Scheduled"
               PROVE  driver /\ (Expired(t) <=> ticks - since[t] >= timer[t].secs)
      BY DEF OnTime, InTick
  <2> DEFINE secs == timer[t].secs
             e == Entry(w, timer[t].id)
             from == since[t]
             end == from + secs
  <2>1. t \in HeldIn(timer)
      BY DEF HeldIn
  <2>2. driver /\ ticks \in Nat /\ from \in Nat /\ secs \in Nat /\ Mask \in Nat
      BY <1>1, <2>1, TokenFacts DEF WheelInv, LoopOK, WheelTypes, TimerType
  <2>3. Placed(w.cur, e, secs, end, ticks, 0, exit) /\ end = from + secs
      BY <1>1, <2>1 DEF WheelInv, AllPlaced, Lim
  <2>4. Expired(t) <=> e.prev = Nil
      BY DEF Expired
  <2> HIDE DEF secs, e, from, end
  <2>5. CASE e.prev = Nil
    <3>1. end - ticks <= 0
        BY <2>3, <2>5 DEF Placed
    <3>2. ticks - from >= secs
        BY <2>2, <2>3, <3>1
    <3> QED BY <2>2, <2>4, <2>5, <3>2 DEF secs, from
  <2>6. CASE e.prev # Nil
    <3>1. PICK d \in 1..Mask :
            /\ e.exp = NoExp => end - ticks = d
            /\ e.exp # NoExp => d <= end - ticks
        BY <2>3, <2>6 DEF Placed
    <3>2. ~(ticks - from >= secs)
        BY <2>2, <2>3, <3>1
    <3> QED BY <2>2, <2>4, <2>6, <3>2 DEF secs, from
  <2> QED BY <2>5, <2>6
<1> QED BY <1>1, WheelInvariance, PTL

\* None of the cases wheel.rs calls unreachable is reached.
THEOREM WheelNeverUnreachable == ASSUME Steady PROVE WheelSpec => []NeverUnreachable
<1>1. WheelInv => NeverUnreachable
    BY DEF WheelInv, WheelTypes, Sound, NeverUnreachable
<1> QED BY <1>1, WheelInvariance, PTL
=============================================================================

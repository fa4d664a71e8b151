-------------------------------- MODULE Slab --------------------------------
(***************************************************************************)
(* A Slab and the calls its owner may make, in any order and with any      *)
(* index, stale ones included (remove and get are safe functions).         *)
(***************************************************************************)
EXTENDS SlabOps, Sequences, FiniteSets

CONSTANTS
    Elems,      \* what is stored
    NoElem,     \* no element
    MaxObjs     \* bound: the Vec does not grow beyond this

ASSUME SlabAssumption == MaxObjs \in Nat /\ NoElem \notin Elems

VARIABLES
    slab,
    freed       \* history: the freed indices not in use again, latest first

svars == <<slab, freed>>

SlabInit == slab = SlabNew /\ freed = <<>>

DoInsert(e) ==
    /\ slab.hfree # INVALID_INDEX \/ slab.n < MaxObjs
    /\ slab' = Insert(slab, e)
    /\ freed' = IF freed # <<>> THEN Tail(freed) ELSE freed

DoRemove(i) ==
    /\ slab' = Remove(slab, i)
    /\ freed' = IF IsUsed(slab, i) THEN <<i>> \o freed ELSE freed

DoClear ==
    /\ slab' = Clear(slab)
    /\ freed' = IF slab.len > 0 THEN <<>> ELSE freed

SlabNext ==
    \/ \E e \in Elems : DoInsert(e)
    \/ \E i \in 0..MaxObjs : DoRemove(i)
    \/ DoClear

SlabSpec == SlabInit /\ [][SlabNext]_svars

----------------------------------------------------------------------------
\* The type invariant: the objects are those of a Vec of n elements.
SlabTypeOK ==
    /\ slab.n \in 0..MaxObjs /\ slab.len \in 0..slab.n
    /\ slab.hfree \in (0..slab.n - 1) \cup {INVALID_INDEX}
    /\ DOMAIN slab.objs = 0..slab.n - 1
    /\ \A i \in 0..slab.n - 1 :
         \/ slab.objs[i].tag = "Used" /\ slab.objs[i].val \in Elems
         \/ slab.objs[i].tag = "Free" /\ slab.objs[i].val \in (0..slab.n - 1) \cup {INVALID_INDEX}

\* The list that starts at hfree runs through the freed objects, latest first, each
\* once, and ends: insert never meets a Used object on it (Object::unchecked_next_free
\* is told the case is unreachable), never hands out an index twice, and no free
\* object is forgotten.
FreeListExact ==
    /\ slab.hfree = IF freed = <<>> THEN INVALID_INDEX ELSE Head(freed)
    /\ \A k \in DOMAIN freed :
         /\ freed[k] \in 0..slab.n - 1
         /\ slab.objs[freed[k]].tag = "Free"
         /\ slab.objs[freed[k]].val = IF k = Len(freed) THEN INVALID_INDEX ELSE freed[k + 1]
    /\ \A j, k \in DOMAIN freed : freed[j] = freed[k] => j = k
    /\ \A i \in 0..slab.n - 1 : slab.objs[i].tag = "Free" => \E k \in DOMAIN freed : freed[k] = i

\* len() counts the elements, and clear, which is skipped when it is 0, skips nothing.
LenExact == slab.len + Len(freed) = slab.n

Map == INSTANCE SlabMap WITH
    Indices <- 0..MaxObjs,
    map <- [i \in 0..MaxObjs |-> IF IsUsed(slab, i) THEN Elem(slab, i) ELSE NoElem]

\* The Slab implements the map: an insertion takes an index that names nothing and
\* disturbs no other element.
ImplementsMap == Map!MapSpec
=============================================================================

------------------------------ MODULE SlabOps ------------------------------
(***************************************************************************)
(* src/slab.rs: the Slab as a value.  objs is the Vec, a function on       *)
(* 0..n-1; an object is Used with an element or Free with the index of the *)
(* next free object.  The reactor keeps its tasks, schedules, timers and   *)
(* wheel entries in such slabs, and names them by index.                   *)
(***************************************************************************)
EXTENDS Integers

\* INVALID_INDEX is usize::MAX: no Vec has an object there.
INVALID_INDEX == -1

Used(elem) == [tag |-> "Used", val |-> elem]
Free(next) == [tag |-> "Free", val |-> next]

SlabNew == [objs |-> [i \in 0..-1 |-> Free(INVALID_INDEX)], n |-> 0, len |-> 0,
            hfree |-> INVALID_INDEX]

IsUsed(s, i) == i \in 0..s.n - 1 /\ s.objs[i].tag = "Used"

\* The index insert will return.
NextIndex(s) == IF s.hfree # INVALID_INDEX THEN s.hfree ELSE s.n

\* The mutant: the head of the free list is handed out and not unlinked.
HeadNotUnlinked(s, elem) ==
    IF s.hfree # INVALID_INDEX
      THEN [s EXCEPT !.objs[s.hfree] = Used(elem), !.len = @ + 1]
      ELSE [objs |-> [i \in 0..s.n |-> IF i = s.n THEN Used(elem) ELSE s.objs[i]],
            n |-> s.n + 1, len |-> s.len + 1, hfree |-> s.hfree]

\* insert: reuse the most recently freed object, else grow.
Insert(s, elem) ==
    IF s.hfree # INVALID_INDEX
      THEN [s EXCEPT !.hfree = s.objs[s.hfree].val, !.objs[s.hfree] = Used(elem), !.len = @ + 1]
      ELSE [objs |-> [i \in 0..s.n |-> IF i = s.n THEN Used(elem) ELSE s.objs[i]],
            n |-> s.n + 1, len |-> s.len + 1, hfree |-> s.hfree]

\* The mutant: remove does not notice that the object is free already.
RemoveFreeAgain(s, i) ==
    IF i \in 0..s.n - 1
      THEN [s EXCEPT !.objs[i] = Free(s.hfree), !.hfree = i, !.len = @ - 1]
      ELSE s

\* remove: None, and no change, unless the index names a Used object.
Remove(s, i) ==
    IF IsUsed(s, i)
      THEN [s EXCEPT !.objs[i] = Free(s.hfree), !.hfree = i, !.len = @ - 1]
      ELSE s

\* The mutant: clear forgets the objects and not the free list.
ClearKeepsFreeList(s) ==
    IF s.len > 0 THEN [SlabNew EXCEPT !.hfree = s.hfree] ELSE s

\* clear: nothing is done when no object is used (the free list stays).
Clear(s) == IF s.len > 0 THEN SlabNew ELSE s

\* get_mut and an assignment through it.
Update(s, i, elem) == [s EXCEPT !.objs[i] = Used(elem)]

\* The element of a Used object (get, and get_unchecked where the caller is right).
Elem(s, i) == s.objs[i].val
=============================================================================

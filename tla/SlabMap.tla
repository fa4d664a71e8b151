------------------------------ MODULE SlabMap ------------------------------
(***************************************************************************)
(* What a Slab promises: a partial map whose keys it chooses itself.  An   *)
(* index is given to one element at a time, and nothing but its own        *)
(* removal, or clear, takes an element from its index.                     *)
(***************************************************************************)
CONSTANTS Indices, Elems, NoElem

VARIABLE map    \* the element under each index, or NoElem

MapInit == map = [i \in Indices |-> NoElem]

MapInsert(i, e) == map[i] = NoElem /\ map' = [map EXCEPT ![i] = e]
MapRemove(i) == map' = [map EXCEPT ![i] = NoElem]
MapClear == map' = [i \in Indices |-> NoElem]

MapNext ==
    \/ \E i \in Indices, e \in Elems : MapInsert(i, e)
    \/ \E i \in Indices : MapRemove(i)
    \/ MapClear

MapSpec == MapInit /\ [][MapNext]_map
=============================================================================

------------------------------ MODULE ByteBufOps ------------------------------
(***************************************************************************)
(* src/buf: a ByteBuf as a value.  A block is its readable bytes with the  *)
(* room before them (read_pos, what can be prepended) and after them       *)
(* (capacity - write_pos, what can be appended); what memory outside the   *)
(* readable range holds is never read.  Splitting a block leaves two that  *)
(* share an allocation and no byte of it, so a block's bytes are its own.  *)
(*                                                                         *)
(* A ByteBuf is a chain of blocks and idx, the number of blocks that have  *)
(* been read empty and are skipped.                                        *)
(***************************************************************************)
EXTENDS SequencesExt

CONSTANTS
    MinGrowth,  \* size_of::<usize>(), the least growth with_growth accepts
    Growth,     \* the 8 * 1024 that it takes otherwise
    MinTail,    \* 8: a tail with less room than this is not kept by split_off
    BigVec,     \* 6 * 1024: from here on a Vec becomes a block of its own
    MinRest     \* 512: the room that makes a block worth splitting for that

ASSUME ByteBufAssumption ==
    /\ MinGrowth \in Nat /\ Growth \in Nat \ {0} /\ MinTail \in Nat
    /\ BigVec \in Nat /\ MinRest \in Nat

Drop(s, n) == SubSeq(s, n + 1, Len(s))
Keep(s, n) == SubSeq(s, 1, n)

----------------------------------------------------------------------------
(* Block.                                                                  *)

with_capacity(c) == [pre |-> 0, bytes |-> <<>>, post |-> c]
for_prependable(c) == [pre |-> c, bytes |-> <<>>, post |-> 0]
from_vec(v, spare) == [pre |-> 0, bytes |-> v, post |-> spare]
IsEmpty(k) == k.bytes = <<>>

\* Block::split_off: <<what stays, the block returned>>.
split_block(k, at) ==
    <<[k EXCEPT !.bytes = Keep(@, at), !.post = 0],
      [k EXCEPT !.bytes = Drop(@, at), !.pre = 0]>>

\* set_read_pos(read_pos + n)
Read(k, n) == [k EXCEPT !.pre = @ + n, !.bytes = Drop(@, n)]

----------------------------------------------------------------------------
(* The chain.                                                              *)

with_growth(g) ==
    [blocks |-> <<>>, idx |-> 0, growth |-> IF g < MinGrowth THEN Growth ELSE g]

Live(b) == Drop(b.blocks, b.idx)
BytesOf(blocks) == FlattenSeq([i \in DOMAIN blocks |-> blocks[i].bytes])

\* The bytes of the buffer, as Bytes::next and as_bytes return them.
as_bytes(b) == BytesOf(Live(b))

\* How many bytes the live blocks before the one at index i hold.
Before(b, i) == FoldLeft(LAMBDA n, k : n + Len(k.bytes), 0, SubSeq(b.blocks, b.idx + 1, i))

\* locate_idx: the first live block that reaches pos (an offset at the end of a block
\* is in that block), as the set of its index; empty for Err.
locate_idx(b, pos) ==
    {i \in b.idx .. Len(b.blocks) - 1 :
       pos <= Before(b, i + 1) /\ \A j \in b.idx .. i - 1 : pos > Before(b, j + 1)}

NewCap(b, min) == IF min <= b.growth THEN b.growth ELSE min
append_block(b, min) == [b EXCEPT !.blocks = Append(@, with_capacity(NewCap(b, min)))]
prepend_block(b, min) == [b EXCEPT !.blocks = <<for_prependable(NewCap(b, min))>> \o @]

\* Fill the last block, and as many new ones as it takes.
RECURSIVE append(_, _)
append(b, v) ==
    LET n == Len(b.blocks) IN
    IF n = 0 THEN append(append_block(b, 0), v)
    ELSE LET room == b.blocks[n].post
             m == IF room >= Len(v) THEN Len(v) ELSE room
             filled == [b EXCEPT !.blocks[n].bytes = @ \o Keep(v, m), !.blocks[n].post = @ - m]
         IN IF room >= Len(v) THEN filled ELSE append(append_block(filled, 0), Drop(v, m))

\* The same at the other end: the last bytes of v go into the first block.
RECURSIVE prepend(_, _)
prepend(b, v) ==
    IF b.blocks = <<>> THEN prepend(prepend_block(b, 0), v)
    ELSE LET room == b.blocks[1].pre
             m == IF room >= Len(v) THEN Len(v) ELSE room
             filled == [b EXCEPT !.blocks[1].bytes = Drop(v, Len(v) - m) \o @,
                                 !.blocks[1].pre = @ - m]
         IN IF room >= Len(v) THEN filled
            ELSE prepend(prepend_block(filled, 0), Keep(v, Len(v) - m))

\* A Vec, with spare capacity: a long one becomes a block, and a last block with room
\* enough is split so that its room comes after it.
append_bytes(b, v, spare) ==
    LET n == Len(b.blocks)
        parts == split_block(b.blocks[n], Len(b.blocks[n].bytes))
    IN IF Len(v) < BigVec THEN append(b, v)
       ELSE IF n > 0 /\ b.blocks[n].post >= spare + MinRest
       THEN [b EXCEPT !.blocks = Front(@) \o <<parts[1], from_vec(v, spare), parts[2]>>]
       ELSE [b EXCEPT !.blocks = Append(@, from_vec(v, spare))]

\* A first block with room enough is split so that its room comes before the new block.
prepend_bytes(b, v, spare) ==
    LET parts == split_block(b.blocks[1], 0)
    IN IF Len(v) < BigVec THEN prepend(b, v)
       ELSE IF b.blocks # <<>> /\ b.blocks[1].pre >= MinRest
       THEN [b EXCEPT !.blocks = <<parts[1], from_vec(v, spare), parts[2]>> \o Tail(@)]
       ELSE [b EXCEPT !.blocks = <<from_vec(v, spare)>> \o @]

\* read_exact over ReadIter: [b, v, ok].  The iterator moves idx past blocks that are
\* empty, past all of them when the bytes run out.
RECURSIVE ReadFrom(_, _)
ReadFrom(b, n) ==
    IF b.idx = Len(b.blocks) THEN [b |-> b, v |-> <<>>, ok |-> FALSE]
    ELSE LET k == b.blocks[b.idx + 1]
             m == IF Len(k.bytes) >= n THEN n ELSE Len(k.bytes)
             r == [b EXCEPT !.blocks[b.idx + 1] = Read(k, m)]
         IN IF IsEmpty(k) THEN ReadFrom([b EXCEPT !.idx = @ + 1], n)
            ELSE IF m = n THEN [b |-> r, v |-> Keep(k.bytes, n), ok |-> TRUE]
            ELSE LET rest == ReadFrom(r, n - m) IN [rest EXCEPT !.v = k.bytes \o @]

read_exact(b, n) == IF n = 0 THEN [b |-> b, v |-> <<>>, ok |-> TRUE] ELSE ReadFrom(b, n)

\* skip: [b, n].  Blocks that are skipped whole are behind idx at once.
RECURSIVE skip(_, _)
skip(b, n) ==
    IF b.idx = Len(b.blocks) THEN [b |-> b, n |-> 0]
    ELSE LET k == b.blocks[b.idx + 1]
             m == Len(k.bytes)
         IN IF m >= n
            THEN [b |-> [b EXCEPT !.blocks[b.idx + 1] = Read(k, n)], n |-> n]
            ELSE LET rest == skip([b EXCEPT !.blocks[b.idx + 1] = Read(k, m), !.idx = @ + 1], n - m)
                 IN [rest EXCEPT !.n = @ + m]

\* get_exact over GetIter, from offset off of the first block on: [v, ok].
RECURSIVE GetFrom(_, _, _)
GetFrom(blocks, off, n) ==
    IF blocks = <<>> THEN [v |-> <<>>, ok |-> FALSE]
    ELSE LET s == Drop(blocks[1].bytes, off)
             rest == GetFrom(Tail(blocks), 0, n - Len(s))
         IN IF Len(s) >= n THEN [v |-> Keep(s, n), ok |-> TRUE] ELSE [rest EXCEPT !.v = s \o @]

\* get_exact at an offset that locate_idx finds.
get_exact(b, pos, n) ==
    LET i == CHOOSE j \in locate_idx(b, pos) : TRUE
    IN GetFrom(Drop(b.blocks, i), pos - Before(b, i), n)

\* set at offset i with u8s::set, over SetIter: [b, ok].  It writes on until the chain ends.
set(b, i, v) ==
    LET Place(j, p) == Before(b, j - 1) + p - i  \* which byte of v goes to place p of block j
    IN [b |-> [b EXCEPT !.blocks = [j \in DOMAIN b.blocks |->
                 IF j <= b.idx THEN b.blocks[j]
                 ELSE [b.blocks[j] EXCEPT !.bytes = [p \in DOMAIN @ |->
                         IF Place(j, p) \in DOMAIN v THEN v[Place(j, p)] ELSE @[p]]]]],
        ok |-> i + Len(v) <= Len(as_bytes(b))]

extend(b, o) == [b EXCEPT !.blocks = @ \o Live(o)]

\* The mutant: the blocks after the one that is cut stay where they are.
CutOneBlock(b, at) ==
    LET i == CHOOSE j \in locate_idx(b, at) : TRUE
        parts == split_block(b.blocks[i + 1], at - Before(b, i))
    IN <<[b EXCEPT !.blocks[i + 1] = parts[1]], [with_growth(b.growth) EXCEPT !.blocks = <<parts[2]>>]>>

\* split_off where locate_idx finds a block: <<what stays, the buffer returned>>.  A tail
\* of the block that is cut is not kept if it is empty and has little room.
split_off(b, at) ==
    LET i == CHOOSE j \in locate_idx(b, at) : TRUE
        parts == split_block(b.blocks[i + 1], at - Before(b, i))
        tail == IF ~IsEmpty(parts[2]) \/ parts[2].post >= MinTail THEN <<parts[2]>> ELSE <<>>
        rest == tail \o Drop(b.blocks, i + 1)
        left == [b EXCEPT !.blocks = Append(Keep(@, i), parts[1])]
    IN <<left, IF rest = <<>> THEN with_growth(b.growth)
               ELSE [blocks |-> rest, idx |-> 0, growth |-> b.growth]>>

\* The empty blocks at the front are passed and those behind idx dropped.
compact(b) ==
    LET full == {i \in b.idx .. Len(b.blocks) - 1 : ~IsEmpty(b.blocks[i + 1])}
        i == IF full = {} THEN Len(b.blocks) ELSE Min(full)
    IN [b EXCEPT !.blocks = Drop(@, i), !.idx = 0]

\* reserve: a new block, unless the last has room enough.
reserve(b, n) ==
    LET room == IF b.blocks = <<>> THEN 0 ELSE Last(b.blocks).post
    IN IF room < n THEN append_block(b, n - room) ELSE b

\* try_reserve_in_head moves the place where an empty first block starts.
try_reserve_in_head(b, n) ==
    IF b.blocks = <<>> \/ ~IsEmpty(b.blocks[1]) THEN b
    ELSE LET cap == b.blocks[1].pre + b.blocks[1].post
             r == IF n > cap THEN cap ELSE n
         IN [b EXCEPT !.blocks[1].pre = r, !.blocks[1].post = cap - r]
=============================================================================

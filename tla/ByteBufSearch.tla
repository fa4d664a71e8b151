---------------------------- MODULE ByteBufSearch ----------------------------
(***************************************************************************)
(* The searches of src/buf/mod.rs and the windows of src/buf/window.rs,    *)
(* which work on the blocks where they are, and what each should give on   *)
(* the bytes as a whole.                                                   *)
(***************************************************************************)
EXTENDS ByteBufOps

NotFound == -1
Underflow == -2

BytesAt(b, i) == b.blocks[i + 1].bytes

\* Does the needle start at the beginning of block i, and go on in the next ones?
RECURSIVE starts_with_internal(_, _, _)
starts_with_internal(b, needle, i) ==
    /\ i < Len(b.blocks)
    /\ LET k == BytesAt(b, i) IN
       IF Len(k) < Len(needle)
         THEN IsPrefix(k, needle) /\ starts_with_internal(b, Drop(needle, Len(k)), i + 1)
         ELSE IsPrefix(needle, k)

starts_with(b, needle) == needle = <<>> \/ starts_with_internal(b, needle, b.idx)

\* Does the needle end where the live blocks before index i end?
RECURSIVE ends_with_internal(_, _, _)
ends_with_internal(b, needle, i) ==
    /\ i > b.idx
    /\ LET k == BytesAt(b, i - 1) IN
       IF Len(k) < Len(needle)
         THEN /\ IsSuffix(k, needle)
              /\ ends_with_internal(b, Keep(needle, Len(needle) - Len(k)), i - 1)
         ELSE IsSuffix(needle, k)

ends_with(b, needle) == needle = <<>> \/ ends_with_internal(b, needle, Len(b.blocks))

\* Where the needle lies in s as a whole, as offsets.
Within(needle, s) ==
    {n \in 0 .. Len(s) - Len(needle) : SubSeq(s, n + 1, n + Len(needle)) = needle}

\* The mutant: what is left of a block is one byte short.
LeftShort(bytes, m) == Drop(bytes, Len(bytes) - m + 2)

\* The bytes of a block in which a needle of length m can still start and go on in the
\* next block: the last m - 1.
LeftOver(bytes, m) == IF Len(bytes) >= m THEN Drop(bytes, Len(bytes) - m + 1) ELSE bytes

\* find_from's loop at block i, with bytes of it left, the first at offset pos: the
\* needle inside them, or from their last bytes on into the next blocks, or later.
RECURSIVE FindIn(_, _, _, _, _)
FindIn(b, needle, i, bytes, pos) ==
    LET inside == Within(needle, bytes)
        left == LeftOver(bytes, Len(needle))
        p == pos + Len(bytes) - Len(left)
        across == {m \in 0 .. Len(left) - 1 :
                     /\ IsPrefix(Drop(left, m), needle)
                     /\ starts_with_internal(b, Drop(needle, Len(left) - m), i + 1)}
    IN IF inside # {} THEN pos + Min(inside)
       ELSE IF i + 1 >= Len(b.blocks) THEN NotFound
       ELSE IF across # {} THEN p + Min(across)
       ELSE FindIn(b, needle, i + 1, BytesAt(b, i + 1), p + Len(left))

find_from(b, needle, pos) ==
    LET at == locate_idx(b, pos)
        i == CHOOSE j \in at : TRUE
    IN IF at = {} THEN NotFound
       ELSE IF needle = <<>> THEN pos
       ELSE FindIn(b, needle, i, Drop(BytesAt(b, i), pos - Before(b, i)), pos)

\* rfind_from's loop: the bytes end at the place up to which has been searched, and
\* start at offset rpos.  It ends at block idx; in front of it the index is counted down
\* below 0, which panics in debug builds and reads outside the blocks in release builds.
RECURSIVE RFindIn(_, _, _, _, _)
RFindIn(b, needle, i, bytes, rpos) ==
    LET n == Len(needle)
        inside == Within(needle, bytes)
        left == IF Len(bytes) >= n THEN Keep(bytes, n - 1) ELSE bytes
        across == {m \in 1 .. Len(left) :
                     /\ IsSuffix(Keep(left, m), needle)
                     /\ ends_with_internal(b, Keep(needle, n - m), i)}
    IN IF inside # {} THEN rpos + Max(inside)
       ELSE IF i = b.idx THEN NotFound
       ELSE IF across # {} THEN rpos + Max(across) - n
       ELSE IF i = 0 THEN Underflow
       ELSE RFindIn(b, needle, i - 1, BytesAt(b, i - 1), rpos - Len(BytesAt(b, i - 1)))

\* rfind_from, where the sum of rpos and the needle's length does not overflow.  A place
\* that no live block holds makes it start in the last block, which is in front of idx if
\* the chain has been read past its end.
rfind_from(b, needle, rpos) ==
    LET total == Len(as_bytes(b))
        at == locate_idx(b, rpos + Len(needle))
        i == IF at # {} THEN CHOOSE j \in at : TRUE ELSE Len(b.blocks) - 1
        end == IF at # {} THEN rpos + Len(needle) ELSE total
    IN IF needle = <<>> THEN end
       ELSE IF b.blocks = <<>> THEN NotFound
       ELSE RFindIn(b, needle, i, Keep(BytesAt(b, i), end - Before(b, i)), Before(b, i))

\* Ord::cmp on two chains: "<", "=" or ">".  s and t are what is left of the current
\* slices, i and j the next blocks.  It goes through all blocks, those behind idx too.
RECURSIVE Compare(_, _, _, _, _, _)
Compare(b, o, s, t, i, j) ==
    LET m == IF Len(s) <= Len(t) THEN Len(s) ELSE Len(t)
        diff == {k \in 1..m : s[k] # t[k]}
        Rest(c, k) == IF k < Len(c.blocks) THEN BytesAt(c, k) ELSE <<>>
    IN IF diff # {} THEN (IF s[Min(diff)] < t[Min(diff)] THEN "<" ELSE ">")
       ELSE IF Len(s) < Len(t)
       THEN IF i < Len(b.blocks) THEN Compare(b, o, BytesAt(b, i), Drop(t, m), i + 1, j) ELSE "<"
       ELSE IF Len(s) > Len(t)
       THEN IF j < Len(o.blocks) THEN Compare(b, o, Drop(s, m), BytesAt(o, j), i, j + 1) ELSE ">"
       ELSE IF i > Len(b.blocks) /\ j > Len(o.blocks) THEN "="
       ELSE Compare(b, o, Rest(b, i), Rest(o, j), i + 1, j + 1)

\* The mutant: each side starts at the first one's idx.
CompareFromIdx(b, o) == Compare(b, o, <<>>, <<>>, b.idx, b.idx)

cmp(b, o) == Compare(b, o, <<>>, <<>>, 0, 0)

----------------------------------------------------------------------------
(* Windows: an iterator over the windows of a given size, from both ends.  *)

\* Window::to_bytes_left and to_bytes_right, over the blocks the window was given.
to_bytes_left(blocks, off, size) == Keep(Drop(BytesOf(blocks), off), size)
to_bytes_right(blocks, off, size) ==
    LET s == BytesOf(blocks) IN SubSeq(s, Len(s) - off - size + 1, Len(s) - off)

windows(b, size) ==
    LET n == Len(as_bytes(b)) IN
    [blocks |-> Live(b), off |-> 0, roff |-> 0, size |-> size,
     len |-> IF n >= size THEN n - size + 1 ELSE 0]

\* Windows::next: [w, v]; blocks whose windows have all been given are left behind.
RECURSIVE Next1(_)
Next1(w) ==
    IF Len(w.blocks[1].bytes) > w.off
      THEN [w |-> [w EXCEPT !.off = @ + 1], v |-> to_bytes_left(w.blocks, w.off, w.size)]
      ELSE Next1([w EXCEPT !.blocks = Tail(@), !.off = 0])

next(w) == Next1([w EXCEPT !.len = @ - 1])

\* The mutant: a block is left behind one window late.
RECURSIVE LeavesLate(_)
LeavesLate(w) ==
    IF Len(Last(w.blocks).bytes) >= w.roff
      THEN [w |-> [w EXCEPT !.roff = @ + 1], v |-> to_bytes_right(w.blocks, w.roff, w.size)]
      ELSE LeavesLate([w EXCEPT !.blocks = Front(@), !.roff = 0])

\* Windows::next_back, with the offset counted from the right.
RECURSIVE NextBack1(_)
NextBack1(w) ==
    IF Len(Last(w.blocks).bytes) > w.roff
      THEN [w |-> [w EXCEPT !.roff = @ + 1], v |-> to_bytes_right(w.blocks, w.roff, w.size)]
      ELSE NextBack1([w EXCEPT !.blocks = Front(@), !.roff = 0])

next_back(w) == NextBack1([w EXCEPT !.len = @ - 1])
=============================================================================

------------------------------- MODULE ByteBuf -------------------------------
(***************************************************************************)
(* A ByteBuf and the calls its owner makes, in any order: bytes go in and  *)
(* come out at both ends, the buffer is cut, and joined with what was cut  *)
(* off it.  Every state is one the calls can build, so that the searches   *)
(* are tried on every shape of chain: empty blocks at the front, in the    *)
(* middle and at the end, room before and after, blocks behind idx.        *)
(***************************************************************************)
EXTENDS ByteBufSearch

CONSTANTS
    Bytes,      \* the bytes
    MaxLen,     \* bound: bytes in both buffers together
    MaxBlocks,  \* bound: blocks of a buffer
    MaxArg,     \* bound: length of a value, size of a read, skip or reserve
    MaxCalls,   \* bound: calls made
    ReadPast    \* what may be done with a chain that has been read past a block:
                \* "append"  - bytes put at the end, although the last block is behind idx
                \* "prepend" - or at the front, although the first block is behind idx
                \* "rfind"   - a search backwards, although no block is left to search

ASSUME BoundsAssumption ==
    /\ MaxLen \in Nat /\ MaxBlocks \in Nat /\ MaxArg \in Nat /\ MaxCalls \in Nat
    /\ Bytes \subseteq Nat
    /\ ReadPast \subseteq {"append", "prepend", "rfind"}

VARIABLES
    buf,    \* the ByteBuf
    other,  \* the ByteBuf that the last split_off or drain_to returned
    ret,    \* what the last call returned
    calls   \* history: calls made so far

vars == <<buf, other, ret, calls>>

Values == BoundedSeq(Bytes, MaxArg)
Sizes == 0..MaxArg

Ok(n, v) == [ok |-> TRUE, n |-> n, v |-> v]
Err == [ok |-> FALSE, n |-> 0, v |-> <<>>]

Init == \E g \in 0..Growth :
    buf = with_growth(g) /\ other = with_growth(g) /\ ret = Ok(0, <<>>) /\ calls = 0

----------------------------------------------------------------------------
\* The last block is behind idx and would take bytes; the first block is behind idx.
PastEnd == buf.blocks # <<>> /\ buf.idx = Len(buf.blocks)
MayAppend == ~PastEnd \/ "append" \in ReadPast
MayPrepend == buf.idx = 0 \/ "prepend" \in ReadPast
MayRFind == ~PastEnd \/ "rfind" \in ReadPast

Room(v) == Len(as_bytes(buf)) + Len(as_bytes(other)) + Len(v) <= MaxLen
Bounded == Len(buf'.blocks) <= MaxBlocks

\* append with u8s::append, which Writer::write and the codecs repeat.
DoAppend(v) ==
    /\ MayAppend /\ Room(v)
    /\ buf' = append(buf, v) /\ Bounded
    /\ ret' = Ok(Len(v), <<>>) /\ UNCHANGED other

\* append with u8s::append_bytes: a Vec whose capacity is its length or one more.
DoAppendBytes(v, spare) ==
    /\ MayAppend /\ Room(v)
    /\ buf' = append_bytes(buf, v, spare) /\ Bounded
    /\ ret' = Ok(Len(v), <<>>) /\ UNCHANGED other

DoPrepend(v) ==
    /\ MayPrepend /\ Room(v)
    /\ buf' = prepend(buf, v) /\ Bounded
    /\ ret' = Ok(Len(v), <<>>) /\ UNCHANGED other

DoPrependBytes(v, spare) ==
    /\ MayPrepend /\ Room(v)
    /\ buf' = prepend_bytes(buf, v, spare) /\ Bounded
    /\ ret' = Ok(Len(v), <<>>) /\ UNCHANGED other

DoRead(n) ==
    LET r == read_exact(buf, n) IN
    /\ buf' = r.b
    /\ ret' = IF r.ok THEN Ok(n, r.v) ELSE Err
    /\ UNCHANGED other

DoSkip(n) ==
    LET r == skip(buf, n) IN
    /\ buf' = r.b /\ ret' = Ok(r.n, <<>>)
    /\ UNCHANGED other

\* get_exact and set: an offset that locate_idx does not find panics.
DoGet(i, n) ==
    LET r == get_exact(buf, i, n) IN
    /\ locate_idx(buf, i) # {}
    /\ ret' = IF r.ok THEN Ok(n, r.v) ELSE Err
    /\ UNCHANGED <<buf, other>>

DoSet(i, v) ==
    LET r == set(buf, i, v) IN
    /\ v # <<>> /\ locate_idx(buf, i) # {}
    /\ buf' = r.b
    /\ ret' = IF r.ok THEN Ok(Len(v), <<>>) ELSE Err
    /\ UNCHANGED other

\* split_off, and drain_to, which swaps the two.
DoSplitOff(at) ==
    IF locate_idx(buf, at) = {}
      THEN ret' = Err /\ UNCHANGED <<buf, other>>
      ELSE /\ buf' = split_off(buf, at)[1] /\ other' = split_off(buf, at)[2]
           /\ ret' = Ok(0, <<>>)

DoDrainTo(at) ==
    /\ locate_idx(buf, at) # {}
    /\ buf' = split_off(buf, at)[2] /\ other' = split_off(buf, at)[1]
    /\ ret' = Ok(0, <<>>)

DoExtend ==
    /\ buf' = extend(buf, other) /\ Bounded
    /\ other' = with_growth(other.growth)
    /\ ret' = Ok(0, <<>>)

DoCompact == buf' = compact(buf) /\ ret' = Ok(0, <<>>) /\ UNCHANGED other

DoReserve(n) ==
    /\ buf' = reserve(buf, n) /\ Bounded
    /\ ret' = Ok(0, <<>>) /\ UNCHANGED other

DoReserveInHead(n) ==
    /\ buf' = try_reserve_in_head(buf, n)
    /\ ret' = Ok(0, <<>>) /\ UNCHANGED other

Call ==
    \/ \E v \in Values : DoAppend(v) \/ DoPrepend(v)
    \/ \E v \in Values, spare \in 0..1 : DoAppendBytes(v, spare) \/ DoPrependBytes(v, spare)
    \/ \E n \in Sizes : DoRead(n) \/ DoSkip(n) \/ DoReserve(n) \/ DoReserveInHead(n)
    \/ \E i \in Sizes : DoSplitOff(i) \/ DoDrainTo(i)
    \/ \E i \in Sizes : (\E n \in Sizes : DoGet(i, n)) \/ (\E v \in Values : DoSet(i, v))
    \/ DoExtend \/ DoCompact

Next == calls < MaxCalls /\ calls' = calls + 1 /\ Call

Spec == Init /\ [][Next]_vars

----------------------------------------------------------------------------
(* Properties.                                                             *)

\* However its bytes are spread over blocks, a ByteBuf is a sequence: every call leaves
\* the bytes it should, and returns what it should, across block boundaries, after
\* reads that empty blocks, and in the buffer that a cut returned.
Abstract == INSTANCE ByteSeq WITH x <- as_bytes(buf), y <- as_bytes(other)
ImplementsByteSeq == Abstract!SeqSpec

\* find_from gives the first place at or after pos where the needle lies, and rfind_from
\* the last one at or before it, over all needles but the empty one and all places,
\* needles that cross one block boundary or several included; starts_with and ends_with
\* agree with the bytes.  A buffer that has been read past its end is not asked to
\* rfind_from unless ReadPast says so: mod.rs:440 then takes 1 from an index of 0.
SearchesExact ==
    LET s == as_bytes(buf) IN
    \A needle \in BoundedSeq(Bytes, 3) :
      /\ starts_with(buf, needle) <=> IsPrefix(needle, s)
      /\ ends_with(buf, needle) <=> IsSuffix(needle, s)
      /\ needle # <<>> =>
           LET at == Within(needle, s) IN
           \A pos \in 0 .. Len(s) + 1 :
             LET after == {p \in at : p >= pos}
                 before == {p \in at : p <= pos}
             IN /\ find_from(buf, needle, pos) = IF after = {} THEN NotFound ELSE Min(after)
                /\ MayRFind => rfind_from(buf, needle, pos) =
                                   IF before = {} THEN NotFound ELSE Max(before)

\* Two buffers compare as their bytes do, whatever their blocks.
ComparesAsBytes ==
    LET s == as_bytes(buf)
        t == as_bytes(other)
        m == IF Len(s) <= Len(t) THEN Len(s) ELSE Len(t)
        diff == {k \in 1..m : s[k] # t[k]}
    IN cmp(buf, other) =
         IF diff # {} THEN (IF s[Min(diff)] < t[Min(diff)] THEN "<" ELSE ">")
         ELSE IF Len(s) < Len(t) THEN "<" ELSE IF Len(s) > Len(t) THEN ">" ELSE "="

\* Taken from the two ends in any order, the windows are those of the bytes: none is
\* missing, none comes twice, and len() says how many are left.
RECURSIVE WindowsFrom(_, _, _)
WindowsFrom(w, i, j) ==
    IF w.len = 0 THEN j = i - 1
    ELSE LET Win(k) == SubSeq(as_bytes(buf), k, k + w.size - 1)
         IN /\ next(w).v = Win(i) /\ WindowsFrom(next(w).w, i + 1, j)
            /\ next_back(w).v = Win(j) /\ WindowsFrom(next_back(w).w, i, j - 1)

WindowsExact ==
    \A size \in 1..3 :
      LET n == Len(as_bytes(buf)) - size + 1 IN
      WindowsFrom(windows(buf, size), 1, IF n >= 0 THEN n ELSE 0)
=============================================================================

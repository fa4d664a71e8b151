------------------------------- MODULE ByteSeq -------------------------------
(***************************************************************************)
(* What ByteBuf promises: a sequence of bytes that is filled and emptied   *)
(* at both ends, and cut in two and joined.  ByteBuf implements it with a  *)
(* chain of blocks (PROPERTY ImplementsByteSeq).                           *)
(***************************************************************************)
EXTENDS Integers, Sequences

CONSTANTS Values,   \* what is put in, read or written over: sequences of bytes
          Sizes     \* the numbers calls are made with

VARIABLES x,   \* the bytes of the buffer
          y,   \* the bytes of the buffer that was cut off it last
          ret  \* what the last call returned: [ok, n, v]

bvars == <<x, y, ret>>

Ok(n, v) == [ok |-> TRUE, n |-> n, v |-> v]
Err == [ok |-> FALSE, n |-> 0, v |-> <<>>]

Take(s, n) == SubSeq(s, 1, n)
Skip(s, n) == SubSeq(s, n + 1, Len(s))
AtMost(n, m) == IF n <= m THEN n ELSE m

\* s with v written over it from offset i on, as far as s goes.
Over(s, i, v) ==
    [k \in 1..Len(s) |-> IF k > i /\ k <= i + Len(v) THEN v[k - i] ELSE s[k]]

SeqInit == x = <<>> /\ y = <<>> /\ ret = Ok(0, <<>>)

PutBack(v) == x' = x \o v /\ ret' = Ok(Len(v), <<>>) /\ UNCHANGED y
PutFront(v) == x' = v \o x /\ ret' = Ok(Len(v), <<>>) /\ UNCHANGED y

\* A read of more than there is fails, and what there was is gone.
ReadSome(n) ==
    /\ IF n <= Len(x) THEN x' = Skip(x, n) /\ ret' = Ok(n, Take(x, n))
                      ELSE x' = <<>> /\ ret' = Err
    /\ UNCHANGED y

SkipSome(n) ==
    /\ x' = Skip(x, AtMost(n, Len(x))) /\ ret' = Ok(AtMost(n, Len(x)), <<>>)
    /\ UNCHANGED y

GetSome(i, n) ==
    /\ i <= Len(x)
    /\ ret' = IF i + n <= Len(x) THEN Ok(n, SubSeq(x, i + 1, i + n)) ELSE Err
    /\ UNCHANGED <<x, y>>

\* Overwriting stops at the end, and fails there.
WriteOver(i, v) ==
    /\ i <= Len(x) /\ v # <<>>
    /\ x' = Over(x, i, v)
    /\ ret' = IF i + Len(v) <= Len(x) THEN Ok(Len(v), <<>>) ELSE Err
    /\ UNCHANGED y

\* The first part, or the second, stays in the buffer.  A buffer that has no block
\* left cannot be cut, not even at 0.
Cut(n) ==
    \/ n <= Len(x) /\ x' = Take(x, n) /\ y' = Skip(x, n) /\ ret' = Ok(0, <<>>)
    \/ n <= Len(x) /\ x' = Skip(x, n) /\ y' = Take(x, n) /\ ret' = Ok(0, <<>>)
    \/ (n > Len(x) \/ x = <<>>) /\ ret' = Err /\ UNCHANGED <<x, y>>

Join == x' = x \o y /\ y' = <<>> /\ ret' = Ok(0, <<>>)

\* Making room changes nothing that can be read.
MakeRoom == ret' = Ok(0, <<>>) /\ UNCHANGED <<x, y>>

SeqNext ==
    \/ \E v \in Values : PutBack(v) \/ PutFront(v)
    \/ \E n \in Sizes : ReadSome(n) \/ SkipSome(n) \/ Cut(n)
    \/ \E i \in Sizes : (\E n \in Sizes : GetSome(i, n)) \/ (\E v \in Values : WriteOver(i, v))
    \/ Join \/ MakeRoom

SeqSpec == SeqInit /\ [][SeqNext]_bvars
=============================================================================

-------------------------------- MODULE Prefix --------------------------------
(***************************************************************************)
(* The length-prefix decoders of src/proto over a net::Recv: a stream of   *)
(* reads, cut wherever the network cut it, becomes a stream of frames.     *)
(* One task polls the decoder until it is NotReady and is then run again   *)
(* when the event loop sees the socket readable.                           *)
(*                                                                         *)
(* A ByteBuf is taken as its bytes (PROPERTY ImplementsByteSeq of ByteBuf  *)
(* is the licence).  The five decoders differ in the size and the byte     *)
(* order of the prefix, and U8Prefix in what it measures.                  *)
(***************************************************************************)
EXTENDS SequencesExt

CONSTANTS
    Kinds,      \* the decoders tried
    Lengths,    \* lengths of payloads
    MaxFrames,  \* bound: frames sent
    Base,       \* 256: the values of a byte
    Cuts        \* where a read of a frame may end, for prefixes of several bytes:
                \* "prefix" - inside the prefix, and more follows
                \* "short"  - when all but a prefix's length of the payload is there

ASSUME PrefixAssumption ==
    /\ Kinds \subseteq {"u8", "u16be", "u16le", "u32be", "u32le"}
    /\ Lengths \subseteq Nat /\ MaxFrames \in Nat /\ Base \in Nat \ {0, 1}
    /\ Cuts \subseteq {"prefix", "short"}

VARIABLES
    kind,    \* which decoder
    frames,  \* history: the lengths of the payloads sent
    wire,    \* bytes sent that have not arrived
    avail,   \* bytes in the socket's buffer
    net,     \* "open", "closed" by the peer, or "reset"
    sched,   \* Nio.sched_ops contains READ
    rr,      \* Schedule.read_ready
    state,   \* State: Pending, More(n) or Done
    data,    \* the decoder's ByteBuf
    out,     \* history: the frames returned
    task     \* "run", "parked", "done", "failed"; "fault" after ::unreachable()

net_vars == <<kind, frames, wire, net>>
vars == <<kind, frames, wire, avail, net, sched, rr, state, data, out, task>>

----------------------------------------------------------------------------
(* The five decoders: their polls are the operators below, with this       *)
(* prefix.  And frames as the peer sends them.                             *)

U8Prefix == [size |-> 1, be |-> TRUE]
U16bePrefix == [size |-> 2, be |-> TRUE]
U16lePrefix == [size |-> 2, be |-> FALSE]
U32bePrefix == [size |-> 4, be |-> TRUE]
U32lePrefix == [size |-> 4, be |-> FALSE]

Decoder ==
    CASE kind = "u8" -> U8Prefix
      [] kind = "u16be" -> U16bePrefix
      [] kind = "u16le" -> U16lePrefix
      [] kind = "u32be" -> U32bePrefix
      [] kind = "u32le" -> U32lePrefix
Size == Decoder.size

\* What a byte of a number stands for, the last one first.
Place == <<1, Base, Base * Base, Base * Base * Base>>

\* A number as the codec reads it from the bytes of a prefix, and as it is written.
codec_read(s) ==
    FoldLeft(LAMBDA n, byte : n * Base + byte, 0, IF Decoder.be THEN s ELSE Reverse(s))
codec_append(n) ==
    LET digits == [i \in 1..Size |-> (n \div Place[Size - i + 1]) % Base]
    IN IF Decoder.be THEN digits ELSE Reverse(digits)

\* The payload of the i-th frame: bytes that tell it from the others and from a prefix.
Payload(i) == [k \in 1..frames[i] |-> Base + i]
Frame(i) == codec_append(frames[i]) \o Payload(i)
AllFrames == FlattenSeq([i \in DOMAIN frames |-> Frame(i)])
Payloads(k) == [i \in 1..k |-> Payload(i)]

\* Where the k-th frame ends, how many bytes have arrived, and how many frames are
\* wholly among them.
End(k) == FoldLeft(LAMBDA a, n : a + Size + n, 0, SubSeq(frames, 1, k))
Arrived == End(Len(frames)) - Len(wire)
Whole == Max({k \in 0..Len(frames) : End(k) <= Arrived})

Init ==
    /\ kind \in Kinds
    /\ frames \in {f \in BoundedSeq(Lengths, MaxFrames) : \A i \in DOMAIN f : f[i] < Base * Place[Size]}
    /\ wire = AllFrames /\ avail = <<>> /\ net = "open"
    /\ sched = FALSE /\ rr = TRUE
    /\ state = [s |-> "Pending", n |-> 0] /\ data = <<>>
    /\ out = <<>> /\ task = "run"

----------------------------------------------------------------------------
(* The network and the event loop.                                         *)

\* A read may end after the bytes that have arrived and k more.  A prefix that is cut
\* does no harm if nothing follows it.
MayCut(k, then) ==
    Size > 1 => \A i \in DOMAIN frames :
      LET o == Arrived + k - End(i - 1) IN
      o \in 1 .. Size + frames[i] - 1 =>
        /\ o < Size => "prefix" \in Cuts \/ then = "closed"
        /\ o >= Size /\ o >= frames[i] => "short" \in Cuts

\* k bytes arrive, the last ones perhaps with the peer's FIN.
Arrive(k, then) ==
    /\ net = "open" /\ k <= Len(wire) /\ MayCut(k, then)
    /\ net' = then
    /\ avail' = avail \o SubSeq(wire, 1, k)
    /\ wire' = SubSeq(wire, k + 1, Len(wire))
    /\ UNCHANGED <<kind, frames, sched, rr, state, data, out, task>>

\* The peer closes, perhaps before all is sent, or the connection breaks.
Close(how) ==
    /\ net = "open" /\ net' = how
    /\ UNCHANGED <<kind, frames, wire, avail, sched, rr, state, data, out, task>>

\* epoll is level-triggered: while the socket is readable and READ is registered the
\* loop marks the schedule ready and runs the task.
Wakeup ==
    /\ task = "parked" /\ sched /\ (avail # <<>> \/ net # "open")
    /\ rr' = TRUE /\ task' = "run"
    /\ UNCHANGED <<kind, frames, wire, avail, net, sched, state, data, out>>

\* The task is run for something else it waits for.
OtherEvent ==
    /\ task = "parked" /\ task' = "run"
    /\ UNCHANGED <<kind, frames, wire, avail, net, sched, rr, state, data, out>>

----------------------------------------------------------------------------
(* IStream::poll_recv.                                                     *)

is_read_ready == sched => rr
schedule_read == sched' = TRUE /\ rr' = (sched /\ rr)

\* Buffer::readv offers the rest of two blocks of 128 KiB and takes all that is there.
readv == avail # <<>> /\ avail' = <<>>

\* The mutant: READ is registered only when a read would block.
TakesOnly ==
    /\ is_read_ready /\ net # "reset"
    /\ readv /\ UNCHANGED <<sched, rr>>

RecvSome ==
    /\ is_read_ready /\ net # "reset"
    /\ readv /\ schedule_read
RecvNone ==
    /\ is_read_ready /\ net = "closed" /\ avail = <<>>
    /\ UNCHANGED <<avail, sched, rr>>
RecvNotReady ==
    \/ ~is_read_ready /\ UNCHANGED <<avail, sched, rr>>
    \/ is_read_ready /\ net = "open" /\ avail = <<>> /\ schedule_read /\ UNCHANGED avail
RecvErr ==
    /\ is_read_ready /\ net = "reset"
    /\ UNCHANGED <<avail, sched, rr>>

----------------------------------------------------------------------------
(* The decoder.  What a poll returns decides how the task goes on: it      *)
(* polls again after a frame, and is parked when it gets NotReady.         *)

Pending == [s |-> "Pending", n |-> 0]
More(n) == [s |-> "More", n |-> n]
Done == [s |-> "Done", n |-> 0]

ReturnFrame(v) == out' = Append(out, v) /\ task' = "run"
ReturnNotReady == task' = "parked" /\ UNCHANGED out
ReturnNone == task' = "done" /\ UNCHANGED out
ReturnErr == task' = "failed" /\ UNCHANGED out
Unreachable == task' = "fault" /\ UNCHANGED out

\* drain_to(n) of bytes that are there.
Drain(bytes, n) ==
    ReturnFrame(SubSeq(bytes, 1, n)) /\ data' = SubSeq(bytes, n + 1, Len(bytes))

\* What the stream says when it has no bytes.
Ends(st, held) ==
    \/ RecvNone /\ state' = Done /\ data' = held /\ ReturnNone
    \/ RecvNotReady /\ state' = st /\ data' = held /\ ReturnNotReady
    \/ RecvErr /\ state' = st /\ data' = held /\ ReturnErr

\* The mutant: what was read takes the place of what was there.
PollMoreForgets(held, n) ==
    \/ /\ RecvSome
       /\ IF Len(avail) >= n
            THEN Drain(avail, n) /\ state' = Pending
            ELSE data' = avail /\ state' = More(n) /\ ReturnNotReady
    \/ Ends(More(n), held)

\* poll_more: what is read is joined to what is there.  It returns NotReady after a
\* read that was Ready, and counts on the stream to run the task again.
poll_more(held, n) ==
    \/ /\ RecvSome
       /\ LET all == held \o avail IN
          IF Len(all) >= n
            THEN Drain(all, n) /\ state' = Pending
            ELSE data' = all /\ state' = More(n) /\ ReturnNotReady
    \/ Ends(More(n), held)

\* The prefix has been read off the front of bytes: the number it announces, what
\* follows it, and the length that is compared with it (before the prefix was read,
\* except in U8Prefix).
Announced(bytes) == codec_read(SubSeq(bytes, 1, Size))
After(bytes) == SubSeq(bytes, Size + 1, Len(bytes))
Measured(bytes) == IF Size = 1 THEN Len(After(bytes)) ELSE Len(bytes)

\* A frame that seems to be there is drained; drain_to fails if it is not.
TakeFrame(bytes) ==
    /\ Measured(bytes) >= Announced(bytes)
    /\ state' = Pending
    /\ IF Len(After(bytes)) >= Announced(bytes)
         THEN Drain(After(bytes), Announced(bytes))
         ELSE data' = After(bytes) /\ Unreachable

\* poll_pending: what is read takes the place of the data, which is shorter than a prefix.
poll_pending ==
    \/ /\ RecvSome
       /\ \/ Len(avail) < Size /\ data' = avail /\ state' = Pending /\ ReturnNotReady
          \/ Len(avail) >= Size /\ TakeFrame(avail)
          \/ /\ Len(avail) >= Size /\ Measured(avail) < Announced(avail)
             /\ data' = After(avail) /\ state' = More(Announced(avail)) /\ ReturnNotReady
    \/ Ends(Pending, data)

\* Stream::poll, in Pending with and without a prefix there, and in More.
PollShort == state = Pending /\ Len(data) < Size /\ poll_pending
PollWhole ==
    /\ state = Pending /\ Len(data) >= Size
    /\ TakeFrame(data) /\ UNCHANGED <<avail, sched, rr>>
PollPart ==
    /\ state = Pending /\ Len(data) >= Size /\ Measured(data) < Announced(data)
    /\ poll_more(After(data), Announced(data))
PollMore == state.s = "More" /\ poll_more(data, state.n)

Poll == task = "run" /\ (PollShort \/ PollWhole \/ PollPart \/ PollMore) /\ UNCHANGED net_vars

----------------------------------------------------------------------------
Next ==
    \/ \E k \in 1..Len(wire), then \in {"open", "closed"} : Arrive(k, then)
    \/ \E how \in {"closed", "reset"} : Close(how)
    \/ Wakeup \/ OtherEvent \/ Poll

Spec == Init /\ [][Next]_vars

\* The loop runs the tasks of the events epoll reports and asks again, and epoll reports
\* a readable descriptor after finitely many others: a wakeup that is due again and
\* again, between runs of the task for other events, comes.  Nothing is promised about
\* the network or about those events.
FairSpec == Spec /\ WF_vars(Poll) /\ SF_vars(Wakeup)

----------------------------------------------------------------------------
(* Properties.                                                             *)

\* The cases that the decoders call unreachable are: a frame that was measured is there.
NeverUnreachable == task # "fault"

\* However the bytes were cut into reads, the frames returned are the first of those
\* sent, with their payloads; and the stream does not end, or fault, before the last
\* frame that wholly arrived.
DeliversFrames ==
    /\ out = Payloads(Len(out)) /\ Len(out) <= Whole
    /\ task = "done" => Len(out) = Whole
    /\ NeverUnreachable

\* A frame that has wholly arrived is returned, unless the connection breaks: the
\* decoder's NotReady after a read, and a read that takes several frames at once, never
\* leave it waiting in the decoder or the socket while the task is parked.  This is so
\* over the Unix Recv, which has registered its interest although its read was Ready;
\* the Windows Recv (tcp.rs:428) has no read in flight after a Ready one.
FramesArrive ==
    \A k \in 1..MaxFrames : (Len(frames) >= k /\ Whole >= k) ~> (Len(out) >= k \/ net = "reset")
=============================================================================

------------------------------ MODULE TcpStream ------------------------------
(***************************************************************************)
(* One TCP connection as the program sees it: src/net/tcp.rs over          *)
(* src/sys/unix/net/tcp.rs.  The program accepts or connects, makes a Recv,*)
(* a Sender or the two halves of a split stream, converts one into another,*)
(* gives a half to a task of its own, and polls.  Below are the            *)
(* descriptor's Nio and its Schedule, on Linux (epoll), on the BSDs        *)
(* (kqueue) and on Windows (completion ports, src/sys/windows/net/tcp.rs), *)
(* and the one event loop that runs the tasks.                             *)
(*                                                                         *)
(* The kernel and the peer are the environment: a bounded send buffer from *)
(* which a write may take a part only, a receive queue cut at will, the    *)
(* peer's FIN, a reset.  The bytes of each direction are numbered from 1.  *)
(***************************************************************************)
EXTENDS Integers, SequencesExt

CONSTANTS
    Backends,     \* the event queues tried: "epoll", "kqueue", "iocp"
    A, B,         \* the task that makes the stream, and one it may spawn
    BufSize,      \* BUF_SIZE: the size of a block of the thread's receive buffer
    MinRoom,      \* size_of::<usize>(): a block with less room is replaced
    IovMax,       \* how many blocks one writev takes
    SndCap,       \* room in the kernel's send buffer
    ItemSizes,    \* sizes of the ByteBufs given to start_send
    Segments,     \* sizes of what arrives at once
    MaxIn, MaxOut,\* bounds: bytes the peer sends, bytes the program sends
    Races,        \* what the program may do, or meet:
                  \* "pair"    - drop the stream in the first of the two runs of one wakeup
                  \* "half"    - end the task of one half, still registered, before the other's
                  \* "move"    - give a registered half to another task
                  \* "hup"     - a hang-up with nothing registered after the task it runs has ended
                  \* "discard" - turn a Sender with unsent bytes into a Recv
                  \* "iov"     - let more than IovMax blocks gather
                  \* and on Windows:
                  \* "drop"    - drop what an operation in flight uses
                  \* "late"    - not poll a Connect when it is made
                  \* "part"    - a WSASend that takes a part and is done
    None

Tasks == {A, B}
Ops == {"R", "W"}

ASSUME TcpStreamAssumption ==
    /\ Backends \subseteq {"epoll", "kqueue", "iocp"}
    /\ A # B /\ None \notin Tasks
    /\ {BufSize, MinRoom, IovMax, SndCap} \subseteq Nat \ {0} /\ MinRoom <= BufSize
    /\ ItemSizes \cup Segments \subseteq Nat \ {0} /\ MaxIn \in Nat /\ MaxOut \in Nat
    /\ Races \subseteq {"pair", "half", "move", "hup", "discard", "iov", "drop", "late", "part"}

VARIABLES
    \* the handle
    form,    \* "None", "Incoming", "Accepted", "Connecting", "Finishing", "Connected", "Error",
             \* "Recv", "Sender", "Split", "Closed"
    own,     \* who holds the receiving and the sending side
    ops,     \* Nio.sched_ops (epoll); read_sched and write_sched (kqueue)
    sch,     \* its Schedule: [R, W: the task to run, rr, wr: read_ready, write_ready]
    pend,    \* iocp: IStream.pending, OStream.pending; Incoming.stream is Some
    io,      \* iocp: the Overlapped of each side: "idle", "flying", "queued", or "freed" in use
    wsa,     \* iocp: the WSASend in flight: [n: its bytes, k: those the kernel has taken]
    buf,     \* Sender.buf, SendHalf.buf: a chain of blocks of bytes
    rb,      \* the thread's BUFFER: [blocks, reverse, next]; block: [c: memory, off, cap]
    \* the event loop
    backend, \* which event queue
    run,     \* the polls in progress, innermost last
    left,    \* epoll: the second task of a Pair; else the second event
    alive,   \* the tasks in the slab
    told,    \* per task: what was NotReady in its last poll ("C": connect or accept)
    fault,   \* a case the code calls unreachable was reached
    \* kernel and peer
    conn,    \* connect: "idle", "progress", "up", "refused"; accept: pending connections
    net,     \* "open", "closed" by the peer, or "reset"
    rcvq,    \* bytes received, not read
    sndq,    \* bytes written, not yet with the peer
    shut,    \* shutdown(Write) was called
    \* history
    arrived, \* bytes that came in
    put, got,\* per byte: the memory readv put it in, and where the program finds it
    given,   \* bytes given to start_send
    peer,    \* bytes the peer has
    failed,  \* the program got an error
    cut      \* unsent bytes were dropped with their sink

handle == <<form, own>>
overlapped == <<pend, io, wsa>>
nio == <<ops, sch, overlapped>>
loop == <<backend, run, left, alive, fault>>
kernel == <<conn, net, rcvq, sndq, shut>>
inbound == <<rb, arrived, put, got>>
outbound == <<buf, given, peer, cut>>
vars == <<form, own, ops, sch, pend, io, wsa, buf, rb, backend, run, left, alive, told, fault,
          conn, net, rcvq, sndq, shut, arrived, put, got, given, peer, failed, cut>>

Fresh(c) == [c |-> c, off |-> 0, cap |-> BufSize]
Up(n) == [i \in 1..n |-> i]
Iocp == backend = "iocp"
NoSend == [n |-> 0, k |-> 0]

Init ==
    /\ form = "None" /\ own = [R |-> A, W |-> A]
    /\ ops = {} /\ sch = [R |-> A, W |-> A, rr |-> TRUE, wr |-> TRUE]
    /\ pend = {} /\ io = [R |-> "idle", W |-> "idle"] /\ wsa = NoSend
    /\ buf = <<>>
    /\ rb = [blocks |-> <<Fresh(1), Fresh(2)>>, reverse |-> FALSE, next |-> 3]
    /\ backend \in Backends /\ run = <<A>> /\ left = <<>> /\ alive = {A}
    /\ told = [t \in Tasks |-> {}] /\ fault = FALSE
    /\ conn = "idle" /\ net = "open" /\ rcvq = <<>> /\ sndq = <<>> /\ shut = FALSE
    /\ arrived = 0 /\ put = <<>> /\ got = <<>>
    /\ given = 0 /\ peer = <<>> /\ failed = FALSE /\ cut = FALSE

----------------------------------------------------------------------------
(* The kernel and the peer.                                                *)

HasNio == form \notin {"None", "Accepted", "Error", "Closed"}
Linked == \/ form \in {"Accepted", "Connected", "Recv", "Sender", "Split"}
          \/ form \in {"Connecting", "Finishing"} /\ conn = "up"

\* What comes before the last arrival was read counts as part of it.
Arrive(k) ==
    /\ Linked /\ net = "open" /\ rcvq = <<>> /\ arrived + k <= MaxIn
    /\ arrived' = arrived + k
    /\ rcvq' = rcvq \o [i \in 1..k |-> arrived + i]
    /\ UNCHANGED <<handle, nio, loop, told, outbound, rb, put, got, conn, net, sndq, shut, failed>>

PeerReads ==
    /\ sndq # <<>> /\ net # "reset"
    /\ peer' = Append(peer, Head(sndq)) /\ sndq' = Tail(sndq)
    /\ UNCHANGED <<handle, nio, loop, told, inbound, buf, given, cut, conn, net, rcvq, shut, failed>>

\* The peer closes its side, or the connection breaks: what is still to be sent is lost.
\* It does one of the two, once: no connection breaks after the peer has closed its side.
PeerEnds(how) ==
    /\ Linked /\ net = "open"
    /\ net' = how
    /\ sndq' = IF how = "reset" THEN <<>> ELSE sndq
    /\ UNCHANGED <<handle, nio, loop, told, inbound, outbound, conn, rcvq, shut, failed>>

\* A connect in progress is answered; a peer connects to the listener.
Answer(how) ==
    /\ \/ form \in {"Connecting", "Finishing"} /\ conn = "progress"
       \/ form = "Incoming" /\ conn = "idle" /\ how = "up"
    /\ conn' = how
    /\ UNCHANGED <<handle, nio, loop, told, inbound, outbound, net, rcvq, sndq, shut, failed>>

Readable == IF form = "Incoming" THEN conn = "up" ELSE rcvq # <<>> \/ net # "open"
Writable == IF form \in {"Connecting", "Finishing"} THEN conn # "progress"
                                                    ELSE Len(sndq) < SndCap \/ net = "reset"
\* An operation in flight is done.  One that reads, accepts or connects waits for what a
\* poll would; a WSASend has its bytes taken as room is made, or fails.
Complete(o) ==
    /\ io[o] = "flying"
    /\ \/ /\ o = "R" \/ form \in {"Connecting", "Finishing"}
          /\ IF o = "R" THEN Readable ELSE Writable
          /\ io' = [io EXCEPT ![o] = "queued"] /\ UNCHANGED <<wsa, sndq>>
       \/ /\ o = "W" /\ form \in {"Sender", "Split"}
          /\ LET k == IF wsa.n - wsa.k <= SndCap - Len(sndq) THEN wsa.n ELSE wsa.k + SndCap - Len(sndq)
             IN IF net = "reset"
                  THEN io' = [io EXCEPT !.W = "queued"] /\ UNCHANGED <<wsa, sndq>>
                  ELSE /\ k > wsa.k
                       /\ wsa' = [wsa EXCEPT !.k = k]
                       /\ sndq' = sndq \o SubSeq(FlattenSeq(buf), wsa.k + 1, k)
                       /\ io' = IF k = wsa.n THEN [io EXCEPT !.W = "queued"] ELSE io
    /\ UNCHANGED <<handle, ops, sch, pend, loop, told, inbound, outbound, conn, net, rcvq, shut, failed>>

HungUp == \/ conn = "refused"
          \/ form # "Incoming" /\ (net = "reset" \/ (net = "closed" /\ shut))

----------------------------------------------------------------------------
(* The event loop, with this one descriptor.                               *)

Idle == ~fault /\ run = <<>>
Current == run[Len(run)]

\* run_task looks the task up unchecked.
RunTask(t) ==
    IF t \in alive THEN /\ run' = <<t>> /\ told' = [told EXCEPT ![t] = {}]
                        /\ UNCHANGED fault
                   ELSE fault' = TRUE /\ UNCHANGED <<run, told>>

\* get_ready_tasks: the halves the event names become ready.
Ready(ev) == sch' = [sch EXCEPT !.rr = @ \/ "R" \in ev, !.wr = @ \/ "W" \in ev]

\* Events are reported as long as they last.  epoll reports a hang-up unasked; an event
\* that is neither read nor write is taken for a write.  One event names both halves.
EpollWait ==
    /\ backend = "epoll" /\ Idle /\ left = <<>> /\ HasNio
    /\ LET ev == {o \in ops : IF o = "R" THEN Readable ELSE Writable} IN
       /\ ev # {} \/ HungUp
       /\ ev = {} => sch.W \in alive \/ "hup" \in Races
       /\ Ready(IF ev = {} THEN {"W"} ELSE ev)
       /\ RunTask(IF "R" \in ev THEN sch.R ELSE sch.W)
       /\ left' = IF ev = Ops THEN <<sch.W>> ELSE <<>>
    /\ UNCHANGED <<handle, ops, overlapped, backend, alive, inbound, outbound, kernel, failed>>

\* kqueue reports each filter in an event of its own, in any order.
KeventWait ==
    /\ backend = "kqueue" /\ Idle /\ left = <<>> /\ HasNio
    /\ LET ev == {o \in ops : IF o = "R" THEN Readable ELSE Writable} IN
       \E o \in ev :
         /\ Ready({o})
         /\ RunTask(sch[o])
         /\ left' = SetToSeq(ev \ {o})
    /\ UNCHANGED <<handle, ops, overlapped, backend, alive, inbound, outbound, kernel, failed>>

\* A completion port hands out each completion once.  The event points to the Overlapped.
IocpWait ==
    /\ Iocp /\ Idle /\ left = <<>>
    /\ LET ev == {o \in Ops : io[o] \in {"queued", "freed"}} IN
       \E o \in ev :
         /\ IF HasNio /\ io[o] # "freed" THEN Ready({o}) /\ RunTask(sch[o])
                                         ELSE fault' = TRUE /\ UNCHANGED <<sch, run, told>>
         /\ left' = SetToSeq(ev \ {o})
         /\ io' = [x \in Ops |-> IF io[x] = "queued" THEN "idle" ELSE io[x]]
    /\ UNCHANGED <<handle, ops, pend, wsa, backend, alive, inbound, outbound, kernel, failed>>

RunSecond ==
    /\ backend = "epoll" /\ Idle /\ left # <<>>
    /\ left' = <<>>
    /\ RunTask(left[1])
    /\ UNCHANGED <<handle, nio, backend, alive, inbound, outbound, kernel, failed>>

\* The schedule is looked up unchecked.
SecondEvent ==
    /\ backend # "epoll" /\ Idle /\ left # <<>>
    /\ left' = <<>>
    /\ IF HasNio /\ io[left[1]] # "freed" THEN Ready({left[1]}) /\ RunTask(sch[left[1]])
                                         ELSE fault' = TRUE /\ UNCHANGED <<sch, run, told>>
    /\ UNCHANGED <<handle, ops, overlapped, backend, alive, inbound, outbound, kernel, failed>>

\* A task is run for something else: a timer, another descriptor.
OtherRun(t) ==
    /\ Idle /\ left = <<>> /\ t \in alive
    /\ RunTask(t)
    /\ UNCHANGED <<handle, nio, backend, left, alive, inbound, outbound, kernel, failed>>

----------------------------------------------------------------------------
(* Nio.                                                                    *)

\* try_from: the schedule names the current task for both operations.
Register(t) ==
    /\ ops' = {} /\ sch' = [R |-> t, W |-> t, rr |-> TRUE, wr |-> TRUE]
    /\ pend' = {} /\ UNCHANGED wsa

\* On Windows a read asks only if one is pending.
is_read_ready == "R" \in ops \cup pend => sch.rr
is_write_ready == "W" \in ops \/ Iocp => sch.wr

\* The mutant: the operation is registered, the task not.
TaskForgotten(t) ==
    IF "R" \in ops THEN UNCHANGED nio
    ELSE /\ ops' = ops \cup {"R"} /\ sch' = [sch EXCEPT !.rr = FALSE]
         /\ UNCHANGED overlapped

\* They do nothing if the operation is registered already.
schedule_read(t) ==
    IF "R" \in ops THEN UNCHANGED nio
    ELSE /\ ops' = ops \cup {"R"} /\ sch' = [sch EXCEPT !.R = t, !.rr = FALSE]
         /\ UNCHANGED overlapped
schedule_write(t) ==
    IF "W" \in ops THEN UNCHANGED nio
    ELSE /\ ops' = ops \cup {"W"} /\ sch' = [sch EXCEPT !.W = t, !.wr = FALSE]
         /\ UNCHANGED overlapped
cancel_write ==
    IF "W" \notin ops THEN UNCHANGED nio
    ELSE /\ ops' = ops \ {"W"} /\ sch' = [sch EXCEPT !.wr = TRUE]
         /\ UNCHANGED overlapped

\* On Windows scheduling is a note for the completion that is to come.
Schedule(t, o) ==
    /\ sch' = [sch EXCEPT ![o] = t, !.rr = @ /\ o # "R", !.wr = @ /\ o # "W"]
    /\ UNCHANGED ops
Start(t, o) ==
    /\ io' = [io EXCEPT ![o] = "flying"] /\ pend' = pend \cup {o}
    /\ Schedule(t, o)

\* The Overlapped of o is in use: in flight, in the port, or in the batch of events.
InUse(o) == io[o] # "idle" \/ (Iocp /\ left = <<o>>)
Frees(os) ==
    /\ pend' = pend \ os
    /\ wsa' = IF "W" \in os THEN NoSend ELSE wsa
    /\ io' = [o \in Ops |-> IF o \in os /\ InUse(o) THEN "freed" ELSE io[o]]
\* What was pending is over; without completion ports nothing ever is.
Ends(o) == pend' = pend \ {o} /\ wsa' = (IF o = "W" THEN NoSend ELSE wsa) /\ UNCHANGED <<ops, sch, io>>
MayFree(os) == (\A o \in os : ~InUse(o)) \/ "drop" \in Races

\* What a poll tells its task.
Polls(t) == ~fault /\ run # <<>> /\ t = Current
NotReady(t, o) == told' = [told EXCEPT ![t] = @ \cup {o}]
Answered(t, o) == told' = [told EXCEPT ![t] = @ \ {o}]

----------------------------------------------------------------------------
(* Incoming and Connect.                                                   *)

\* TcpListener::incoming.
Listen(t) ==
    /\ Polls(t) /\ form = "None"
    /\ form' = "Incoming" /\ Register(t)
    /\ UNCHANGED <<own, io, loop, told, inbound, outbound, kernel, failed>>

\* WouldBlock of a read or an accept: it is scheduled, or in flight on Windows.
AwaitRead(t) == IF Iocp THEN Start(t, "R") /\ UNCHANGED wsa ELSE schedule_read(t)

\* poll_accept: a connection, which becomes a stream without a Nio (the program takes
\* one and drops the listener), WouldBlock, or another error of accept (no descriptor
\* left, say), which leaves everything as it is.  On Windows an AcceptEx that completes
\* with an error is only logged and another one started (tcp.rs:198): this is left out,
\* the one in flight here stands for the last of them.
AcceptReady(t) ==
    /\ Polls(t) /\ form = "Incoming" /\ conn = "up"
    /\ Iocp => is_read_ready
    /\ form' = "Accepted" /\ Answered(t, "C")
    /\ UNCHANGED <<own, nio, loop, inbound, outbound, kernel, failed>>
AcceptNotReady(t) ==
    /\ Polls(t) /\ form = "Incoming"
    /\ \/ Iocp /\ ~is_read_ready /\ UNCHANGED nio
       \/ (Iocp => is_read_ready) /\ conn = "idle" /\ AwaitRead(t)
    /\ NotReady(t, "C")
    /\ UNCHANGED <<handle, loop, inbound, outbound, kernel, failed>>
AcceptErr(t) ==
    /\ Polls(t) /\ form = "Incoming"
    /\ Iocp => is_read_ready
    /\ Answered(t, "C")
    /\ UNCHANGED <<handle, nio, loop, inbound, outbound, kernel, failed>>

\* Connect::from: the socket is registered before connect(2) or ConnectEx, which is done
\* at once, in progress or refused.
Connect(t, how) ==
    /\ Polls(t) /\ form = "None"
    /\ form' = CASE how = "up" -> "Connected" [] how = "progress" -> "Connecting"
                 [] how = "refused" -> "Error"
    /\ conn' = IF how = "refused" THEN conn ELSE how
    /\ Register(t)
    /\ io' = IF Iocp /\ how = "progress" THEN [io EXCEPT !.W = "flying"] ELSE io
    /\ UNCHANGED <<own, loop, told, inbound, outbound, net, rcvq, sndq, shut, failed>>

Becomes(t, f) == form' = f /\ Answered(t, "C")

\* poll_connect, state by state.
ConnectingPoll(t) ==
    /\ Polls(t) /\ form = "Connecting"
    /\ IF Iocp THEN Schedule(t, "W") /\ UNCHANGED overlapped ELSE schedule_write(t)
    /\ form' = "Finishing" /\ NotReady(t, "C")
    /\ UNCHANGED <<own, loop, inbound, outbound, kernel, failed>>
FinishingWaits(t) ==
    /\ Polls(t) /\ form = "Finishing" /\ ~is_write_ready
    /\ NotReady(t, "C")
    /\ UNCHANGED <<handle, nio, loop, inbound, outbound, kernel, failed>>
FinishingOk(t) ==
    /\ Polls(t) /\ form = "Finishing" /\ is_write_ready /\ conn # "refused" /\ net # "reset"
    /\ cancel_write /\ Becomes(t, "Sender")
    /\ UNCHANGED <<own, loop, inbound, outbound, kernel, failed>>
FinishingErr(t) ==
    /\ Polls(t) /\ form = "Finishing" /\ is_write_ready /\ (conn = "refused" \/ net = "reset")
    /\ Becomes(t, "Closed") /\ failed' = TRUE
    /\ UNCHANGED <<own, nio, loop, inbound, outbound, kernel>>
ConnectedPoll(t) ==
    /\ Polls(t) /\ form = "Connected"
    /\ Becomes(t, "Sender")
    /\ UNCHANGED <<own, nio, loop, inbound, outbound, kernel, failed>>
ErrorPoll(t) ==
    /\ Polls(t) /\ form = "Error"
    /\ Becomes(t, "Closed") /\ failed' = TRUE
    /\ UNCHANGED <<own, nio, loop, inbound, outbound, kernel>>

----------------------------------------------------------------------------
(* Recv, Sender, split and their conversions.                              *)

\* recv, send and split of an accepted stream: the first thing that registers it.
FromStream(t, f) ==
    /\ Polls(t) /\ form = "Accepted"
    /\ form' = f /\ Register(t)
    /\ UNCHANGED <<own, io, loop, told, inbound, outbound, kernel, failed>>

\* into_sender, into_recv and into_twoway keep the Nio and what is registered.  A
\* Sender's bytes go with into_twoway, and are dropped by into_recv.  On Windows the side
\* that is given up goes with its Overlapped.
GivenUp(f) == CASE f = "Sender" -> {"R"} [] f = "Recv" -> {"W"} [] f = "Split" -> {}

Into(t, f) ==
    /\ Polls(t) /\ form \in {"Recv", "Sender"} /\ f # form /\ own.R = t
    /\ f = "Recv" /\ buf # <<>> => "discard" \in Races
    /\ MayFree(GivenUp(f)) /\ Frees(GivenUp(f))
    /\ form' = f
    /\ cut' = (cut \/ (f = "Recv" /\ buf # <<>>))
    /\ buf' = IF f = "Recv" THEN <<>> ELSE buf
    /\ told' = [told EXCEPT ![t] = {}]
    /\ UNCHANGED <<own, ops, sch, loop, inbound, given, peer, kernel, failed>>

\* A half goes to a task of its own, which is polled at once.
Spawn(t, h) ==
    /\ Polls(t) /\ form = "Split" /\ own[h] = t /\ B \notin alive /\ run = <<A>>
    /\ own.R = own.W
    /\ h \in ops \/ InUse(h) => "move" \in Races
    /\ own' = [own EXCEPT ![h] = B]
    /\ alive' = alive \cup {B} /\ run' = Append(run, B)
    /\ told' = [told EXCEPT ![B] = {}, ![A] = @ \ {h}]
    /\ UNCHANGED <<form, nio, backend, left, fault, inbound, outbound, kernel, failed>>

----------------------------------------------------------------------------
(* IStream::poll_recv, and the receive buffer that all streams of a thread *)
(* share.                                                                  *)

Cells(b, n) == [i \in 1..n |-> <<b.c, b.off + i>>]
Spent(b, n) == b.cap - n < MinRoom
Rest(b, n, c) == IF Spent(b, n) THEN Fresh(c) ELSE [b EXCEPT !.off = @ + n, !.cap = @ - n]
Taken(b, n) == IF Spent(b, n) THEN 1 ELSE 0

\* The mutant: what was read stays part of the block that is read into next.
Overlapping(n) ==
    LET i == IF rb.reverse THEN 2 ELSE 1
        j == 3 - i
        b1 == rb.blocks[i]
        b2 == rb.blocks[j]
        cells == Cells(b1, b1.cap) \o Cells(b2, b2.cap)
    IN /\ put' = put \o SubSeq(cells, 1, n)
       /\ IF n <= b1.cap
            THEN /\ got' = got \o Cells(b1, n)
                 /\ rb' = [rb EXCEPT !.blocks[i] = IF Spent(b1, n) THEN Fresh(rb.next) ELSE b1,
                                     !.next = @ + Taken(b1, n)]
            ELSE /\ got' = got \o Cells(b1, b1.cap) \o Cells(b2, n - b1.cap)
                 /\ rb' = [rb EXCEPT !.blocks[i] = Fresh(rb.next),
                                     !.blocks[j] = Rest(b2, n - b1.cap, rb.next + 1),
                                     !.next = @ + 1 + Taken(b2, n - b1.cap)]

\* Buffer::readv of n bytes: they fill the rest of the first block, then the second.
\* The program gets the parts that were filled; what is left of a block is kept for the
\* next read, and the block that has room comes first then.
readv(n) ==
    LET i == IF rb.reverse THEN 2 ELSE 1
        j == 3 - i
        b1 == rb.blocks[i]
        b2 == rb.blocks[j]
        cells == Cells(b1, b1.cap) \o Cells(b2, b2.cap)
        m == n - b1.cap
    IN /\ put' = put \o SubSeq(cells, 1, n)
       /\ IF n <= b1.cap
            THEN /\ got' = got \o Cells(b1, n)
                 /\ rb' = [rb EXCEPT !.blocks[i] = Rest(b1, n, rb.next), !.next = @ + Taken(b1, n)]
            ELSE /\ got' = got \o Cells(b1, b1.cap) \o Cells(b2, m)
                 /\ rb' = [rb EXCEPT !.blocks[i] = Fresh(rb.next),
                                     !.blocks[j] = Rest(b2, m, rb.next + 1),
                                     !.reverse = IF Spent(b2, m) THEN @ ELSE ~@,
                                     !.next = @ + 1 + Taken(b2, m)]

Room == rb.blocks[1].cap + rb.blocks[2].cap
Receives(t) == Polls(t) /\ form \in {"Recv", "Split"} /\ own.R = t

RecvSome(t) ==
    /\ Receives(t) /\ is_read_ready /\ rcvq # <<>>
    /\ LET n == IF Len(rcvq) <= Room THEN Len(rcvq) ELSE Room IN
       /\ readv(n)
       /\ rcvq' = SubSeq(rcvq, n + 1, Len(rcvq))
    /\ IF Iocp THEN Ends("R") ELSE schedule_read(t)
    /\ Answered(t, "R")
    /\ UNCHANGED <<handle, loop, arrived, outbound, conn, net, sndq, shut, failed>>
RecvNone(t) ==
    /\ Receives(t) /\ is_read_ready /\ rcvq = <<>> /\ net = "closed"
    /\ Ends("R") /\ Answered(t, "R")
    /\ UNCHANGED <<handle, loop, inbound, outbound, kernel, failed>>
RecvErr(t) ==
    /\ Receives(t) /\ is_read_ready /\ rcvq = <<>> /\ net = "reset"
    /\ Ends("R") /\ Answered(t, "R") /\ failed' = TRUE
    /\ UNCHANGED <<handle, loop, inbound, outbound, kernel>>
RecvNotReady(t) ==
    /\ Receives(t)
    /\ \/ ~is_read_ready /\ UNCHANGED nio
       \/ is_read_ready /\ rcvq = <<>> /\ net = "open" /\ AwaitRead(t)
    /\ NotReady(t, "R")
    /\ UNCHANGED <<handle, loop, inbound, outbound, kernel, failed>>

----------------------------------------------------------------------------
(* The sinks: start_send, poll_complete and close over OStream::poll_send. *)

Sends(t) == Polls(t) /\ form \in {"Sender", "Split"} /\ own.W = t

\* It takes everything: a sink never asks its program to wait.
start_send(t, k) ==
    /\ Sends(t) /\ ~shut /\ given + k <= MaxOut
    /\ Len(buf) >= IovMax => "iov" \in Races
    /\ given' = given + k
    /\ buf' = Append(buf, [i \in 1..k |-> given + i])
    /\ told' = [told EXCEPT ![t] = @ \ {"W"}]
    /\ UNCHANGED <<handle, nio, loop, inbound, peer, cut, kernel, failed>>

\* The mutant: a block that was sent in part is taken for sent.
SkipsBlocks(b, n) ==
    FoldLeft(LAMBDA r, blk : [n |-> r.n - Len(blk), b |-> IF r.n > 0 THEN r.b ELSE Append(r.b, blk)],
             [n |-> n, b |-> <<>>], b).b

\* ByteBuf::skip and compact: the first n bytes go, and the blocks they empty.
skip(b, n) ==
    FoldLeft(LAMBDA r, blk : IF r.n >= Len(blk) THEN [r EXCEPT !.n = @ - Len(blk)]
                             ELSE [n |-> 0, b |-> Append(r.b, SubSeq(blk, r.n + 1, Len(blk)))],
             [n |-> n, b |-> <<>>], b).b

\* What is left of buf when a WSASend that is done has been taken off it.
Base == IF "W" \in pend THEN skip(buf, wsa.n) ELSE buf
Sent == "W" \in pend => wsa.k = wsa.n

\* writev takes what it has room for, or some of it, from at most IovMax blocks.
Offered == Len(FlattenSeq(Base))
Space == SndCap - Len(sndq)
Tries == buf # <<>> /\ is_write_ready /\ Sent
Breaks == Base # <<>> /\ (net = "reset" \/ (~Iocp /\ Len(buf) > IovMax))

\* What poll_send does, and whether it is Ready: nothing to send; not writable yet; n
\* bytes written, all or a part; WouldBlock.  A WSASend takes all, now or in flight.
SendNothing == buf = <<>> /\ UNCHANGED <<buf, sndq, nio>>
SendWaits == buf # <<>> /\ ~is_write_ready /\ UNCHANGED <<buf, sndq, nio>>
SendsBytes(n) ==
    /\ Tries /\ ~Breaks /\ n <= Space /\ n <= Offered
    /\ sndq' = sndq \o SubSeq(FlattenSeq(Base), 1, n)
    /\ buf' = skip(Base, n)
SendAll ==
    /\ \E n \in 0..SndCap : SendsBytes(n) /\ n = Offered
    /\ IF Iocp THEN Ends("W") ELSE cancel_write

\* The mutant: nothing waits for room after a partial write.
PartUnregistered(t) == \E n \in 1..SndCap : SendsBytes(n) /\ n < Offered /\ UNCHANGED nio

SendPart(t) ==
    /\ \E n \in 1..SndCap : SendsBytes(n) /\ n < Offered
    /\ IF Iocp THEN "part" \in Races /\ Ends("W") ELSE schedule_write(t)
SendBlocks(t) ==
    /\ Tries /\ ~Breaks /\ Base # <<>> /\ UNCHANGED sndq
    /\ IF Iocp THEN buf' = Base /\ Start(t, "W") /\ wsa' = [n |-> Offered, k |-> 0]
               ELSE Space <= 0 /\ schedule_write(t) /\ UNCHANGED buf

SendRest == <<handle, loop, inbound, given, peer, cut, conn, net, rcvq>>

poll_complete(t) ==
    /\ Sends(t)
    /\ \/ (SendNothing \/ SendAll) /\ Answered(t, "W")
       \/ (SendWaits \/ SendPart(t) \/ SendBlocks(t)) /\ NotReady(t, "W")
    /\ UNCHANGED <<SendRest, shut, failed>>
\* An error of writev, of a WSASend in flight, or of the shutdown that close calls.
poll_err(t) ==
    /\ Sends(t)
    /\ IF buf = <<>> THEN net = "reset" ELSE is_write_ready /\ (Sent => Breaks)
    /\ failed' = TRUE /\ Answered(t, "W")
    /\ buf' = (IF Sent THEN Base ELSE buf) /\ Ends("W")
    /\ UNCHANGED <<SendRest, sndq, shut>>
\* close: shutdown(Write) once all is written.
close(t) ==
    /\ Sends(t) /\ ~shut /\ net # "reset"
    /\ \/ (SendNothing \/ SendAll) /\ Answered(t, "W") /\ shut' = TRUE
       \/ (SendWaits \/ SendPart(t) \/ SendBlocks(t)) /\ NotReady(t, "W") /\ UNCHANGED shut
    /\ UNCHANGED <<SendRest, failed>>

----------------------------------------------------------------------------
(* The end of a poll, of a half and of a task.                             *)

Pop == run' = SubSeq(run, 1, Len(run) - 1)
HeldBy(t) == {h \in Ops : own[h] = t}

\* NotReady, after polling whatever it has to wait for.
Park(t) ==
    /\ Polls(t)
    /\ form \in {"Incoming", "Connecting", "Finishing", "Connected"} /\ own.R = t
         => "C" \in told[t] \/ (form = "Connecting" /\ "late" \in Races)
    /\ own.W = t /\ buf # <<>> /\ ~failed => "W" \in told[t]
    /\ Pop
    /\ UNCHANGED <<handle, nio, backend, left, alive, told, fault, inbound, outbound, kernel, failed>>

Lasts(hs) == \E h \in Ops \ hs : own[h] # None

\* The mutant: the Nio goes with the first half.
FirstFrees(hs) ==
    /\ own' = [h \in Ops |-> IF h \in hs THEN None ELSE own[h]]
    /\ form' = "Closed" /\ UNCHANGED nio
    /\ cut' = (cut \/ ("W" \in hs /\ buf # <<>>))
    /\ buf' = IF "W" \in hs THEN <<>> ELSE buf

\* The halves share the Nio through an Rc: the last one drops it, and closes the socket.
Release(hs) ==
    /\ own' = [h \in Ops |-> IF h \in hs THEN None ELSE own[h]]
    /\ Frees(IF Lasts(hs) THEN hs ELSE Ops)
    /\ IF Lasts(hs) THEN UNCHANGED <<form, ops, sch>>
       ELSE form' = "Closed" /\ ops' = {} /\ sch' = [sch EXCEPT !.R = A, !.W = A]
    /\ cut' = (cut \/ ("W" \in hs /\ buf # <<>>))
    /\ buf' = IF "W" \in hs THEN <<>> ELSE buf

\* A task drops a half, or the whole stream.
DropHalves(t, hs) ==
    /\ Polls(t) /\ hs # {} /\ hs \subseteq HeldBy(t)
    /\ hs # Ops => form = "Split"
    /\ form \notin {"None", "Closed"}
    /\ left # <<>> /\ backend # "epoll" /\ ~Lasts(hs) => "pair" \in Races
    /\ MayFree(hs)
    /\ Release(hs)
    /\ UNCHANGED <<loop, told, inbound, given, peer, kernel, failed>>

\* A task is done and is dropped with all it holds.
End(t) ==
    /\ Polls(t) /\ (t = B \/ run = <<A>>)
    /\ left # <<>> => \/ "pair" \in Races
                      \/ IF backend = "epoll" THEN left[1] # t
                         ELSE Lasts(HeldBy(t)) /\ sch[left[1]] # t
    /\ (\E o \in ops : sch[o] = t) /\ HasNio /\ Lasts(HeldBy(t)) => "half" \in Races
    /\ MayFree(HeldBy(t)) /\ Release(HeldBy(t))
    /\ alive' = alive \ {t}
    /\ told' = [told EXCEPT ![t] = {}]
    /\ Pop
    /\ UNCHANGED <<backend, left, fault, inbound, given, peer, kernel, failed>>

----------------------------------------------------------------------------

Network ==
    \/ \E k \in Segments : Arrive(k)
    \/ PeerReads
    \/ \E how \in {"closed", "reset"} : PeerEnds(how)
    \/ \E how \in {"up", "refused"} : Answer(how)
    \/ \E o \in Ops : Complete(o)

EventLoop == EpollWait \/ KeventWait \/ IocpWait \/ RunSecond \/ SecondEvent

Makes(t) ==
    \/ Listen(t) \/ AcceptReady(t) \/ AcceptNotReady(t) \/ AcceptErr(t)
    \/ \E how \in {"up", "progress", "refused"} : Connect(t, how)
    \/ ConnectingPoll(t) \/ FinishingWaits(t) \/ FinishingOk(t) \/ FinishingErr(t)
    \/ ConnectedPoll(t) \/ ErrorPoll(t)

Uses(t) ==
    \/ \E f \in {"Recv", "Sender", "Split"} : FromStream(t, f) \/ Into(t, f)
    \/ \E h \in Ops : Spawn(t, h)
    \/ RecvSome(t) \/ RecvNone(t) \/ RecvErr(t) \/ RecvNotReady(t)
    \/ \E k \in ItemSizes : start_send(t, k)
    \/ poll_complete(t) \/ poll_err(t) \/ close(t)
    \/ \E hs \in SUBSET Ops : DropHalves(t, hs)

Next ==
    \/ Network \/ EventLoop
    \/ \E t \in Tasks : OtherRun(t) \/ Makes(t) \/ Uses(t) \/ Park(t) \/ End(t)

\* The loop goes back to its wait after every batch and a wait reports all that is
\* ready; a poll ends, after polling what it depends on; the peer answers and reads.
Depends(t) ==
    \/ ConnectingPoll(t) \/ FinishingWaits(t) \/ FinishingOk(t) \/ FinishingErr(t)
    \/ ConnectedPoll(t) \/ poll_complete(t) \/ poll_err(t)

Fairness ==
    /\ SF_vars(EpollWait \/ KeventWait \/ IocpWait) /\ WF_vars(RunSecond \/ SecondEvent)
    /\ WF_vars(\E t \in Tasks : Depends(t)) /\ WF_vars(\E t \in Tasks : Park(t))
    /\ WF_vars(PeerReads) /\ WF_vars(\E how \in {"up", "refused"} : Answer(how))
    /\ \A o \in Ops : WF_vars(Complete(o))

Spec == Init /\ [][Next]_vars
FairSpec == Spec /\ Fairness

----------------------------------------------------------------------------
(* Properties.                                                             *)

\* What the program gives to start_send reaches the peer in order, each byte once, over
\* every cut that writev makes, until the connection breaks or the sink is dropped with
\* bytes in it; shutdown comes after the last of them, nothing is written before connect
\* is done, and an error is always the network's.
OutIntact ==
    /\ net # "reset" /\ ~cut => 
         peer \o sndq \o SubSeq(FlattenSeq(buf), wsa.k + 1, Len(FlattenSeq(buf))) = Up(given)
    /\ \A i \in DOMAIN peer : peer[i] = i
    /\ shut => buf = <<>>
    /\ form \in {"Sender", "Recv", "Split"} => conn = "up"
    /\ failed => net = "reset" \/ conn = "refused" \/ form = "Closed"

\* What the program has received stays what it was: the memory of a ByteBuf handed out
\* is not written again by later reads into the blocks it was split from, and the bytes
\* are found in the order in which they came.
InIntact ==
    /\ got = put /\ Len(got) + Len(rcvq) = arrived
    /\ \A i, j \in DOMAIN put : put[i] = put[j] => i = j

\* No wakeup is lost: a task that was told NotReady is the task the event of that half
\* runs, also after the stream has been converted, split and given away.
Registered ==
    \A t \in alive : (\A i \in DOMAIN run : run[i] # t) =>
      \A h \in told[t] :
        LET o == IF h # "C" THEN h ELSE IF form = "Incoming" THEN "R" ELSE "W" IN
        own[o] = t /\ HasNio => (o \in ops \/ InUse(o)) /\ sch[o] = t

\* No event looks up a task or a schedule that has gone.
NeverUnreachable == ~fault

\* A connect is answered, and what is given to a sink leaves it: every partial write is
\* taken up again as long as the peer reads.
Completes ==
    /\ (form \in {"Connecting", "Finishing"}) ~> (form \notin {"Connecting", "Finishing"})
    /\ (buf # <<>>) ~> (buf = <<>> \/ net = "reset" \/ failed)
=============================================================================

# A TLA+ model of ruyi

ruyi is an event-driven networking library in Rust: one event loop per thread
(`reactor`), futures as tasks, timers, non-blocking TCP, a lock-free
single-producer single-consumer channel between threads, a TCP server that
spreads connections over worker threads, and a block-chained byte buffer. This
directory holds TLA+ modules that model its core, the TLC configurations that
check them on small instances, and proofs of the most important properties for
every instance. All paths below are relative to the crate (`src/` here is the
crate's `src/`).

## 1. Inventory

| Part | Code | State it keeps | Operations | Talks to |
|---|---|---|---|---|
| SPSC channel | `sync/spsc.rs`, `sys/unix/spsc.rs` | ring of slots, `front`/`rear` and a cached copy of each on the other side, reference count | `try_send`, `send`, drop of the `SyncSender`; `poll_recv`, drop of the `Receiver` | the awakener; the receiver's event loop |
| Awakener | `sys/unix/awakener.rs`, `sys/unix/linux/awakener_imp.rs` | flag `need_wakeup`, an eventfd | `wakeup` (sender), `reset` (receiver) | epoll |
| Slab | `slab.rs` | a `Vec` with a free list threaded through it, a length | `insert`, `remove`, `clear`, `get`, `is_empty` | holds the tasks, schedules, timers and wheel entries, all named by index |
| Timer queue | `reactor/timer.rs` | slab of entries, heap of expirations | `Timer`/`PeriodicTimer` `new`, `poll`, drop; `Queue::poll` | runs tasks through `run_task` |
| Timing wheel | `reactor/wheel.rs`, `timeout.rs`, `sleep.rs`, `stream.rs` | doubly linked list through slot markers and slab entries, current slot; the task that ticks it | `new`, `poll`, `reschedule`, drop; `tick`; `TimeoutFuture` and `TimeoutStream` polls | driven by a `PeriodicTimer` in a task of its own; runs tasks in the middle of the walk |
| Event loop | `reactor/eloop.rs`, `gate.rs`, `task.rs`, `sys/eloop.rs` | slabs of tasks and of schedules, current task and spawn stack, gate count, main task | `run`, `spawn`, `run_task`, `Gate` enter and leave, `clear` | everything above |
| Descriptors (Linux) | `sys/unix/linux/nio_imp.rs`, `poll.rs` | registration, the operations asked for, the tasks to wake | `schedule_read`, `schedule_write`, `cancel_write`, drop, `get_ready_tasks` | epoll, the event loop |
| TCP server | `service/tcp/server/*.rs` | per-worker connection counters, channels, sessions, threads | accept and dispatch, end of a session, failure of a worker, shutdown | SPSC channels, event loops, gates |
| TCP stream, listener, connector | `sys/unix/net/tcp.rs`, `sys/windows/net/tcp.rs`, `net/tcp.rs` | the `Nio`, a sink's unsent blocks, the thread's two receive blocks, the state of a connect; on Windows what is pending and its OVERLAPPED | `poll_accept`, `poll_connect`, `poll_recv`, `start_send`, `poll_complete`, `close`, `split`, `into_*`, drop | descriptors, `ByteBuf`, tasks |
| `ByteBuf` | `buf/*.rs` | chain of shared blocks with offsets | append, prepend, read, split, drain, find, windows | streams, decoders |
| Codecs | `buf/codec/*.rs` | none | encode and decode integers, floats, byte strings | `ByteBuf` |
| Prefix decoders | `proto/*.rs` | bytes left over, length announced | `poll` | TCP stream |
| BSD descriptors | `sys/unix/bsd/nio_imp.rs`, `poll.rs` | as on Linux, one filter per operation | as on Linux | kqueue |
| Windows descriptors | `sys/windows/nio.rs`, `poll.rs` | the tasks to wake; nothing is registered | `schedule_read`, `schedule_write`, drop, `get_ready_tasks` | a completion port |

What is hard here, and where it is modelled:

* **Two threads without a lock.** The channel's indices and its wake-up flag are
  plain atomics read and written in an order that has to be right (`Spsc`); the
  server thread and its workers share counters that are read, used and changed
  in separate steps (`TcpServer`).
* **Re-entrance.** `Queue::poll`, `Inner::tick` and the event loop run a task in
  the middle of their own work, and the task may drop, make or reschedule the
  very things they are iterating over (`TimerQueue`, `Wheel`, `Reactor`).
* **Names that outlive what they name.** Everything is named by slab index. A
  stale index finds a free object, for which the code calls `::unreachable()`
  (undefined behaviour in a release build), or another owner's object
  (`NeverUnreachable`, `HandleOwnsEntry`, `WakesOwner`).
* **Ends.** A loop ends with its main task, unless a gate is held; a server's
  drop joins its workers; the last end of a channel destroys what is left in it.
* **A socket used by two tasks.** The halves of a stream share one registration that
  remembers one task per direction; they end, move and convert independently, and on
  Windows the kernel holds pointers into them meanwhile (`TcpStream`).
* **Time.** Rounding to slots of a second, periods that must not drift, timers
  longer than the wheel.
* **Boundaries.** A byte string lies in blocks of any size, some of them read
  empty, and every operation has to work across them (`ByteBuf`); a frame arrives
  in pieces that the network chose (`Prefix`).

`PROJECT.json` lists these hazards one by one, at their lines, with the
properties that would notice them going wrong.

## 2. Modules

    SlabOps ----> Slab -----> MCSlab          SlabMap  (abstract)
       |           \--------> SlabProofs
       |--------> TimerQueue -> MCTimerQueue, TimerQueueProofs (SlabProofs)
       |--------> Wheel ------> MCWheel, WheelProofs           (SlabProofs)
       \--------> Reactor ----> MCReactor, ReactorProofs       (SlabProofs)
    Spsc -----> MCSpsc, SpscProofs            Channel  (abstract)
    TcpServer -> MCTcpServer, TcpServerProofs
    TcpStream -> MCTcpStream, TcpStreamProofs
    ByteBufOps -> ByteBufSearch -> ByteBuf -> MCByteBuf    ByteSeq (abstract)
    Prefix ----> MCPrefix, PrefixProofs

**Spsc** has one action per access to memory the two threads share. `S_*` are
the sender's steps (`try_send` and `send` are the same steps with and without
spinning; dropping the `SyncSender` goes through the same wake-up), `R_*` those
of the task that polls the receiver. A message in hand, the shadow index and
the program counter are thread-local. `rear`/`front` are the indices as the
owner sees them and `rearMem`/`frontMem` as the other thread does: a Release
store may wait in a store buffer until `FlushS`/`FlushR`, a SeqCst store, an
atomic read-modify-write or a system call. `StoreBuffers` says which of the two
memory orderings a behaviour may have. Indices wrap at `Word`.

**Channel** is what the two users may rely on: a bounded FIFO whose ends can go
at any time. `Spsc` implements it under the mapping at the end of that module.

**SlabOps** has the Slab as a value and its operations as operators, so that
the other modules can use the same definitions; **Slab** is the state machine of
one Slab whose owner makes any call with any index. `freed` is a history
variable: the free indices, latest first. **SlabMap** is the partial map it
implements.

**TimerQueue** keeps `Queue.tasks` (a Slab), the heap as a bag of expirations,
and the program's `Timer`s. `QPop` is the part of `Queue::poll` up to
`run_task`; the task's `New`, `Schedule`, `Poll` and `Drop` are actions of their
own; `RunEnd` is the rest of the loop body, which for a periodic timer looks at
its entry again. If the entry is gone by then, what the code reads is the bytes
of a freed object: `StaleBytes` names the states it may find.

**Wheel** keeps the list exactly as the code does, two links per marker and per
entry. `TickStart`, `Visit` and `TickEnd` are the steps of `tick`, with the
task's operations in between. Time is in half seconds, because `round_to_secs`
rounds to the nearest second. `FirstUse` is `Wheel::init`: the first sleep makes the
list and spawns the task that ticks it, whose period counts from then. The program's
calls are those of the adaptors: `New` and `Schedule` (a timer is linked at its first
poll), `PollNotReady`, `PollExpired`, `PollItem` (a `TimeoutStream` whose stream has an
item puts its timer off, `Reschedule`) and `Drop`. `Rerun` is a second `reactor::run`:
the tasks are gone, the driver among them, and `Wheel.inner` is still there.

**Reactor** keeps the slabs of tasks and schedules, `current_task`, the spawn
stack, and the polls in progress as a stack (`frames`), since a spawned task is
polled inside its parent's poll. `Wait` returns any batch of events the kernel
could report; `NextEvent` is `get_ready_tasks` with `run_task`; `RunSecond` is the
other half of a `Pair`. `ClearAll` is `EventLoop::clear`, and `Rerun` a second
`reactor::run` on the same thread.

**TcpServer** has the server thread's dispatch (`Accept`, `Look`, `Send`, `Inc`:
the counter is read, the connection handed over and the counter incremented in
three steps), the single-worker mode (`AcceptSingle`), the workers (`Take`,
`FindEmpty`, `Wait`, `EndOfStream`, `Close`, `Fail`) and the shutdown
(`StopMulti`, `DropWorker`, `Join`). Its channels are bounded FIFOs as in
`Channel`, but the receiver's look for a message and its look for the end of the
stream remain two steps, as in `sys/unix/spsc.rs`. An error of the stream of connections
(`server.rs:102`), which ends the server's task, is not modelled.

**TcpStream** is one connection from the call that makes it to its last drop. The
handle is `form` (which type the program holds) and `own` (which task holds each side);
`ops` and `sch` are the `Nio` and its `Schedule`; `buf` is the sink's chain of blocks;
`rb` the two blocks all streams of the thread read into. The actions are the calls:
`Listen`, `AcceptReady`, `AcceptNotReady` and `AcceptErr`; `Connect` and one action per state of
`poll_connect`; `FromStream` (`recv`, `send`, `split`), `Into` (the conversions), `Spawn`
(a half goes to a new task, which is polled at once); `RecvSome`, `RecvNone`, `RecvErr`,
`RecvNotReady` for `poll_recv`; `start_send`, `poll_complete`, `close`, `poll_err` over the
four outcomes of `poll_send` (`SendNothing`, `SendWaits`, `SendAll`/`SendPart`,
`SendBlocks`); `Park`, `DropHalves` and `End` for the ends of a poll, of a half and of a
task. `readv` is translated block by block: the memory cell each byte was put in is
compared with the cell the program finds it in.

Its `backend` is chosen in `Init`. On Linux one event names both directions and runs one
or two tasks (`EpollWait`, `RunSecond`). On the BSDs there is an event per filter, so that
the second event of a batch is looked up after the first task has run (`KeventWait`,
`SecondEvent`). On Windows nothing is registered: an operation is started, its `io`
state goes from flying to queued to idle, and a `GetQueuedCompletionStatusEx` hands out
each completion once (`Complete`, `IocpWait`). `pend` is the `pending` flag of the stream;
`wsa` is the WSASend in flight, whose bytes stay in `buf` until its completion has been
polled. `Frees` says when an OVERLAPPED goes that the kernel still has: an event for it
sets `fault`. The kernel and the peer are `Network`: partial writes, arrival in any
segments, FIN, reset, refusal. The peer ends its side once, by a FIN or by a reset: no
reset after a FIN is modelled. Nor is an AcceptEx that completes with an error, which the
code logs before it starts another one.

**ByteBufOps** has a `ByteBuf` as a value: blocks with the room before and after
their bytes, `idx`, and every operation as an operator that walks the blocks the
way the code does. **ByteBufSearch** has the searches, the order and the windows,
which also go block by block. **ByteBuf** is the state machine of a buffer and of
the part that was last cut off it, whose owner makes any call: it builds every
shape of chain the calls can build within the bounds, and on each of them the
operators are compared with what they should give on the bytes as a whole.
**ByteSeq** is the promise: two sequences of bytes. The recursion follows the code's
loops, so these modules are for TLC only.

**Prefix** is a decoder over a `net::Recv`, with the socket, the descriptor's
`sched_ops` and `read_ready`, and the task that polls. One `Poll` is one call of
`Stream::poll` with the calls it makes (`poll_more`, `poll_pending`, `poll_recv`);
`Wakeup` is the level-triggered event. The five decoders are one definition with
five prefixes, since four of the files differ in the size and byte order only;
`U8Prefix` differs in what it measures (`Measured`). A `ByteBuf` is its bytes here,
which is what `ImplementsByteSeq` licenses. The `Recv` is the Unix one, which registers
its interest after every read: the Windows one has no read in flight after a Ready one,
so that `FramesArrive` says nothing of it. A byte has `Base` values, so that small
lengths need several digits and the byte order matters.

The library's users are the environment: any call at any time that its owner
could make. The kernel is the environment too. `fault` (or `bad`) is set where
the code would reach `::unreachable()`, and the behaviour stops there.

### Preconditions

Six of the passing runs need the program, or the network, to keep clear of
certain patterns, and the constants that say so are named: `ReuseInRun`
(TimerQueue), `Races` (Wheel, Reactor, TcpStream), `ReadPast` (ByteBuf) and `Cuts` (Prefix),
`FALSE` or `{}` in the passing runs. Each member names one pattern:

| Constant | Pattern | What happens with it |
|---|---|---|
| `ReuseInRun` | a task drops its periodic timer when it expires and makes another timer in the same run | `Queue::poll` takes the new timer's entry for the old one; its second expiration finds it Expired, the case `timer.rs:192` says should not happen |
| Wheel `"long"` | a timeout longer than the wheel reaches, scheduled in the first half of a second | one second longer (128 s in the code): it is lost, run `wheel_long`; more: it expires a tick early, less than its seconds minus one after it was scheduled |
| Wheel `"cancel"` | a task run by `tick` drops or reschedules a timer of the slot being walked | two timers of one second dropped together in a tick: `cancel` follows links to entries that are visited or freed |
| Wheel `"short"` | a task run by `tick` schedules a timeout of one second | the entry is put in front of the marker `tick` is about to reach and is forgotten |
| Wheel `"late"` | an expired timer is rescheduled | `reschedule` finds Nil links |
| Wheel `"again"` | the wheel is used in a second `reactor::run` of the thread | nothing ticks it: `OnTime` fails, sleeps never end |
| Reactor `"pair"` | both halves of an event name one task, which ends in the first | the task that ended is looked up again |
| Reactor `"stale"` | a descriptor with an event left in the batch is dropped or given away | the index may be free or reused |
| Reactor `"move"` | a descriptor that has been scheduled is given to a spawned task | the old owner is woken |
| Reactor `"hup"` | a descriptor nobody has scheduled hangs up | its opener is run, even after its end |
| TcpStream `"pair"` | the task run first for a wakeup of both directions drops the stream, or ends | epoll: the task that ended is looked up; kqueue: the schedule that has gone is |
| TcpStream `"half"` | the task of one half ends while its operation is registered, before the other's | the schedule in the other half names a task that has ended |
| TcpStream `"move"` | a half that is registered is given to another task | the old owner is woken, the new one never |
| TcpStream `"hup"` | epoll reports a hang-up of a stream with nothing registered, after its opener has ended | the opener is looked up |
| TcpStream `"discard"` | `into_recv` of a `Sender` with unsent bytes | they are dropped silently |
| TcpStream `"iov"` | more blocks gather in a sink than `writev` takes | EINVAL is given to the program as an error of the connection |
| TcpStream `"drop"` (Windows) | a side is dropped or converted away while its operation is in flight | nothing cancels the operation; the kernel completes into freed memory |
| TcpStream `"late"` (Windows) | a `Connect` is first polled after its completion was handled | the poll clears `write_ready` and waits for an event that has gone |
| TcpStream `"part"` (Windows) | a WSASend is done at once with a part of the bytes | `poll_send` returns NotReady with nothing in flight |
| ByteBuf `"append"`, `"prepend"` | bytes are put at an end of the chain that has been read past | they go into a block behind `idx` and are never seen |
| ByteBuf `"rfind"` | `rfind_from` on a chain that has been read past its end | it starts in the last block, behind `idx`, and takes 1 from an index of 0 (`buf/mod.rs:440`): a panic in debug builds, a block out of bounds in release builds |
| Prefix `"short"` | a read ends at most a prefix's length before the end of a frame | run `prefix_cut` |
| Prefix `"prefix"` | a read ends inside a prefix of several bytes | the next read overwrites what was there; everything after is out of step |

So a passing run says: these are the only such patterns, at the run's bounds;
without them the property holds. Each pattern can be put back by editing the
`.cfg`; each was, alone, and breaks the property that is named in the hazards.

Three more deviations are known and are in no run. The receiver of a channel looks for a
message and then for the end of the sender (`sys/unix/spsc.rs:44`): a message that is
pushed between the two looks, just before the sender is dropped, is destroyed with the
ring, and `ExactlyOnce` counts it as dropped. In the single-worker mode
(`server.rs:120`) a connection that is refused takes a place that only a `Session`
gives back: after `worker_conns` refusals every connection is refused, with none open
(`RefusedOnlyWhenFull` in TcpServer states what the code does not keep). And
`ByteBuf::rfind` (`buf/mod.rs:449`) adds the needle's length to `usize::MAX`: an overflow,
which panics in debug builds and finds nothing in release builds; `rfind_from` is
modelled for positions that do not overflow.

## 3. Runs

Start one with `tlc -config <cfg> <module>`.

| Run | Instance | Shows |
|---|---|---|
| `spsc` | `MCSpsc.cfg`: 3 places in 4 slots, 5 calls, both orderings | `TypeOK` (no uninitialised slot is ever delivered), `Fifo`, `ExactlyOnce` (each message is received, handed back or destroyed, once), `AwakenerNeverBlocks`, `NoLostWakeup` (sequential consistency), `ImplementsChannel`, `Delivered` (what is sent is received, and a send that spins returns) |
| `spsc_buffered` | `MCSpscBuffered.cfg` | **violation** of `Told`: with the index store buffered the wake-up is lost |
| `slab` | `MCSlab.cfg`: 4 objects, 2 elements | `SlabTypeOK`, `FreeListExact`, `ImplementsMap` |
| `timer_queue` | `MCTimerQueue.cfg`: two one-shot timers, a periodic one, two tasks | `QueueConsistent`, `HandleOwnsEntry`, `NeverEarly` (nor off the grid of its period), `NeverUnreachable`, `Fires` |
| `wheel` | `MCWheel.cfg`: 4 slots, three timers (one a `TimeoutStream`), two tasks, timeouts 0, 1, 3, 4, 5 | `ListSound`, `HandleOwnsEntry`, `OnTime` (a timer of t seconds expires in the t-th tick, no earlier and no later, whether or not the wheel reaches so far), `NeverUnreachable` |
| `wheel_long` | `MCWheelLong.cfg` | **violation** of `OnTime`: a sleep of exactly one second more than the wheel reaches, scheduled in the first half of a second, never ends. With `Secs = {5}` it violates `OnTime` too, by an expiration a tick early |
| `tcp_server` | `MCTcpServer.cfg`: two workers of two connections or one, five connections, one failure | `WithinLimit` (so `send` never spins on a full channel), `CountExact`, `LossBounded` (and no gated session is cut), `PassedOverOnlyWhenFull`, `Stops` |
| `tcp_stream` | `MCTcpStream.cfg`: epoll, kqueue and completion ports; two tasks; receive blocks of 3, arrivals of 2; items of 1 and 2 into a send buffer of 1 | `OutIntact`, `InIntact`, `Registered` (no wakeup is lost), `NeverUnreachable`, `Completes` |
| `reactor` | `MCReactor.cfg`: a main task, two spawned ones, two descriptors, batches of two | `WakesOwner`, `CurrentIsPolled`, `GateHolds`, `NeverWaitsWhenDone`, `NeverUnreachable` |
| `bytebuf` | `MCByteBuf.cfg`: blocks of 1 or 2 bytes, 3 bytes, chains of 3 blocks, 4 calls | `ImplementsByteSeq`, `SearchesExact`, `ComparesAsBytes`, `WindowsExact` |
| `prefix` | `MCPrefix.cfg`: five decoders, 3 frames of 0, 3 or 6 bytes, base 4 | `DeliversFrames` (in order, whole, all that arrived before the end), `FramesArrive` |
| `prefix_cut` | `MCPrefixCut.cfg` | **violation** of `NeverUnreachable`: a frame that is short of at most its prefix's length is taken for complete; the trace has a payload of one byte of which none has arrived |

The three violations are findings in `PROJECT.json`, each with the line it
contradicts.

### Bounds

* `Spsc`: a capacity that is not a power of two, so slots and capacity differ;
  more messages than slots, so the indices lap the ring and every slot is
  reused; `Word` large enough that indices do not wrap (they are 64 bits wide).
  The run's state space is finite with both orderings chosen in `Init`.
* `Slab`: four objects give a free list of up to four members in every order;
  two elements are enough to tell one object's element from another's.
* `TimerQueue`, `Wheel`: three timers of two tasks allow one task to touch
  another timer of its own and of the other task's slot in the middle of an
  expiration. `MaxNow`/`MaxClock` cover more than one period and one round of
  the wheel; the timeouts 4 and 5 are one and two seconds longer than the wheel reaches
  (3 slots ahead), the two lengths at which the code's rounding goes wrong differently.
* `TcpStream`: a send buffer of one byte makes every item of two a partial write, and
  two items two blocks; six bytes in arrivals of two fill a receive block of three
  across its end twice, so that the blocks swap roles. Bytes that arrive while others
  are unread count as one arrival. One descriptor: that an event reaches the right one
  of several is `Reactor`'s part.
* `TcpServer`: more connections than all places together, so that both workers
  fill up and one connection is refused; one worker may fail. `Word = 8` keeps the
  counter's wrap below zero visible.
* `Reactor`: one main task and two children allow a nested spawn, two
  descriptors and two events per batch the case in which handling one event
  changes what the other refers to. The two tasks and the two descriptors are
  symmetric sets; the run has no liveness property.
* `ByteBuf`: with blocks of one byte a value of two crosses a boundary and a
  needle of three crosses two; four calls build chains with empty blocks in
  front, between and behind, and blocks split by a cut or by a `Vec` of their own.
  The code's thresholds (8 KiB, 6 KiB, 512 and 8 bytes) are constants scaled to 1
  and 2, and both sides of each are reached.
* `Prefix`: three frames, so that a read can hold the end of one, a whole one and
  the start of the next; the length 6 needs two digits in base 4, 0 is the empty
  frame, and the segments are arbitrary up to `Cuts`.

Deadlock is not checked where the bounded system stops (all calls made, the
clock at its bound); liveness properties say there what must have happened
before. `Slab` is checked for deadlock.

### Fairness

* `Spsc`: each thread that is inside a call goes on, a buffered store becomes
  visible some time, and a task whose descriptor is readable is woken (the event
  loop is level-triggered on the eventfd). Nothing makes the sender call or the
  task poll unprompted. A receiver that has seen the end of the stream drops
  its end some time.
* `TimerQueue`: time goes on, a task's run ends, and `Queue::poll` is strongly fair
  for a due expiration: the loop polls the queue after every wait, so I/O events
  can delay it and not starve it.
* `TcpServer`: the threads go on; sessions that hold a gate end some time (this is
  what a gate asks of its holder), others need not. Taking up a shutdown is
  strongly fair: the server thread is back in its loop again and again while
  connections arrive.
* `TcpStream`: the wait is strongly fair (the loop returns to it after every batch, and it
  reports all that is ready, while other things may run tasks in between); a poll ends,
  and a task polls what it depends on before it returns NotReady (the contract of
  futures); the peer answers a connect and goes on reading, and the kernel completes
  what it can. Nothing makes the peer send or close.
* `Prefix`: a task that is being run gets on, and the wake-up for a readable
  socket is strongly fair: epoll reports a readable descriptor after finitely
  many others, and the task may be run for other events in between. Nothing is
  asked of the network.

## 4. Proofs

All theorems are about the specifications the runs check, for every value of the
constants that their `ASSUME`s allow. Where a theorem needs more it says so in an
`ASSUME ... PROVE`:

| Hypothesis | Module | Meaning |
|---|---|---|
| `NoWrap` | SpscProofs | calls plus capacity are below `Word`: the indices do not wrap |
| `EntryKept` | TimerQueueProofs | there are no periodic timers, or none is dropped and replaced in the run of its own expiration (`ReuseInRun`) and a removed entry keeps the bytes `cancel` wrote |
| `"move" \notin Races`, `Races = {}` | ReactorProofs | the patterns of the table above; `LoopInvariance` and its three consequences need neither |
| `Steady` | WheelProofs | `Races = {}`, more than two slots (the code has 128), and timeouts longer than the wheel only if ticks are on time (`Lag = 0`); TLC finds `NeverUnreachable` violated with a `Lag` of 1 and such a timeout, and with two slots |
| `Orderly` | TcpStreamProofs | `Races \subseteq {"discard", "iov"}`; `StreamInIntact` does not need it |
| `Races = {}` | TcpStreamProofs | for `StreamOutIntact` only: nor does the program discard what it has not sent or let more blocks gather than `writev` takes |
| `Mild` | PrefixProofs | `Cuts = {}` (the two cuts of the table above, for prefixes of several bytes, do not happen), or the decoder is `U8Prefix`, which minds neither |

Every invariant below was checked by TLC before it was proved, on the instances of the
runs and on variations of them.

**SpscProofs**: `TypeOK`, `Fifo`, `AwakenerNeverBlocks`, `NoLostWakeup`, `ExactlyOnce`, the
action property `FullMeansFull` and the refinement `ImplementsChannel`, for every
capacity, every number of slots at least as large, every number of calls and both memory
orderings. None of them is inductive. `IInv` adds

* `LifeInv`: the reference count is the number of ends still held, and a program
  counter past a drop is consistent with it;
* `AwakenerInv`: flag and eventfd agree except between the two steps of the side
  whose turn it is; the flag serves as a lock, which is why neither side can find
  the eventfd in the state that would block it;
* `IndexInv`: `front <= shadow and memory copies <= rear`, with at most `Cap` between
  the sender's copy of front and rear: stale copies err on the safe side only;
* `CallInv`: the message in hand is new, so the log has no duplicates;
* `SlotInv`: the slots from front to rear hold what the log says; writing a slot
  leaves them alone because indices less than `NumSlots` apart have different
  remainders (`ModDiff`);
* `ParkInv`: a receiver past its reset that has seen an empty ring will be told,
  in whichever step the sender is. This is the strengthening of `NoLostWakeup`.

There is one lemma per part of `IInv` (`LifeStep`, `AwakenerStep`, ...), with one
step per action. `OwnInv` is inductive beside it: every call that is over put its message
into the ring, once, or gave it back, and the ring's drop takes what was not received.
With it each of the actions of the two threads is shown to be a step of `Channel` or a
stutter under the mapping at the end of `Spsc`: a message is in the queue from the store
of `rear` on (`S_Publish`) until the receiver reads its slot (`R_Read`).

**SlabProofs**: `SlabTypeOK`, `FreeListExact`, `LenExact` (`len()` is the number of
elements) and the refinement `ImplementsMap`, for every number of objects and every
element set. The invariant `SInv` says that the
history variable `freed` lists the free objects without repetition, that the
links follow it (`Chain`), and that length and free list together are the whole
`Vec`. That a reused head really is the head of `freed`, that removal of an index
in use cannot meet the list, and that growing the `Vec` leaves the chain alone
are lemmas on `Chain`; that no object is forgotten is the pigeonhole argument on
a sequence without repetition.

The same module has what the users of a Slab need of it, stated on the value: what
`Insert`, `Remove` and `Update` do to the elements of every index, and that they keep the
free list `InOrder`. It also has induction over the naturals in a form the provers can
use, a non-empty set of numbers has a least one (`LeastNat`), and with it what a fold of
`Remove` over a set of indices leaves. A module that extends it for these lemmas also
declares the variables and constants of `Slab`, which its own specification does not
mention.

**TcpServerProofs**: `CountExact`, `WithinLimit`, `LossBounded` and
`PassedOverOnlyWhenFull`, for any number of workers, places and connections. `ServerInv`
has the places of a worker that are taken (`Taken`: sessions, channel and what its death
took along), and `CountOK`: the counter is behind them by one exactly between hand-over
and increment (`Pending`), modulo `Word`, since a session that ends in between brings a
counter of 0 to `Word - 1`. A place found free by the server thread is still free when
the connection is handed over (`SendOK`), because only that thread takes places.

**TimerQueueProofs**: `QueueConsistent`, `HandleOwnsEntry`, `NeverEarly` and
`NeverUnreachable`, for any number of timers and tasks, any delays and period. `QueueInv`
relates the heap, the slab and the timers in both directions (`HeapOK`, `OnceOK`,
`AwaitedOK`) and says in which state `Queue::poll` finds the entry of a periodic timer
after its task has run (`RunOK`): this is where `EntryKept` is needed. `TimesOK` has the
expirations on their timer's grid.

**ReactorProofs**: in three layers. `LoopInv` is about polls within polls
(`FramesOK`, `StackOK`), gates and the phases of the loop, and holds whatever tasks do: it
gives `CurrentIsPolled`, `GateHolds` and `NeverWaitsWhenDone`. `NioInv` adds that a registered
operation names its owner's task and gives `WakesOwner`, unless a scheduled descriptor
is given away. `BatchInv` adds that each event left in a batch still finds an open
descriptor whose schedule names a live task, and gives `NeverUnreachable`: each of the
four members of `Races` breaks it. The dropping of a task's descriptors is a fold over a
set, for which the constants need `IsFiniteSet(Nios)`.

**WheelProofs**: `ListSound`, `HandleOwnsEntry`, `OnTime` and `NeverUnreachable`, for any number
of slots, timers and tasks and any timeouts. `ListSound` speaks of the list between
ticks; in the middle of one the marker `tick` started from still names an entry that
has been visited. `WheelInv` therefore looks at the list as a ring in which that marker
and the token `tick` goes to next count as neighbours (`NxF`, `PvF`). In this view the
start and the end of a tick change nothing, a visit takes an entry out of the ring
(`RingOut`), `cancel` and `reschedule` do the same elsewhere (`TakenOut`) and a timer is
put in front of a marker (`RingIn`, `PutIn`). `Ring` also has that each token has the slot
of what comes before it, and that no entries form a ring without a marker: hence a marker
that follows another at once has nothing in front of it (`SlotEmpty`), which is why a tick
never leaves an entry behind. `Handles` ties timers and entries together, `Placed` has the
distance of each entry equal to the ticks to come (an entry the wheel does not
reach that far for is at most as far away, and `LongOnTime` has that ticks are on time
when it is moved on, so that its last move ends at the tick it is due in), and `LoopOK`
the ticks to the clock.

**TcpStreamProofs**: `Registered` and `NeverUnreachable` on the three event queues,
`InIntact` and `OutIntact`. `CtlInv` is the invariant of tasks, registrations and completions:
which task may hold what in which form (`StageOK`), what it can have been told (`SaidOK`), that a
registered operation runs the live task that holds that side (`WatchOK`), that the rest
of a wakeup finds its task or its schedule (`LeftOK`), and on completion ports that a side
is ready if and only if its Overlapped is not in use (`PortOK`). `Registered` speaks of the tasks
that are not running; `ToldOK` is the same of all. `InInv` is the invariant of the receive
buffer: the cells handed out are distinct, lie below the offsets of the two blocks
in use (`Apart`), and each block keeps `MinRoom`; it needs nothing of the rest of the state
and holds with all races. `OutInv` is the invariant of the other direction and is
inductive only beside `CtlInv`: what a WSASend has in flight is a first part of the sink's
chain and it is over when all of it was taken (`SinkOK`, `FlightOK`); the peer's bytes, those
on the way and those left in the chain are what was given (`StreamOK`); a sink that was
shut down or let go is empty (`EndOK`); and which forms of the stream a connect in which
state can have (`ConnOK`, `FailOK`). That a write which ends anywhere in a block leaves the
rest of the bytes (`skip`) is shown on the chain's flattening, block by block: the
equation that `FlattenSeq` chooses a solution of has one (`FlatExists`), and one more
block puts its bytes last (`FlattenMore`).

**PrefixProofs**: `DeliversFrames`, for frames of any number and of all lengths that a
prefix can announce, bytes of any base, the five decoders, and reads of every size. The
operators of the model are folds, which the proofs take one step at a time: where each
frame ends (`EndNext`), which byte of the stream is which byte of which frame
(`StreamFacts`), and that `codec_read` gives back what `codec_append` wrote, in both byte
orders (`ReadBack`). `FrameInv` says that what was read ends at a position of the stream
(`Held`), that the bytes the decoder holds are those of the stream from the end of the
last frame returned, or from the payload after it in `More` (`Mark`), up to there, and that
no frame is cut there, or where the socket's bytes end, in a place where the decoders go
wrong (`Cut`). `DeliversFrames` alone says nothing about the bytes held and is not
inductive. The two members of `Cuts` are what the step of `TakeFrame` (`PrefixThere`) and the
read in Pending (`NothingHeld`) need to be absent: the places where the code goes wrong
are those where the proof would stop.

Only model-checked: everything about liveness (`Delivered`, `Fires`,
`Stops`, `Completes`, `FramesArrive`), which needs fairness and is out of the prover's reach;
and ByteBuf with its three invariants and its refinement `ImplementsByteSeq`, whose
recursive operators the installed provers cannot be used on.

## 5. Not modelled, and the plan

Left out for good: error types and system call wrappers (no state), logging, failures
of `epoll_ctl` and `kevent` calls, memory itself (the counter that the sessions of
`run_single` reach through a transmuted reference; the layout behind `StaleBytes`), the
varint, float and fill codecs (the same pattern per width and byte order, without
state). The awakener of the BSDs is a non-blocking pipe in the place of the eventfd:
since it is never written while readable (`AwakenerNeverBlocks`) it holds at most one
byte and is what `Spsc` has. The Windows awakener (`sys/windows/awakener.rs`,
`sys/windows/spsc.rs`) is not modelled: it clears the flag before it posts a completion,
and its drop cancels a schedule of the loop of the thread on which it happens, which
is not the receiver's when the sender is the last to go.

Left for later: **ByteBuf**'s `Windows::nth`, `Window`'s comparison with a slice, `Reader`
and `Writer`, the varint codecs against the numbers they encode; and proofs about
`ByteBuf`, for which its chains would have to be written with folds in the place of
recursive operators, as those of `TcpStream` and `Prefix` are.

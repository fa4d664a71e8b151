-------------------------------- MODULE Spsc --------------------------------
(***************************************************************************)
(* The single-producer single-consumer channel: the lock-free ring of      *)
(* src/sync/spsc.rs, the eventfd awakener of src/sys/unix/awakener.rs and  *)
(* the receiving stream of src/sys/unix/spsc.rs.  The sender is a thread   *)
(* that owns the SyncSender, the receiver a task of another thread's event *)
(* loop that owns the Recv.  Each action is at most one access to memory   *)
(* the two threads share; everything else of a step is thread-local.       *)
(*                                                                         *)
(* Stores of the ring indices have Release ordering, so on the machines    *)
(* the crate is built for they may sit in the storing core's buffer while  *)
(* that core goes on to load.  rear and front are the indices as their     *)
(* owner sees them, rearMem and frontMem as the other thread does; FlushS  *)
(* and FlushR let a buffered store become visible.  SeqCst stores, the     *)
(* reference count's atomic decrement and the eventfd system calls empty   *)
(* the buffer.  With buffered = FALSE every store is visible at once       *)
(* (sequential consistency).                                               *)
(***************************************************************************)
EXTENDS Integers, Sequences

CONSTANTS
    Cap,          \* capacity passed to sync_channel
    NumSlots,     \* capacity.next_power_of_two(): number of allocated slots
    Word,         \* 2^w, the number of values of a usize
    MaxCalls,     \* bound: how many times the sender calls send or try_send
    StoreBuffers  \* which memory orderings to consider: a set of BOOLEANs

ASSUME SpscAssumption ==
    /\ Cap \in Nat \ {0}
    /\ NumSlots \in Nat /\ Cap <= NumSlots
    /\ Word \in Nat /\ NumSlots < Word
    /\ MaxCalls \in Nat
    /\ StoreBuffers \in SUBSET BOOLEAN

Msgs == 1..MaxCalls
Uninit == 0       \* the bits of a slot nothing was written to

VARIABLES
    \* the ring (struct RingBuffer)
    slots, front, frontMem, rear, rearMem, shadowFront, shadowRear, strong,
    \* the awakener: the flag and the eventfd counter (zero or not)
    needWakeup, efd,
    \* the sending thread: program counter, message in hand, send or try_send,
    \* and whether it is dropping its SyncSender
    spc, msg, spin, sdrop,
    \* the receiving task: program counter, Recv.need_reset, dropping its Recv
    rpc, needReset, rdrop,
    \* history: calls made, messages in the order they entered the ring, those
    \* the task got, those given back in an error, those destroyed with the ring
    calls, log, received, returned, dropped,
    \* the memory ordering of this behaviour
    buffered

ringVars == <<slots, front, frontMem, rear, rearMem, shadowFront, shadowRear, strong>>
awVars   == <<needWakeup, efd>>
sVars    == <<spc, msg, spin, sdrop>>
rVars    == <<rpc, needReset, rdrop>>
hist     == <<calls, log, received, returned, dropped>>
vars == <<ringVars, awVars, sVars, rVars, hist, buffered>>

SpcS == {"idle", "check", "push", "write", "publish", "wake1", "wake2", "wake3", "dec", "gone"}
RpcS == {"idle", "poll", "reset1", "reset2", "reset3", "pop", "read", "release", "empty",
         "some", "none", "dec", "gone"}

\* sync_channel, RingBuffer::with_capacity, Awakener::new and Recv::try_new; the
\* task that owns the Recv has been spawned and is about to be polled.
Init ==
    /\ slots = [i \in 0..NumSlots - 1 |-> Uninit]
    /\ front = 0 /\ frontMem = 0 /\ rear = 0 /\ rearMem = 0
    /\ shadowFront = 0 /\ shadowRear = 0
    /\ strong = 2
    /\ needWakeup = TRUE /\ efd = 0
    /\ spc = "idle" /\ msg = Uninit /\ spin = FALSE /\ sdrop = FALSE
    /\ rpc = "poll" /\ needReset = TRUE /\ rdrop = FALSE
    /\ calls = 0 /\ log = <<>> /\ received = <<>> /\ returned = {} /\ dropped = {}
    /\ buffered \in StoreBuffers

----------------------------------------------------------------------------
(* The ring.                                                               *)

RoundedDownIndex(i) == i % (NumSlots \div 2)

effective_index(i) == i % NumSlots
WrappingInc(i) == (i + 1) % Word

FullOneLate(f) == (f + Cap) % Word < rear

\* The test of try_push.  usize addition: in a release build it wraps.
IsFull(f) == (f + Cap) % Word <= rear

\* Everything the storing core has buffered becomes visible (an atomic
\* read-modify-write, a SeqCst store or a system call of that core).
DrainS == rearMem' = rear
DrainR == frontMem' = front

FlushS ==
    /\ rearMem # rear
    /\ rearMem' = WrappingInc(rearMem)
    /\ UNCHANGED <<slots, front, frontMem, rear, shadowFront, shadowRear, strong>>
    /\ UNCHANGED <<awVars, sVars, rVars, hist, buffered>>

FlushR ==
    /\ frontMem # front
    /\ frontMem' = WrappingInc(frontMem)
    /\ UNCHANGED <<slots, front, rear, rearMem, shadowFront, shadowRear, strong>>
    /\ UNCHANGED <<awVars, sVars, rVars, hist, buffered>>

\* RingBuffer::drop, run by whoever drops the last reference: pops and drops
\* what is left.
LeakRing ==
    /\ dropped' = dropped
    /\ front' = rear /\ frontMem' = rear /\ rearMem' = rear /\ shadowRear' = rear

DropRing ==
    /\ dropped' = dropped \cup
         {slots[effective_index((front + k) % Word)] : k \in 0 .. ((rear - front) % Word) - 1}
    /\ front' = rear /\ frontMem' = rear /\ rearMem' = rear /\ shadowRear' = rear

----------------------------------------------------------------------------
(* The sender.                                                             *)

\* A call of send (s = TRUE) or try_send (s = FALSE) with a fresh message.
S_Call(s) ==
    /\ spc = "idle" /\ calls < MaxCalls
    /\ calls' = calls + 1
    /\ msg' = calls + 1
    /\ spin' = s
    /\ spc' = "check"
    /\ UNCHANGED <<ringVars, awVars, sdrop, rVars, log, received, returned, dropped, buffered>>

\* Arc::strong_count(&self.buffer) == 1: the receiver has gone.
S_Check ==
    /\ spc = "check"
    /\ IF strong = 1
         THEN spc' = "idle" /\ returned' = returned \cup {msg}
         ELSE spc' = "push" /\ UNCHANGED returned
    /\ UNCHANGED <<ringVars, awVars, msg, spin, sdrop, rVars, calls, log, received, dropped, buffered>>

\* try_push up to the slot: look at the cached front, then at the real one.
\* On Full try_send returns the message, send starts over.
S_TryPush ==
    /\ spc = "push"
    /\ shadowFront' = IF IsFull(shadowFront) THEN frontMem ELSE shadowFront
    /\ IF IsFull(shadowFront')
         THEN IF spin
                THEN spc' = "check" /\ UNCHANGED returned
                ELSE spc' = "idle" /\ returned' = returned \cup {msg}
         ELSE spc' = "write" /\ UNCHANGED returned
    /\ UNCHANGED <<slots, front, frontMem, rear, rearMem, shadowRear, strong, awVars, msg, spin,
                   sdrop, rVars, calls, log, received, dropped, buffered>>

\* ptr::write of the message into its slot.
S_Write ==
    /\ spc = "write"
    /\ slots' = [slots EXCEPT ![effective_index(rear)] = msg]
    /\ spc' = "publish"
    /\ UNCHANGED <<front, frontMem, rear, rearMem, shadowFront, shadowRear, strong, awVars, msg,
                   spin, sdrop, rVars, hist, buffered>>

\* rear.store(rear.wrapping_add(1), Release).
S_Publish ==
    /\ spc = "publish"
    /\ rear' = WrappingInc(rear)
    /\ rearMem' = IF buffered THEN rearMem ELSE rear'
    /\ log' = Append(log, msg)
    /\ spc' = "wake1"
    /\ UNCHANGED <<slots, front, frontMem, shadowFront, shadowRear, strong, awVars, msg, spin,
                   sdrop, rVars, calls, received, returned, dropped, buffered>>

AlwaysWrite ==
    /\ spc = "wake1"
    /\ spc' = "wake2"
    /\ UNCHANGED <<ringVars, awVars, msg, spin, sdrop, rVars, hist, buffered>>

\* Awakener::wakeup: need_wakeup.load(SeqCst).
S_WakeLoad ==
    /\ spc = "wake1"
    /\ spc' = IF needWakeup THEN "wake2" ELSE IF sdrop THEN "gone" ELSE "idle"
    /\ UNCHANGED <<ringVars, awVars, msg, spin, sdrop, rVars, hist, buffered>>

\* The eventfd write of u64::MAX - 1: WouldBlock if the counter is not zero,
\* which ends the call (or the drop) with the flag left as it is.
S_WakeWrite ==
    /\ spc = "wake2"
    /\ DrainS
    /\ IF efd = 0
         THEN efd' = 1 /\ spc' = "wake3"
         ELSE efd' = efd /\ spc' = IF sdrop THEN "gone" ELSE "idle"
    /\ UNCHANGED <<slots, front, frontMem, rear, shadowFront, shadowRear, strong, needWakeup, msg,
                   spin, sdrop, rVars, hist, buffered>>

\* need_wakeup.store(false, SeqCst).
S_WakeStore ==
    /\ spc = "wake3"
    /\ DrainS
    /\ needWakeup' = FALSE
    /\ spc' = IF sdrop THEN "gone" ELSE "idle"
    /\ UNCHANGED <<slots, front, frontMem, rear, shadowFront, shadowRear, strong, efd, msg, spin,
                   sdrop, rVars, hist, buffered>>

\* Dropping the SyncSender: first its reference to the ring, then its
\* SenderAwakener, whose drop wakes the receiver up.
S_Drop ==
    /\ spc = "idle" /\ ~sdrop
    /\ sdrop' = TRUE
    /\ spc' = "dec"
    /\ UNCHANGED <<ringVars, awVars, msg, spin, rVars, hist, buffered>>

NoWakeupOnDrop ==
    /\ spc = "dec"
    /\ strong' = strong - 1
    /\ IF strong = 1
         THEN DropRing
         ELSE DrainS /\ UNCHANGED <<dropped, front, frontMem, shadowRear>>
    /\ spc' = "gone"
    /\ UNCHANGED <<slots, rear, shadowFront, awVars, msg, spin, sdrop, rVars, calls, log, received,
                   returned, buffered>>

S_DecRef ==
    /\ spc = "dec"
    /\ strong' = strong - 1
    /\ IF strong = 1
         THEN DropRing
         ELSE DrainS /\ UNCHANGED <<dropped, front, frontMem, shadowRear>>
    /\ spc' = "wake1"
    /\ UNCHANGED <<slots, rear, shadowFront, awVars, msg, spin, sdrop, rVars, calls, log, received,
                   returned, buffered>>

----------------------------------------------------------------------------
(* The receiver.                                                           *)

\* The event loop finds the eventfd readable and polls the task: epoll is
\* level-triggered.  The poller is the kernel's.
R_Wake ==
    /\ rpc = "idle" /\ efd = 1
    /\ rpc' = "poll"
    /\ UNCHANGED <<ringVars, awVars, sVars, needReset, rdrop, hist, buffered>>

\* The task is polled because of something else it waits for.
R_OtherWake ==
    /\ rpc = "idle"
    /\ rpc' = "poll"
    /\ UNCHANGED <<ringVars, awVars, sVars, needReset, rdrop, hist, buffered>>

\* Recv::poll.
R_Poll ==
    /\ rpc = "poll"
    /\ rpc' = IF needReset THEN "reset1" ELSE "pop"
    /\ UNCHANGED <<ringVars, awVars, sVars, needReset, rdrop, hist, buffered>>

\* Where a finished Awakener::reset leads: on with poll, or on with the drop.
AfterReset ==
    IF rdrop THEN rpc' = "dec" /\ UNCHANGED needReset
             ELSE rpc' = "pop" /\ needReset' = FALSE

\* Awakener::reset: need_wakeup.load(SeqCst).
R_ResetLoad ==
    /\ rpc = "reset1"
    /\ IF needWakeup THEN AfterReset ELSE rpc' = "reset2" /\ UNCHANGED needReset
    /\ UNCHANGED <<ringVars, awVars, sVars, rdrop, hist, buffered>>

\* The eventfd read: WouldBlock if the counter is zero; then poll schedules a
\* read and returns NotReady, and a drop goes on.
R_ResetRead ==
    /\ rpc = "reset2"
    /\ DrainR
    /\ IF efd = 1
         THEN efd' = 0 /\ rpc' = "reset3"
         ELSE efd' = efd /\ rpc' = IF rdrop THEN "dec" ELSE "idle"
    /\ UNCHANGED <<slots, front, rear, rearMem, shadowFront, shadowRear, strong, needWakeup, sVars,
                   needReset, rdrop, hist, buffered>>

FlagLeftFalse ==
    /\ rpc = "reset3"
    /\ DrainR
    /\ AfterReset
    /\ UNCHANGED <<slots, front, rear, rearMem, shadowFront, shadowRear, strong, awVars, sVars,
                   rdrop, hist, buffered>>

\* need_wakeup.store(true, SeqCst).
R_ResetStore ==
    /\ rpc = "reset3"
    /\ DrainR
    /\ needWakeup' = TRUE
    /\ AfterReset
    /\ UNCHANGED <<slots, front, rear, rearMem, shadowFront, shadowRear, strong, efd, sVars, rdrop,
                   hist, buffered>>

PopUnchecked ==
    /\ rpc = "pop"
    /\ shadowRear' = IF front = shadowRear THEN rearMem ELSE shadowRear
    /\ rpc' = "read"
    /\ UNCHANGED <<slots, front, frontMem, rear, rearMem, shadowFront, strong, awVars, sVars,
                   needReset, rdrop, hist, buffered>>

\* try_pop up to the slot: look at the cached rear, then at the real one.
R_TryPop ==
    /\ rpc = "pop"
    /\ shadowRear' = IF front = shadowRear THEN rearMem ELSE shadowRear
    /\ rpc' = IF front = shadowRear' THEN "empty" ELSE "read"
    /\ UNCHANGED <<slots, front, frontMem, rear, rearMem, shadowFront, strong, awVars, sVars,
                   needReset, rdrop, hist, buffered>>

\* ptr::read of the slot.
R_Read ==
    /\ rpc = "read"
    /\ received' = Append(received, slots[effective_index(front)])
    /\ rpc' = "release"
    /\ UNCHANGED <<ringVars, awVars, sVars, needReset, rdrop, calls, log, returned, dropped, buffered>>

\* front.store(front.wrapping_add(1), Release); poll returns Ready(Some(v)).
R_Release ==
    /\ rpc = "release"
    /\ front' = WrappingInc(front)
    /\ frontMem' = IF buffered THEN frontMem ELSE front'
    /\ rpc' = "some"
    /\ UNCHANGED <<slots, rear, rearMem, shadowFront, shadowRear, strong, awVars, sVars, needReset,
                   rdrop, hist, buffered>>

\* The task handles the message and polls the stream again, as for_each does.
R_Again ==
    /\ rpc = "some"
    /\ rpc' = "poll"
    /\ UNCHANGED <<ringVars, awVars, sVars, needReset, rdrop, hist, buffered>>

\* Nothing to pop: end of stream if the sender has gone (strong_count == 1),
\* else schedule a read and return NotReady.
R_Empty ==
    /\ rpc = "empty"
    /\ needReset' = TRUE
    /\ rpc' = IF strong = 1 THEN "none" ELSE "idle"
    /\ UNCHANGED <<ringVars, awVars, sVars, rdrop, hist, buffered>>

\* Dropping the Recv (at the end of the stream, or whenever the task stops
\* waiting): first the Nio, whose ReceiverAwakener resets, then the ring.
R_Drop ==
    /\ rpc \in {"idle", "poll", "some", "none"} /\ ~rdrop
    /\ rdrop' = TRUE
    /\ rpc' = "reset1"
    /\ UNCHANGED <<ringVars, awVars, sVars, needReset, hist, buffered>>

R_DecRef ==
    /\ rpc = "dec"
    /\ strong' = strong - 1
    /\ IF strong = 1
         THEN DropRing
         ELSE DrainR /\ UNCHANGED <<dropped, front, rearMem, shadowRear>>
    /\ rpc' = "gone"
    /\ UNCHANGED <<slots, rear, shadowFront, awVars, sVars, needReset, rdrop, calls, log, received,
                   returned, buffered>>

----------------------------------------------------------------------------
\* What a thread inside a call does until the call returns.
SenderStep ==
    \/ S_Check \/ S_TryPush \/ S_Write \/ S_Publish
    \/ S_WakeLoad \/ S_WakeWrite \/ S_WakeStore \/ S_DecRef

ReceiverStep ==
    \/ R_Wake \/ R_Poll \/ R_ResetLoad \/ R_ResetRead \/ R_ResetStore
    \/ R_TryPop \/ R_Read \/ R_Release \/ R_Again \/ R_Empty \/ R_DecRef

Next ==
    \/ \E s \in BOOLEAN : S_Call(s)
    \/ S_Drop
    \/ SenderStep
    \/ ReceiverStep
    \/ R_OtherWake
    \/ R_Drop
    \/ FlushS \/ FlushR

\* A thread inside a call is scheduled again and again, the event loop polls a
\* task whose descriptor is ready, a buffered store reaches memory, and a task
\* that has seen the end of its stream is dropped.  Calls need not be made.
Fairness ==
    /\ WF_vars(SenderStep)
    /\ WF_vars(ReceiverStep)
    /\ WF_vars(FlushS) /\ WF_vars(FlushR)
    /\ WF_vars(rpc = "none" /\ R_Drop)

Spec == Init /\ [][Next]_vars
FairSpec == Spec /\ Fairness

----------------------------------------------------------------------------
(* Properties.                                                             *)

\* The type invariant.  The task never gets the bits of a slot that nothing was
\* written to (RingBuffer::try_pop never returns uninitialised memory).
TypeOK ==
    /\ slots \in [0..NumSlots - 1 -> Msgs \cup {Uninit}]
    /\ front \in 0..Word - 1 /\ frontMem \in 0..Word - 1 /\ shadowFront \in 0..Word - 1
    /\ rear \in 0..Word - 1 /\ rearMem \in 0..Word - 1 /\ shadowRear \in 0..Word - 1
    /\ strong \in 0..2 /\ efd \in 0..1 /\ calls \in 0..MaxCalls
    /\ needWakeup \in BOOLEAN /\ spin \in BOOLEAN /\ sdrop \in BOOLEAN
    /\ needReset \in BOOLEAN /\ rdrop \in BOOLEAN /\ buffered \in BOOLEAN
    /\ spc \in SpcS /\ rpc \in RpcS
    /\ msg \in Msgs \cup {Uninit}
    /\ log \in Seq(Msgs) /\ received \in Seq(Msgs)
    /\ returned \subseteq Msgs /\ dropped \subseteq Msgs

Got(s) == {s[k] : k \in DOMAIN s}

\* What the task received is, in order, what entered the ring first: no slot is
\* overwritten before it is read, and none is read before it is written, although
\* each side decides on a cached copy of the other's index.
Fifo ==
    /\ Len(received) <= Len(log)
    /\ \A k \in DOMAIN received : received[k] = log[k]

\* Every message given to send or try_send ends in exactly one place: with the
\* task, back with the caller in the error, or destroyed with the ring; the drop of
\* the two ends in either order, at any point of the other's call, loses or
\* duplicates none.
ExactlyOnce ==
    /\ \A j, k \in DOMAIN received : j # k => received[j] # received[k]
    /\ Got(received) \cap returned = {} /\ Got(received) \cap dropped = {}
    /\ returned \cap dropped = {}
    /\ spc = "gone" /\ rpc = "gone" => 1..calls = Got(received) \cup returned \cup dropped

\* The eventfd is never written while it is readable nor read while it is not, so
\* wakeup never fails with WouldBlock after its message is in the ring (send would
\* return SendError::Io for a message that is delivered), and reset never leaves a
\* Recv waiting for an event that was already consumed.
AwakenerNeverBlocks ==
    /\ spc = "wake2" => efd = 0
    /\ rpc = "reset2" => efd = 1

\* A parked receiver has been told: when the sender is past wakeup and a message is
\* visible in the ring, or the sender has gone, the eventfd is readable.
Told ==
    rpc = "idle" /\ spc \notin {"wake1", "wake2"} /\ rearMem = rear
       /\ (Len(received) < Len(log) \/ spc = "gone") => efd = 1

\* No wakeup is lost if the index stores are sequentially consistent.
NoLostWakeup == ~buffered => Told

\* try_push refuses a message only when the ring, as the sender can see it, holds
\* Cap messages.
FullMeansFull ==
    [][spc = "push" /\ spc' \in {"idle", "check"} => (rear - frontMem) % Word >= Cap]_vars

\* The ring, its drop and its two ends implement the bounded FIFO channel.
Chan == INSTANCE Channel WITH
    queue <- IF strong = 0 THEN <<>> ELSE SubSeq(log, Len(received) + 1, Len(log)),
    taken <- received,
    lost <- dropped,
    ends <- (IF sdrop /\ spc # "dec" THEN {} ELSE {"tx"}) \cup
            (IF rpc = "gone" THEN {} ELSE {"rx"})

ImplementsChannel == Chan!ChannelSpec

\* A message that entered the ring reaches the task, unless the task drops its Recv, and
\* send comes back: a full ring is drained by a receiver that was told of it, or the
\* receiver goes.
Delivered ==
    ~buffered =>
      /\ \A m \in Msgs : (m \in Got(log)) ~> (m \in Got(received) \/ rdrop)
      /\ spc = "check" ~> spc = "idle"
=============================================================================

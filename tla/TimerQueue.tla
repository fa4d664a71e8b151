----------------------------- MODULE TimerQueue -----------------------------
(***************************************************************************)
(* src/reactor/timer.rs: one-shot and periodic timers on a binary heap,    *)
(* polled by the event loop.  The queue's entries live in a Slab and are   *)
(* named by index from two sides: by the heap and by the Timer or          *)
(* PeriodicTimer the program holds.  Queue::poll runs a task in the middle *)
(* of handling an expiration; everything the task does to its timers in    *)
(* that run (poll them, drop them, make new ones) is an action of its own  *)
(* between QPop and RunEnd.                                                *)
(***************************************************************************)
EXTENDS SlabOps, Sequences, FiniteSets

CONSTANTS
    OneShots, Periodics,   \* the Timers and the PeriodicTimers of the program
    Tasks, Owner,          \* the tasks and the one that holds each timer
    Durs,                  \* delays a timer is made with
    Period,                \* period of the periodic timers
    MaxNow,                \* bound: the clock stops here
    MaxMade,               \* bound: how many timers are made in all
    ReuseInRun,            \* may a task that drops a periodic timer in the run of its
                           \* expiration schedule a timer in the rest of that run?
    StaleBytes,            \* what the state of a removed entry may read as: {"Cancelled"} where
                           \* removal leaves the rest of the object's bytes alone
    None

Timers == OneShots \cup Periodics

ASSUME TimerAssumption ==
    /\ OneShots \cap Periodics = {}
    /\ Owner \in [Timers -> Tasks]
    /\ Durs \subseteq Nat /\ MaxNow \in Nat /\ MaxMade \in Nat
    /\ Period \in Nat \ {0}
    /\ ReuseInRun \in BOOLEAN
    /\ StaleBytes \subseteq {"Oneshot", "Periodic", "Expired", "Cancelled"}
    /\ None \notin Tasks \cup Timers

VARIABLES
    tasks,   \* Queue.tasks: a slab of [id, state, who], who being the timer it is for
    heap,    \* Queue.heap: the expirations [at, id], with their multiplicity
    now,     \* Instant::now()
    timer,   \* the Timers: [state, at, id]; "Free" when the program holds none
    run,     \* the task being run, and for which expiration (None: not from the heap)
    exiting, \* the main task is done and the loop drops the tasks
    fault,   \* a case the code declares unreachable was reached
    made,    \* history: timers made so far
    early,   \* history: a timer was Ready before its time
    stale    \* history: the run's own entry was removed under it

tvars == <<tasks, heap, now, timer, run, exiting, fault, made, early, stale>>

\* A heap is a bag; equal expirations need not be told apart.
Entries == DOMAIN heap
Push(h, e) == [x \in DOMAIN h \cup {e} |-> IF x \in DOMAIN h THEN h[x] + (IF x = e THEN 1 ELSE 0) ELSE 1]
Pop(h, e) == [x \in DOMAIN h \ (IF h[e] = 1 THEN {e} ELSE {}) |-> IF x = e THEN h[x] - 1 ELSE h[x]]
EmptyHeap == [x \in {} |-> 0]

Idle == [task |-> None, exp |-> None]
NoTimer == [state |-> "Free", at |-> 0, id |-> INVALID_INDEX]

TimerInit ==
    /\ tasks = SlabNew /\ heap = EmptyHeap /\ now = 0
    /\ timer = [t \in Timers |-> NoTimer]
    /\ run = Idle /\ exiting = FALSE /\ fault = FALSE
    /\ made = 0 /\ early = FALSE /\ stale = FALSE

SetState(s, id, st) == Update(s, id, [Elem(s, id) EXCEPT !.state = st])

\* The clock.
Tick ==
    /\ ~fault /\ now < MaxNow
    /\ now' = now + 1
    /\ UNCHANGED <<tasks, heap, timer, run, exiting, fault, made, early, stale>>

----------------------------------------------------------------------------
(* Queue::poll.                                                            *)

\* heap.peek(): a least expiration, if its time has come.
Due(e) == e.at <= now /\ \A x \in Entries : e.at <= x.at

\* The mutant: the entry is given up at once, and its index with it.
ExpireRemoves(s, id) == Remove(s, id)

\* The entry of a timer whose time has come stays until the timer is dropped.
Expire(s, id) == SetState(s, id, "Expired")

\* Pop an expiration and look its entry up, unchecked: an entry that is free, or
\* Expired, is unreachable.  A cancelled entry is removed.  Otherwise the entry
\* becomes Expired and its task runs.
QPop(e) ==
    /\ ~fault /\ ~exiting /\ run = Idle
    /\ Due(e)
    /\ heap' = Pop(heap, e)
    /\ LET st == Elem(tasks, e.id).state IN
       CASE ~IsUsed(tasks, e.id) \/ st = "Expired" ->
              fault' = TRUE /\ UNCHANGED <<tasks, run>>
         [] IsUsed(tasks, e.id) /\ st = "Cancelled" ->
              tasks' = Remove(tasks, e.id) /\ UNCHANGED <<run, fault>>
         [] IsUsed(tasks, e.id) /\ st \in {"Oneshot", "Periodic"} ->
              /\ tasks' = Expire(tasks, e.id)
              /\ run' = [task |-> Elem(tasks, e.id).id, exp |-> [at |-> e.at, id |-> e.id, state |-> st]]
              /\ UNCHANGED fault
    /\ stale' = FALSE
    /\ UNCHANGED <<now, timer, exiting, made, early>>

\* An I/O event runs a task.
IoRun(k) ==
    /\ ~fault /\ ~exiting /\ run = Idle
    /\ run' = [task |-> k, exp |-> None]
    /\ stale' = FALSE
    /\ UNCHANGED <<tasks, heap, now, timer, exiting, fault, made, early>>

\* The bytes that reading the entry again finds: its state, or, if the entry was
\* removed in the run, whatever the build left in the freed object.
Reread(id) == IF IsUsed(tasks, id) THEN {Elem(tasks, id).state} ELSE StaleBytes

\* The mutant: the next expiration is counted from now.
Drifting(exp) == now + Period

\* The next expiration of a periodic timer is one period after the last was due.
NextAt(exp) == exp.at + Period

\* After the run of a periodic timer's task: the entry is looked at again through the
\* reference taken before the run.  Cancelled (what cancel writes before it removes
\* the entry) means remove; anything else is taken for this timer's entry.
Reschedule(exp) ==
    \E st \in Reread(exp.id) :
       IF st = "Cancelled"
         THEN tasks' = Remove(tasks, exp.id) /\ UNCHANGED heap
         ELSE /\ tasks' = IF IsUsed(tasks, exp.id) THEN SetState(tasks, exp.id, "Periodic") ELSE tasks
              /\ heap' = Push(heap, [at |-> NextAt(exp), id |-> exp.id])

\* The task returns to Queue::poll, or to the loop over the I/O events.
RunEnd ==
    /\ ~fault /\ ~exiting /\ run # Idle
    /\ run' = Idle
    /\ IF run.exp # None /\ run.exp.state = "Periodic"
         THEN Reschedule(run.exp)
         ELSE UNCHANGED <<tasks, heap>>
    /\ UNCHANGED <<now, timer, exiting, fault, made, early, stale>>

\* run_task said that the main task is done: poll returns at once, nothing is
\* rescheduled, and the loop drops the tasks with all their timers.
Exit ==
    /\ ~fault /\ ~exiting /\ run # Idle
    /\ run' = Idle /\ exiting' = TRUE
    /\ UNCHANGED <<tasks, heap, now, timer, fault, made, early, stale>>

\* The thread's next reactor::run finds the same queue.
NextRun ==
    /\ exiting /\ \A t \in Timers : timer[t].state = "Free"
    /\ exiting' = FALSE
    /\ UNCHANGED <<tasks, heap, now, timer, run, fault, made, early, stale>>

----------------------------------------------------------------------------
(* What a running task does with its timers.                               *)

MayRun(t) == ~fault /\ run.task = Owner[t]

\* Timer::new(dur), PeriodicTimer::new(dur, period).
New(t, d) ==
    /\ MayRun(t) /\ timer[t].state = "Free" /\ made < MaxMade
    /\ timer' = [timer EXCEPT ![t] = [state |-> "Unscheduled", at |-> now + d, id |-> INVALID_INDEX]]
    /\ made' = made + 1
    /\ UNCHANGED <<tasks, heap, now, run, exiting, fault, early, stale>>

\* The first poll: add or add_periodic, for the current task.
Schedule(t) ==
    /\ MayRun(t) /\ timer[t].state = "Unscheduled"
    /\ ReuseInRun \/ ~stale
    /\ tasks' = Insert(tasks, [id |-> run.task, who |-> t,
                               state |-> IF t \in Periodics THEN "Periodic" ELSE "Oneshot"])
    /\ heap' = Push(heap, [at |-> timer[t].at, id |-> NextIndex(tasks)])
    /\ timer' = [timer EXCEPT ![t].state = "Scheduled", ![t].id = NextIndex(tasks)]
    /\ UNCHANGED <<now, run, exiting, fault, made, early, stale>>

IsExpired(t) == Elem(tasks, timer[t].id).state = "Expired"

\* Timer::poll and PeriodicTimer::poll after the first.  A poll that finds the entry
\* not expired changes nothing; one that finds it expired is Ready.  A periodic timer
\* that was Ready is NotReady the next time.
Poll(t) ==
    /\ MayRun(t)
    /\ \/ /\ timer[t].state = "Scheduled"
          /\ fault' = ~IsUsed(tasks, timer[t].id)
          /\ IF ~fault' /\ IsExpired(t)
               THEN /\ early' = (early \/ now < timer[t].at)
                    /\ timer' = [timer EXCEPT ![t].state =
                                   IF t \in Periodics THEN "Expired" ELSE "Scheduled"]
               ELSE UNCHANGED <<early, timer>>
       \/ /\ timer[t].state = "Expired"
          /\ timer' = [timer EXCEPT ![t].state = "Scheduled"]
          /\ UNCHANGED <<fault, early>>
    /\ UNCHANGED <<tasks, heap, now, run, exiting, made, stale>>

\* The mutant: the entry of a timer that has fired is not removed.
CancelKeepsEntry(s, id) == SetState(s, id, "Cancelled")

\* The mutant: a pending entry is removed and its expiration stays in the heap.
CancelRemoves(s, id) == Remove(SetState(s, id, "Cancelled"), id)

\* Queue::cancel: a pending entry is marked and left for the heap to find, one that
\* has expired is removed.
Cancel(s, id) ==
    LET s1 == SetState(s, id, "Cancelled") IN
    CASE Elem(s, id).state \in {"Oneshot", "Periodic"} -> s1
      [] Elem(s, id).state = "Expired" -> Remove(s1, id)
      [] Elem(s, id).state = "Cancelled" -> s

\* Timer::drop, PeriodicTimer::drop, by the task that runs or with the task itself
\* when the loop exits.
Drop(t) ==
    /\ ~fault /\ (run.task = Owner[t] \/ exiting)
    /\ timer[t].state # "Free"
    /\ timer' = [timer EXCEPT ![t] = NoTimer]
    /\ IF timer[t].state = "Unscheduled"
         THEN UNCHANGED <<tasks, fault, stale>>
         ELSE /\ fault' = ~IsUsed(tasks, timer[t].id)
              /\ tasks' = IF fault' THEN tasks ELSE Cancel(tasks, timer[t].id)
              /\ stale' = (stale \/ (run.exp # None /\ run.exp.id = timer[t].id
                                       /\ run.exp.state = "Periodic"))
    /\ UNCHANGED <<heap, now, run, exiting, made, early>>

TimerOp(t) == \/ \E d \in Durs : New(t, d)
              \/ Schedule(t) \/ Poll(t) \/ Drop(t)

TimerNext ==
    \/ Tick \/ RunEnd \/ Exit \/ NextRun
    \/ \E e \in Entries : QPop(e)
    \/ \E k \in Tasks : IoRun(k)
    \/ \E t \in Timers : TimerOp(t)

\* Time goes on, a task that runs returns, a loop that exits drops what it has.  Each
\* iteration of the loop starts with Queue::poll, so the queue cannot be passed over
\* for ever by I/O events: strong fairness.
TimerFairness ==
    /\ WF_tvars(Tick)
    /\ SF_tvars(\E e \in Entries : QPop(e))
    /\ WF_tvars(RunEnd)
    /\ \A t \in Timers : WF_tvars(exiting /\ Drop(t))
    /\ WF_tvars(NextRun)

TimerSpec == TimerInit /\ [][TimerNext]_tvars
TimerFairSpec == TimerSpec /\ TimerFairness

----------------------------------------------------------------------------
(* Properties.                                                             *)

Held(t) == timer[t].state \in {"Scheduled", "Expired"}
Copies(i) == {e \in Entries : e.id = i}

\* The heap and the slab agree, in the middle of a task's run too: every entry that
\* has not expired is awaited by exactly one expiration, an expired one by none, and
\* no expiration awaits an entry that is free.
QueueConsistent ==
    /\ \A e \in Entries : heap[e] = 1 /\ IsUsed(tasks, e.id)
    /\ \A i \in 0..tasks.n - 1 : IsUsed(tasks, i) =>
         Cardinality(Copies(i)) = IF Elem(tasks, i).state = "Expired" THEN 0 ELSE 1

\* A timer the program holds names its own entry, never one that a slab index reused
\* for another timer, and that entry wakes the task that scheduled it.
HandleOwnsEntry ==
    \A t \in Timers : Held(t) =>
      /\ IsUsed(tasks, timer[t].id)
      /\ Elem(tasks, timer[t].id).who = t
      /\ Elem(tasks, timer[t].id).state # "Cancelled"
      /\ Elem(tasks, timer[t].id).id = Owner[t]

\* No timer is Ready before the time it was made for, and a periodic one stays on its
\* grid: however late its task was run, its next expiration is a whole number of periods
\* after its first.
NeverEarly ==
    /\ ~early
    /\ \A t \in Periodics, e \in Entries :
         Held(t) /\ e.id = timer[t].id =>
           e.at >= timer[t].at /\ (e.at - timer[t].at) % Period = 0

\* None of the cases the code calls unreachable is reached: an expiration never finds
\* its entry Expired or free, a timer never polls or cancels an entry that is free.
NeverUnreachable == ~fault

\* A scheduled one-shot timer runs its task once its time has come, unless dropped.
Fires ==
    \A t \in OneShots :
      (timer[t].state = "Scheduled" /\ timer[t].at <= MaxNow)
        ~> (timer[t].state = "Free" \/ (Held(t) /\ IsExpired(t)))
=============================================================================

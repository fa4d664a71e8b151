------------------------------- MODULE Reactor -------------------------------
(***************************************************************************)
(* The event loop of one thread: src/reactor/eloop.rs (main task, spawned  *)
(* tasks, gates), src/sys/eloop.rs (the slabs of tasks and of schedules)   *)
(* and src/sys/unix/linux/nio_imp.rs (a descriptor's registration).  Tasks *)
(* are named by slab index; a descriptor's schedule holds the indices of   *)
(* the tasks to run when it is readable or writable, and an epoll event    *)
(* holds the index of the schedule.  What a task does in a poll (open,     *)
(* schedule, drop descriptors, take and leave gates, spawn tasks, which    *)
(* are polled at once) is an action of its own between the loop's steps.   *)
(*                                                                         *)
(* The kernel is the environment: a wait returns any events on registered  *)
(* descriptors, of the operations asked for or of none (a hang-up, which   *)
(* epoll reports unasked and together with EPOLLIN if that is asked for).  *)
(* Timers (TimerQueue, Wheel) run any live task.                           *)
(***************************************************************************)
EXTENDS SlabOps, Sequences, FiniteSetsExt

CONSTANTS
    Spawned,     \* the tasks that may be spawned, each once
    Main,        \* the future given to reactor::run
    Nios,        \* the descriptors
    MaxEvents,   \* bound: how many events one wait returns
    MaxSteps,    \* bound: how often tasks are run
    Races,       \* what tasks may do in the middle of a batch of events:
                 \* "pair"  - a task that both halves of an event name ends in the first run
                 \* "stale" - a descriptor with an event left in the batch is dropped or given away
                 \* "move"  - a descriptor that is scheduled is given to a spawned task
                 \* "hup"   - a descriptor nobody has scheduled yet hangs up
    NoTask

Names == Spawned \cup {Main}
Ops == {"R", "W"}

ASSUME ReactorAssumption ==
    /\ Main \notin Spawned /\ NoTask \notin Names /\ NoTask \notin Int
    /\ MaxEvents \in Nat /\ MaxSteps \in Nat /\ IsFiniteSet(Nios)
    /\ Races \subseteq {"pair", "stale", "move", "hup"}

VARIABLES
    \* sys::EventLoop
    tasks,       \* slab of the tasks' names
    schedules,   \* slab of [R, W: the task to run, rr, wr: read_ready, write_ready]
    current,     \* current_task
    \* TaskRunner
    stack,       \* spawn_stack
    gate,        \* number of gates entered
    main,        \* main_task is Some
    \* where TaskRunner::run is: "start", "wait", "events", "stop", "done"
    pc,
    batch,       \* the events left to handle
    second,      \* the second task of a Pair, or NoTask
    frames,      \* the polls in progress, outermost first: [id, name]
    \* the program
    nio,         \* Nio: [open, owner, token, ops]
    gates,       \* the tasks that hold a Gate
    todo,        \* tasks not spawned yet
    steps,       \* history: runs so far
    fault,       \* a case the code calls unreachable was reached
    dropped      \* history: tasks dropped by the end of the loop, with or without a gate

rvars == <<tasks, schedules, current, stack, gate, main, pc, batch, second, frames, nio, gates,
           todo, steps, fault, dropped>>

INVALID == INVALID_INDEX
Closed == [open |-> FALSE, owner |-> NoTask, token |-> INVALID, ops |-> {}]

ReactorInit ==
    /\ tasks = SlabNew /\ schedules = SlabNew /\ current = INVALID
    /\ stack = <<>> /\ gate = 0 /\ main = TRUE
    /\ pc = "start" /\ batch = <<>> /\ second = NoTask /\ frames = <<>>
    /\ nio = [n \in Nios |-> Closed] /\ gates = {} /\ todo = Spawned
    /\ steps = 0 /\ fault = FALSE /\ dropped = {}

----------------------------------------------------------------------------
(* TaskRunner::run.                                                        *)

Between == ~fault /\ frames = <<>>

\* run_task: the task becomes current and is polled, looked up unchecked; the index no
\* task has stands for the main task, which is unreachable once it is done.
Run(id) ==
    /\ current' = id
    /\ steps' = steps + 1
    /\ IF (id = INVALID /\ main) \/ (id # INVALID /\ IsUsed(tasks, id))
         THEN /\ frames' = <<[id |-> id, name |-> IF id = INVALID THEN Main ELSE Elem(tasks, id)]>>
              /\ UNCHANGED fault
         ELSE fault' = TRUE /\ UNCHANGED frames

\* The main task is polled first.
Start ==
    /\ pc = "start" /\ Between
    /\ pc' = "wait"
    /\ frames' = <<[id |-> INVALID, name |-> Main]>>
    /\ UNCHANGED <<tasks, schedules, current, stack, gate, main, batch, second, nio, gates, todo,
                   steps, fault, dropped>>

\* timer_queue.poll runs a task that holds a timer.
TimerRun(id) ==
    /\ pc = "wait" /\ Between /\ steps < MaxSteps
    /\ IsUsed(tasks, id) \/ (id = INVALID /\ main)
    /\ Run(id)
    /\ UNCHANGED <<tasks, schedules, stack, gate, main, pc, batch, second, nio, gates, todo, dropped>>

\* What epoll may report of a descriptor.
Reports(n) ==
    {ev \in SUBSET Ops :
       /\ ev \subseteq nio[n].ops
       /\ ev = {} => "R" \notin nio[n].ops /\ (nio[n].ops = {} => "hup" \in Races)}

\* inner.poll: the batch of events, at most one per descriptor.
Wait ==
    /\ pc = "wait" /\ Between /\ steps < MaxSteps
    /\ \E k \in 1..MaxEvents : \E order \in [1..k -> {n \in Nios : nio[n].open}] :
         /\ \A i, j \in 1..k : order[i] = order[j] => i = j
         /\ \E ev \in [1..k -> SUBSET Ops] :
              /\ \A i \in 1..k : ev[i] \in Reports(order[i])
              /\ batch' = [i \in 1..k |-> [token |-> nio[order[i]].token, ev |-> ev[i]]]
    /\ pc' = "events"
    /\ UNCHANGED <<tasks, schedules, current, stack, gate, main, second, frames, nio, gates, todo,
                   steps, fault, dropped>>

\* get_ready_tasks: the schedule is looked up unchecked; the halves the event names
\* become ready.  An event that is neither is taken for a write.
Ready(s, ev) == [s EXCEPT !.rr = @ \/ "R" \in ev, !.wr = @ \/ "W" \in ev \/ ev = {}]

NextEvent ==
    /\ pc = "events" /\ Between /\ second = NoTask /\ batch # <<>>
    /\ batch' = Tail(batch)
    /\ LET e == Head(batch) IN
       IF ~IsUsed(schedules, e.token)
         THEN fault' = TRUE /\ UNCHANGED <<schedules, second, current, frames, steps>>
         ELSE LET s == Elem(schedules, e.token) IN
              /\ schedules' = Update(schedules, e.token, Ready(s, e.ev))
              /\ second' = IF e.ev = Ops THEN s.W ELSE NoTask
              /\ Run(IF "R" \in e.ev THEN s.R ELSE s.W)
    /\ UNCHANGED <<tasks, stack, gate, main, pc, nio, gates, todo, dropped>>

RunSecond ==
    /\ pc = "events" /\ Between /\ second # NoTask
    /\ second' = NoTask
    /\ Run(second)
    /\ UNCHANGED <<tasks, schedules, stack, gate, main, pc, batch, nio, gates, todo, dropped>>

BatchDone ==
    /\ pc = "events" /\ Between /\ second = NoTask /\ batch = <<>>
    /\ pc' = "wait"
    /\ UNCHANGED <<tasks, schedules, current, stack, gate, main, batch, second, frames, nio, gates,
                   todo, steps, fault, dropped>>

----------------------------------------------------------------------------
(* What a task does in its poll.                                           *)

Top == frames[Len(frames)]
Polling == ~fault /\ frames # <<>>
InBatch(n) == \E i \in DOMAIN batch : batch[i].token = nio[n].token
Owned(t) == {n \in Nios : nio[n].open /\ nio[n].owner = t}

\* Nio::try_from: the schedule names the current task for both operations.
Open(n) ==
    /\ Polling /\ ~nio[n].open
    /\ schedules' = Insert(schedules, [R |-> current, W |-> current, rr |-> TRUE, wr |-> TRUE])
    /\ nio' = [nio EXCEPT ![n] = [open |-> TRUE, owner |-> Top.name, token |-> NextIndex(schedules),
                                  ops |-> {}]]
    /\ UNCHANGED <<tasks, current, stack, gate, main, pc, batch, second, frames, gates, todo, steps,
                   fault, dropped>>

\* The mutant: the task that asks is not remembered.
FlagOnly(n, op) ==
    /\ Polling /\ n \in Owned(Top.name) /\ op \notin nio[n].ops
    /\ nio' = [nio EXCEPT ![n].ops = @ \cup {op}]
    /\ LET s == Elem(schedules, nio[n].token) IN
       schedules' = Update(schedules, nio[n].token,
                      IF op = "R" THEN [s EXCEPT !.rr = FALSE] ELSE [s EXCEPT !.wr = FALSE])
    /\ UNCHANGED <<tasks, current, stack, gate, main, pc, batch, second, frames, gates, todo, steps,
                   fault, dropped>>

\* schedule_read and schedule_write: nothing is done if the operation is registered
\* already (the task named in the schedule stays as it is).
Schedule(n, op) ==
    /\ Polling /\ n \in Owned(Top.name) /\ op \notin nio[n].ops
    /\ nio' = [nio EXCEPT ![n].ops = @ \cup {op}]
    /\ LET s == Elem(schedules, nio[n].token) IN
       schedules' = Update(schedules, nio[n].token,
                      IF op = "R" THEN [s EXCEPT !.R = current, !.rr = FALSE]
                                  ELSE [s EXCEPT !.W = current, !.wr = FALSE])
    /\ UNCHANGED <<tasks, current, stack, gate, main, pc, batch, second, frames, gates, todo, steps,
                   fault, dropped>>

CancelWrite(n) ==
    /\ Polling /\ n \in Owned(Top.name) /\ "W" \in nio[n].ops
    /\ nio' = [nio EXCEPT ![n].ops = @ \ {"W"}]
    /\ schedules' = Update(schedules, nio[n].token, [Elem(schedules, nio[n].token) EXCEPT !.wr = TRUE])
    /\ UNCHANGED <<tasks, current, stack, gate, main, pc, batch, second, frames, gates, todo, steps,
                   fault, dropped>>

\* Nio::drop: deregister, and free the schedule.
DropNios(ns) ==
    /\ schedules' = FoldSet(LAMBDA i, x : Remove(x, i), schedules, {nio[n].token : n \in ns})
    /\ nio' = [n \in Nios |-> IF n \in ns THEN Closed ELSE nio[n]]

DropNio(n) ==
    /\ Polling /\ n \in Owned(Top.name)
    /\ InBatch(n) => "stale" \in Races
    /\ DropNios({n})
    /\ UNCHANGED <<tasks, current, stack, gate, main, pc, batch, second, frames, gates, todo, steps,
                   fault, dropped>>

\* Gate::new: None once the main task is done.
EnterGate ==
    /\ Polling /\ main /\ Top.name \notin gates
    /\ gate' = gate + 1 /\ gates' = gates \cup {Top.name}
    /\ UNCHANGED <<tasks, schedules, current, stack, main, pc, batch, second, frames, nio, todo,
                   steps, fault, dropped>>

LeaveGate ==
    /\ Polling /\ Top.name \in gates
    /\ gate' = gate - 1 /\ gates' = gates \ {Top.name}
    /\ UNCHANGED <<tasks, schedules, current, stack, main, pc, batch, second, frames, nio, todo,
                   steps, fault, dropped>>

\* spawn: the new task is polled at once, inside the poll of its parent, which may
\* have given it some of its descriptors.
Spawn(t, give) ==
    /\ Polling /\ t \in todo /\ give \subseteq Owned(Top.name)
    /\ \A n \in give : /\ nio[n].ops # {} => "move" \in Races
                       /\ InBatch(n) => "stale" \in Races
    /\ todo' = todo \ {t}
    /\ stack' = Append(stack, current)
    /\ tasks' = Insert(tasks, t)
    /\ current' = NextIndex(tasks)
    /\ frames' = Append(frames, [id |-> NextIndex(tasks), name |-> t])
    /\ nio' = [n \in Nios |-> IF n \in give THEN [nio[n] EXCEPT !.owner = t] ELSE nio[n]]
    /\ UNCHANGED <<schedules, gate, main, pc, batch, second, gates, steps, fault, dropped>>

\* The mutant: the parent goes on as the child.
PopsOnlyFrame ==
    /\ frames' = SubSeq(frames, 1, Len(frames) - 1)
    /\ stack' = IF Len(frames) > 1 THEN SubSeq(stack, 1, Len(stack) - 1) ELSE stack
    /\ UNCHANGED current

\* The poll of the innermost task returns.  A spawned task's parent goes on, with
\* current_task as it was; the outermost poll returns to the loop.
Pops ==
    /\ frames' = SubSeq(frames, 1, Len(frames) - 1)
    /\ IF Len(frames) > 1
         THEN current' = stack[Len(stack)] /\ stack' = SubSeq(stack, 1, Len(stack) - 1)
         ELSE UNCHANGED <<current, stack>>

\* The mutant: gates are not asked for.
MainGone(m, g) == ~m
\* The mutant: only the main task's own end ends the loop.
OnlyMain(m, g) == Top.id = INVALID /\ ~m /\ g = 0
\* run_task and run_main_task: the loop is to end.
Exits(m, g) == ~m /\ g = 0

NotReady ==
    /\ Polling
    /\ Pops
    /\ pc' = IF Len(frames) = 1 /\ Exits(main, gate) THEN "stop" ELSE pc
    /\ UNCHANGED <<tasks, schedules, gate, main, batch, second, nio, gates, todo, steps, fault, dropped>>

\* Ready or an error: the task is removed and dropped with all it holds.
Finish ==
    /\ Polling
    /\ second = Top.id => "pair" \in Races
    /\ \A n \in Owned(Top.name) : InBatch(n) => "stale" \in Races
    /\ tasks' = IF Top.id = INVALID THEN tasks ELSE Remove(tasks, Top.id)
    /\ main' = (main /\ Top.id # INVALID)
    /\ DropNios(Owned(Top.name))
    /\ gates' = gates \ {Top.name}
    /\ gate' = IF Top.name \in gates THEN gate - 1 ELSE gate
    /\ Pops
    /\ pc' = IF Len(frames) = 1 /\ Exits(main', gate') THEN "stop" ELSE pc
    /\ UNCHANGED <<batch, second, todo, steps, fault, dropped>>

\* EventLoop::clear: every task left is dropped.
Live == {Elem(tasks, i) : i \in {j \in 0..tasks.n - 1 : IsUsed(tasks, j)}}

ClearAll ==
    /\ pc = "stop" /\ Between
    /\ pc' = "done"
    /\ dropped' = {<<t, t \in gates>> : t \in Live}
    /\ tasks' = Clear(tasks)
    /\ DropNios({n \in Nios : nio[n].open})
    /\ gate' = gate - Cardinality(gates \cap Live) /\ gates' = gates \ Live
    /\ current' = INVALID /\ main' = FALSE /\ batch' = <<>> /\ second' = NoTask
    /\ UNCHANGED <<stack, frames, todo, steps, fault>>

\* The thread calls reactor::run again.
Rerun ==
    /\ pc = "done" /\ steps < MaxSteps
    /\ pc' = "start" /\ main' = TRUE
    /\ UNCHANGED <<tasks, schedules, current, stack, gate, batch, second, frames, nio, gates, todo,
                   steps, fault, dropped>>

TaskStep ==
    \/ \E n \in Nios : Open(n) \/ (\E op \in Ops : Schedule(n, op)) \/ CancelWrite(n) \/ DropNio(n)
    \/ EnterGate \/ LeaveGate
    \/ \E t \in Spawned, give \in SUBSET Nios : Spawn(t, give)
    \/ NotReady \/ Finish

ReactorNext ==
    \/ Start \/ Wait \/ NextEvent \/ RunSecond \/ BatchDone \/ ClearAll \/ Rerun
    \/ \E id \in {INVALID} \cup (0..tasks.n - 1) : TimerRun(id)
    \/ TaskStep

ReactorSpec == ReactorInit /\ [][ReactorNext]_rvars

----------------------------------------------------------------------------
(* Properties.                                                             *)

IdOf(t, id) == IF t = Main THEN id = INVALID /\ main ELSE IsUsed(tasks, id) /\ Elem(tasks, id) = t

\* An event wakes the task that waits for it: the index in the schedule of a registered
\* operation is that of the task that owns the descriptor, whatever tasks were spawned,
\* ended and replaced in their slots in between.
WakesOwner ==
    \A n \in Nios : nio[n].open =>
      /\ IsUsed(schedules, nio[n].token)
      /\ \A m \in Nios \ {n} : nio[m].open => nio[m].token # nio[n].token
      /\ "R" \in nio[n].ops => IdOf(nio[n].owner, Elem(schedules, nio[n].token).R)
      /\ "W" \in nio[n].ops => IdOf(nio[n].owner, Elem(schedules, nio[n].token).W)

\* Inside a poll current_task is the task being polled, also after the polls of the
\* tasks it spawned: timers and descriptors it makes then are its own.
CurrentIsPolled == Polling => current = Top.id /\ IdOf(Top.name, current)

\* "Gate can be used to ensure that task completes before event loop ends."
GateHolds == \A d \in dropped : ~d[2]

\* The loop does not wait for events after the main task is done and the last gate
\* has gone, from whichever task, in whichever nested poll.
NeverWaitsWhenDone == pc \in {"wait", "events"} /\ Between => main \/ gates # {}

\* No event reaches a schedule or a task that is free, nor the main task after its end.
NeverUnreachable == ~fault
=============================================================================

---------------------------- MODULE ReactorProofs ----------------------------
(***************************************************************************)
(* The event loop of src/reactor/eloop.rs and src/sys/eloop.rs, for any    *)
(* number of tasks, of descriptors and of events in a batch, and any depth *)
(* of polls within polls.  Three layers: what the loop keeps of the polls  *)
(* in progress and of the gates, whatever the tasks do; that registered    *)
(* operations name their owner's task, if a descriptor that is scheduled   *)
(* stays with its task; that the events left in a batch still find their   *)
(* schedule and their task, if tasks keep clear of all four races.         *)
(***************************************************************************)
EXTENDS Reactor, SlabProofs

Frames == [id : Int, name : Names]

\* The slab of tasks is in order and holds spawned tasks.
TasksTyped == InOrder(tasks) /\ \A i : IsUsed(tasks, i) => Elem(tasks, i) \in Spawned

\* The types of what the loop keeps.
LoopTypes ==
    /\ TasksTyped
    /\ frames \in Seq(Frames) /\ stack \in Seq(Int)
    /\ main \in BOOLEAN /\ fault \in BOOLEAN
    /\ pc \in {"start", "wait", "events", "stop", "done"}

\* The polls in progress are of live tasks, each its own.
FramesOK ==
    /\ \A k \in 1..Len(frames) : IdOf(frames[k].name, frames[k].id)
    /\ \A j, k \in 1..Len(frames) : frames[j].id = frames[k].id => j = k

\* spawn_stack holds the tasks to go back to, current_task the one being polled.
StackOK ==
    /\ frames = <<>> => stack = <<>>
    /\ frames # <<>> => /\ Len(stack) = Len(frames) - 1
                        /\ \A k \in 1..Len(stack) : stack[k] = frames[k].id
                        /\ current = frames[Len(frames)].id

\* The gates are counted.
GateOK == IsFiniteSet(gates) /\ gate = Cardinality(gates)

\* Where the loop is.
PcOK ==
    /\ pc \in {"start", "stop", "done"} => frames = <<>>
    /\ pc = "start" => main
    /\ pc \in {"start", "done"} => current = INVALID
    /\ pc \in {"stop", "done"} => gates = {}

LoopInv == LoopTypes /\ FramesOK /\ StackOK /\ GateOK /\ PcOK /\ GateHolds /\ NeverWaitsWhenDone

Schedules == [R : Int, W : Int, rr : BOOLEAN, wr : BOOLEAN]

\* The types of the descriptors and their schedules.
NioTypes ==
    /\ InOrder(schedules) /\ \A i : IsUsed(schedules, i) => Elem(schedules, i) \in Schedules
    /\ nio \in [Nios -> [open : BOOLEAN, owner : Names \cup {NoTask}, token : Int, ops : SUBSET Ops]]

NioInv == NioTypes /\ WakesOwner

\* The task that a half of a schedule names, and the halves an event names.
Half(s, op) == IF op = "R" THEN s.R ELSE s.W
Halves(ev) == IF ev = {} THEN {"W"} ELSE ev

\* IdOf, of a slab of tasks ts and the main task there or not.
IdIn(ts, m, t, id) == IF t = Main THEN id = INVALID /\ m ELSE IsUsed(ts, id) /\ Elem(ts, id) = t

\* A half of a descriptor's schedule names the task that owns the descriptor.
HalfOK(n, op) == IdIn(tasks, main, nio[n].owner, Half(Elem(schedules, nio[n].token), op))

\* An event left in the batch is of a descriptor that is still open, and the halves it
\* names still name the task that owns the descriptor.
EventOK(e) ==
    \E n \in Nios : /\ nio[n].open /\ nio[n].token = e.token
                    /\ \A op \in Halves(e.ev) : HalfOK(n, op)

\* A task that can be run.
Runnable(id) == (id = INVALID /\ main) \/ (id # INVALID /\ IsUsed(tasks, id))

BatchOK ==
    /\ batch \in Seq([token : Int, ev : SUBSET Ops])
    /\ \A k \in 1..Len(batch) : EventOK(batch[k])
    /\ second # NoTask => Runnable(second)

BatchInv == BatchOK /\ ~fault

----------------------------------------------------------------------------
(* The polls in progress and the gates, whatever tasks do.                 *)

\* An index in use is not the one that stands for the main task.
LEMMA UsedIndex ==
    ASSUME NEW i, InOrder(tasks), IsUsed(tasks, i)
    PROVE  i \in Int /\ i # INVALID /\ i \in 0..tasks.n - 1
BY DEF InOrder, IsUsed, INVALID, INVALID_INDEX

\* What the index of a task says of its name.
LEMMA IdFacts ==
    ASSUME LoopTypes, NEW t, NEW id, IdOf(t, id)
    PROVE  /\ id \in Int
           /\ t = Main <=> id = INVALID
           /\ id = INVALID => main
           /\ id # INVALID => IsUsed(tasks, id) /\ Elem(tasks, id) = t
<1>1. CASE t = Main
    BY <1>1 DEF IdOf, INVALID, INVALID_INDEX
<1>2. CASE t # Main
    BY <1>2, UsedIndex DEF IdOf, LoopTypes, TasksTyped
<1> QED BY <1>1, <1>2

\* Nothing in progress, no task, no gate.
LEMMA InitLoop == ReactorInit => LoopInv
<1> SUFFICES ASSUME ReactorInit PROVE LoopInv
    OBVIOUS
<1>1. TasksTyped
    BY NewInOrder DEF ReactorInit, TasksTyped
<1>2. frames = <<>> /\ Len(frames) = 0 /\ stack = <<>> /\ frames \in Seq(Frames) /\ stack \in Seq(Int)
    BY DEF ReactorInit
<1>3. LoopTypes
    BY <1>1, <1>2 DEF LoopTypes, ReactorInit
<1>4. FramesOK /\ StackOK
    BY <1>2 DEF FramesOK, StackOK
<1>5. GateOK /\ PcOK /\ GateHolds /\ NeverWaitsWhenDone
    BY <1>2, FS_EmptySet DEF ReactorInit, GateOK, PcOK, GateHolds, NeverWaitsWhenDone
<1> QED BY <1>3, <1>4, <1>5 DEF LoopInv

\* Steps that touch neither tasks nor polls nor gates.
LEMMA QuietLoop ==
    ASSUME LoopInv, UNCHANGED <<tasks, current, stack, gate, main, frames, gates, dropped>>,
           fault' \in BOOLEAN, fault => fault',
           pc' = pc \/ (pc \in {"wait", "events"} /\ pc' \in {"wait", "events"})
    PROVE  LoopInv'
<1> USE DEF LoopInv
<1>1. LoopTypes'
    BY DEF LoopTypes, TasksTyped
<1>2. FramesOK' /\ StackOK'
    BY DEF FramesOK, StackOK, IdOf
<1>3. GateOK' /\ PcOK' /\ GateHolds'
    BY DEF GateOK, PcOK, GateHolds
<1>4. NeverWaitsWhenDone'
  <2>1. fault \in BOOLEAN /\ (Between' => Between)
      BY DEF LoopTypes, Between
  <2> QED BY <2>1 DEF NeverWaitsWhenDone
<1> QED BY <1>1, <1>2, <1>3, <1>4

\* A single poll in progress, of a live task that is the current one.
LEMMA OneFrame ==
    ASSUME LoopInv, NEW id, NEW t, IdOf(t, id), t \in Names, Between,
           frames' = <<[id |-> id, name |-> t]>>, current' = id,
           UNCHANGED <<tasks, stack, gate, main, gates, fault, dropped>>,
           pc' \in {"wait", "events"}
    PROVE  LoopInv'
<1> USE DEF LoopInv
<1> DEFINE f == [id |-> id, name |-> t]
<1>1. f.id = id /\ f.name = t /\ f \in Frames
    BY IdFacts DEF Frames
<1> HIDE DEF f
<1>2. frames' = <<f>>
    BY DEF f
<1>3. Len(frames') = 1 /\ frames'[1] = f /\ frames' # <<>> /\ frames' \in Seq(Frames)
    BY <1>1, <1>2
<1>4. stack' = <<>> /\ Len(stack') = 0
    BY DEF StackOK, Between
<1>5. LoopTypes'
    BY <1>3 DEF LoopTypes, TasksTyped
<1>6. IdOf(t, id)'
    BY DEF IdOf
<1>7. FramesOK'
  <2>1. \A k \in 1..Len(frames') : k = 1
      BY <1>3
  <2>2. IdOf(frames[1].name, frames[1].id)'
      BY <1>1, <1>3, <1>6 DEF IdOf
  <2> QED BY <2>1, <2>2 DEF FramesOK, IdOf
<1>8. StackOK'
    BY <1>1, <1>3, <1>4 DEF StackOK
<1>9. GateOK' /\ PcOK' /\ GateHolds'
    BY DEF GateOK, PcOK, GateHolds
<1>10. NeverWaitsWhenDone'
    BY <1>3 DEF NeverWaitsWhenDone, Between
<1> QED BY <1>5, <1>7, <1>8, <1>9, <1>10

\* run_task: the task is polled, or the case is one the code calls unreachable.
LEMMA RunLoop ==
    ASSUME LoopInv, NEW id, Run(id), Between, pc \in {"wait", "events"},
           UNCHANGED <<tasks, stack, gate, main, pc, gates, dropped>>
    PROVE  LoopInv'
<1> USE DEF LoopInv
<1> DEFINE t == IF id = INVALID THEN Main ELSE Elem(tasks, id)
<1>1. CASE Runnable(id)
  <2>1. IdOf(t, id) /\ t \in Names
    <3>1. CASE id = INVALID
        BY <1>1, <3>1 DEF Runnable, IdOf, Names
    <3>2. CASE id # INVALID
      <4>1. IsUsed(tasks, id) /\ Elem(tasks, id) \in Spawned
          BY <1>1, <3>2 DEF Runnable, LoopTypes, TasksTyped
      <4> QED BY <3>2, <4>1, ReactorAssumption DEF IdOf, Names, ReactorAssumption
    <3> QED BY <3>1, <3>2
  <2>2. frames' = <<[id |-> id, name |-> t]>> /\ current' = id /\ UNCHANGED fault
      BY <1>1 DEF Run, Runnable
  <2> HIDE DEF t
  <2> QED BY <2>1, <2>2, OneFrame
<1>2. CASE ~Runnable(id)
  <2>1. fault' = TRUE /\ UNCHANGED frames
      BY <1>2 DEF Run, Runnable
  <2>2. frames = <<>> /\ stack = <<>>
      BY DEF Between, StackOK
  <2>3. LoopTypes'
      BY <2>1 DEF LoopTypes, TasksTyped
  <2>4. FramesOK'
      BY <2>1 DEF FramesOK, IdOf
  <2>5. StackOK'
      BY <2>1, <2>2 DEF StackOK
  <2>6. GateOK' /\ PcOK' /\ GateHolds'
      BY <2>1 DEF GateOK, PcOK, GateHolds
  <2>7. NeverWaitsWhenDone'
      BY <2>1 DEF NeverWaitsWhenDone, Between
  <2> QED BY <2>3, <2>4, <2>5, <2>6, <2>7
<1> QED BY <1>1, <1>2

\* The steps of TaskRunner::run.
LEMMA RunnerLoop ==
    ASSUME LoopInv,
           Start \/ Wait \/ NextEvent \/ RunSecond \/ BatchDone \/ Rerun \/ (\E id : TimerRun(id))
    PROVE  LoopInv'
<1>1. CASE Start
  <2>1. IdOf(Main, INVALID) /\ Main \in Names /\ current = INVALID
      BY <1>1 DEF Start, LoopInv, PcOK, IdOf, Names
  <2> QED BY <1>1, <2>1, OneFrame DEF Start
<1>2. CASE Wait
    BY <1>2, QuietLoop DEF Wait, LoopInv, LoopTypes
<1>3. CASE NextEvent
  <2> DEFINE e == Head(batch)
             s == Elem(schedules, e.token)
  <2>1. CASE ~IsUsed(schedules, e.token)
      BY <1>3, <2>1, QuietLoop DEF NextEvent, LoopInv, LoopTypes
  <2>2. CASE IsUsed(schedules, e.token)
    <3>1. Run(IF "R" \in e.ev THEN s.R ELSE s.W)
        BY <1>3, <2>2 DEF NextEvent
    <3> QED BY <1>3, <3>1, RunLoop DEF NextEvent
  <2> QED BY <2>1, <2>2
<1>4. CASE RunSecond
    BY <1>4, RunLoop DEF RunSecond
<1>5. CASE BatchDone
    BY <1>5, QuietLoop DEF BatchDone, LoopInv, LoopTypes
<1>6. CASE Rerun
  <2>1. /\ pc = "done" /\ pc' = "start" /\ main' = TRUE
        /\ UNCHANGED <<tasks, current, stack, gate, frames, gates, fault, dropped>>
      BY <1>6 DEF Rerun
  <2>2. frames = <<>> /\ Len(frames) = 0
      BY <2>1 DEF LoopInv, PcOK
  <2>3. LoopTypes' /\ StackOK' /\ GateOK' /\ PcOK' /\ GateHolds' /\ NeverWaitsWhenDone'
      BY <2>1 DEF LoopInv, LoopTypes, TasksTyped, StackOK, GateOK, PcOK, GateHolds, NeverWaitsWhenDone
  <2>4. FramesOK'
      BY <2>1, <2>2 DEF FramesOK
  <2> QED BY <2>3, <2>4 DEF LoopInv
<1>7. CASE \E id : TimerRun(id)
    BY <1>7, RunLoop DEF TimerRun
<1> QED BY <1>1, <1>2, <1>3, <1>4, <1>5, <1>6, <1>7
\* A sequence without its last element.
LEMMA FrontFacts ==
    ASSUME NEW S, NEW f \in Seq(S), f # <<>>
    PROVE  /\ Len(f) \in Nat /\ Len(f) >= 1
           /\ SubSeq(f, 1, Len(f) - 1) \in Seq(S)
           /\ Len(SubSeq(f, 1, Len(f) - 1)) = Len(f) - 1
           /\ \A k \in 1..Len(f) - 1 : SubSeq(f, 1, Len(f) - 1)[k] = f[k]
<1> DEFINE m == Len(f)
<1>1. m \in Nat /\ m # 0
    BY EmptySeq, LenProperties
<1>2. \A k \in 1..m : f[k] \in S
    BY ElementOfSeq
<1> HIDE DEF m
<1>3. m >= 1 /\ m - 1 \in Int /\ 1 \in Int /\ (\A k \in 1..m - 1 : f[k] \in S)
    BY <1>1, <1>2
<1>4. /\ SubSeq(f, 1, m - 1) \in Seq(S)
      /\ Len(SubSeq(f, 1, m - 1)) = IF 1 <= m - 1 THEN (m - 1) - 1 + 1 ELSE 0
      /\ \A k \in 1..(m - 1) - 1 + 1 : SubSeq(f, 1, m - 1)[k] = f[1 + k - 1]
    BY <1>3, SubSeqProperties
<1>5. Len(SubSeq(f, 1, m - 1)) = m - 1
    BY <1>1, <1>3, <1>4
<1>6. \A k \in 1..m - 1 : SubSeq(f, 1, m - 1)[k] = f[k]
  <2> SUFFICES ASSUME NEW k \in 1..m - 1 PROVE SubSeq(f, 1, m - 1)[k] = f[k]
      OBVIOUS
  <2>1. 1 + k - 1 = k /\ k \in 1..(m - 1) - 1 + 1
      BY <1>1
  <2> QED BY <1>4, <2>1
<1> QED BY <1>1, <1>3, <1>4, <1>5, <1>6 DEF m

\* A poll returns: the polls around it stay, and the one it was in is current again.
LEMMA PopsFacts ==
    ASSUME LoopTypes, StackOK, frames # <<>>, Pops
    PROVE  /\ Len(frames) \in Nat /\ Len(frames) >= 1
           /\ frames' \in Seq(Frames) /\ Len(frames') = Len(frames) - 1
           /\ \A k \in 1..Len(frames) - 1 : frames'[k] = frames[k]
           /\ Len(frames) = 1 <=> frames' = <<>>
           /\ stack' \in Seq(Int)
           /\ StackOK'
<1> DEFINE m == Len(frames)
<1>1. /\ m \in Nat /\ m >= 1 /\ frames' \in Seq(Frames) /\ Len(frames') = m - 1
      /\ \A k \in 1..m - 1 : frames'[k] = frames[k]
    BY FrontFacts DEF LoopTypes, Pops
<1>2. /\ stack \in Seq(Int) /\ Len(stack) = m - 1 /\ (\A k \in 1..m - 1 : stack[k] = frames[k].id)
    BY DEF LoopTypes, StackOK
<1> HIDE DEF m
<1>3. m = 1 <=> frames' = <<>>
    BY <1>1, EmptySeq
<1>4. CASE m = 1
  <2>1. stack' = stack
      BY <1>4 DEF Pops, m
  <2>2. stack = <<>>
      BY <1>2, <1>4, EmptySeq
  <2>3. StackOK'
      BY <1>3, <1>4, <2>1, <2>2 DEF StackOK
  <2> QED BY <1>1, <1>2, <1>3, <2>1, <2>3 DEF m
<1>5. CASE m # 1
  <2>1. m > 1 /\ m - 1 \in 1..m - 1 /\ Len(stack) # 0
      BY <1>1, <1>2, <1>5
  <2>2. current' = stack[Len(stack)] /\ stack' = SubSeq(stack, 1, Len(stack) - 1)
      BY <2>1 DEF Pops, m
  <2>3. stack # <<>>
      BY <2>1, EmptySeq
  <2>4. /\ stack' \in Seq(Int) /\ Len(stack') = Len(stack) - 1
        /\ \A k \in 1..Len(stack) - 1 : stack'[k] = stack[k]
      BY <1>2, <2>2, <2>3, FrontFacts
  <2>5. current' = frames'[m - 1].id
      BY <1>1, <1>2, <2>1, <2>2
  <2>6. \A k \in 1..Len(stack') : stack'[k] = frames'[k].id
    <3> SUFFICES ASSUME NEW k \in 1..Len(stack') PROVE stack'[k] = frames'[k].id
        OBVIOUS
    <3>1. k \in 1..Len(stack) - 1 /\ k \in 1..m - 1
        BY <1>1, <1>2, <2>4
    <3> QED BY <1>1, <1>2, <2>4, <3>1
  <2>7. StackOK'
      BY <1>1, <1>2, <1>3, <1>5, <2>4, <2>5, <2>6 DEF StackOK
  <2> QED BY <1>1, <1>3, <2>4, <2>7 DEF m
<1> QED BY <1>4, <1>5

\* The innermost poll is the current task's.
LEMMA TopFacts ==
    ASSUME LoopInv, Polling
    PROVE  /\ frames # <<>> /\ Len(frames) \in Nat /\ Len(frames) >= 1 /\ Len(frames) \in 1..Len(frames)
           /\ Top \in Frames /\ current = Top.id /\ IdOf(Top.name, Top.id)
           /\ pc \in {"wait", "events"} /\ fault = FALSE
<1>1. frames # <<>> /\ fault = FALSE
    BY DEF Polling, LoopInv, LoopTypes
<1>2. Len(frames) \in Nat /\ Len(frames) # 0
    BY <1>1, EmptySeq, LenProperties DEF LoopInv, LoopTypes
<1>3. Len(frames) >= 1 /\ Len(frames) \in 1..Len(frames)
    BY <1>2
<1>4. Top \in Frames
    BY <1>3, ElementOfSeq DEF Top, LoopInv, LoopTypes
<1>5. current = Top.id /\ IdOf(Top.name, Top.id)
    BY <1>1, <1>3 DEF Top, LoopInv, StackOK, FramesOK
<1>6. pc \in {"wait", "events"}
    BY <1>1 DEF LoopInv, PcOK, LoopTypes
<1> QED BY <1>1, <1>2, <1>3, <1>4, <1>5, <1>6

\* The poll of the innermost task returns, its task ended or not: the tasks of the
\* polls around it are live still, and the loop stops or has a reason to go on.
LEMMA PopsLoop ==
    ASSUME LoopInv, Polling, Pops, TasksTyped', main' \in BOOLEAN, GateOK',
           \A k \in 1..Len(frames) - 1 : IdOf(frames[k].name, frames[k].id)
                                           => (main' /\ frames[k].id = INVALID /\ frames[k].name = Main)
                                              \/ (frames[k].name # Main /\ IsUsed(tasks', frames[k].id)
                                                    /\ Elem(tasks', frames[k].id) = frames[k].name),
           pc' = IF Len(frames) = 1 /\ Exits(main', gate') THEN "stop" ELSE pc,
           UNCHANGED <<fault, dropped>>
    PROVE  LoopInv'
<1>1. /\ Len(frames) \in Nat /\ Len(frames) >= 1
      /\ frames' \in Seq(Frames) /\ Len(frames') = Len(frames) - 1
      /\ \A k \in 1..Len(frames) - 1 : frames'[k] = frames[k]
      /\ Len(frames) = 1 <=> frames' = <<>>
      /\ stack' \in Seq(Int) /\ StackOK'
    BY TopFacts, PopsFacts DEF LoopInv
<1>2. pc \in {"wait", "events"} /\ fault = FALSE
    BY TopFacts
<1>3. LoopTypes'
    BY <1>1, <1>2 DEF LoopInv, LoopTypes
<1>4. FramesOK'
  <2>1. ASSUME NEW k \in 1..Len(frames')
        PROVE  IdOf(frames[k].name, frames[k].id)'
    <3>1. k \in 1..Len(frames) - 1 /\ k \in 1..Len(frames)
        BY <1>1
    <3>2. IdOf(frames[k].name, frames[k].id)
        BY <3>1 DEF LoopInv, FramesOK
    <3>3. frames'[k] = frames[k]
        BY <1>1, <3>1
    <3> QED BY <3>1, <3>2, <3>3 DEF IdOf
  <2>2. ASSUME NEW j \in 1..Len(frames'), NEW k \in 1..Len(frames'), frames'[j].id = frames'[k].id
        PROVE  j = k
    <3>1. k \in 1..Len(frames) - 1 /\ j \in 1..Len(frames) - 1 /\ k \in 1..Len(frames) /\ j \in 1..Len(frames)
        BY <1>1
    <3> QED BY <1>1, <2>2, <3>1 DEF LoopInv, FramesOK
  <2> QED BY <2>1, <2>2 DEF FramesOK
<1>5. PcOK' /\ NeverWaitsWhenDone'
  <2>1. gate' = 0 <=> gates' = {}
      BY FS_EmptySet DEF GateOK
  <2>2. CASE Len(frames) = 1 /\ Exits(main', gate')
      BY <1>1, <2>1, <2>2 DEF PcOK, NeverWaitsWhenDone, Exits
  <2>3. CASE ~(Len(frames) = 1 /\ Exits(main', gate'))
      BY <1>1, <1>2, <2>1, <2>3 DEF PcOK, NeverWaitsWhenDone, Exits, Between
  <2> QED BY <2>2, <2>3
<1>6. GateHolds'
    BY DEF LoopInv, GateHolds
<1> QED BY <1>1, <1>3, <1>4, <1>5, <1>6 DEF LoopInv

\* The poll returns without the task's end.
LEMMA NotReadyLoop == ASSUME LoopInv, NotReady PROVE LoopInv'
<1>1. /\ Polling /\ Pops /\ pc' = (IF Len(frames) = 1 /\ Exits(main, gate) THEN "stop" ELSE pc)
      /\ UNCHANGED <<tasks, gate, main, gates, fault, dropped>>
    BY DEF NotReady
<1>2. TasksTyped' /\ main' \in BOOLEAN /\ GateOK'
    BY <1>1 DEF LoopInv, LoopTypes, TasksTyped, GateOK
<1>3. \A k \in 1..Len(frames) - 1 :
        IdOf(frames[k].name, frames[k].id)
          => (main' /\ frames[k].id = INVALID /\ frames[k].name = Main)
             \/ (frames[k].name # Main /\ IsUsed(tasks', frames[k].id)
                   /\ Elem(tasks', frames[k].id) = frames[k].name)
    BY <1>1 DEF IdOf
<1>4. pc' = IF Len(frames) = 1 /\ Exits(main', gate') THEN "stop" ELSE pc
    BY <1>1 DEF Exits
<1> QED BY <1>1, <1>2, <1>3, <1>4, PopsLoop

\* What the end of a task does to the slab of tasks.
LEMMA EndedTask ==
    ASSUME LoopInv, Polling, tasks' = IF Top.id = INVALID THEN tasks ELSE Remove(tasks, Top.id),
           main' = (main /\ Top.id # INVALID)
    PROVE  /\ TasksTyped' /\ main' \in BOOLEAN
           /\ \A t, id : IdOf(t, id) /\ (t # Top.name \/ id # Top.id) => IdOf(t, id)'
           /\ \A id : Runnable(id) /\ id # Top.id => Runnable(id)'
<1>1. /\ LoopTypes /\ InOrder(tasks) /\ IdOf(Top.name, Top.id) /\ main \in BOOLEAN
      /\ \A i : IsUsed(tasks, i) => Elem(tasks, i) \in Spawned
    BY TopFacts DEF LoopInv, LoopTypes, TasksTyped
<1>2. main' \in BOOLEAN
    BY <1>1
<1>3. CASE Top.id = INVALID
  <2>1. Top.name = Main /\ tasks' = tasks /\ main' = FALSE
      BY <1>1, <1>3, IdFacts
  <2>2. TasksTyped'
      BY <1>1, <2>1 DEF TasksTyped
  <2>3. \A t, id : IdOf(t, id) /\ (t # Top.name \/ id # Top.id) => IdOf(t, id)'
      BY <1>3, <2>1 DEF IdOf
  <2>4. \A id : Runnable(id) /\ id # Top.id => Runnable(id)'
      BY <1>3, <2>1 DEF Runnable
  <2> QED BY <1>2, <2>2, <2>3, <2>4
<1>4. CASE Top.id # INVALID
  <2>1. IsUsed(tasks, Top.id) /\ Elem(tasks, Top.id) = Top.name /\ Top.name # Main
      BY <1>1, <1>4, IdFacts
  <2>2. tasks' = Remove(tasks, Top.id) /\ main' = main
      BY <1>1, <1>4
  <2>3. InOrder(tasks') /\ ~IsUsed(tasks', Top.id) /\ SameBut(tasks, tasks', Top.id)
      BY <1>1, <2>2, RemoveInOrder
  <2>4. TasksTyped'
    <3> SUFFICES ASSUME NEW i, IsUsed(tasks', i) PROVE Elem(tasks', i) \in Spawned
        BY <2>3 DEF TasksTyped
    <3>1. i # Top.id
        BY <2>3
    <3> QED BY <1>1, <2>3, <3>1 DEF SameBut
  <2>5. ASSUME NEW t, NEW id, IdOf(t, id), t # Top.name \/ id # Top.id
        PROVE  IdOf(t, id)'
    <3>1. CASE t = Main
      <4>1. id = INVALID /\ main
          BY <2>5, <3>1 DEF IdOf
      <4>2. main'
          BY <2>2, <4>1
      <4> QED BY <3>1, <4>1, <4>2 DEF IdOf
    <3>2. CASE t # Main
      <4>1. IsUsed(tasks, id) /\ Elem(tasks, id) = t /\ id # Top.id
          BY <2>1, <2>5, <3>2 DEF IdOf
      <4>2. IsUsed(tasks', id) /\ Elem(tasks', id) = t
          BY <2>3, <4>1 DEF SameBut
      <4> QED BY <3>2, <4>2 DEF IdOf
    <3> QED BY <3>1, <3>2
  <2>6. ASSUME NEW id, Runnable(id), id # Top.id
        PROVE  Runnable(id)'
      BY <2>2, <2>3, <2>6 DEF Runnable, SameBut
  <2> QED BY <1>2, <2>4, <2>5, <2>6
<1> QED BY <1>3, <1>4

\* The innermost task ends.
LEMMA FinishLoop == ASSUME LoopInv, Finish PROVE LoopInv'
<1>1. /\ Polling /\ Pops
      /\ tasks' = IF Top.id = INVALID THEN tasks ELSE Remove(tasks, Top.id)
      /\ main' = (main /\ Top.id # INVALID)
      /\ gates' = gates \ {Top.name} /\ gate' = IF Top.name \in gates THEN gate - 1 ELSE gate
      /\ pc' = IF Len(frames) = 1 /\ Exits(main', gate') THEN "stop" ELSE pc
      /\ UNCHANGED <<fault, dropped>>
    BY DEF Finish
<1>2. TasksTyped' /\ main' \in BOOLEAN
    BY <1>1, EndedTask
<1>3. GateOK'
    BY <1>1, FS_RemoveElement DEF LoopInv, GateOK
<1>4. ASSUME NEW k \in 1..Len(frames) - 1, IdOf(frames[k].name, frames[k].id)
      PROVE  (main' /\ frames[k].id = INVALID /\ frames[k].name = Main)
             \/ (frames[k].name # Main /\ IsUsed(tasks', frames[k].id)
                   /\ Elem(tasks', frames[k].id) = frames[k].name)
  <2> DEFINE x == frames[k]
  <2>1. x.id # Top.id
    <3>1. k \in 1..Len(frames) /\ Len(frames) \in 1..Len(frames) /\ k # Len(frames)
        BY <1>1, TopFacts
    <3> QED BY <3>1 DEF LoopInv, FramesOK, Top
  <2> DEFINE t == x.name
             id == x.id
  <2>2. IdOf(t, id) /\ id # Top.id
      BY <1>4, <2>1
  <2> HIDE DEF t, id
  <2>3. IF t = Main THEN id = INVALID /\ main' ELSE IsUsed(tasks', id) /\ Elem(tasks', id) = t
    <3>1. \A a, b : IdOf(a, b) /\ (a # Top.name \/ b # Top.id) => IdOf(a, b)'
        BY <1>1, EndedTask
    <3>2. \A a, b : IdOf(a, b)' <=> IF a = Main THEN b = INVALID /\ main'
                                                ELSE IsUsed(tasks', b) /\ Elem(tasks', b) = a
        BY DEF IdOf
    <3> QED BY <2>2, <3>1, <3>2
  <2> QED BY <2>3 DEF t, id
<1> QED BY <1>1, <1>2, <1>3, <1>4, PopsLoop
\* What a new task does to the slab of tasks: its index is one no task has.
LEMMA SpawnedTask ==
    ASSUME LoopInv, NEW t \in Spawned, tasks' = Insert(tasks, t), UNCHANGED main
    PROVE  /\ TasksTyped' /\ t # Main
           /\ IsUsed(tasks', NextIndex(tasks)) /\ Elem(tasks', NextIndex(tasks)) = t
           /\ NextIndex(tasks) \in Int /\ NextIndex(tasks) # INVALID /\ ~IsUsed(tasks, NextIndex(tasks))
           /\ \A u, id : IdOf(u, id) => id # NextIndex(tasks) /\ IdOf(u, id)'
           /\ \A id : Runnable(id) => Runnable(id)'
<1> DEFINE i == NextIndex(tasks)
<1>1. /\ InOrder(tasks) /\ (\A j : IsUsed(tasks, j) => Elem(tasks, j) \in Spawned) /\ t # Main
    BY ReactorAssumption DEF LoopInv, LoopTypes, TasksTyped, ReactorAssumption
<1>2. /\ InOrder(tasks') /\ i \in Nat /\ ~IsUsed(tasks, i) /\ IsUsed(tasks', i) /\ Elem(tasks', i) = t
      /\ SameBut(tasks, tasks', i)
    BY <1>1, InsertInOrder
<1> HIDE DEF i
<1>3. i # INVALID /\ i \in Int
    BY <1>2 DEF INVALID, INVALID_INDEX
<1>4. TasksTyped'
  <2> SUFFICES ASSUME NEW j, IsUsed(tasks', j) PROVE Elem(tasks', j) \in Spawned
      BY <1>2 DEF TasksTyped
  <2>1. CASE j = i
      BY <1>2, <2>1
  <2>2. CASE j # i
      BY <1>1, <1>2, <2>2 DEF SameBut
  <2> QED BY <2>1, <2>2
<1>5. ASSUME NEW u, NEW id, IdOf(u, id)
      PROVE  id # i /\ IF u = Main THEN id = INVALID /\ main' ELSE IsUsed(tasks', id) /\ Elem(tasks', id) = u
    BY <1>2, <1>3, <1>5 DEF IdOf, SameBut
<1>6. ASSUME NEW id, Runnable(id)
      PROVE  (id = INVALID /\ main') \/ (id # INVALID /\ IsUsed(tasks', id))
    BY <1>2, <1>6 DEF Runnable, SameBut
<1>7. IsUsed(tasks', i) /\ Elem(tasks', i) = t
    BY <1>2
<1>8. \A u, id : IdOf(u, id) => id # i /\ IdOf(u, id)'
    BY <1>5 DEF IdOf
<1>9. \A id : Runnable(id) => Runnable(id)'
    BY <1>6 DEF Runnable
<1> QED BY <1>1, <1>2, <1>3, <1>4, <1>7, <1>8, <1>9 DEF i

\* spawn: the new task is polled within the poll of the one that spawns it.
LEMMA SpawnLoop ==
    ASSUME LoopInv, NEW t \in Spawned, NEW give, Spawn(t, give)
    PROVE  LoopInv'
<1> DEFINE i == NextIndex(tasks)
           x == [id |-> i, name |-> t]
           m == Len(frames)
<1>1. /\ Polling /\ stack' = Append(stack, current) /\ tasks' = Insert(tasks, t) /\ current' = i
      /\ frames' = Append(frames, x) /\ UNCHANGED <<gate, main, pc, gates, fault, dropped>>
    BY DEF Spawn
<1>2. /\ frames # <<>> /\ m \in Nat /\ m >= 1 /\ current = frames[m].id /\ current \in Int
      /\ pc \in {"wait", "events"} /\ fault = FALSE
    BY <1>1, TopFacts, IdFacts DEF Top, LoopInv
<1>3. /\ TasksTyped' /\ i \in Int /\ (\A u, id : IdOf(u, id) => id # i /\ IdOf(u, id)')
      /\ t # Main /\ IsUsed(tasks', i) /\ Elem(tasks', i) = t
    BY <1>1, SpawnedTask
<1>4. x \in Frames /\ x.id = i /\ x.name = t
    BY <1>3 DEF Frames, Names
<1>5. frames \in Seq(Frames) /\ stack \in Seq(Int) /\ Len(stack) = m - 1
      /\ (\A k \in 1..m - 1 : stack[k] = frames[k].id)
    BY <1>2 DEF LoopInv, LoopTypes, StackOK
<1> HIDE DEF x, i, m
<1>6. /\ frames' \in Seq(Frames) /\ frames' # <<>> /\ Len(frames') = m + 1 /\ frames'[m + 1] = x
      /\ \A k \in 1..m : frames'[k] = frames[k]
    BY <1>1, <1>4, <1>5, AppendProperties DEF m
<1>7. /\ stack' \in Seq(Int) /\ Len(stack') = m /\ stack'[m] = current
      /\ \A k \in 1..m - 1 : stack'[k] = stack[k]
  <2>1. /\ stack' \in Seq(Int) /\ Len(stack') = Len(stack) + 1
        /\ (\A k \in 1..Len(stack) : stack'[k] = stack[k]) /\ stack'[Len(stack) + 1] = current
      BY <1>1, <1>2, <1>5, AppendProperties
  <2>2. Len(stack) + 1 = m
      BY <1>2, <1>5
  <2> QED BY <1>5, <2>1, <2>2
<1>8. LoopTypes'
    BY <1>1, <1>3, <1>6, <1>7 DEF LoopInv, LoopTypes
<1>9. FramesOK'
  <2>1. ASSUME NEW k \in 1..Len(frames')
        PROVE  IdOf(frames[k].name, frames[k].id)' /\ (k # m + 1 => k \in 1..m /\ frames'[k].id # i)
    <3>1. CASE k = m + 1
      <4>1. frames'[k].name = t /\ frames'[k].id = i
          BY <1>4, <1>6, <3>1
      <4> QED BY <1>3, <3>1, <4>1 DEF IdOf
    <3>2. CASE k # m + 1
      <4>1. k \in 1..m
          BY <1>2, <1>6, <3>2
      <4>2. IdOf(frames[k].name, frames[k].id)
          BY <4>1 DEF LoopInv, FramesOK, m
      <4> DEFINE a == frames[k].name
                 b == frames[k].id
      <4>3. IdOf(a, b) /\ frames'[k].name = a /\ frames'[k].id = b
          BY <1>6, <4>1, <4>2
      <4> HIDE DEF a, b
      <4>4. IF a = Main THEN b = INVALID /\ main' ELSE IsUsed(tasks', b) /\ Elem(tasks', b) = a
        <5>1. \A u, id : IdOf(u, id)' <=> IF u = Main THEN id = INVALID /\ main'
                                                      ELSE IsUsed(tasks', id) /\ Elem(tasks', id) = u
            BY DEF IdOf
        <5> QED BY <1>3, <4>3, <5>1
      <4>5. b # i
          BY <1>3, <4>3
      <4> QED BY <4>1, <4>3, <4>4, <4>5 DEF IdOf
    <3> QED BY <3>1, <3>2
  <2>2. ASSUME NEW j \in 1..Len(frames'), NEW k \in 1..Len(frames'), frames'[j].id = frames'[k].id
        PROVE  j = k
    <3>1. frames'[m + 1].id = i
        BY <1>4, <1>6
    <3>2. CASE j = m + 1 \/ k = m + 1
        BY <2>1, <2>2, <3>1, <3>2
    <3>3. CASE j # m + 1 /\ k # m + 1
      <4>1. j \in 1..m /\ k \in 1..m
          BY <2>1, <3>3
      <4> QED BY <1>6, <2>2, <4>1 DEF LoopInv, FramesOK, m
    <3> QED BY <3>2, <3>3
  <2> QED BY <2>1, <2>2 DEF FramesOK
<1>10. StackOK'
  <2>1. \A k \in 1..Len(stack') : stack'[k] = frames'[k].id
    <3> SUFFICES ASSUME NEW k \in 1..m PROVE stack'[k] = frames'[k].id
        BY <1>7
    <3>1. CASE k = m
        BY <1>2, <1>6, <1>7, <3>1 DEF m
    <3>2. CASE k # m
      <4>1. k \in 1..m - 1
          BY <1>2, <3>2
      <4> QED BY <1>5, <1>6, <1>7, <4>1
    <3> QED BY <3>1, <3>2
  <2>2. current' = frames'[Len(frames')].id
      BY <1>1, <1>4, <1>6 DEF i
  <2>3. Len(stack') = Len(frames') - 1
      BY <1>2, <1>6, <1>7
  <2> QED BY <1>6, <2>1, <2>2, <2>3 DEF StackOK
<1>11. GateOK' /\ PcOK' /\ GateHolds'
    BY <1>1, <1>2 DEF LoopInv, GateOK, PcOK, GateHolds
<1>12. NeverWaitsWhenDone'
    BY <1>6 DEF NeverWaitsWhenDone, Between
<1> QED BY <1>8, <1>9, <1>10, <1>11, <1>12 DEF LoopInv

\* A task takes or leaves a gate.
LEMMA GateLoop == ASSUME LoopInv, EnterGate \/ LeaveGate PROVE LoopInv'
<1>1. /\ Polling /\ UNCHANGED <<tasks, current, stack, main, pc, frames, fault, dropped>>
      /\ \/ Top.name \notin gates /\ gate' = gate + 1 /\ gates' = gates \cup {Top.name}
         \/ Top.name \in gates /\ gate' = gate - 1 /\ gates' = gates \ {Top.name}
    BY DEF EnterGate, LeaveGate
<1>2. frames # <<>> /\ pc \in {"wait", "events"}
    BY <1>1, TopFacts
<1>3. GateOK'
    BY <1>1, FS_AddElement, FS_RemoveElement DEF LoopInv, GateOK
<1>4. LoopTypes' /\ FramesOK' /\ StackOK'
    BY <1>1 DEF LoopInv, LoopTypes, TasksTyped, FramesOK, StackOK, IdOf
<1>5. PcOK' /\ GateHolds' /\ NeverWaitsWhenDone'
    BY <1>1, <1>2 DEF LoopInv, PcOK, GateHolds, NeverWaitsWhenDone, Between
<1> QED BY <1>3, <1>4, <1>5 DEF LoopInv

\* EventLoop::clear: no task that holds a gate is left.
LEMMA ClearLoop == ASSUME LoopInv, ClearAll PROVE LoopInv'
<1>1. /\ pc = "stop" /\ frames = <<>> /\ pc' = "done" /\ gates = {}
      /\ dropped' = {<<t, t \in gates>> : t \in Live} /\ tasks' = Clear(tasks)
      /\ gate' = gate - Cardinality(gates \cap Live) /\ gates' = gates \ Live
      /\ current' = INVALID /\ main' = FALSE /\ UNCHANGED <<stack, frames, fault>>
    BY DEF ClearAll, Between, LoopInv, PcOK
<1>2. TasksTyped'
  <2>1. tasks' = tasks \/ tasks' = SlabNew
      BY <1>1 DEF Clear
  <2> QED BY <2>1, NewInOrder DEF LoopInv, LoopTypes, TasksTyped
<1>3. GateOK' /\ gates' = {}
  <2>1. gates' = {} /\ gates \cap Live = {}
      BY <1>1
  <2>2. gate = 0 /\ Cardinality(gates \cap Live) = 0 /\ IsFiniteSet(gates') /\ Cardinality(gates') = 0
      BY <1>1, <2>1, FS_EmptySet DEF LoopInv, GateOK
  <2> QED BY <1>1, <2>1, <2>2 DEF GateOK
<1>4. GateHolds'
  <2> SUFFICES ASSUME NEW d \in dropped' PROVE ~d[2]
      BY DEF GateHolds
  <2>1. PICK t \in Live : d = <<t, t \in gates>>
      BY <1>1
  <2> QED BY <1>1, <2>1
<1>5. frames' = <<>> /\ stack' = <<>> /\ Len(frames') = 0
    BY <1>1 DEF LoopInv, StackOK
<1>6. LoopTypes' /\ StackOK'
    BY <1>1, <1>2, <1>5 DEF LoopInv, LoopTypes, StackOK
<1>7. FramesOK'
    BY <1>5 DEF FramesOK
<1>8. PcOK' /\ NeverWaitsWhenDone'
    BY <1>1, <1>3, <1>5 DEF PcOK, NeverWaitsWhenDone
<1> QED BY <1>3, <1>4, <1>6, <1>7, <1>8 DEF LoopInv

\* Every step keeps what the loop knows.
LEMMA StepLoop == ASSUME LoopInv, [ReactorNext]_rvars PROVE LoopInv'
<1>1. CASE Start \/ Wait \/ NextEvent \/ RunSecond \/ BatchDone \/ Rerun
            \/ \E id \in {INVALID} \cup (0..tasks.n - 1) : TimerRun(id)
    BY <1>1, RunnerLoop
<1>2. CASE ClearAll
    BY <1>2, ClearLoop
<1>3. CASE TaskStep
  <2>1. CASE \E n \in Nios : Open(n) \/ (\E op \in Ops : Schedule(n, op)) \/ CancelWrite(n) \/ DropNio(n)
    <3>1. /\ UNCHANGED <<tasks, current, stack, gate, main, frames, gates, dropped, fault, pc>>
        BY <2>1 DEF Open, Schedule, CancelWrite, DropNio
    <3> QED BY <3>1, QuietLoop DEF LoopInv, LoopTypes
  <2>2. CASE EnterGate \/ LeaveGate
      BY <2>2, GateLoop
  <2>3. CASE \E t \in Spawned, give \in SUBSET Nios : Spawn(t, give)
      BY <2>3, SpawnLoop
  <2>4. CASE NotReady
      BY <2>4, NotReadyLoop
  <2>5. CASE Finish
      BY <2>5, FinishLoop
  <2> QED BY <1>3, <2>1, <2>2, <2>3, <2>4, <2>5 DEF TaskStep
<1>4. CASE UNCHANGED rvars
    BY <1>4, QuietLoop DEF rvars, LoopInv, LoopTypes
<1> QED BY <1>1, <1>2, <1>3, <1>4 DEF ReactorNext

\* The loop knows what it polls and who holds it up, whatever tasks do: there is no
\* hypothesis on the races.
THEOREM LoopInvariance == ReactorSpec => []LoopInv
<1>1. ReactorInit => LoopInv
    BY InitLoop
<1>2. LoopInv /\ [ReactorNext]_rvars => LoopInv'
    BY StepLoop
<1> QED BY <1>1, <1>2, PTL DEF ReactorSpec

\* Inside a poll current_task is the live task being polled, also after the polls of
\* tasks spawned within it, however deep (spawn in src/reactor/eloop.rs).
THEOREM ReactorCurrentIsPolled == ReactorSpec => []CurrentIsPolled
<1>1. LoopInv => CurrentIsPolled
    BY TopFacts DEF CurrentIsPolled
<1> QED BY <1>1, LoopInvariance, PTL

\* The loop never drops a task that holds a gate.
THEOREM ReactorGateHolds == ReactorSpec => []GateHolds
<1>1. LoopInv => GateHolds
    BY DEF LoopInv
<1> QED BY <1>1, LoopInvariance, PTL

\* The loop does not wait for events once the main task and the last gate are gone.
THEOREM ReactorNeverWaitsWhenDone == ReactorSpec => []NeverWaitsWhenDone
<1>1. LoopInv => NeverWaitsWhenDone
    BY DEF LoopInv
<1> QED BY <1>1, LoopInvariance, PTL
----------------------------------------------------------------------------
(* Registered operations name their owner.                                 *)

\* WakesOwner, half by half.
Wakes(n) ==
    /\ IsUsed(schedules, nio[n].token)
    /\ \A m \in Nios \ {n} : nio[m].open => nio[m].token # nio[n].token
    /\ \A op \in nio[n].ops : HalfOK(n, op)

\* The two ways to say it agree.
LEMMA WakesHalves ==
    NioTypes => (WakesOwner <=> \A m \in Nios : nio[m].open => Wakes(m))
<1> SUFFICES ASSUME NioTypes PROVE WakesOwner <=> \A n \in Nios : nio[n].open => Wakes(n)
    OBVIOUS
<1>1. ASSUME NEW n \in Nios
      PROVE  /\ nio[n].ops \subseteq {"R", "W"}
             /\ HalfOK(n, "R") <=> IdOf(nio[n].owner, Elem(schedules, nio[n].token).R)
             /\ HalfOK(n, "W") <=> IdOf(nio[n].owner, Elem(schedules, nio[n].token).W)
    BY DEF NioTypes, Ops, HalfOK, Half, IdIn, IdOf
<1>2. ASSUME NEW n \in Nios
      PROVE  (\A op \in nio[n].ops : HalfOK(n, op))
               <=> /\ "R" \in nio[n].ops => IdOf(nio[n].owner, Elem(schedules, nio[n].token).R)
                   /\ "W" \in nio[n].ops => IdOf(nio[n].owner, Elem(schedules, nio[n].token).W)
    BY <1>1
<1> QED BY <1>2 DEF WakesOwner, Wakes

\* The same after a step.
LEMMA WakesNext == (NioTypes => (WakesOwner <=> \A m \in Nios : nio[m].open => Wakes(m)))'
BY WakesHalves, PTL

\* Tasks keep their indices over a step.
IdKept == \A t, id : IdIn(tasks, main, t, id) => IdIn(tasks', main', t, id)

\* A descriptor stays open over a step, at its index and with its task, and the halves
\* of its schedule that named that task still do.
Keeps(n) ==
    /\ nio'[n].open /\ nio'[n].token = nio[n].token /\ nio'[n].owner = nio[n].owner
    /\ IsUsed(schedules', nio[n].token)
    /\ \A op \in Ops : HalfOK(n, op) => HalfOK(n, op)'

\* A step that opens no descriptor keeps the layer if each one that is open
\* afterwards is where it was and is woken for what it has registered.
LEMMA NioStep ==
    ASSUME NioInv, NioTypes',
           \A n \in Nios : nio'[n].open =>
             /\ nio[n].open /\ nio'[n].token = nio[n].token /\ IsUsed(schedules', nio[n].token)
             /\ \A op \in nio'[n].ops : HalfOK(n, op)'
    PROVE  NioInv'
<1>1. \A n \in Nios : nio[n].open => Wakes(n)
    BY WakesHalves DEF NioInv
<1>2. ASSUME NEW n \in Nios, nio'[n].open PROVE Wakes(n)'
    BY <1>1, <1>2 DEF Wakes
<1> QED BY <1>2, WakesNext DEF NioInv

\* The same when every descriptor open afterwards was kept, with no operation added.
LEMMA NioKept ==
    ASSUME NioInv, NioTypes',
           \A n \in Nios : nio'[n].open => nio[n].open /\ Keeps(n) /\ nio'[n].ops \subseteq nio[n].ops
    PROVE  NioInv'
<1>1. \A n \in Nios : nio[n].open => Wakes(n)
    BY WakesHalves DEF NioInv
<1>2. \A n \in Nios : nio[n].ops \subseteq Ops
    BY DEF NioInv, NioTypes
<1>3. ASSUME NEW n \in Nios, nio'[n].open
      PROVE  /\ nio[n].open /\ nio'[n].token = nio[n].token /\ IsUsed(schedules', nio[n].token)
             /\ \A op \in nio'[n].ops : HalfOK(n, op)'
    BY <1>1, <1>2, <1>3 DEF Keeps, Wakes
<1> QED BY <1>3, NioStep

\* Steps that touch neither descriptors nor schedules.
LEMMA QuietNio ==
    ASSUME NioInv, UNCHANGED <<nio, schedules>>, IdKept
    PROVE  NioInv' /\ \A n \in Nios : nio[n].open => Keeps(n)
<1>1. NioTypes'
    BY DEF NioInv, NioTypes
<1>2. ASSUME NEW n \in Nios, nio[n].open PROVE Keeps(n)
  <2>1. IsUsed(schedules, nio[n].token)
      BY <1>2 DEF NioInv, WakesOwner
  <2>2. ASSUME NEW op \in Ops, HalfOK(n, op) PROVE HalfOK(n, op)'
      BY <2>2 DEF HalfOK, IdKept
  <2> QED BY <1>2, <2>1, <2>2 DEF Keeps
<1> QED BY <1>1, <1>2, NioKept

\* An assignment to a schedule.
LEMMA UpdateSchedule ==
    ASSUME NioTypes, NEW k, IsUsed(schedules, k), NEW s \in Schedules,
           schedules' = Update(schedules, k, s)
    PROVE  /\ InOrder(schedules') /\ \A i : IsUsed(schedules', i) => Elem(schedules', i) \in Schedules
           /\ IsUsed(schedules', k) /\ Elem(schedules', k) = s
           /\ SameBut(schedules, schedules', k)
<1>1. /\ InOrder(schedules') /\ IsUsed(schedules', k) /\ Elem(schedules', k) = s
      /\ SameBut(schedules, schedules', k)
    BY UpdateInOrder DEF NioTypes
<1>2. ASSUME NEW i, IsUsed(schedules', i) PROVE Elem(schedules', i) \in Schedules
  <2>1. CASE i = k
      BY <1>1, <2>1
  <2>2. CASE i # k
      BY <1>1, <1>2, <2>2 DEF SameBut, NioTypes
  <2> QED BY <2>1, <2>2
<1> QED BY <1>1, <1>2

\* get_ready_tasks: the halves the event names become ready.
LEMMA ReadyNio ==
    ASSUME NioInv, IdKept, UNCHANGED nio, NEW k, IsUsed(schedules, k), NEW ev,
           schedules' = Update(schedules, k, Ready(Elem(schedules, k), ev))
    PROVE  NioInv' /\ \A n \in Nios : nio[n].open => Keeps(n)
<1> DEFINE s == Elem(schedules, k)
           r == Ready(s, ev)
<1>1. s \in Schedules
    BY DEF NioInv, NioTypes
<1> HIDE DEF s
<1>2. r \in Schedules /\ r.R = s.R /\ r.W = s.W
    BY <1>1 DEF Ready, Schedules
<1> HIDE DEF r
<1>3. schedules' = Update(schedules, k, r)
    BY DEF r, s
<1>4. /\ InOrder(schedules') /\ (\A i : IsUsed(schedules', i) => Elem(schedules', i) \in Schedules)
      /\ IsUsed(schedules', k) /\ Elem(schedules', k) = r /\ SameBut(schedules, schedules', k)
    BY <1>2, <1>3, UpdateSchedule DEF NioInv
<1>5. NioTypes'
    BY <1>4 DEF NioInv, NioTypes
<1>6. ASSUME NEW n \in Nios, nio[n].open PROVE Keeps(n)
  <2>1. IsUsed(schedules, nio[n].token)
      BY <1>6 DEF NioInv, WakesOwner
  <2>2. IsUsed(schedules', nio[n].token)
      BY <1>4, <2>1 DEF SameBut
  <2>3. ASSUME NEW op \in Ops
        PROVE  Half(Elem(schedules', nio[n].token), op) = Half(Elem(schedules, nio[n].token), op)
    <3>1. CASE nio[n].token = k
        BY <1>2, <1>4, <3>1 DEF Half, s
    <3>2. CASE nio[n].token # k
        BY <1>4, <2>1, <3>2 DEF Half, SameBut
    <3> QED BY <3>1, <3>2
  <2>4. ASSUME NEW op \in Ops, HalfOK(n, op) PROVE HalfOK(n, op)'
      BY <2>3, <2>4 DEF HalfOK, IdKept
  <2> QED BY <1>6, <2>2, <2>4 DEF Keeps
<1> QED BY <1>5, <1>6, NioKept

\* Nio::try_from: the schedule is at an index no descriptor has.
LEMMA OpenNio ==
    ASSUME LoopInv, NioInv, NEW n \in Nios, Open(n)
    PROVE  NioInv' /\ \A m \in Nios : nio[m].open => Keeps(m)
<1> DEFINE k == NextIndex(schedules)
           s == [R |-> current, W |-> current, rr |-> TRUE, wr |-> TRUE]
           x == [open |-> TRUE, owner |-> Top.name, token |-> k, ops |-> {}]
<1>1. /\ Polling /\ ~nio[n].open /\ schedules' = Insert(schedules, s) /\ nio' = [nio EXCEPT ![n] = x]
      /\ UNCHANGED <<tasks, main>>
    BY DEF Open
<1>2. current \in Int /\ Top.name \in Names
    BY <1>1, TopFacts, IdFacts DEF LoopInv, Frames
<1>3. s \in Schedules
    BY <1>2 DEF Schedules
<1>4. /\ InOrder(schedules') /\ k \in Nat /\ ~IsUsed(schedules, k) /\ IsUsed(schedules', k)
      /\ Elem(schedules', k) = s /\ SameBut(schedules, schedules', k)
    BY <1>1, InsertInOrder DEF NioInv, NioTypes
<1> DEFINE NioType == [open : BOOLEAN, owner : Names \cup {NoTask}, token : Int, ops : SUBSET Ops]
<1>5. x \in NioType /\ x.ops = {} /\ x.token = k
    BY <1>2, <1>4
<1> HIDE DEF k, s, x
<1>6. nio \in [Nios -> NioType]
    BY DEF NioInv, NioTypes
<1> HIDE DEF NioType
<1>7. /\ nio' \in [Nios -> NioType] /\ nio'[n] = x
      /\ \A m \in Nios : m # n => nio'[m] = nio[m]
    BY <1>1, <1>5, <1>6
<1>8. NioTypes'
  <2>1. ASSUME NEW i, IsUsed(schedules', i) PROVE Elem(schedules', i) \in Schedules
    <3>1. CASE i = k
        BY <1>3, <1>4, <3>1
    <3>2. CASE i # k
        BY <1>4, <2>1, <3>2 DEF SameBut, NioInv, NioTypes
    <3> QED BY <3>1, <3>2
  <2> QED BY <1>4, <1>7, <2>1 DEF NioTypes, NioType
<1>9. \A m \in Nios : nio[m].open => Wakes(m) /\ m # n /\ nio[m].token # k
    BY <1>1, <1>4, WakesHalves DEF NioInv, Wakes
<1>10. ASSUME NEW m \in Nios, nio[m].open PROVE Keeps(m)
  <2>1. m # n /\ nio[m].token # k /\ IsUsed(schedules, nio[m].token)
      BY <1>9, <1>10 DEF Wakes
  <2>2. /\ IsUsed(schedules', nio[m].token) /\ nio'[m] = nio[m]
        /\ Elem(schedules', nio[m].token) = Elem(schedules, nio[m].token)
      BY <1>4, <1>7, <2>1 DEF SameBut
  <2>3. ASSUME NEW op \in Ops, HalfOK(m, op) PROVE HalfOK(m, op)'
      BY <1>1, <2>2, <2>3 DEF HalfOK
  <2> QED BY <1>10, <2>2, <2>3 DEF Keeps
<1>11. ASSUME NEW m \in Nios, nio'[m].open PROVE Wakes(m)'
  <2>1. CASE m = n
    <3>1. ASSUME NEW j \in Nios \ {n}, nio'[j].open PROVE nio'[j].token # k
        BY <1>7, <1>9, <3>1
    <3> QED BY <1>4, <1>5, <1>7, <2>1, <3>1 DEF Wakes
  <2>2. CASE m # n
    <3>1. nio'[m] = nio[m] /\ nio[m].open /\ Wakes(m) /\ Keeps(m) /\ nio[m].token # k
        BY <1>7, <1>9, <1>10, <1>11, <2>2
    <3>2. nio[m].ops \subseteq Ops
        BY DEF NioInv, NioTypes
    <3>3. ASSUME NEW j \in Nios \ {m}, nio'[j].open PROVE nio'[j].token # nio'[m].token
      <4>1. CASE j = n
          BY <1>5, <1>7, <3>1, <4>1
      <4>2. CASE j # n
          BY <1>7, <3>1, <3>3, <4>2 DEF Wakes
      <4> QED BY <4>1, <4>2
    <3> QED BY <3>1, <3>2, <3>3 DEF Wakes, Keeps
  <2> QED BY <2>1, <2>2
<1> QED BY <1>8, <1>10, <1>11, WakesNext DEF NioInv
\* A step that changes the operations of one descriptor and its schedule.
LEMMA OneNio ==
    ASSUME NioInv, UNCHANGED <<tasks, main>>, NEW n \in Nios, nio[n].open, NEW ops \in SUBSET Ops,
           nio' = [nio EXCEPT ![n].ops = ops],
           NEW s \in Schedules, schedules' = Update(schedules, nio[n].token, s),
           \A op \in Ops : /\ HalfOK(n, op) => IdIn(tasks, main, nio[n].owner, Half(s, op))
                           /\ op \in ops => IdIn(tasks, main, nio[n].owner, Half(s, op))
    PROVE  NioInv' /\ \A m \in Nios : nio[m].open => Keeps(m)
<1> DEFINE NioType == [open : BOOLEAN, owner : Names \cup {NoTask}, token : Int, ops : SUBSET Ops]
           k == nio[n].token
<1>1. nio \in [Nios -> NioType]
    BY DEF NioInv, NioTypes
<1>2. /\ nio' \in [Nios -> NioType]
      /\ nio'[n].open /\ nio'[n].token = k /\ nio'[n].owner = nio[n].owner /\ nio'[n].ops = ops
      /\ \A m \in Nios : m # n => nio'[m] = nio[m]
    BY <1>1
<1>3. \A m \in Nios : nio[m].open => Wakes(m)
    BY WakesHalves DEF NioInv
<1>4. IsUsed(schedules, k)
    BY <1>3 DEF Wakes
<1>5. /\ InOrder(schedules') /\ (\A i : IsUsed(schedules', i) => Elem(schedules', i) \in Schedules)
      /\ IsUsed(schedules', k) /\ Elem(schedules', k) = s /\ SameBut(schedules, schedules', k)
    BY <1>4, UpdateSchedule DEF NioInv
<1>6. NioTypes'
    BY <1>2, <1>5 DEF NioTypes
<1>7. Keeps(n) /\ \A op \in nio'[n].ops : HalfOK(n, op)'
  <2>1. ASSUME NEW op \in Ops
        PROVE  HalfOK(n, op)' <=> IdIn(tasks, main, nio[n].owner, Half(s, op))
      BY <1>2, <1>5 DEF HalfOK
  <2> QED BY <1>2, <1>5, <2>1 DEF Keeps
<1>8. ASSUME NEW m \in Nios, nio[m].open, m # n PROVE Keeps(m) /\ nio'[m] = nio[m]
  <2>1. IsUsed(schedules, nio[m].token) /\ nio[m].token # k /\ nio'[m] = nio[m]
      BY <1>2, <1>3, <1>8 DEF Wakes
  <2>2. IsUsed(schedules', nio[m].token) /\ Elem(schedules', nio[m].token) = Elem(schedules, nio[m].token)
      BY <1>5, <2>1 DEF SameBut
  <2>3. ASSUME NEW op \in Ops, HalfOK(m, op) PROVE HalfOK(m, op)'
      BY <2>1, <2>2, <2>3 DEF HalfOK
  <2> QED BY <1>8, <2>1, <2>2, <2>3 DEF Keeps
<1>9. ASSUME NEW m \in Nios, nio'[m].open
      PROVE  /\ nio[m].open /\ nio'[m].token = nio[m].token /\ IsUsed(schedules', nio[m].token)
             /\ \A op \in nio'[m].ops : HalfOK(m, op)'
  <2>1. CASE m = n
      BY <1>2, <1>5, <1>7, <2>1
  <2>2. CASE m # n
    <3>1. nio[m].open /\ Keeps(m) /\ nio'[m] = nio[m] /\ Wakes(m) /\ nio[m].ops \subseteq Ops
        BY <1>2, <1>3, <1>8, <1>9, <2>2 DEF NioInv, NioTypes
    <3> QED BY <3>1 DEF Keeps, Wakes
  <2> QED BY <2>1, <2>2
<1> QED BY <1>6, <1>7, <1>8, <1>9, NioStep

\* schedule_read and schedule_write, cancel_write.
LEMMA ScheduleNio ==
    ASSUME LoopInv, NioInv, NEW n \in Nios, (\E op \in Ops : Schedule(n, op)) \/ CancelWrite(n)
    PROVE  NioInv' /\ \A m \in Nios : nio[m].open => Keeps(m)
<1> DEFINE s == Elem(schedules, nio[n].token)
<1>1. Polling /\ n \in Owned(Top.name) /\ UNCHANGED <<tasks, main>>
    BY DEF Schedule, CancelWrite
<1>2. nio[n].open /\ nio[n].owner = Top.name /\ nio[n].ops \subseteq Ops
    BY <1>1 DEF Owned, NioInv, NioTypes
<1>3. IdIn(tasks, main, nio[n].owner, current) /\ current \in Int
    BY <1>1, <1>2, TopFacts, IdFacts DEF IdOf, IdIn, LoopInv
<1>4. s \in Schedules
    BY <1>2 DEF NioInv, NioTypes, WakesOwner
<1>5. \A m \in Nios : nio[m].open => Wakes(m)
    BY WakesHalves DEF NioInv
<1>6. CASE CancelWrite(n)
  <2> DEFINE t == [s EXCEPT !.wr = TRUE]
             ops == nio[n].ops \ {"W"}
  <2>1. nio' = [nio EXCEPT ![n].ops = ops] /\ schedules' = Update(schedules, nio[n].token, t)
      BY <1>6 DEF CancelWrite
  <2>2. t \in Schedules /\ (\A op \in Ops : Half(t, op) = Half(s, op)) /\ ops \in SUBSET Ops
    <3> HIDE DEF s
    <3> QED BY <1>2, <1>4 DEF Schedules, Half
  <2>3. \A op \in ops : HalfOK(n, op)
      BY <1>2, <1>5 DEF Wakes
  <2> HIDE DEF t, ops
  <2>4. ASSUME NEW op \in Ops
        PROVE  /\ HalfOK(n, op) => IdIn(tasks, main, nio[n].owner, Half(t, op))
               /\ op \in ops => IdIn(tasks, main, nio[n].owner, Half(t, op))
      BY <2>2, <2>3 DEF HalfOK, s
  <2> HIDE DEF s
  <2> QED BY <1>1, <1>2, <2>1, <2>2, <2>4, OneNio
<1>7. CASE \E op \in Ops : Schedule(n, op)
  <2>1. PICK o \in Ops : Schedule(n, o)
      BY <1>7
  <2> DEFINE t == IF o = "R" THEN [s EXCEPT !.R = current, !.rr = FALSE]
                             ELSE [s EXCEPT !.W = current, !.wr = FALSE]
             ops == nio[n].ops \cup {o}
  <2>2. nio' = [nio EXCEPT ![n].ops = ops] /\ schedules' = Update(schedules, nio[n].token, t)
      BY <2>1 DEF Schedule
  <2>3. /\ t \in Schedules /\ Half(t, o) = current /\ ops \in SUBSET Ops
        /\ \A op \in Ops : op # o => Half(t, op) = Half(s, op)
    <3> HIDE DEF s
    <3> QED BY <1>2, <1>3, <1>4 DEF Schedules, Half, Ops
  <2>4. \A op \in ops : op # o => HalfOK(n, op)
      BY <1>2, <1>5 DEF Wakes
  <2> HIDE DEF t, ops
  <2>5. ASSUME NEW op \in Ops
        PROVE  /\ HalfOK(n, op) => IdIn(tasks, main, nio[n].owner, Half(t, op))
               /\ op \in ops => IdIn(tasks, main, nio[n].owner, Half(t, op))
      BY <1>3, <2>3, <2>4 DEF HalfOK, s
  <2> HIDE DEF s
  <2> QED BY <1>1, <1>2, <2>2, <2>3, <2>5, OneNio
<1> QED BY <1>6, <1>7

\* Descriptors are dropped: those that stay keep their schedules, if their tasks stay.
LEMMA DropsNio ==
    ASSUME NioInv, NEW ns \in SUBSET Nios, \A n \in ns : nio[n].open, DropNios(ns),
           \A n \in Nios \ ns : \A id :
             nio[n].open /\ IdIn(tasks, main, nio[n].owner, id) => IdIn(tasks', main', nio[n].owner, id)
    PROVE  NioInv' /\ \A n \in Nios \ ns : nio[n].open => Keeps(n)
<1> DEFINE NioType == [open : BOOLEAN, owner : Names \cup {NoTask}, token : Int, ops : SUBSET Ops]
           T == {nio[n].token : n \in ns}
<1>1. schedules' = RemoveAll(schedules, T)
    BY DEF DropNios, RemoveAll
<1>2. IsFiniteSet(T)
  <2> DEFINE f == [n \in ns |-> nio[n].token]
  <2>1. IsFiniteSet(ns)
      BY ReactorAssumption, FS_Subset DEF ReactorAssumption
  <2>2. f \in Surjection(ns, T)
      BY DEF Surjection
  <2> HIDE DEF f, T
  <2> QED BY <2>1, <2>2, FS_Surjection
<1>3. /\ InOrder(schedules')
      /\ \A j : IsUsed(schedules', j) <=> IsUsed(schedules, j) /\ j \notin T
      /\ \A j : IsUsed(schedules', j) => Elem(schedules', j) = Elem(schedules, j)
  <2> HIDE DEF T
  <2> QED BY <1>1, <1>2, RemoveAllInOrder DEF NioInv, NioTypes
<1>4. nio \in [Nios -> NioType] /\ Closed \in NioType /\ Closed.open = FALSE
    BY DEF NioInv, NioTypes, Closed, INVALID, INVALID_INDEX
<1> HIDE DEF NioType
<1>5. nio' \in [Nios -> NioType] /\ \A n \in Nios : nio'[n] = IF n \in ns THEN Closed ELSE nio[n]
    BY <1>4 DEF DropNios
<1>6. NioTypes'
    BY <1>3, <1>5 DEF NioTypes, NioInv, NioType
<1>7. ASSUME NEW n \in Nios \ ns, nio[n].open PROVE Keeps(n) /\ nio'[n] = nio[n]
  <2>1. /\ IsUsed(schedules, nio[n].token)
        /\ \A m \in Nios \ {n} : nio[m].open => nio[m].token # nio[n].token
      BY <1>7 DEF NioInv, WakesOwner
  <2>2. nio[n].token \notin T
      BY <2>1
  <2>3. /\ IsUsed(schedules', nio[n].token) /\ nio'[n] = nio[n]
        /\ Elem(schedules', nio[n].token) = Elem(schedules, nio[n].token)
    <3> HIDE DEF T
    <3> QED BY <1>3, <1>5, <2>1, <2>2
  <2>4. ASSUME NEW op \in Ops, HalfOK(n, op) PROVE HalfOK(n, op)'
      BY <1>7, <2>3, <2>4 DEF HalfOK
  <2> QED BY <1>7, <2>3, <2>4 DEF Keeps
<1>8. ASSUME NEW n \in Nios, nio'[n].open
      PROVE  nio[n].open /\ Keeps(n) /\ nio'[n].ops \subseteq nio[n].ops
  <2>1. n \notin ns /\ nio[n].open
      BY <1>4, <1>5, <1>8
  <2> QED BY <1>7, <2>1
<1> QED BY <1>6, <1>7, <1>8, NioKept

\* spawn: a descriptor that is given away has nothing registered.
LEMMA SpawnNio ==
    ASSUME LoopInv, NioInv, "move" \notin Races, NEW t \in Spawned, NEW give \in SUBSET Nios, Spawn(t, give)
    PROVE  NioInv' /\ \A n \in Nios \ give : nio[n].open => Keeps(n)
<1> DEFINE NioType == [open : BOOLEAN, owner : Names \cup {NoTask}, token : Int, ops : SUBSET Ops]
<1>1. /\ tasks' = Insert(tasks, t) /\ UNCHANGED <<main, schedules>> /\ (\A n \in give : nio[n].ops = {})
      /\ nio' = [n \in Nios |-> IF n \in give THEN [nio[n] EXCEPT !.owner = t] ELSE nio[n]]
    BY DEF Spawn
<1>2. IdKept
  <2>1. \A u, id : IdOf(u, id) => id # NextIndex(tasks) /\ IdOf(u, id)'
      BY <1>1, SpawnedTask
  <2> QED BY <2>1 DEF IdKept, IdOf, IdIn
<1>3. nio \in [Nios -> NioType] /\ t \in Names
    BY DEF NioInv, NioTypes, Names
<1>4. \A n \in Nios : /\ nio'[n] \in NioType /\ nio'[n].open = nio[n].open
                      /\ nio'[n].token = nio[n].token /\ nio'[n].ops = nio[n].ops
                      /\ n \notin give => nio'[n].owner = nio[n].owner
    BY <1>1, <1>3
<1>5. NioTypes'
  <2>1. nio' \in [Nios -> NioType]
      BY <1>1, <1>4
  <2> QED BY <1>1, <2>1 DEF NioTypes, NioInv
<1>6. \A n \in Nios : nio[n].open => Wakes(n)
    BY WakesHalves DEF NioInv
<1>7. ASSUME NEW n \in Nios \ give, nio[n].open PROVE Keeps(n)
  <2>1. ASSUME NEW op \in Ops, HalfOK(n, op) PROVE HalfOK(n, op)'
      BY <1>1, <1>2, <1>4, <2>1 DEF HalfOK, IdKept
  <2>2. IsUsed(schedules', nio[n].token)
      BY <1>1, <1>6, <1>7 DEF Wakes
  <2> QED BY <1>4, <1>7, <2>1, <2>2 DEF Keeps
<1>8. ASSUME NEW n \in Nios, nio'[n].open
      PROVE  /\ nio[n].open /\ nio'[n].token = nio[n].token /\ IsUsed(schedules', nio[n].token)
             /\ \A op \in nio'[n].ops : HalfOK(n, op)'
  <2>1. nio[n].open /\ IsUsed(schedules', nio[n].token)
      BY <1>1, <1>4, <1>6, <1>8 DEF Wakes
  <2>2. CASE n \in give
      BY <1>1, <1>4, <2>1, <2>2
  <2>3. CASE n \notin give
    <3>1. nio[n].ops \subseteq Ops /\ Keeps(n) /\ Wakes(n)
        BY <1>6, <1>7, <2>1, <2>3 DEF NioInv, NioTypes
    <3> QED BY <1>4, <2>1, <3>1 DEF Keeps, Wakes
  <2> QED BY <2>2, <2>3
<1> QED BY <1>5, <1>7, <1>8, NioStep
\* The innermost task ends with its descriptors.
LEMMA FinishNio ==
    ASSUME LoopInv, NioInv, Finish
    PROVE  NioInv' /\ \A n \in Nios \ Owned(Top.name) : nio[n].open => Keeps(n)
<1> DEFINE ns == Owned(Top.name)
<1>1. /\ Polling /\ DropNios(ns) /\ tasks' = (IF Top.id = INVALID THEN tasks ELSE Remove(tasks, Top.id))
      /\ main' = (main /\ Top.id # INVALID)
    BY DEF Finish
<1>2. ns \in SUBSET Nios /\ (\A n \in ns : nio[n].open)
      /\ (\A n \in Nios \ ns : nio[n].open => nio[n].owner # Top.name)
    BY DEF Owned
<1>3. \A t, id : IdOf(t, id) /\ (t # Top.name \/ id # Top.id) => IdOf(t, id)'
    BY <1>1, EndedTask
<1>4. \A t, id : t # Top.name /\ IdIn(tasks, main, t, id) => IdIn(tasks', main', t, id)
    BY <1>3 DEF IdOf, IdIn
<1> HIDE DEF ns
<1>5. \A n \in Nios \ ns : \A id :
        nio[n].open /\ IdIn(tasks, main, nio[n].owner, id) => IdIn(tasks', main', nio[n].owner, id)
    BY <1>2, <1>4
<1>6. NioInv' /\ \A n \in Nios \ ns : nio[n].open => Keeps(n)
    BY <1>1, <1>2, <1>5, DropsNio
<1> QED BY <1>6 DEF ns

\* A task drops a descriptor.
LEMMA DropNioNio ==
    ASSUME NioInv, NEW n \in Nios, DropNio(n)
    PROVE  NioInv' /\ \A m \in Nios \ {n} : nio[m].open => Keeps(m)
<1>1. DropNios({n}) /\ nio[n].open /\ UNCHANGED <<tasks, main>>
    BY DEF DropNio, Owned
<1> QED BY <1>1, DropsNio

\* The tasks keep their indices in the steps of the loop.
LEMMA RunnerIds ==
    ASSUME UNCHANGED <<tasks, main>> \/ (UNCHANGED tasks /\ main' = TRUE)
    PROVE  IdKept
BY DEF IdKept, IdIn

\* Every step keeps the layer, if a descriptor that is scheduled stays with its task.
LEMMA StepNio == ASSUME LoopInv, NioInv, "move" \notin Races, [ReactorNext]_rvars PROVE NioInv'
<1>1. CASE Start \/ Wait \/ RunSecond \/ BatchDone \/ EnterGate \/ LeaveGate \/ NotReady
            \/ \E id \in {INVALID} \cup (0..tasks.n - 1) : TimerRun(id)
  <2>1. UNCHANGED <<nio, schedules, tasks, main>>
      BY <1>1 DEF Start, Wait, RunSecond, BatchDone, EnterGate, LeaveGate, NotReady, TimerRun
  <2> QED BY <2>1, RunnerIds, QuietNio
<1>2. CASE Rerun
  <2>1. UNCHANGED <<nio, schedules, tasks>> /\ main' = TRUE
      BY <1>2 DEF Rerun
  <2> QED BY <2>1, RunnerIds, QuietNio
<1>3. CASE NextEvent
  <2> DEFINE e == Head(batch)
  <2>1. UNCHANGED <<nio, tasks, main>> /\ IdKept
      BY <1>3, RunnerIds DEF NextEvent
  <2>2. CASE ~IsUsed(schedules, e.token)
      BY <1>3, <2>1, <2>2, QuietNio DEF NextEvent
  <2>3. CASE IsUsed(schedules, e.token)
    <3>1. schedules' = Update(schedules, e.token, Ready(Elem(schedules, e.token), e.ev))
        BY <1>3, <2>3 DEF NextEvent
    <3> HIDE DEF e
    <3> QED BY <2>1, <2>3, <3>1, ReadyNio
  <2> QED BY <2>2, <2>3
<1>4. CASE ClearAll
  <2> DEFINE ns == {n \in Nios : nio[n].open}
  <2>1. DropNios(ns)
      BY <1>4 DEF ClearAll
  <2>2. ns \in SUBSET Nios /\ (\A n \in ns : nio[n].open) /\ (\A n \in Nios \ ns : ~nio[n].open)
      OBVIOUS
  <2> HIDE DEF ns
  <2> QED BY <2>1, <2>2, DropsNio
<1>5. CASE \E n \in Nios : Open(n)
    BY <1>5, OpenNio
<1>6. CASE \E n \in Nios : (\E op \in Ops : Schedule(n, op)) \/ CancelWrite(n)
    BY <1>6, ScheduleNio
<1>7. CASE \E n \in Nios : DropNio(n)
    BY <1>7, DropNioNio
<1>8. CASE \E t \in Spawned, give \in SUBSET Nios : Spawn(t, give)
    BY <1>8, SpawnNio
<1>9. CASE Finish
    BY <1>9, FinishNio
<1>10. CASE UNCHANGED rvars
  <2>1. UNCHANGED <<nio, schedules, tasks, main>>
      BY <1>10 DEF rvars
  <2> QED BY <2>1, RunnerIds, QuietNio
<1> QED BY <1>1, <1>2, <1>3, <1>4, <1>5, <1>6, <1>7, <1>8, <1>9, <1>10 DEF ReactorNext, TaskStep

\* No descriptor is open.
LEMMA InitNio == ReactorInit => NioInv
<1> SUFFICES ASSUME ReactorInit PROVE NioInv
    OBVIOUS
<1>1. \A n \in Nios : nio[n] = Closed
    BY DEF ReactorInit
<1>2. Closed \in [open : BOOLEAN, owner : Names \cup {NoTask}, token : Int, ops : SUBSET Ops] /\ ~Closed.open
    BY DEF Closed, INVALID, INVALID_INDEX
<1>3. NioTypes
  <2>1. InOrder(schedules) /\ \A i : ~IsUsed(schedules, i)
      BY NewInOrder DEF ReactorInit
  <2> QED BY <1>2, <2>1 DEF NioTypes, ReactorInit
<1>4. WakesOwner
    BY <1>1, <1>2 DEF WakesOwner
<1> QED BY <1>3, <1>4 DEF NioInv

\* An event wakes the task that waits for it, whatever tasks were spawned, ended and
\* replaced in their slots meanwhile (src/sys/unix/linux/nio_imp.rs, src/sys/eloop.rs):
\* a program may do anything but give a descriptor away while it is scheduled.
THEOREM ReactorWakesOwner ==
    ASSUME "move" \notin Races
    PROVE  ReactorSpec => []WakesOwner
<1>1. ReactorInit => NioInv
    BY InitNio
<1>2. LoopInv /\ NioInv /\ [ReactorNext]_rvars => NioInv'
    BY StepNio
<1>3. ReactorSpec => []NioInv
    BY <1>1, <1>2, LoopInvariance, PTL DEF ReactorSpec
<1>4. NioInv => WakesOwner
    BY DEF NioInv
<1> QED BY <1>3, <1>4, PTL

----------------------------------------------------------------------------
(* The events left in a batch.                                             *)

Events == [token : Int, ev : SUBSET Ops]

\* An index that names the owner of a descriptor can be run.
LEMMA IdRunnable ==
    ASSUME LoopInv, NEW t, NEW id, IdIn(tasks, main, t, id)
    PROVE  Runnable(id)
<1>1. CASE t = Main
    BY <1>1 DEF IdIn, Runnable
<1>2. CASE t # Main
    BY <1>2, UsedIndex DEF IdIn, Runnable, LoopInv, LoopTypes, TasksTyped
<1> QED BY <1>1, <1>2

\* A step that leaves some events of the batch, keeps their descriptors, and leaves
\* the second task of a pair runnable.
LEMMA BatchKept ==
    ASSUME BatchInv, batch' \in Seq(Events), fault' = fault,
           \A k \in 1..Len(batch') : \E j \in 1..Len(batch) : batch'[k] = batch[j],
           \A n \in Nios : nio[n].open /\ InBatch(n) => Keeps(n),
           second' # NoTask => Runnable(second)'
    PROVE  BatchInv'
<1>1. batch \in Seq(Events) /\ DOMAIN batch = 1..Len(batch)
    BY LenProperties DEF BatchInv, BatchOK, Events
<1>2. ASSUME NEW k \in 1..Len(batch')
      PROVE  \E n \in Nios : /\ nio'[n].open /\ nio'[n].token = batch'[k].token
                             /\ \A op \in Halves(batch'[k].ev) : HalfOK(n, op)'
  <2>1. PICK j \in 1..Len(batch) : batch'[k] = batch[j]
      OBVIOUS
  <2> DEFINE e == batch[j]
  <2>2. e \in Events
      BY <1>1, ElementOfSeq
  <2>3. PICK n \in Nios : /\ nio[n].open /\ nio[n].token = e.token
                          /\ \A op \in Halves(e.ev) : HalfOK(n, op)
      BY DEF BatchInv, BatchOK, EventOK
  <2>4. InBatch(n)
      BY <1>1, <2>3 DEF InBatch
  <2>5. Keeps(n)
      BY <2>3, <2>4
  <2>6. Halves(e.ev) \subseteq Ops
    <3> HIDE DEF e
    <3> QED BY <2>2 DEF Events, Halves, Ops
  <2> QED BY <2>1, <2>3, <2>5, <2>6 DEF Keeps
<1>3. \A k \in 1..Len(batch') : EventOK(batch[k])'
    BY <1>2 DEF EventOK
<1> QED BY <1>3 DEF BatchInv, BatchOK, Events

\* The same when the batch and the second task are untouched.
LEMMA BatchUntouched ==
    ASSUME BatchInv, UNCHANGED <<batch, second, fault>>,
           \A n \in Nios : nio[n].open /\ InBatch(n) => Keeps(n),
           \A id : id = second /\ Runnable(id) => Runnable(id)'
    PROVE  BatchInv'
<1>1. batch' \in Seq(Events) /\ fault' = fault
    BY DEF BatchInv, BatchOK, Events
<1>2. \A k \in 1..Len(batch') : \E j \in 1..Len(batch) : batch'[k] = batch[j]
    OBVIOUS
<1>3. second' # NoTask => Runnable(second)'
    BY DEF BatchInv, BatchOK, Runnable
<1> QED BY <1>1, <1>2, <1>3, BatchKept

\* inner.poll: the events are of descriptors that are open, and of operations that are
\* registered or, when epoll reports a hang-up only, of the write that is registered.
LEMMA WaitBatch ==
    ASSUME NioInv, BatchInv, Races = {}, Wait
    PROVE  BatchInv'
<1> DEFINE opened == {n \in Nios : nio[n].open}
<1>a. PICK k \in 1..MaxEvents : \E order \in [1..k -> opened] : \E ev \in [1..k -> SUBSET Ops] :
         /\ \A i \in 1..k : ev[i] \in Reports(order[i])
         /\ batch' = [i \in 1..k |-> [token |-> nio[order[i]].token, ev |-> ev[i]]]
    BY DEF Wait
<1>b. PICK order \in [1..k -> opened] : \E ev \in [1..k -> SUBSET Ops] :
         /\ \A i \in 1..k : ev[i] \in Reports(order[i])
         /\ batch' = [i \in 1..k |-> [token |-> nio[order[i]].token, ev |-> ev[i]]]
    BY <1>a
<1>1. PICK ev \in [1..k -> SUBSET Ops] :
         /\ \A i \in 1..k : ev[i] \in Reports(order[i])
         /\ batch' = [i \in 1..k |-> [token |-> nio[order[i]].token, ev |-> ev[i]]]
    BY <1>b
<1>2. UNCHANGED <<tasks, main, nio, schedules, second, fault>>
    BY DEF Wait
<1>3. k \in Nat
    BY ReactorAssumption DEF ReactorAssumption
<1>4. ASSUME NEW i \in 1..k
      PROVE  /\ order[i] \in Nios /\ nio[order[i]].open /\ batch'[i] \in Events
             /\ batch'[i].token = nio[order[i]].token /\ batch'[i].ev = ev[i]
             /\ Halves(ev[i]) \subseteq nio[order[i]].ops
  <2>1. order[i] \in Nios /\ nio[order[i]].open /\ ev[i] \in SUBSET Ops
      OBVIOUS
  <2>2. nio[order[i]].token \in Int /\ nio[order[i]].ops \subseteq Ops
      BY <2>1 DEF NioInv, NioTypes
  <2>3. batch'[i] = [token |-> nio[order[i]].token, ev |-> ev[i]]
      BY <1>1
  <2>4. Halves(ev[i]) \subseteq nio[order[i]].ops
      BY <1>1, <2>2 DEF Reports, Halves, Ops
  <2> QED BY <2>1, <2>2, <2>3, <2>4 DEF Events
<1>5. batch' \in Seq(Events) /\ Len(batch') = k
  <2>1. batch' \in [1..k -> Events]
      BY <1>1, <1>4
  <2> QED BY <1>3, <2>1, IsASeq, LenProperties
<1>6. \A n \in Nios : nio[n].open => Wakes(n)
    BY WakesHalves DEF NioInv
<1>7. ASSUME NEW i \in 1..Len(batch') PROVE EventOK(batch[i])'
  <2>1. i \in 1..k
      BY <1>5
  <2>2. \A op \in Halves(batch'[i].ev) : HalfOK(order[i], op)
      BY <1>4, <1>6, <2>1 DEF Wakes
  <2>3. \A op \in Halves(batch'[i].ev) :
          IdIn(tasks', main', nio'[order[i]].owner, Half(Elem(schedules', nio'[order[i]].token), op))
      BY <1>2, <2>2 DEF HalfOK
  <2> QED BY <1>2, <1>4, <2>1, <2>3 DEF EventOK, HalfOK
<1>8. second' # NoTask => Runnable(second)'
    BY <1>2 DEF BatchInv, BatchOK, Runnable
<1> QED BY <1>2, <1>5, <1>7, <1>8 DEF BatchInv, BatchOK, Events

\* A task that can be run is run.
LEMMA RunRunnable ==
    ASSUME NEW id, Run(id), Runnable(id)
    PROVE  fault' = fault
BY DEF Run, Runnable

\* get_ready_tasks: the event finds its schedule, the schedule its tasks.
LEMMA NextEventBatch ==
    ASSUME LoopInv, NioInv, BatchInv, NextEvent
    PROVE  BatchInv'
<1> DEFINE e == Head(batch)
           s == Elem(schedules, e.token)
           id == IF "R" \in e.ev THEN s.R ELSE s.W
<1>1. batch # <<>> /\ batch' = Tail(batch) /\ UNCHANGED <<tasks, main, nio>>
    BY DEF NextEvent
<1>2. batch \in Seq(Events) /\ (\A k \in 1..Len(batch) : EventOK(batch[k])) /\ ~fault
    BY DEF BatchInv, BatchOK, Events
<1>3. /\ Len(batch) \in Nat /\ Len(batch) >= 1 /\ batch[1] = e /\ e \in Events
      /\ batch' \in Seq(Events) /\ Len(batch') = Len(batch) - 1
      /\ \A k \in 1..Len(batch) - 1 : batch'[k] = batch[k + 1]
    BY <1>1, <1>2, TailFacts
<1> HIDE DEF e
<1>4. \A k \in 1..Len(batch') : \E j \in 1..Len(batch) : batch'[k] = batch[j]
  <2> SUFFICES ASSUME NEW k \in 1..Len(batch') PROVE k + 1 \in 1..Len(batch) /\ batch'[k] = batch[k + 1]
      OBVIOUS
  <2> QED BY <1>3
<1>5. EventOK(e)
  <2>1. 1 \in 1..Len(batch)
      BY <1>3
  <2> QED BY <1>2, <1>3, <2>1
<1>6. PICK n \in Nios : nio[n].open /\ nio[n].token = e.token /\ \A op \in Halves(e.ev) : HalfOK(n, op)
    BY <1>5 DEF EventOK
<1>7. IsUsed(schedules, e.token)
    BY <1>6 DEF NioInv, WakesOwner
<1>8. \A op \in Halves(e.ev) : Runnable(Half(s, op))
    BY <1>6, IdRunnable DEF HalfOK
<1>9. /\ schedules' = Update(schedules, e.token, Ready(s, e.ev)) /\ Run(id)
      /\ second' = IF e.ev = Ops THEN s.W ELSE NoTask
    BY <1>7 DEF NextEvent, e
<1> HIDE DEF s
<1>10. e.ev \subseteq {"R", "W"}
    BY <1>3 DEF Events, Ops
<1>11. Runnable(id)
  <2>1. CASE "R" \in e.ev
    <3>1. "R" \in Halves(e.ev) /\ Half(s, "R") = s.R /\ id = s.R
        BY <2>1 DEF Halves, Half
    <3> HIDE DEF id
    <3> QED BY <1>8, <3>1
  <2>2. CASE "R" \notin e.ev
    <3>1. "W" \in Halves(e.ev) /\ Half(s, "W") = s.W /\ id = s.W
        BY <1>10, <2>2 DEF Halves, Half
    <3> HIDE DEF id
    <3> QED BY <1>8, <3>1
  <2> QED BY <2>1, <2>2
<1> HIDE DEF id
<1>12. fault' = fault
    BY <1>9, <1>11, RunRunnable
<1>13. second' # NoTask => Runnable(second)'
  <2> SUFFICES ASSUME second' # NoTask PROVE Runnable(second)'
      OBVIOUS
  <2>1. e.ev = Ops /\ second' = s.W
      BY <1>9
  <2>2. "W" \in Halves(e.ev) /\ Half(s, "W") = s.W
      BY <2>1 DEF Halves, Half, Ops
  <2>3. Runnable(s.W)
      BY <1>8, <2>2
  <2> QED BY <1>1, <2>1, <2>3 DEF Runnable
<1>14. \A m \in Nios : nio[m].open => Keeps(m)
  <2>1. IdKept
      BY <1>1, RunnerIds
  <2> QED BY <1>1, <1>7, <1>9, <2>1, ReadyNio DEF s
<1> QED BY <1>3, <1>4, <1>12, <1>13, <1>14, BatchKept

\* The steps that touch neither descriptors nor schedules nor tasks.
LEMMA QuietBatch ==
    ASSUME NioInv, BatchInv,
           \/ Start \/ RunSecond \/ BatchDone \/ EnterGate \/ LeaveGate \/ NotReady \/ Rerun
           \/ UNCHANGED rvars \/ (\E id \in {INVALID} \cup (0..tasks.n - 1) : TimerRun(id))
    PROVE  BatchInv'
<1>1. UNCHANGED <<nio, schedules, tasks, batch>> /\ (main' = main \/ main' = TRUE)
    BY DEF Start, RunSecond, BatchDone, EnterGate, LeaveGate, NotReady, Rerun, TimerRun, rvars
<1>2. \A n \in Nios : nio[n].open => Keeps(n)
  <2>1. IdKept
      BY <1>1, RunnerIds
  <2> QED BY <1>1, <2>1, QuietNio
<1>3. \A id : Runnable(id) => (id = INVALID /\ main') \/ (id # INVALID /\ IsUsed(tasks', id))
    BY <1>1 DEF Runnable
<1>4. fault' = fault /\ (second' = second \/ second' = NoTask)
  <2>1. CASE RunSecond
    <3>1. Run(second) /\ Runnable(second) /\ second' = NoTask
        BY <2>1 DEF RunSecond, BatchInv, BatchOK
    <3> QED BY <3>1, RunRunnable
  <2>2. CASE \E id \in {INVALID} \cup (0..tasks.n - 1) : TimerRun(id)
    <3>1. PICK id : TimerRun(id) /\ id \in {INVALID} \cup (0..tasks.n - 1)
        BY <2>2
    <3>2. IsUsed(tasks, id) => id # INVALID
        BY DEF IsUsed, INVALID, INVALID_INDEX
    <3>3. Run(id) /\ Runnable(id) /\ second' = second
        BY <3>1, <3>2 DEF TimerRun, Runnable
    <3> QED BY <3>3, RunRunnable
  <2>3. CASE Start \/ BatchDone \/ EnterGate \/ LeaveGate \/ NotReady \/ Rerun \/ UNCHANGED rvars
      BY <2>3 DEF Start, BatchDone, EnterGate, LeaveGate, NotReady, Rerun, rvars
  <2> QED BY <2>1, <2>2, <2>3
<1>5. batch' \in Seq(Events) /\ \A k \in 1..Len(batch') : \E j \in 1..Len(batch) : batch'[k] = batch[j]
    BY <1>1 DEF BatchInv, BatchOK, Events
<1>6. second' # NoTask => Runnable(second)'
  <2> SUFFICES ASSUME second' # NoTask PROVE Runnable(second)'
      OBVIOUS
  <2>1. second' = second /\ Runnable(second)
      BY <1>4 DEF BatchInv, BatchOK
  <2> QED BY <1>3, <2>1 DEF Runnable
<1> QED BY <1>2, <1>4, <1>5, <1>6, BatchKept

\* What a task does with descriptors of its own, while none that is left in the batch
\* goes away.
LEMMA NioBatch ==
    ASSUME LoopInv, NioInv, BatchInv, Races = {}, NEW n \in Nios,
           Open(n) \/ (\E op \in Ops : Schedule(n, op)) \/ CancelWrite(n) \/ DropNio(n)
    PROVE  BatchInv'
<1>1. UNCHANGED <<batch, second, fault, tasks, main>>
    BY DEF Open, Schedule, CancelWrite, DropNio
<1>2. \A id : id = second /\ Runnable(id) => Runnable(id)'
    BY <1>1 DEF Runnable
<1>3. \A m \in Nios : nio[m].open /\ InBatch(m) => Keeps(m)
  <2>1. CASE Open(n)
      BY <2>1, OpenNio
  <2>2. CASE (\E op \in Ops : Schedule(n, op)) \/ CancelWrite(n)
      BY <2>2, ScheduleNio
  <2>3. CASE DropNio(n)
    <3>1. ~InBatch(n)
        BY <2>3 DEF DropNio
    <3> QED BY <2>3, <3>1, DropNioNio
  <2> QED BY <2>1, <2>2, <2>3
<1> QED BY <1>1, <1>2, <1>3, BatchUntouched

\* spawn: no descriptor that is left in the batch is given away.
LEMMA SpawnBatch ==
    ASSUME LoopInv, NioInv, BatchInv, Races = {}, NEW t \in Spawned, NEW give \in SUBSET Nios,
           Spawn(t, give)
    PROVE  BatchInv'
<1>1. /\ UNCHANGED <<batch, second, fault, main>> /\ tasks' = Insert(tasks, t)
      /\ \A n \in give : ~InBatch(n)
    BY DEF Spawn
<1>2. \A id : Runnable(id) => Runnable(id)'
    BY <1>1, SpawnedTask
<1>3. \A m \in Nios : nio[m].open /\ InBatch(m) => Keeps(m)
    BY <1>1, SpawnNio
<1> QED BY <1>1, <1>2, <1>3, BatchUntouched

\* The innermost task ends: it is not the second of the pair, and no descriptor of its
\* own is left in the batch.
LEMMA FinishBatch ==
    ASSUME LoopInv, NioInv, BatchInv, Races = {}, Finish
    PROVE  BatchInv'
<1>1. /\ UNCHANGED <<batch, second, fault>> /\ Polling /\ second # Top.id
      /\ tasks' = (IF Top.id = INVALID THEN tasks ELSE Remove(tasks, Top.id))
      /\ main' = (main /\ Top.id # INVALID)
      /\ \A n \in Owned(Top.name) : ~InBatch(n)
    BY DEF Finish
<1>2. \A id : Runnable(id) /\ id # Top.id => Runnable(id)'
    BY <1>1, EndedTask
<1>3. \A m \in Nios : nio[m].open /\ InBatch(m) => Keeps(m)
    BY <1>1, FinishNio
<1> QED BY <1>1, <1>2, <1>3, BatchUntouched

\* EventLoop::clear: nothing is left to handle.
LEMMA ClearBatch == ASSUME BatchInv, ClearAll PROVE BatchInv'
<1>1. batch' = <<>> /\ Len(batch') = 0 /\ second' = NoTask /\ fault' = fault
    BY DEF ClearAll
<1> QED BY <1>1 DEF BatchInv, BatchOK

\* Every step keeps the layer, if tasks keep clear of the races.
LEMMA StepBatch ==
    ASSUME LoopInv, NioInv, BatchInv, Races = {}, [ReactorNext]_rvars
    PROVE  BatchInv'
<1>1. CASE \/ Start \/ RunSecond \/ BatchDone \/ EnterGate \/ LeaveGate \/ NotReady \/ Rerun
           \/ UNCHANGED rvars \/ (\E id \in {INVALID} \cup (0..tasks.n - 1) : TimerRun(id))
    BY <1>1, QuietBatch
<1>2. CASE Wait
    BY <1>2, WaitBatch
<1>3. CASE NextEvent
    BY <1>3, NextEventBatch
<1>4. CASE ClearAll
    BY <1>4, ClearBatch
<1>5. CASE \E n \in Nios : Open(n) \/ (\E op \in Ops : Schedule(n, op)) \/ CancelWrite(n) \/ DropNio(n)
    BY <1>5, NioBatch
<1>6. CASE \E t \in Spawned, give \in SUBSET Nios : Spawn(t, give)
    BY <1>6, SpawnBatch
<1>7. CASE Finish
    BY <1>7, FinishBatch
<1> QED BY <1>1, <1>2, <1>3, <1>4, <1>5, <1>6, <1>7 DEF ReactorNext, TaskStep

\* No event to handle.
LEMMA InitBatch == ReactorInit => BatchInv
<1> SUFFICES ASSUME ReactorInit PROVE BatchInv
    OBVIOUS
<1>1. batch = <<>> /\ Len(batch) = 0 /\ second = NoTask /\ ~fault
    BY DEF ReactorInit
<1> QED BY <1>1 DEF BatchInv, BatchOK

\* No event reaches a schedule or a task that is free, nor the main task after its end
\* (the unchecked lookups of src/sys/eloop.rs and the unreachable case of run_task in
\* src/reactor/eloop.rs), if tasks keep clear of the four races.
THEOREM ReactorNeverUnreachable ==
    ASSUME Races = {}
    PROVE  ReactorSpec => []NeverUnreachable
<1>1. ReactorInit => NioInv /\ BatchInv
    BY InitNio, InitBatch
<1>2. LoopInv /\ NioInv /\ BatchInv /\ [ReactorNext]_rvars => NioInv' /\ BatchInv'
  <2>1. "move" \notin Races
      OBVIOUS
  <2> QED BY <2>1, StepNio, StepBatch
<1>3. ReactorSpec => [](NioInv /\ BatchInv)
    BY <1>1, <1>2, LoopInvariance, PTL DEF ReactorSpec
<1>4. BatchInv => NeverUnreachable
    BY DEF BatchInv, NeverUnreachable
<1> QED BY <1>3, <1>4, PTL
=============================================================================

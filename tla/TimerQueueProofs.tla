-------------------------- MODULE TimerQueueProofs --------------------------
(***************************************************************************)
(* The queue of timers is consistent for any number of timers and tasks,   *)
(* any delays and any period: the heap, the slab of entries and the timers *)
(* the program holds agree after every step, in the middle of a task's run *)
(* too.  What Queue::poll does after the run of a periodic timer's task    *)
(* depends on what that task did with the entry meanwhile; the invariant   *)
(* says what the entry may be by then.                                     *)
(***************************************************************************)
EXTENDS TimerQueue, SlabProofs

\* Where the theorems hold: there is no periodic timer, or none is dropped and its
\* index used again in the run of its own expiration, and removal leaves the bytes
\* that cancel wrote.  (Without the second the queue takes another timer's entry for
\* the periodic one's; the model has the two constants to show it.)
EntryKept == Periodics = {} \/ (~ReuseInRun /\ StaleBytes = {"Cancelled"})

States == {"Oneshot", "Periodic", "Expired", "Cancelled"}
Expirations == [at : Nat, id : Nat]
Runs == [task : Tasks \cup {None},
         exp : {None} \cup [at : Nat, id : Nat, state : {"Oneshot", "Periodic"}]]
State(i) == Elem(tasks, i).state

EntryType == [id : Tasks, who : Timers, state : States]

\* The slab is in order, its entries are well typed, and only a periodic timer's is Periodic.
EntriesTyped(s) ==
    /\ InOrder(s)
    /\ \A i : IsUsed(s, i) => /\ Elem(s, i) \in EntryType
                              /\ Elem(s, i).state = "Periodic" => Elem(s, i).who \in Periodics

\* The type invariant.
TypeOK ==
    /\ EntriesTyped(tasks)
    /\ Entries \subseteq Expirations
    /\ now \in Nat /\ made \in Nat
    /\ timer \in [Timers -> [state : {"Free", "Unscheduled", "Scheduled", "Expired"},
                             at : Nat, id : Nat \cup {INVALID_INDEX}]]
    /\ run \in Runs
    /\ exiting \in BOOLEAN /\ fault \in BOOLEAN /\ early \in BOOLEAN /\ stale \in BOOLEAN

\* Each expiration in the heap is there once and awaits an entry that is pending.
HeapOK == \A e \in Entries : heap[e] = 1 /\ IsUsed(tasks, e.id) /\ State(e.id) # "Expired"

\* No two of them await the same entry.
OnceOK == \A e, x \in Entries : e.id = x.id => e = x

\* Each pending entry is awaited.
AwaitedOK == \A i : IsUsed(tasks, i) /\ State(i) # "Expired" => \E e \in Entries : e.id = i

\* The expiration of a periodic timer that is being handled.
Handling == run.exp # None /\ run.exp.state = "Periodic"

\* In the run of a periodic timer's task its entry is still Expired, or was removed
\* with the timer and nothing has taken its index.
RunOK ==
    Handling => /\ Periodics # {}
                /\ stale => ~IsUsed(tasks, run.exp.id)
                /\ ~stale => /\ IsUsed(tasks, run.exp.id) /\ State(run.exp.id) = "Expired"
                             /\ Elem(tasks, run.exp.id).who \in Periodics

\* x is the time timer t was made for, or a whole number of periods later.
OnGrid(t, x) == \E k \in Nat : x = timer[t].at + Period * k

\* What a timer waits for is on its grid, one that has expired did so in time.
TimesOK ==
    \A t \in Timers : Held(t) =>
      /\ \A e \in Entries : e.id = timer[t].id => OnGrid(t, e.at)
      /\ Handling /\ run.exp.id = timer[t].id => OnGrid(t, run.exp.at)
      /\ IsUsed(tasks, timer[t].id) /\ IsExpired(t) => now >= timer[t].at

QueueInv ==
    /\ TypeOK /\ HeapOK /\ OnceOK /\ AwaitedOK /\ HandleOwnsEntry
    /\ RunOK /\ TimesOK /\ ~early /\ ~fault

----------------------------------------------------------------------------
(* The heap and an entry's state.                                          *)

\* What pushing an expiration that is not in the heap does to it.
LEMMA PushHeap ==
    ASSUME NEW h, NEW e, e \notin DOMAIN h
    PROVE  /\ DOMAIN Push(h, e) = DOMAIN h \cup {e}
           /\ Push(h, e)[e] = 1
           /\ \A x \in DOMAIN h : Push(h, e)[x] = h[x] + 0
BY DEF Push

\* What popping an expiration that is in the heap once does to it.
LEMMA PopHeap ==
    ASSUME NEW h, NEW e \in DOMAIN h, h[e] = 1
    PROVE  /\ DOMAIN Pop(h, e) = DOMAIN h \ {e}
           /\ \A x \in DOMAIN h \ {e} : Pop(h, e)[x] = h[x]
BY DEF Pop

\* An assignment to an entry's state changes that and nothing else.
LEMMA SetStateFacts ==
    ASSUME NEW s, InOrder(s), NEW i, IsUsed(s, i), Elem(s, i) \in EntryType, NEW st \in States
    PROVE  /\ InOrder(SetState(s, i, st)) /\ SameBut(s, SetState(s, i, st), i)
           /\ IsUsed(SetState(s, i, st), i)
           /\ Elem(SetState(s, i, st), i) \in EntryType
           /\ Elem(SetState(s, i, st), i).state = st
           /\ Elem(SetState(s, i, st), i).id = Elem(s, i).id
           /\ Elem(SetState(s, i, st), i).who = Elem(s, i).who
<1> DEFINE x == Elem(s, i)
           y == [x EXCEPT !.state = st]
<1>1. y \in EntryType /\ y.state = st /\ y.id = x.id /\ y.who = x.who
  <2> HIDE DEF x
  <2>1. x \in EntryType
      BY DEF x
  <2> QED BY <2>1 DEF EntryType, States
<1> HIDE DEF y
<1>2. SetState(s, i, st) = Update(s, i, y)
    BY DEF SetState, y
<1>3. /\ InOrder(Update(s, i, y)) /\ IsUsed(Update(s, i, y), i)
      /\ Elem(Update(s, i, y), i) = y /\ SameBut(s, Update(s, i, y), i)
    BY UpdateInOrder
<1> QED BY <1>1, <1>2, <1>3

\* Giving an entry another state keeps the slab well typed.
LEMMA SetStateTyped ==
    ASSUME NEW s, EntriesTyped(s), NEW i, IsUsed(s, i), NEW st \in States,
           st = "Periodic" => Elem(s, i).who \in Periodics
    PROVE  EntriesTyped(SetState(s, i, st))
<1> DEFINE t == SetState(s, i, st)
<1>1. /\ InOrder(t) /\ SameBut(s, t, i) /\ IsUsed(t, i) /\ Elem(t, i) \in EntryType
      /\ Elem(t, i).state = st /\ Elem(t, i).who = Elem(s, i).who
    BY SetStateFacts DEF EntriesTyped
<1> HIDE DEF t
<1> SUFFICES ASSUME NEW j, IsUsed(t, j)
             PROVE  /\ Elem(t, j) \in EntryType
                    /\ Elem(t, j).state = "Periodic" => Elem(t, j).who \in Periodics
    BY <1>1 DEF EntriesTyped, t
<1>2. CASE j = i
    BY <1>1, <1>2
<1>3. CASE j # i
    BY <1>1, <1>3 DEF EntriesTyped, SameBut
<1> QED BY <1>2, <1>3

\* Removing an entry keeps the slab well typed.
LEMMA RemoveTyped ==
    ASSUME NEW s, EntriesTyped(s), NEW i
    PROVE  EntriesTyped(Remove(s, i))
<1>1. InOrder(Remove(s, i)) /\ ~IsUsed(Remove(s, i), i) /\ SameBut(s, Remove(s, i), i)
    BY RemoveInOrder DEF EntriesTyped
<1> SUFFICES ASSUME NEW j, IsUsed(Remove(s, i), j)
             PROVE  /\ Elem(Remove(s, i), j) \in EntryType
                    /\ Elem(Remove(s, i), j).state = "Periodic" => Elem(Remove(s, i), j).who \in Periodics
    BY <1>1 DEF EntriesTyped
<1>2. j # i /\ IsUsed(s, j) /\ Elem(Remove(s, i), j) = Elem(s, j)
    BY <1>1 DEF SameBut
<1> QED BY <1>2 DEF EntriesTyped

\* The time of an entry's next expiration is on the grid again.
LEMMA NextOnGrid ==
    ASSUME NEW x \in Nat, NEW y \in Nat, NEW k \in Nat, x = y + Period * k
    PROVE  k + 1 \in Nat /\ x + Period = y + Period * (k + 1)
BY TimerAssumption DEF TimerAssumption

\* A time on the grid is not before the first, by a multiple of the period.
LEMMA GridTime ==
    ASSUME NEW x \in Nat, NEW y \in Nat, NEW k \in Nat, x = y + Period * k
    PROVE  x >= y /\ (x - y) % Period = 0
<1>1. Period \in Nat /\ Period # 0
    BY TimerAssumption DEF TimerAssumption
<1> DEFINE d == x - y
<1>2. d = Period * k /\ d \in Nat
    BY <1>1
<1>3. x >= y
    BY <1>1, <1>2
<1> HIDE DEF d
<1>4. d % Period = 0
    BY <1>1, <1>2
<1> QED BY <1>3, <1>4 DEF d

----------------------------------------------------------------------------
(* The invariant holds initially, and the steps that leave the heap and    *)
(* the slab alone keep it.                                                 *)

TimerType == [state : {"Free", "Unscheduled", "Scheduled", "Expired"},
              at : Nat, id : Nat \cup {INVALID_INDEX}]

\* An empty queue and no timer.
LEMMA InitQueue == TimerInit => QueueInv
<1> SUFFICES ASSUME TimerInit PROVE QueueInv
    OBVIOUS
<1>1. InOrder(tasks) /\ \A i : ~IsUsed(tasks, i)
    BY NewInOrder DEF TimerInit
<1>2. Entries = {}
    BY DEF TimerInit, EmptyHeap, Entries
<1>3. \A t \in Timers : timer[t] = NoTimer /\ ~Held(t)
    BY DEF TimerInit, NoTimer, Held
<1>4. run = Idle /\ run.exp = None /\ run \in Runs
    BY DEF TimerInit, Idle, Runs
<1>5. TypeOK
  <2>1. timer \in [Timers -> TimerType]
      BY DEF TimerInit, NoTimer, TimerType
  <2>2. EntriesTyped(tasks)
      BY <1>1 DEF EntriesTyped
  <2> QED BY <1>2, <1>4, <2>1, <2>2 DEF TypeOK, TimerInit, TimerType
<1>6. HeapOK /\ OnceOK /\ AwaitedOK
    BY <1>1, <1>2 DEF HeapOK, OnceOK, AwaitedOK
<1>7. HandleOwnsEntry /\ TimesOK /\ RunOK
    BY <1>3, <1>4 DEF HandleOwnsEntry, TimesOK, RunOK, Handling
<1> QED BY <1>5, <1>6, <1>7 DEF QueueInv, TimerInit

\* The clock goes on: what was in time still is.
LEMMA TickQueue == ASSUME QueueInv, Tick PROVE QueueInv'
<1> USE DEF QueueInv, Tick
<1>1. now' \in Nat /\ now' >= now /\ now \in Nat
    BY DEF TypeOK
<1>2. TypeOK'
    BY <1>1 DEF TypeOK, Entries
<1>3. (HeapOK /\ OnceOK /\ AwaitedOK)'
    BY DEF HeapOK, OnceOK, AwaitedOK, Entries, State
<1>4. (HandleOwnsEntry /\ RunOK)'
    BY DEF HandleOwnsEntry, RunOK, Held, Handling, State
<1>5. TimesOK'
  <2> SUFFICES ASSUME NEW t \in Timers, Held(t)
               PROVE  /\ \A e \in Entries : e.id = timer[t].id => OnGrid(t, e.at)
                      /\ Handling /\ run.exp.id = timer[t].id => OnGrid(t, run.exp.at)
                      /\ IsUsed(tasks, timer[t].id) /\ IsExpired(t) => now' >= timer[t].at
      BY DEF TimesOK, Held, Entries, OnGrid, Handling, IsExpired
  <2>1. timer[t].at \in Nat
      BY DEF TypeOK
  <2> QED BY <1>1, <2>1 DEF TimesOK
<1> QED BY <1>2, <1>3, <1>4, <1>5

\* A run for an I/O event begins, or the loop leaves a run or a drained queue.
LEMMA LoopQueue ==
    ASSUME QueueInv, Exit \/ NextRun \/ (\E k \in Tasks : IoRun(k))
    PROVE  QueueInv'
<1> USE DEF QueueInv
<1>1. /\ UNCHANGED <<tasks, heap, now, timer, fault, made, early>>
      /\ exiting' \in BOOLEAN /\ stale' \in BOOLEAN
      /\ \/ run' = run /\ stale' = stale
         \/ run' \in Runs /\ run'.exp = None
  <2>1. CASE Exit
    <3>1. Idle \in Runs /\ Idle.exp = None
        BY DEF Idle, Runs
    <3> QED BY <2>1, <3>1 DEF Exit, TypeOK
  <2>2. CASE NextRun
      BY <2>2 DEF NextRun, TypeOK
  <2>3. CASE \E k \in Tasks : IoRun(k)
    <3>1. PICK k \in Tasks : IoRun(k)
        BY <2>3
    <3> DEFINE r == [task |-> k, exp |-> None]
    <3>2. r \in Runs /\ r.exp = None
        BY DEF Runs
    <3> HIDE DEF r
    <3>3. run' = r
        BY <3>1 DEF IoRun, r
    <3> QED BY <3>1, <3>2, <3>3 DEF IoRun, TypeOK
  <2> QED BY <2>1, <2>2, <2>3
<1>2. TypeOK'
    BY <1>1 DEF TypeOK, Entries
<1>3. (HeapOK /\ OnceOK /\ AwaitedOK)'
    BY <1>1 DEF HeapOK, OnceOK, AwaitedOK, Entries, State
<1>4. HandleOwnsEntry'
    BY <1>1 DEF HandleOwnsEntry, Held
<1>5. RunOK' /\ (Handling' => Handling /\ run' = run)
    BY <1>1 DEF RunOK, Handling, State
<1>6. TimesOK'
    BY <1>1, <1>5 DEF TimesOK, Held, Entries, OnGrid, IsExpired
<1> QED BY <1>1, <1>2, <1>3, <1>4, <1>5, <1>6

\* A timer is made: it holds no entry yet.
LEMMA NewQueue ==
    ASSUME QueueInv, NEW t \in Timers, NEW d \in Durs, New(t, d)
    PROVE  QueueInv'
<1> USE DEF QueueInv
<1>1. /\ UNCHANGED <<tasks, heap, now, run, exiting, fault, early, stale>> /\ made' = made + 1
      /\ timer' = [timer EXCEPT ![t] = [state |-> "Unscheduled", at |-> now + d, id |-> INVALID_INDEX]]
    BY DEF New
<1>2. timer \in [Timers -> TimerType] /\ timer' \in [Timers -> TimerType] /\ made' \in Nat
  <2>1. now + d \in Nat
      BY TimerAssumption DEF TypeOK, TimerAssumption
  <2> QED BY <1>1, <2>1 DEF TypeOK, TimerType
<1>3. TypeOK'
    BY <1>1, <1>2 DEF TypeOK, Entries, TimerType
<1>4. (HeapOK /\ OnceOK /\ AwaitedOK /\ RunOK)'
    BY <1>1 DEF HeapOK, OnceOK, AwaitedOK, Entries, State, RunOK, Handling
<1>5. \A u \in Timers : Held(u)' => u # t /\ Held(u) /\ timer'[u] = timer[u]
    BY <1>1, <1>2 DEF Held
<1>6. HandleOwnsEntry'
    BY <1>1, <1>5 DEF HandleOwnsEntry
<1>7. TimesOK'
    BY <1>1, <1>5 DEF TimesOK, Entries, OnGrid, IsExpired, Handling
<1> QED BY <1>1, <1>3, <1>4, <1>6, <1>7

\* A timer is polled: its entry is there, and if it has expired it did so in time.
LEMMA PollQueue ==
    ASSUME QueueInv, NEW t \in Timers, Poll(t)
    PROVE  QueueInv'
<1> USE DEF QueueInv
<1>1. Held(t) /\ UNCHANGED <<tasks, heap, now, run, exiting, made, stale>>
    BY DEF Poll, Held
<1>2. IsUsed(tasks, timer[t].id)
    BY <1>1 DEF HandleOwnsEntry
<1>3. timer \in [Timers -> TimerType] /\ now \in Nat /\ timer[t].at \in Nat
    BY DEF TypeOK, TimerType
<1>4. IsExpired(t) => ~(now < timer[t].at)
  <2>1. IsExpired(t) => now >= timer[t].at
      BY <1>1, <1>2 DEF TimesOK
  <2> QED BY <1>3, <2>1
<1>5. PICK st \in {"Scheduled", "Expired"} :
        /\ timer' = [timer EXCEPT ![t].state = st] \/ timer' = timer
        /\ fault' = FALSE /\ early' = FALSE
  <2>1. CASE timer[t].state = "Scheduled"
    <3>1. /\ fault' = ~IsUsed(tasks, timer[t].id)
          /\ IF ~fault' /\ IsExpired(t)
               THEN /\ early' = (early \/ now < timer[t].at)
                    /\ timer' = [timer EXCEPT ![t].state = IF t \in Periodics THEN "Expired" ELSE "Scheduled"]
               ELSE UNCHANGED <<early, timer>>
        BY <2>1 DEF Poll
    <3>2. fault' = FALSE
        BY <1>2, <3>1
    <3>3. early' = FALSE
        BY <1>4, <3>1, <3>2 DEF TypeOK
    <3> QED BY <3>1, <3>2, <3>3
  <2>2. CASE timer[t].state # "Scheduled"
    <3>1. timer' = [timer EXCEPT ![t].state = "Scheduled"] /\ UNCHANGED <<fault, early>>
        BY <2>2 DEF Poll
    <3> QED BY <3>1 DEF TypeOK
  <2> QED BY <2>1, <2>2
<1>6. timer' \in [Timers -> TimerType]
    BY <1>3, <1>5 DEF TimerType
<1>7. \A u \in Timers : /\ Held(u)' <=> Held(u)
                        /\ timer'[u].at = timer[u].at /\ timer'[u].id = timer[u].id
    BY <1>1, <1>3, <1>5 DEF Held, TimerType
<1>8. TypeOK'
    BY <1>1, <1>5, <1>6 DEF TypeOK, Entries, TimerType
<1>9. (HeapOK /\ OnceOK /\ AwaitedOK /\ RunOK)'
    BY <1>1 DEF HeapOK, OnceOK, AwaitedOK, Entries, State, RunOK, Handling
<1>10. HandleOwnsEntry'
    BY <1>1, <1>7 DEF HandleOwnsEntry
<1>11. TimesOK'
    BY <1>1, <1>7 DEF TimesOK, Entries, OnGrid, IsExpired, Handling
<1> QED BY <1>5, <1>8, <1>9, <1>10, <1>11
----------------------------------------------------------------------------
(* The steps that change the heap or the slab.                             *)

\* Queue::poll pops an expiration.  Its entry is there and pending: it goes if its
\* timer was dropped, and is Expired, in time, while its task runs otherwise.
LEMMA QPopQueue ==
    ASSUME QueueInv, NEW e \in Entries, QPop(e)
    PROVE  QueueInv'
<1> USE DEF QueueInv
<1> DEFINE i == e.id
           st == Elem(tasks, i).state
<1>1. /\ run = Idle /\ Due(e) /\ heap' = Pop(heap, e) /\ stale' = FALSE
      /\ UNCHANGED <<now, timer, exiting, made, early>>
    BY DEF QPop
<1>2. heap[e] = 1 /\ IsUsed(tasks, i) /\ st # "Expired" /\ e \in Expirations
    BY DEF HeapOK, State, TypeOK
<1>3. Entries' = Entries \ {e} /\ \A x \in Entries' : x \in Entries /\ heap'[x] = heap[x] /\ x.id # i
  <2>1. /\ DOMAIN Pop(heap, e) = DOMAIN heap \ {e}
        /\ \A x \in DOMAIN heap \ {e} : Pop(heap, e)[x] = heap[x]
      BY <1>2, PopHeap DEF Entries
  <2> QED BY <1>1, <2>1 DEF Entries, OnceOK
<1>4. /\ EntriesTyped(tasks) /\ InOrder(tasks) /\ Elem(tasks, i) \in EntryType /\ st \in States
      /\ (st = "Periodic" => Elem(tasks, i).who \in Periodics)
    BY <1>2 DEF TypeOK, EntriesTyped, EntryType
<1>5. OnceOK'
    BY <1>3 DEF OnceOK
<1>6. run.exp = None /\ ~Handling
    BY <1>1 DEF Idle, Handling
<1>7. CASE st = "Cancelled"
  <2>1. tasks' = Remove(tasks, i) /\ UNCHANGED <<run, fault>>
      BY <1>2, <1>7 DEF QPop
  <2>2. ~IsUsed(tasks', i) /\ SameBut(tasks, tasks', i) /\ EntriesTyped(tasks')
      BY <1>4, <2>1, RemoveInOrder, RemoveTyped
  <2>3. TypeOK'
      BY <1>1, <1>3, <2>1, <2>2 DEF TypeOK
  <2>4. HeapOK'
      BY <1>3, <2>2 DEF HeapOK, State, SameBut
  <2>5. AwaitedOK'
    <3> SUFFICES ASSUME NEW j, IsUsed(tasks', j), Elem(tasks', j).state # "Expired"
                 PROVE  \E x \in Entries' : x.id = j
        BY DEF AwaitedOK, State
    <3>1. j # i /\ IsUsed(tasks, j) /\ Elem(tasks, j).state # "Expired"
        BY <2>2 DEF SameBut
    <3>2. PICK x \in Entries : x.id = j
        BY <3>1 DEF AwaitedOK, State
    <3> QED BY <1>3, <3>1, <3>2
  <2>6. \A t \in Timers : Held(t) => timer[t].id # i
      BY <1>7 DEF HandleOwnsEntry
  <2>7. HandleOwnsEntry'
      BY <1>1, <2>2, <2>6 DEF HandleOwnsEntry, Held, SameBut
  <2>8. RunOK' /\ ~Handling'
      BY <1>6, <2>1 DEF RunOK, Handling
  <2>9. TimesOK'
      BY <1>1, <1>3, <2>2, <2>6, <2>8 DEF TimesOK, Held, OnGrid, IsExpired, SameBut
  <2> QED BY <1>1, <1>5, <2>1, <2>3, <2>4, <2>5, <2>7, <2>8, <2>9
<1>8. CASE st # "Cancelled"
  <2> DEFINE x == [at |-> e.at, id |-> i, state |-> st]
             r == [task |-> Elem(tasks, i).id, exp |-> x]
  <2>1. st \in {"Oneshot", "Periodic"}
      BY <1>2, <1>4, <1>8 DEF States
  <2>2. tasks' = Expire(tasks, i) /\ run' = r /\ UNCHANGED fault
      BY <1>2, <2>1 DEF QPop
  <2>3. /\ r \in Runs /\ r.exp = x /\ x.state = st /\ x.id = i /\ x.at = e.at
    <3>1. Elem(tasks, i).id \in Tasks
        BY <1>4 DEF EntryType
    <3>2. e.at \in Nat /\ e.id \in Nat
        BY <1>2 DEF Expirations
    <3> QED BY <2>1, <3>1, <3>2 DEF Runs
  <2>4. /\ SameBut(tasks, tasks', i) /\ IsUsed(tasks', i) /\ EntriesTyped(tasks')
        /\ Elem(tasks', i).state = "Expired" /\ Elem(tasks', i).who = Elem(tasks, i).who
        /\ Elem(tasks', i).id = Elem(tasks, i).id
    <3>1. "Expired" \in States /\ "Expired" # "Periodic"
        BY DEF States
    <3> QED BY <1>2, <1>4, <2>2, <3>1, SetStateFacts, SetStateTyped DEF Expire
  <2> HIDE DEF x, r
  <2>5. TypeOK'
      BY <1>1, <1>3, <2>2, <2>3, <2>4 DEF TypeOK
  <2>6. HeapOK'
      BY <1>3, <2>4 DEF HeapOK, State, SameBut
  <2>7. AwaitedOK'
    <3> SUFFICES ASSUME NEW j, IsUsed(tasks', j), Elem(tasks', j).state # "Expired"
                 PROVE  \E y \in Entries' : y.id = j
        BY DEF AwaitedOK, State
    <3>1. j # i /\ IsUsed(tasks, j) /\ Elem(tasks, j).state # "Expired"
        BY <2>4 DEF SameBut
    <3>2. PICK y \in Entries : y.id = j
        BY <3>1 DEF AwaitedOK, State
    <3> QED BY <1>3, <3>1, <3>2
  <2>8. HandleOwnsEntry'
    <3> SUFFICES ASSUME NEW t \in Timers, Held(t)
                 PROVE  /\ IsUsed(tasks', timer[t].id)
                        /\ Elem(tasks', timer[t].id).who = t
                        /\ Elem(tasks', timer[t].id).state # "Cancelled"
                        /\ Elem(tasks', timer[t].id).id = Owner[t]
        BY <1>1 DEF HandleOwnsEntry, Held
    <3>1. CASE timer[t].id = i
        BY <2>4, <3>1 DEF HandleOwnsEntry
    <3>2. CASE timer[t].id # i
        BY <2>4, <3>2 DEF HandleOwnsEntry, SameBut
    <3> QED BY <3>1, <3>2
  <2>9. RunOK'
    <3> SUFFICES ASSUME Handling'
                 PROVE  /\ Periodics # {} /\ IsUsed(tasks', i) /\ Elem(tasks', i).state = "Expired"
                        /\ Elem(tasks', i).who \in Periodics
        BY <1>1, <2>2, <2>3 DEF RunOK, State
    <3>1. st = "Periodic"
        BY <2>2, <2>3 DEF Handling
    <3> QED BY <1>4, <2>4, <3>1
  <2>10. TimesOK'
    <3> SUFFICES ASSUME NEW t \in Timers, Held(t)
                 PROVE  /\ \A y \in Entries' : y.id = timer[t].id => OnGrid(t, y.at)
                        /\ i = timer[t].id => OnGrid(t, e.at)
                        /\ IsUsed(tasks', timer[t].id) /\ Elem(tasks', timer[t].id).state = "Expired"
                             => now >= timer[t].at
        BY <1>1, <2>2, <2>3 DEF TimesOK, Held, OnGrid, IsExpired
    <3>1. \A y \in Entries : y.id = timer[t].id => OnGrid(t, y.at)
        BY DEF TimesOK
    <3>2. CASE timer[t].id = i
      <4>1. PICK k \in Nat : e.at = timer[t].at + Period * k
          BY <3>1, <3>2 DEF OnGrid
      <4>2. e.at >= timer[t].at
        <5>1. e.at \in Nat /\ timer[t].at \in Nat
            BY <1>2 DEF Expirations, TypeOK
        <5> QED BY <4>1, <5>1, GridTime
      <4>3. e.at <= now /\ e.at \in Nat /\ timer[t].at \in Nat /\ now \in Nat
          BY <1>1, <1>2 DEF Due, Expirations, TypeOK
      <4> QED BY <1>3, <3>1, <4>2, <4>3
    <3>3. CASE timer[t].id # i
        BY <1>3, <2>4, <3>1, <3>3 DEF TimesOK, IsExpired, SameBut
    <3> QED BY <3>2, <3>3
  <2> QED BY <1>1, <1>5, <2>2, <2>5, <2>6, <2>7, <2>8, <2>9, <2>10
<1> QED BY <1>7, <1>8
\* The run ends.  A periodic timer's entry is Expired still and becomes pending again,
\* one period later, or it is gone and nothing is done.
LEMMA RunEndQueue ==
    ASSUME QueueInv, EntryKept, RunEnd
    PROVE  QueueInv'
<1> USE DEF QueueInv
<1>1. run' = Idle /\ UNCHANGED <<now, timer, exiting, fault, made, early, stale>>
    BY DEF RunEnd
<1>2. run' \in Runs /\ ~Handling' /\ RunOK'
  <2>1. Idle \in Runs /\ Idle.exp = None
      BY DEF Idle, Runs
  <2> QED BY <1>1, <2>1 DEF RunOK, Handling
<1>3. CASE UNCHANGED <<tasks, heap>>
  <2>1. TypeOK'
      BY <1>1, <1>2, <1>3 DEF TypeOK, Entries
  <2>2. (HeapOK /\ OnceOK /\ AwaitedOK)'
      BY <1>3 DEF HeapOK, OnceOK, AwaitedOK, Entries, State
  <2>3. HandleOwnsEntry' /\ TimesOK'
      BY <1>1, <1>2, <1>3 DEF HandleOwnsEntry, TimesOK, Held, Entries, OnGrid, IsExpired
  <2> QED BY <1>1, <1>2, <2>1, <2>2, <2>3
<1>4. CASE Handling /\ ~stale
  <2> DEFINE i == run.exp.id
             e == [at |-> NextAt(run.exp), id |-> i]
  <2>1. /\ IsUsed(tasks, i) /\ Elem(tasks, i).state = "Expired" /\ Elem(tasks, i).who \in Periodics
      BY <1>4 DEF RunOK, State
  <2>2. tasks' = SetState(tasks, i, "Periodic") /\ heap' = Push(heap, e)
    <3>1. Reread(i) = {"Expired"} /\ "Expired" # "Cancelled"
        BY <2>1 DEF Reread
    <3>2. Reschedule(run.exp)
        BY <1>4 DEF RunEnd, Handling
    <3> QED BY <2>1, <3>1, <3>2 DEF Reschedule
  <2>3. run.exp \in [at : Nat, id : Nat, state : {"Oneshot", "Periodic"}]
      BY <1>4 DEF TypeOK, Runs, Handling
  <2>4. e \in Expirations /\ e.id = i /\ e.at = run.exp.at + Period
      BY <2>3, TimerAssumption DEF Expirations, NextAt, TimerAssumption
  <2> HIDE DEF e
  <2>5. \A x \in Entries : x.id # i
      BY <2>1 DEF HeapOK, State
  <2>6. Entries' = Entries \cup {e} /\ heap'[e] = 1 /\ \A x \in Entries : heap'[x] = 1
    <3>1. /\ DOMAIN Push(heap, e) = DOMAIN heap \cup {e} /\ Push(heap, e)[e] = 1
          /\ \A x \in DOMAIN heap : Push(heap, e)[x] = heap[x] + 0
      <4>1. e \notin DOMAIN heap
          BY <2>4, <2>5 DEF Entries
      <4> QED BY <4>1, PushHeap
    <3>2. \A x \in DOMAIN heap : heap[x] = 1
        BY DEF HeapOK, Entries
    <3> QED BY <2>2, <3>1, <3>2 DEF Entries
  <2>7. /\ SameBut(tasks, tasks', i) /\ IsUsed(tasks', i) /\ EntriesTyped(tasks')
        /\ Elem(tasks', i).state = "Periodic" /\ Elem(tasks', i).who = Elem(tasks, i).who
        /\ Elem(tasks', i).id = Elem(tasks, i).id
    <3>1. "Periodic" \in States
        BY DEF States
    <3>2. EntriesTyped(tasks) /\ InOrder(tasks) /\ Elem(tasks, i) \in EntryType
        BY <2>1 DEF TypeOK, EntriesTyped
    <3> QED BY <2>1, <2>2, <3>1, <3>2, SetStateFacts, SetStateTyped
  <2> HIDE DEF i
  <2>8. TypeOK'
      BY <1>1, <1>2, <2>4, <2>6, <2>7 DEF TypeOK
  <2>9. HeapOK' /\ OnceOK'
      BY <2>4, <2>5, <2>6, <2>7 DEF HeapOK, OnceOK, State, SameBut
  <2>10. AwaitedOK'
    <3> SUFFICES ASSUME NEW j, IsUsed(tasks', j), Elem(tasks', j).state # "Expired"
                 PROVE  \E x \in Entries' : x.id = j
        BY DEF AwaitedOK, State
    <3>1. CASE j = i
        BY <2>4, <2>6, <3>1
    <3>2. CASE j # i
        BY <2>6, <2>7, <3>2 DEF AwaitedOK, State, SameBut
    <3> QED BY <3>1, <3>2
  <2>11. HandleOwnsEntry'
    <3> SUFFICES ASSUME NEW t \in Timers, Held(t)
                 PROVE  /\ IsUsed(tasks', timer[t].id)
                        /\ Elem(tasks', timer[t].id).who = t
                        /\ Elem(tasks', timer[t].id).state # "Cancelled"
                        /\ Elem(tasks', timer[t].id).id = Owner[t]
        BY <1>1 DEF HandleOwnsEntry, Held
    <3>1. CASE timer[t].id = i
        BY <2>7, <3>1 DEF HandleOwnsEntry
    <3>2. CASE timer[t].id # i
        BY <2>7, <3>2 DEF HandleOwnsEntry, SameBut
    <3> QED BY <3>1, <3>2
  <2>12. TimesOK'
    <3> SUFFICES ASSUME NEW t \in Timers, Held(t)
                 PROVE  /\ \A x \in Entries' : x.id = timer[t].id => OnGrid(t, x.at)
                        /\ IsUsed(tasks', timer[t].id) /\ Elem(tasks', timer[t].id).state = "Expired"
                             => now >= timer[t].at
        BY <1>1, <1>2 DEF TimesOK, Held, OnGrid, IsExpired
    <3>1. \A x \in Entries : x.id = timer[t].id => OnGrid(t, x.at)
        BY DEF TimesOK
    <3>2. CASE timer[t].id = i
      <4>1. PICK k \in Nat : run.exp.at = timer[t].at + Period * k
          BY <1>4, <3>2 DEF TimesOK, OnGrid, i
      <4>2. run.exp.at \in Nat /\ timer[t].at \in Nat
          BY <2>3 DEF TypeOK
      <4>3. k + 1 \in Nat /\ run.exp.at + Period = timer[t].at + Period * (k + 1)
          BY <4>1, <4>2, NextOnGrid
      <4>4. OnGrid(t, e.at)
          BY <2>4, <4>3 DEF OnGrid
      <4> QED BY <2>6, <2>7, <3>1, <3>2, <4>4
    <3>3. CASE timer[t].id # i
        BY <2>4, <2>6, <2>7, <3>1, <3>3 DEF TimesOK, IsExpired, SameBut
    <3> QED BY <3>2, <3>3
  <2> QED BY <1>1, <1>2, <2>8, <2>9, <2>10, <2>11, <2>12
<1>5. CASE Handling /\ stale
  <2>1. ~IsUsed(tasks, run.exp.id) /\ StaleBytes = {"Cancelled"}
      BY <1>5 DEF RunOK, EntryKept
  <2>2. Reread(run.exp.id) = {"Cancelled"}
      BY <2>1 DEF Reread
  <2>3. Reschedule(run.exp)
      BY <1>5 DEF RunEnd, Handling
  <2>4. tasks' = Remove(tasks, run.exp.id) /\ UNCHANGED heap
      BY <2>2, <2>3 DEF Reschedule
  <2>5. UNCHANGED <<tasks, heap>>
      BY <2>1, <2>4 DEF Remove
  <2> QED BY <1>3, <2>5
<1>6. CASE ~Handling
    BY <1>3, <1>6 DEF RunEnd, Handling
<1> QED BY <1>4, <1>5, <1>6 DEF TypeOK

\* The first poll of a timer: its entry and its expiration are new, at an index that
\* no timer and no expiration names.
LEMMA ScheduleQueue ==
    ASSUME QueueInv, EntryKept, NEW t \in Timers, Schedule(t)
    PROVE  QueueInv'
<1> USE DEF QueueInv
<1> DEFINE i == NextIndex(tasks)
           x == [id |-> run.task, who |-> t, state |-> IF t \in Periodics THEN "Periodic" ELSE "Oneshot"]
           e == [at |-> timer[t].at, id |-> i]
<1>1. /\ tasks' = Insert(tasks, x) /\ heap' = Push(heap, e)
      /\ timer' = [timer EXCEPT ![t].state = "Scheduled", ![t].id = i]
      /\ timer[t].state = "Unscheduled" /\ run.task = Owner[t] /\ (ReuseInRun \/ ~stale)
      /\ UNCHANGED <<now, run, exiting, fault, made, early, stale>>
    BY DEF Schedule, MayRun
<1>2. /\ InOrder(tasks') /\ i \in Nat /\ ~IsUsed(tasks, i) /\ IsUsed(tasks', i)
      /\ Elem(tasks', i) = x /\ SameBut(tasks, tasks', i)
    BY <1>1, InsertInOrder DEF TypeOK, EntriesTyped
<1>3. timer \in [Timers -> TimerType] /\ timer[t].at \in Nat
    BY DEF TypeOK, TimerType
<1>4. x \in EntryType /\ x.who = t /\ x.id = Owner[t] /\ x.state \notin {"Expired", "Cancelled"}
      /\ (x.state = "Periodic" => t \in Periodics)
    BY <1>1, TimerAssumption DEF EntryType, States, TimerAssumption
<1>5. e \in Expirations /\ e.id = i /\ e.at = timer[t].at
    BY <1>2, <1>3 DEF Expirations
<1> HIDE DEF e, x, i
<1>6. \A y \in Entries : y.id # i
    BY <1>2 DEF HeapOK
<1>7. Entries' = Entries \cup {e} /\ heap'[e] = 1 /\ \A y \in Entries : heap'[y] = 1
  <2>1. /\ DOMAIN Push(heap, e) = DOMAIN heap \cup {e} /\ Push(heap, e)[e] = 1
        /\ \A y \in DOMAIN heap : Push(heap, e)[y] = heap[y] + 0
    <3>1. e \notin DOMAIN heap
        BY <1>5, <1>6 DEF Entries
    <3> QED BY <3>1, PushHeap
  <2>2. \A y \in DOMAIN heap : heap[y] = 1
      BY DEF HeapOK, Entries
  <2> QED BY <1>1, <2>1, <2>2 DEF Entries
<1>8. /\ timer' \in [Timers -> TimerType]
      /\ timer'[t].id = i /\ timer'[t].at = timer[t].at /\ timer'[t].state = "Scheduled"
      /\ \A u \in Timers : u # t => timer'[u] = timer[u]
    BY <1>1, <1>2, <1>3 DEF TimerType
<1>9. \A u \in Timers : u # t => /\ Held(u)' <=> Held(u)
                                 /\ Held(u) => timer[u].id # i
    BY <1>2, <1>8 DEF Held, HandleOwnsEntry
<1>10. EntriesTyped(tasks')
  <2> SUFFICES ASSUME NEW j, IsUsed(tasks', j)
               PROVE  /\ Elem(tasks', j) \in EntryType
                      /\ Elem(tasks', j).state = "Periodic" => Elem(tasks', j).who \in Periodics
      BY <1>2 DEF EntriesTyped
  <2>1. CASE j = i
      BY <1>2, <1>4, <2>1
  <2>2. CASE j # i
      BY <1>2, <2>2 DEF SameBut, TypeOK, EntriesTyped
  <2> QED BY <2>1, <2>2
<1>11. TypeOK'
    BY <1>1, <1>5, <1>7, <1>8, <1>10 DEF TypeOK, TimerType
<1>12. HeapOK' /\ OnceOK'
    BY <1>2, <1>4, <1>5, <1>6, <1>7 DEF HeapOK, OnceOK, State, SameBut
<1>13. AwaitedOK'
  <2> SUFFICES ASSUME NEW j, IsUsed(tasks', j), Elem(tasks', j).state # "Expired"
               PROVE  \E y \in Entries' : y.id = j
      BY DEF AwaitedOK, State
  <2>1. CASE j = i
      BY <1>5, <1>7, <2>1
  <2>2. CASE j # i
      BY <1>2, <1>7, <2>2 DEF AwaitedOK, State, SameBut
  <2> QED BY <2>1, <2>2
<1>14. HandleOwnsEntry'
  <2> SUFFICES ASSUME NEW u \in Timers, Held(u)'
               PROVE  /\ IsUsed(tasks', timer'[u].id)
                      /\ Elem(tasks', timer'[u].id).who = u
                      /\ Elem(tasks', timer'[u].id).state # "Cancelled"
                      /\ Elem(tasks', timer'[u].id).id = Owner[u]
      BY DEF HandleOwnsEntry
  <2>1. CASE u = t
      BY <1>2, <1>4, <1>8, <2>1
  <2>2. CASE u # t
      BY <1>2, <1>8, <1>9, <2>2 DEF HandleOwnsEntry, SameBut
  <2> QED BY <2>1, <2>2
<1>15. Handling => run.exp.id # i /\ ~stale
    BY <1>1, <1>2 DEF RunOK, EntryKept
<1>16. RunOK'
    BY <1>1, <1>2, <1>15 DEF RunOK, Handling, State, SameBut
<1>17. TimesOK'
  <2> SUFFICES ASSUME NEW u \in Timers, Held(u)'
               PROVE  /\ \A y \in Entries' : y.id = timer'[u].id => OnGrid(u, y.at)'
                      /\ Handling /\ run.exp.id = timer'[u].id => OnGrid(u, run.exp.at)'
                      /\ IsUsed(tasks', timer'[u].id) /\ Elem(tasks', timer'[u].id).state = "Expired"
                           => now >= timer'[u].at
      BY <1>1 DEF TimesOK, IsExpired, Handling, OnGrid
  <2>1. CASE u = t
    <3>1. e.at = timer'[t].at + Period * 0
        BY <1>3, <1>5, <1>8, TimerAssumption DEF TimerAssumption
    <3>2. \A y \in Entries' : y.id = i => y = e
        BY <1>6, <1>7
    <3> QED BY <1>2, <1>4, <1>8, <1>15, <2>1, <3>1, <3>2 DEF OnGrid
  <2>2. CASE u # t
    <3>1. timer'[u] = timer[u] /\ Held(u) /\ timer[u].id # i
        BY <1>8, <1>9, <2>2
    <3>2. \A y \in Entries' : y.id = timer[u].id => y \in Entries
        BY <1>5, <1>7, <3>1
    <3> QED BY <1>1, <1>2, <3>1, <3>2 DEF TimesOK, OnGrid, IsExpired, SameBut
  <2> QED BY <2>1, <2>2
<1> QED BY <1>1, <1>11, <1>12, <1>13, <1>14, <1>16, <1>17
\* Queue::cancel, of an entry that its timer still names.
LEMMA CancelFacts ==
    ASSUME NEW s, EntriesTyped(s), NEW i, IsUsed(s, i), Elem(s, i).state # "Cancelled"
    PROVE  /\ EntriesTyped(Cancel(s, i)) /\ SameBut(s, Cancel(s, i), i)
           /\ Elem(s, i).state = "Expired" => ~IsUsed(Cancel(s, i), i)
           /\ Elem(s, i).state # "Expired" => IsUsed(Cancel(s, i), i) /\ Elem(Cancel(s, i), i).state = "Cancelled"
<1> DEFINE s1 == SetState(s, i, "Cancelled")
           s2 == Remove(s1, i)
<1>1. Elem(s, i) \in EntryType /\ InOrder(s) /\ "Cancelled" \in States /\ "Cancelled" # "Periodic"
    BY DEF EntriesTyped, States
<1>2. Elem(s, i).state \in {"Oneshot", "Periodic", "Expired"}
    BY <1>1 DEF EntryType, States
<1>3. /\ EntriesTyped(s1) /\ SameBut(s, s1, i) /\ IsUsed(s1, i) /\ Elem(s1, i).state = "Cancelled"
    BY <1>1, SetStateFacts, SetStateTyped
<1> HIDE DEF s1
<1>4. EntriesTyped(s2) /\ SameBut(s1, s2, i) /\ ~IsUsed(s2, i)
    BY <1>3, RemoveTyped, RemoveInOrder DEF EntriesTyped
<1> HIDE DEF s2
<1>5. SameBut(s, s2, i)
    BY <1>3, <1>4 DEF SameBut
<1>6. Elem(s, i).state = "Expired" => Cancel(s, i) = s2
    BY DEF Cancel, s1, s2
<1>7. Elem(s, i).state # "Expired" => Cancel(s, i) = s1
    BY <1>2 DEF Cancel, s1, s2
<1> QED BY <1>3, <1>4, <1>5, <1>6, <1>7

\* A timer is dropped: its entry is marked for the heap to find, or is removed, in
\* the run of its own expiration too.
LEMMA DropQueue ==
    ASSUME QueueInv, NEW t \in Timers, Drop(t)
    PROVE  QueueInv'
<1> USE DEF QueueInv
<1> DEFINE i == timer[t].id
<1>1. /\ timer' = [timer EXCEPT ![t] = NoTimer] /\ timer[t].state # "Free"
      /\ UNCHANGED <<heap, now, run, exiting, made, early>>
    BY DEF Drop
<1>2. timer \in [Timers -> TimerType] /\ timer' \in [Timers -> TimerType]
  <2>1. NoTimer \in TimerType
      BY DEF NoTimer, TimerType
  <2> QED BY <1>1, <2>1 DEF TypeOK, TimerType
<1>3. \A u \in Timers : Held(u)' => u # t /\ Held(u) /\ timer'[u] = timer[u]
    BY <1>1, <1>2 DEF Held, NoTimer
<1>4. Entries' = Entries /\ OnceOK'
    BY <1>1 DEF Entries, OnceOK
<1>5. CASE timer[t].state = "Unscheduled"
  <2>1. UNCHANGED <<tasks, fault, stale>>
      BY <1>5 DEF Drop
  <2>2. TypeOK'
      BY <1>1, <1>2, <1>4, <2>1 DEF TypeOK, TimerType
  <2>3. (HeapOK /\ AwaitedOK /\ RunOK)'
      BY <1>1, <1>4, <2>1 DEF HeapOK, AwaitedOK, State, RunOK, Handling
  <2>4. HandleOwnsEntry' /\ TimesOK'
      BY <1>1, <1>3, <1>4, <2>1 DEF HandleOwnsEntry, TimesOK, OnGrid, IsExpired, Handling
  <2> QED BY <1>1, <1>4, <2>1, <2>2, <2>3, <2>4
<1>6. CASE timer[t].state # "Unscheduled"
  <2>1. Held(t)
      BY <1>1, <1>2, <1>6 DEF Held, TimerType
  <2>2. /\ IsUsed(tasks, i) /\ Elem(tasks, i).who = t /\ Elem(tasks, i).state # "Cancelled"
        /\ EntriesTyped(tasks)
      BY <2>1 DEF HandleOwnsEntry, TypeOK
  <2>3. /\ fault' = ~IsUsed(tasks, i)
        /\ tasks' = IF fault' THEN tasks ELSE Cancel(tasks, i)
        /\ stale' = (stale \/ (run.exp # None /\ run.exp.id = i /\ run.exp.state = "Periodic"))
      BY <1>6 DEF Drop
  <2>4. fault' = FALSE /\ tasks' = Cancel(tasks, i)
      BY <2>2, <2>3
  <2>5. stale' \in BOOLEAN /\ (stale' <=> (stale \/ (Handling /\ run.exp.id = i)))
      BY <2>3 DEF Handling, TypeOK
  <2>6. /\ EntriesTyped(tasks') /\ SameBut(tasks, tasks', i)
        /\ Elem(tasks, i).state = "Expired" => ~IsUsed(tasks', i)
        /\ Elem(tasks, i).state # "Expired" => IsUsed(tasks', i) /\ Elem(tasks', i).state = "Cancelled"
      BY <2>2, <2>4, CancelFacts
  <2> HIDE DEF i
  <2>7. TypeOK'
      BY <1>1, <1>2, <1>4, <2>4, <2>5, <2>6 DEF TypeOK, TimerType
  <2>8. HeapOK'
    <3> SUFFICES ASSUME NEW e \in Entries
                 PROVE  heap[e] = 1 /\ IsUsed(tasks', e.id) /\ Elem(tasks', e.id).state # "Expired"
        BY <1>1, <1>4 DEF HeapOK, State
    <3>1. CASE e.id = i
        BY <2>6, <3>1 DEF HeapOK, State
    <3>2. CASE e.id # i
        BY <2>6, <3>2 DEF HeapOK, State, SameBut
    <3> QED BY <3>1, <3>2
  <2>9. AwaitedOK'
    <3> SUFFICES ASSUME NEW j, IsUsed(tasks', j), Elem(tasks', j).state # "Expired"
                 PROVE  IsUsed(tasks, j) /\ Elem(tasks, j).state # "Expired"
        BY <1>4 DEF AwaitedOK, State
    <3>1. CASE j = i
        BY <2>2, <2>6, <3>1
    <3>2. CASE j # i
        BY <2>6, <3>2 DEF SameBut
    <3> QED BY <3>1, <3>2
  <2>10. \A u \in Timers : Held(u) /\ u # t => timer[u].id # i
      BY <2>2 DEF HandleOwnsEntry
  <2>11. HandleOwnsEntry'
      BY <1>3, <2>6, <2>10 DEF HandleOwnsEntry, SameBut
  <2>12. RunOK'
    <3> SUFFICES ASSUME Handling
                 PROVE  /\ Periodics # {}
                        /\ stale' => ~IsUsed(tasks', run.exp.id)
                        /\ ~stale' => /\ IsUsed(tasks', run.exp.id)
                                      /\ Elem(tasks', run.exp.id).state = "Expired"
                                      /\ Elem(tasks', run.exp.id).who \in Periodics
        BY <1>1 DEF RunOK, Handling, State
    <3>1. CASE run.exp.id = i
      <4>1. ~stale
          BY <2>2, <3>1 DEF RunOK
      <4>2. Elem(tasks, i).state = "Expired"
          BY <3>1, <4>1 DEF RunOK, State
      <4> QED BY <2>5, <2>6, <3>1, <4>2 DEF RunOK
    <3>2. CASE run.exp.id # i
        BY <2>5, <2>6, <3>2 DEF RunOK, State, SameBut
    <3> QED BY <3>1, <3>2
  <2>13. TimesOK'
      BY <1>1, <1>3, <1>4, <2>6, <2>10 DEF TimesOK, OnGrid, IsExpired, Handling, SameBut
  <2> QED BY <1>1, <1>4, <2>4, <2>7, <2>8, <2>9, <2>11, <2>12, <2>13
<1> QED BY <1>5, <1>6

----------------------------------------------------------------------------
(* The theorems.                                                           *)

\* Every step keeps the invariant.
LEMMA StepQueue == ASSUME QueueInv, EntryKept, [TimerNext]_tvars PROVE QueueInv'
<1>1. CASE Tick
    BY <1>1, TickQueue
<1>2. CASE RunEnd
    BY <1>2, RunEndQueue
<1>3. CASE Exit \/ NextRun \/ \E k \in Tasks : IoRun(k)
    BY <1>3, LoopQueue
<1>4. CASE \E e \in Entries : QPop(e)
    BY <1>4, QPopQueue
<1>5. CASE \E t \in Timers : TimerOp(t)
  <2>1. PICK t \in Timers : TimerOp(t)
      BY <1>5
  <2>2. CASE \E d \in Durs : New(t, d)
      BY <2>2, NewQueue
  <2>3. CASE Schedule(t)
      BY <2>3, ScheduleQueue
  <2>4. CASE Poll(t)
      BY <2>4, PollQueue
  <2>5. CASE Drop(t)
      BY <2>5, DropQueue
  <2> QED BY <2>1, <2>2, <2>3, <2>4, <2>5 DEF TimerOp
<1>6. CASE UNCHANGED tvars
  <2>1. TypeOK' /\ HeapOK' /\ OnceOK' /\ AwaitedOK'
      BY <1>6 DEF tvars, QueueInv, TypeOK, HeapOK, OnceOK, AwaitedOK, Entries, State
  <2>2. HandleOwnsEntry' /\ RunOK' /\ TimesOK'
      BY <1>6 DEF tvars, QueueInv, HandleOwnsEntry, RunOK, TimesOK, Held, Handling, State,
                  Entries, OnGrid, IsExpired
  <2> QED BY <1>6, <2>1, <2>2 DEF tvars, QueueInv
<1> QED BY <1>1, <1>2, <1>3, <1>4, <1>5, <1>6 DEF TimerNext

\* The heap, the slab and the timers agree after every step of src/reactor/timer.rs,
\* in the middle of a task's run too.
THEOREM TimerInvariance ==
    ASSUME EntryKept
    PROVE  TimerSpec => []QueueInv
<1>1. TimerInit => QueueInv
    BY InitQueue
<1>2. QueueInv /\ [TimerNext]_tvars => QueueInv'
    BY StepQueue
<1> QED BY <1>1, <1>2, PTL DEF TimerSpec

\* Every pending entry is awaited by exactly one expiration in the heap, an expired
\* one by none, and no expiration awaits a free index: Queue::poll finds what it
\* looks up unchecked.
THEOREM TimerQueueConsistent ==
    ASSUME EntryKept
    PROVE  TimerSpec => []QueueConsistent
<1>1. QueueInv => QueueConsistent
  <2> SUFFICES ASSUME QueueInv PROVE QueueConsistent
      OBVIOUS
  <2>1. \A e \in Entries : heap[e] = 1 /\ IsUsed(tasks, e.id)
      BY DEF QueueInv, HeapOK
  <2>2. ASSUME NEW i, IsUsed(tasks, i)
        PROVE  Cardinality(Copies(i)) = IF State(i) = "Expired" THEN 0 ELSE 1
    <3>1. CASE State(i) = "Expired"
      <4>1. Copies(i) = {}
          BY <3>1 DEF QueueInv, HeapOK, Copies
      <4> QED BY <3>1, <4>1, FS_EmptySet
    <3>2. CASE State(i) # "Expired"
      <4>1. PICK e \in Entries : e.id = i
          BY <2>2, <3>2 DEF QueueInv, AwaitedOK
      <4>2. Copies(i) = {e}
          BY <4>1 DEF QueueInv, OnceOK, Copies
      <4> QED BY <3>2, <4>2, FS_Singleton
    <3> QED BY <3>1, <3>2
  <2> QED BY <2>1, <2>2 DEF QueueConsistent, State
<1> QED BY <1>1, TimerInvariance, PTL

\* A timer the program holds names its own entry, never one whose index was used
\* again, and that entry wakes the task that scheduled it.
THEOREM TimerHandleOwnsEntry ==
    ASSUME EntryKept
    PROVE  TimerSpec => []HandleOwnsEntry
<1>1. QueueInv => HandleOwnsEntry
    BY DEF QueueInv
<1> QED BY <1>1, TimerInvariance, PTL

\* No timer is Ready before its time, and a periodic timer's expirations stay on its
\* grid however late its task runs.
THEOREM TimerNeverEarly ==
    ASSUME EntryKept
    PROVE  TimerSpec => []NeverEarly
<1>1. QueueInv => NeverEarly
  <2> SUFFICES ASSUME QueueInv PROVE NeverEarly
      OBVIOUS
  <2>1. ASSUME NEW t \in Periodics, NEW e \in Entries, Held(t), e.id = timer[t].id
        PROVE  e.at >= timer[t].at /\ (e.at - timer[t].at) % Period = 0
    <3>1. t \in Timers
        BY DEF Timers
    <3>2. PICK k \in Nat : e.at = timer[t].at + Period * k
        BY <2>1, <3>1 DEF QueueInv, TimesOK, OnGrid
    <3>3. e.at \in Nat /\ timer[t].at \in Nat
        BY <3>1 DEF QueueInv, TypeOK, Expirations
    <3> QED BY <3>2, <3>3, GridTime
  <2> QED BY <2>1 DEF QueueInv, NeverEarly
<1> QED BY <1>1, TimerInvariance, PTL

\* No case that timer.rs declares unreachable is reached.
THEOREM TimerNeverUnreachable ==
    ASSUME EntryKept
    PROVE  TimerSpec => []NeverUnreachable
<1>1. QueueInv => NeverUnreachable
    BY DEF QueueInv, NeverUnreachable
<1> QED BY <1>1, TimerInvariance, PTL
=============================================================================

-------------------------------- MODULE Wheel --------------------------------
(***************************************************************************)
(* src/reactor/wheel.rs: the coarse timers behind sleep, TimeoutFuture and *)
(* TimeoutStream (src/reactor/sleep.rs, src/reactor/timeout.rs).  One      *)
(* circular, doubly linked list runs through NumSlots slot markers and the *)
(* entries; an entry of t seconds stands in front of the marker t places   *)
(* after the current one, and a tick moves past the entries in front of    *)
(* the next marker, running the task of each.  Those tasks drop, make and  *)
(* reschedule timers while tick is walking the list: each such operation   *)
(* is an action between two steps of the walk.                             *)
(*                                                                         *)
(* Time is counted in half seconds, the finest grain that round_to_secs    *)
(* tells apart, from the first use of the wheel, which spawns the task     *)
(* that ticks it; its periodic timer is due every second and may be Lag    *)
(* half seconds late.  reactor::run may be called again when it returns.   *)
(***************************************************************************)
EXTENDS SlabOps, FiniteSets

CONSTANTS
    NumSlots,      \* NUM_OF_SLOTS, a power of two
    Names,         \* the sleeps and timeouts of the program
    Streams,       \* those that are TimeoutStreams
    Tasks, Owner,  \* its tasks, and which of them holds each timer
    Secs,          \* timeouts they are made with
    MaxClock,      \* bound: the clock stops here
    MaxMade,       \* bound: how many timers are made
    Races,         \* what tasks run by tick may do to the list it is walking:
                   \* "short" - schedule a timeout of one second,
                   \* "cancel" - drop or reschedule a timer of the slot being walked,
                   \* "late" - reschedule a timer that has expired
                   \* "long" - put off a timer longer than the wheel in the first half
                   \*          of a second: one of Mask + 1 seconds is lost, and a
                   \*          longer one expires a tick early
                   \* "again" - use the wheel in a second reactor::run
    Lag,           \* how late a tick may be, in half seconds
    None

ASSUME WheelAssumption ==
    /\ NumSlots \in Nat \ {0, 1}
    /\ Owner \in [Names -> Tasks] /\ Streams \subseteq Names
    /\ Secs \subseteq Nat /\ MaxClock \in Nat /\ MaxMade \in Nat
    /\ Races \subseteq {"short", "cancel", "late", "long", "again"}
    /\ Lag \in Nat
    /\ None \notin Tasks /\ None \notin [k : {"E", "S", "Nil"}, i : Int]

VARIABLES
    w,       \* Inner: [entries, slots, cur, bad]; bad: an unreachable case was reached
    inner,   \* Wheel.inner is Some
    driver,  \* the task that ticks the wheel is in the event loop
    timer,   \* the Timers: [state, id, secs]
    live,    \* the adaptors that hold their future or stream still
    clock,   \* Instant::now() in half seconds, from the wheel's first use
    walk,    \* tick's loop: the token it goes to next, or None
    run,     \* the task being run, or None
    exit,    \* run_task said that the loop is to end
    ticks,   \* history: completed ticks
    since,   \* history: ticks completed when each timer was last scheduled
    made     \* history: timers made

wheel == <<w, inner, driver>>
loop == <<clock, walk, run, exit>>
wvars == <<w, inner, driver, timer, live, clock, walk, run, exit, ticks, since, made>>

Mask == NumSlots - 1
effective_slot(i) == i % NumSlots
Later(a, b) == effective_slot(a + b)

E(id) == [k |-> "E", i |-> id]
S(idx) == [k |-> "S", i |-> idx]
Nil == [k |-> "Nil", i |-> 0]
NoExp == -1
Unused == [state |-> "Free", id |-> INVALID_INDEX, secs |-> 0]

WheelInit ==
    /\ w = [entries |-> SlabNew, cur |-> 0, bad |-> FALSE,
            slots |-> [i \in 0..Mask |-> [prev |-> S(Later(i, Mask)), next |-> S(Later(i, 1))]]]
    /\ inner = FALSE /\ driver = FALSE
    /\ timer = [t \in Names |-> Unused] /\ live = {}
    /\ clock = 0 /\ walk = None /\ run = None /\ exit = FALSE
    /\ ticks = 0 /\ since = [t \in Names |-> 0] /\ made = 0

----------------------------------------------------------------------------
(* Inner.                                                                  *)

Bad(x) == [x EXCEPT !.bad = TRUE]
Entry(x, id) == Elem(x.entries, id)
SetEntry(x, id, e) == [x EXCEPT !.entries = Update(@, id, e)]

\* prev.next = tok and next.prev = tok: the neighbour is a slot or an entry, which
\* is looked up unchecked; Nil is unreachable.
SetNext(x, at, tok) ==
    CASE at.k = "S" -> [x EXCEPT !.slots[at.i].next = tok]
      [] at.k = "E" /\ IsUsed(x.entries, at.i) -> SetEntry(x, at.i, [Entry(x, at.i) EXCEPT !.next = tok])
      [] OTHER -> Bad(x)
SetPrev(x, at, tok) ==
    CASE at.k = "S" -> [x EXCEPT !.slots[at.i].prev = tok]
      [] at.k = "E" /\ IsUsed(x.entries, at.i) -> SetEntry(x, at.i, [Entry(x, at.i) EXCEPT !.prev = tok])
      [] OTHER -> Bad(x)

\* The entry goes in front of marker s: the second half of schedule and of
\* reschedule_internal.  (slot is history: the marker it was put in front of.)
LinkBefore(x, id, s) ==
    LET p == x.slots[s].prev
        x1 == SetEntry(x, id, [Entry(x, id) EXCEPT !.prev = p, !.next = S(s), !.slot = s])
        x2 == SetNext(x1, p, E(id))
    IN [x2 EXCEPT !.slots[s].prev = E(id)]

\* The mutant: nothing remembers when a timeout longer than the wheel is due.
ScheduleForgets(x, secs, task) ==
    LET timeout == IF secs > Mask THEN Mask ELSE secs
        e == [prev |-> Nil, next |-> Nil, task |-> task, slot |-> 0, exp |-> NoExp]
    IN LinkBefore([x EXCEPT !.entries = Insert(@, e)], NextIndex(x.entries), Later(x.cur, timeout))

\* schedule: a timeout longer than the wheel goes as far as the wheel reaches and
\* remembers when it is due.
schedule(x, secs, task) ==
    LET timeout == IF secs > Mask THEN Mask ELSE secs
        e == [prev |-> Nil, next |-> Nil, task |-> task, slot |-> 0,
              exp |-> IF secs > Mask THEN clock + 2 * secs ELSE NoExp]
        id == NextIndex(x.entries)
    IN LinkBefore([x EXCEPT !.entries = Insert(@, e)], id, Later(x.cur, timeout))

round_to_secs(half) == (half + 1) \div 2

\* reschedule_internal(half, exp): half is the time left, in half seconds.
reschedule_internal(x, half, exp, id) ==
    LET secs == round_to_secs(half)
        timeout == IF secs > Mask THEN Mask ELSE secs
        x1 == IF secs > Mask
                THEN SetEntry(x, id, [Entry(x, id) EXCEPT !.exp = IF exp = NoExp THEN clock + half ELSE exp])
                ELSE x
    IN LinkBefore(x1, id, Later(x.cur, timeout))

\* Takes the entry out of the list: Nil neighbours are unreachable.
Unlink(x, e) == SetPrev(SetNext(x, e.prev, e.next), e.next, e.prev)

reschedule(x, half, id) ==
    IF ~IsUsed(x.entries, id) \/ Entry(x, id).prev = Nil
      THEN Bad(x)
      ELSE reschedule_internal(Unlink(x, Entry(x, id)), half, NoExp, id)

\* The mutant: only the entry before the cancelled one learns of it.
HalfUnlinked(x, id) ==
    LET e == Entry(x, id)
        x1 == [x EXCEPT !.entries = Remove(@, id)]
    IN IF e.prev = Nil THEN x1 ELSE SetNext(x1, e.prev, e.next)

\* The mutant: the entry of an expired timer is not removed.
ExpiredKept(x, id) ==
    LET e == Entry(x, id)
    IN IF e.prev = Nil THEN x ELSE Unlink([x EXCEPT !.entries = Remove(@, id)], e)

\* cancel: remove().unwrap(), then unlink, unless the entry has expired.
cancel(x, id) ==
    IF ~IsUsed(x.entries, id) THEN Bad(x)
    ELSE LET e == Entry(x, id)
             x1 == [x EXCEPT !.entries = Remove(@, id)]
         IN IF e.prev = Nil THEN x1 ELSE Unlink(x1, e)

----------------------------------------------------------------------------
(* tick, called by the wheel's own task once a second.                     *)

\* Time passes, in the middle of a run too, until the loop has ended.
Advance ==
    /\ ~w.bad /\ inner /\ ~exit /\ clock < MaxClock
    /\ driver => clock < 2 * (ticks + 1) + Lag
    /\ clock' = clock + 1
    /\ UNCHANGED <<wheel, timer, live, walk, run, exit, ticks, since, made>>

\* Nothing in front of the next marker: move on.  Else walk.
TickStart ==
    /\ ~w.bad /\ driver /\ ~exit /\ walk = None /\ run = None
    /\ 2 * (ticks + 1) <= clock
    /\ LET first == w.slots[w.cur].next IN
       CASE first.k = "S" -> /\ w' = [w EXCEPT !.cur = first.i]
                             /\ ticks' = ticks + 1
                             /\ UNCHANGED walk
         [] first.k = "E" -> walk' = first /\ UNCHANGED <<w, ticks>>
         [] first.k = "Nil" -> w' = Bad(w) /\ UNCHANGED <<walk, ticks>>
    /\ UNCHANGED <<inner, driver, timer, live, clock, run, exit, since, made>>

\* One turn of the loop up to the call of the task: the entry leaves the list; if it
\* is due in a second or more it is put back, else its task runs (unless the loop is
\* ending).  next was read before.
Visit ==
    /\ ~w.bad /\ walk # None /\ run = None
    /\ walk.k = "E"
    /\ IF ~IsUsed(w.entries, walk.i)
         THEN w' = Bad(w) /\ UNCHANGED <<walk, run>>
         ELSE LET id == walk.i
                  e == Entry(w, id)
                  x == SetEntry(w, id, [e EXCEPT !.prev = Nil, !.next = Nil, !.exp = NoExp])
                  again == e.exp # NoExp /\ e.exp >= clock + 2
              IN /\ walk' = e.next
                 /\ w' = IF ~exit /\ again THEN reschedule_internal(x, e.exp - clock, e.exp, id) ELSE x
                 /\ run' = IF ~exit /\ ~again THEN e.task ELSE None
    /\ UNCHANGED <<inner, driver, timer, live, clock, exit, ticks, since, made>>

\* The mutant: the marker reached still names the last entry walked.
HalfClosed ==
    /\ ~w.bad /\ walk # None /\ run = None /\ walk.k = "S"
    /\ w' = [w EXCEPT !.slots[w.cur].next = walk, !.cur = walk.i]
    /\ ticks' = ticks + 1 /\ walk' = None
    /\ UNCHANGED <<inner, driver, timer, live, clock, run, exit, since, made>>

\* The loop ends at a marker: the two markers become neighbours.
TickEnd ==
    /\ ~w.bad /\ walk # None /\ run = None
    /\ walk.k # "E"
    /\ IF walk.k = "Nil"
         THEN w' = Bad(w) /\ UNCHANGED ticks
         ELSE /\ w' = [w EXCEPT !.slots[w.cur].next = walk,
                                !.slots[walk.i].prev = S(w.cur),
                                !.cur = walk.i]
              /\ ticks' = ticks + 1
    /\ walk' = None
    /\ UNCHANGED <<inner, driver, timer, live, clock, run, exit, since, made>>

\* An event of another kind runs a task.
IoRun(k) ==
    /\ ~w.bad /\ ~exit /\ walk = None /\ run = None
    /\ run' = k
    /\ UNCHANGED <<wheel, timer, live, clock, walk, exit, ticks, since, made>>

RunEnd ==
    /\ ~w.bad /\ run # None
    /\ run' = None
    /\ UNCHANGED <<wheel, timer, live, clock, walk, exit, ticks, since, made>>

\* The main task has returned in this run: the loop ends and drops every task.
RunEndExit ==
    /\ ~w.bad /\ run # None
    /\ run' = None /\ exit' = TRUE
    /\ UNCHANGED <<wheel, timer, live, clock, walk, ticks, since, made>>

\* They are gone, the one that ticks the wheel among them, and reactor::run is called
\* again.  Wheel.inner stays.
Rerun ==
    /\ ~w.bad /\ exit /\ walk = None /\ \A t \in Names : timer[t].state = "Free"
    /\ exit' = FALSE /\ driver' = FALSE
    /\ UNCHANGED <<w, inner, timer, live, clock, walk, run, ticks, since, made>>

----------------------------------------------------------------------------
(* What a running task does with its sleeps and timeouts.                  *)

InTick == walk # None
Expired(t) == Entry(w, timer[t].id).prev = Nil
Walked(t) == InTick /\ ~Expired(t) /\ Entry(w, timer[t].id).slot = Later(w.cur, 1)

\* The program's restraint: see Races.
Allowed(s) ==
    /\ InTick /\ s = 1 => "short" \in Races
    /\ s > Mask /\ clock % 2 = 0 => "long" \in Races
    /\ inner /\ ~driver => "again" \in Races

Runs(t) == ~w.bad /\ run = Owner[t]

\* sleep, TimeoutFuture::new and TimeoutStream::new: a timer of no seconds is Expired
\* from the start and has no entry.
New(t, s) ==
    /\ Runs(t) /\ timer[t].state = "Free" /\ made < MaxMade
    /\ timer' = [timer EXCEPT ![t] = [state |-> IF s = 0 THEN "Expired" ELSE "Unscheduled",
                                      id |-> INVALID_INDEX, secs |-> s]]
    /\ live' = live \cup {t}
    /\ made' = made + 1
    /\ UNCHANGED <<wheel, loop, ticks, since>>

\* Wheel::schedule: the first use makes the wheel and spawns the task that ticks it.
FirstUse(x, secs, task) ==
    /\ inner' = TRUE /\ driver' = IF inner THEN driver ELSE TRUE
    /\ w' = schedule(x, secs, task)

Schedule(t) ==
    /\ timer[t].state = "Unscheduled" /\ Allowed(timer[t].secs)
    /\ timer' = [timer EXCEPT ![t].state = "Scheduled", ![t].id = NextIndex(w.entries)]
    /\ FirstUse(w, timer[t].secs, run)
    /\ since' = [since EXCEPT ![t] = ticks]
    /\ UNCHANGED <<live, loop, ticks, made>>

\* Timer::reschedule of a timer that is scheduled: the entry keeps its index.
Reschedule(t) ==
    /\ timer[t].state = "Scheduled"
    /\ Expired(t) => "late" \in Races
    /\ Walked(t) => "cancel" \in Races
    /\ Allowed(timer[t].secs)
    /\ w' = reschedule(w, 2 * timer[t].secs, timer[t].id)
    /\ since' = [since EXCEPT ![t] = ticks]
    /\ UNCHANGED <<inner, driver, timer, live, loop, ticks, made>>

\* The future or stream is NotReady, or it is a sleep: the timer is polled.  The first
\* poll schedules it; one that finds it expired takes the future and gives it back in a
\* TimeoutError (a sleep is Ready); the others change nothing.
PollNotReady(t) == Runs(t) /\ t \in live /\ Schedule(t)
PollExpired(t) ==
    /\ Runs(t) /\ t \in live
    /\ timer[t].state = "Expired" \/ (timer[t].state = "Scheduled" /\ Expired(t))
    /\ live' = live \ {t}
    /\ UNCHANGED <<wheel, timer, loop, ticks, since, made>>

\* TimeoutStream::poll with an item: the timer starts again.  (One of no seconds says
\* false, and the item is lost with a TimeoutError: PollExpired.)
PollItem(t) == Runs(t) /\ t \in live \cap Streams /\ (Schedule(t) \/ Reschedule(t))

\* Timer::drop, by the running task or, when the loop has ended, with the tasks.
Drop(t) ==
    /\ ~w.bad /\ (run = Owner[t] \/ (exit /\ walk = None))
    /\ timer[t].state # "Free"
    /\ timer[t].state = "Scheduled" /\ Walked(t) => "cancel" \in Races
    /\ w' = IF timer[t].state = "Scheduled" THEN cancel(w, timer[t].id) ELSE w
    /\ timer' = [timer EXCEPT ![t] = Unused]
    /\ live' = live \ {t}
    /\ UNCHANGED <<inner, driver, loop, ticks, since, made>>

TimerOp(t) == \/ \E s \in Secs : New(t, s)
              \/ PollNotReady(t) \/ PollExpired(t) \/ PollItem(t) \/ Drop(t)

WheelNext ==
    \/ Advance \/ TickStart \/ Visit \/ TickEnd \/ RunEnd \/ RunEndExit \/ Rerun
    \/ \E k \in Tasks : IoRun(k)
    \/ \E t \in Names : TimerOp(t)

WheelSpec == WheelInit /\ [][WheelNext]_wvars

----------------------------------------------------------------------------
(* Properties.                                                             *)

Linked == {S(i) : i \in 0..Mask} \cup
          {E(i) : i \in {j \in 0..w.entries.n - 1 :
                           IsUsed(w.entries, j) /\ Entry(w, j).prev # Nil}}
NextOf(tok) == IF tok.k = "S" THEN w.slots[tok.i].next ELSE Entry(w, tok.i).next
PrevOf(tok) == IF tok.k = "S" THEN w.slots[tok.i].prev ELSE Entry(w, tok.i).prev

\* Between ticks the list is sound: following next and following prev undo each
\* other, no link leads to an entry that was freed, and what stands in front of a
\* marker was put in front of that marker.
ListSound ==
    ~InTick =>
      \A tok \in Linked :
        /\ NextOf(tok) \in Linked /\ PrevOf(NextOf(tok)) = tok
        /\ PrevOf(tok) \in Linked /\ NextOf(PrevOf(tok)) = tok
        /\ tok.k = "E" =>
             NextOf(tok) = S(Entry(w, tok.i).slot) \/
             (NextOf(tok).k = "E" /\ Entry(w, NextOf(tok).i).slot = Entry(w, tok.i).slot)

\* A timer the program holds names an entry of its own task, no two timers name the
\* same entry, and an entry no timer names has been freed: wheel.rs frees an entry in
\* cancel only, whether the timer has expired, was moved on or is still in the list.
HandleOwnsEntry ==
    LET held == {t \in Names : timer[t].state = "Scheduled"} IN
    /\ \A t \in held : /\ IsUsed(w.entries, timer[t].id)
                       /\ Entry(w, timer[t].id).task = Owner[t]
                       /\ \A u \in held \ {t} : timer[u].id # timer[t].id
    /\ Cardinality({i \in 0..w.entries.n - 1 : IsUsed(w.entries, i)}) = Cardinality(held)

\* sleep and timeout keep to the second: between the ticks of a loop that runs, a timer
\* of t seconds has expired if and only if t ticks have been since it was scheduled,
\* whether the wheel is long enough for it or it was moved on by the clock; and there is
\* a task that ticks the wheel.  (A loop that ends takes the rest of the slot it is
\* walking off the list, whatever is due, and drops every timer.)
OnTime ==
    ~InTick /\ ~exit =>
      \A t \in Names : timer[t].state = "Scheduled" =>
        driver /\ (Expired(t) <=> ticks - since[t] >= timer[t].secs)

\* None of the cases the code calls unreachable is reached, and no freed entry is
\* looked up.
NeverUnreachable == ~w.bad
=============================================================================

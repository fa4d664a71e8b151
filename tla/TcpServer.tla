------------------------------ MODULE TcpServer ------------------------------
(***************************************************************************)
(* src/service/tcp/server: the server thread accepts connections and hands *)
(* them out.  With several workers, each is a thread with its own event    *)
(* loop, fed through a channel of worker_conns places, and the server      *)
(* thread bounds what a worker has by a counter that it increments after   *)
(* the hand-over and the worker's sessions decrement when they end.  With  *)
(* one worker the sessions are tasks of the server thread itself.          *)
(*                                                                         *)
(* The channels are abstract (Channel, which Spsc implements), except that *)
(* the receiver still looks for an end of stream after it has looked for a *)
(* message (src/sys/unix/spsc.rs), two steps here as well.  The sessions'  *)
(* handlers and the peers are the environment: a session ends at any time, *)
(* and its task may hold a Gate.  An error of the stream of connections    *)
(* (server.rs:102), which ends the server's task and its workers with it,  *)
(* is left out.                                                            *)
(***************************************************************************)
EXTENDS Integers, Sequences, FiniteSets

CONSTANTS
    NumWorkers,   \* Server.num_of_workers, a power of two, when it is not 1
    WorkerConns,  \* Server.worker_conns
    Word,         \* the number of values of a usize
    MaxConns,     \* bound: how many connections arrive
    MaxFails,     \* bound: how many workers' streams fail
    Modes         \* whether the server has one worker: a set of BOOLEANs

ASSUME ServerAssumption ==
    /\ NumWorkers \in Nat \ {0, 1} /\ WorkerConns \in Nat \ {0}
    /\ MaxConns \in Nat /\ Word \in Nat /\ MaxConns < Word
    /\ MaxFails \in Nat /\ Modes \in SUBSET BOOLEAN

Workers == 0..NumWorkers - 1
Conns == 1..MaxConns

VARIABLES
    single,   \* inner.mask == 0
    \* the server thread: what it is doing, the connection in hand, the worker it
    \* looks at; and Inner.idx
    pc, conn, at, idx,
    stopped,  \* the Server was dropped: its tx is None
    \* per worker: conn_count, the channel, the sender's end of it, the thread
    \* ("run", "empty": found the channel empty, "closing": the main task is done
    \* and a gate is open, "gone"), the live sessions
    count, chan, tx, thread, sessions,
    \* history: connections arrived, those whose task holds a gate, those refused,
    \* lost with a worker's channel, ended by the end of an event loop; failures
    arrived, gated, refused, lost, cut, fails

threadVars == <<pc, conn, at, idx>>
history == <<arrived, gated, refused, lost, cut, fails>>
vars == <<single, threadVars, stopped, count, chan, tx, thread, sessions, history>>

Init ==
    /\ single \in Modes
    /\ pc = "idle" /\ conn = 0 /\ at = 0 /\ idx = 0 /\ stopped = FALSE
    /\ count = [w \in Workers |-> 0]
    /\ chan = [w \in Workers |-> <<>>]
    /\ tx = [w \in Workers |-> ~single]
    /\ thread = [w \in Workers |-> IF single /\ w # 0 THEN "gone" ELSE "run"]
    /\ sessions = [w \in Workers |-> {}]
    /\ arrived = 0 /\ gated = {} /\ refused = {} /\ lost = [w \in Workers |-> {}]
    /\ cut = {} /\ fails = 0

Plus(n, k) == (n + k) % Word
Gates(w) == sessions[w] \cap gated

----------------------------------------------------------------------------
(* Sessions and the event loop they run in.                                *)

\* An event loop with open sessions s ends: EventLoop::clear drops their tasks, and
\* each Session's drop decrements the count.
Finish(w, s) ==
    /\ thread' = [thread EXCEPT ![w] = "gone"]
    /\ sessions' = [sessions EXCEPT ![w] = {}]
    /\ count' = [count EXCEPT ![w] = Plus(@, Word - (Cardinality(sessions[w])))]
    /\ cut' = cut \cup s

\* The main task of the loop is done: it ends, unless a task holds a gate.
MainDone(w) ==
    IF Gates(w) = {}
      THEN Finish(w, sessions[w])
      ELSE thread' = [thread EXCEPT ![w] = "closing"] /\ UNCHANGED <<count, sessions, cut>>

\* The mutant: a session ends without giving its place back.
PlaceKept(n) == n
\* Session::drop: fetch_sub(1), which wraps.
Release(n) == Plus(n, Word - 1)

\* A session ends; if it held the last gate of a loop that is closing, so does the loop.
Close(w, c) ==
    /\ c \in sessions[w]
    /\ IF thread[w] = "closing" /\ Gates(w) = {c}
         THEN Finish(w, sessions[w] \ {c})
         ELSE /\ sessions' = [sessions EXCEPT ![w] = @ \ {c}]
              /\ count' = [count EXCEPT ![w] = Release(@)]
              /\ UNCHANGED <<thread, cut>>
    /\ UNCHANGED <<single, threadVars, stopped, chan, tx, arrived, gated, refused, lost, fails>>

----------------------------------------------------------------------------
(* The server thread with one worker: Inner::run_single.                   *)

\* fetch_add, then the look at what it returned.  A Gate can only be had while the
\* main task is not done.
AcceptSingle(g) ==
    /\ single /\ thread[0] \in {"run", "closing"} /\ arrived < MaxConns
    /\ g => thread[0] = "run"
    /\ arrived' = arrived + 1
    /\ count' = [count EXCEPT ![0] = Plus(@, 1)]
    /\ IF WorkerConns > count[0]
         THEN /\ sessions' = [sessions EXCEPT ![0] = @ \cup {arrived'}]
              /\ gated' = IF g THEN gated \cup {arrived'} ELSE gated
              /\ UNCHANGED refused
         ELSE refused' = refused \cup {arrived'} /\ UNCHANGED <<sessions, gated>>
    /\ UNCHANGED <<single, threadVars, stopped, chan, tx, thread, lost, cut, fails>>

\* Server::run's stream of Inners has ended.
StopSingle ==
    /\ single /\ stopped /\ thread[0] = "run"
    /\ MainDone(0)
    /\ UNCHANGED <<single, threadVars, stopped, chan, tx, arrived, gated, refused, lost, fails>>

----------------------------------------------------------------------------
(* The server thread with several workers: Inner::run.                     *)

Accept ==
    /\ ~single /\ pc = "idle" /\ arrived < MaxConns
    /\ arrived' = arrived + 1
    /\ conn' = arrived' /\ at' = idx /\ pc' = "look"
    /\ UNCHANGED <<single, idx, stopped, count, chan, tx, thread, sessions, gated, refused, lost,
                   cut, fails>>

\* The mutant: one too many.
UpToAndOneMore(w) == count[w] <= WorkerConns
HasPlace(w) == count[w] < WorkerConns

\* worker.conn_count(): a worker below the limit gets the connection; when all have
\* been asked the connection is dropped.
Look ==
    LET next == (at + 1) % NumWorkers IN
    /\ pc = "look"
    /\ \/ /\ HasPlace(at)
          /\ idx' = next /\ pc' = "send"
          /\ UNCHANGED <<at, refused>>
       \/ /\ ~HasPlace(at) /\ next = idx
          /\ pc' = "idle" /\ refused' = refused \cup {conn}
          /\ UNCHANGED <<at, idx>>
       \/ /\ ~HasPlace(at) /\ next # idx
          /\ at' = next
          /\ UNCHANGED <<pc, idx, refused>>
    /\ UNCHANGED <<single, conn, stopped, count, chan, tx, thread, sessions, arrived, gated, lost,
                   cut, fails>>

Receiving(w) == thread[w] \in {"run", "empty"}

\* worker.send(s): SyncSender::send spins on a full channel; if the receiver has gone
\* the error is logged and the connection dropped.
Send ==
    /\ pc = "send"
    /\ \/ /\ ~Receiving(at)
          /\ lost' = [lost EXCEPT ![at] = @ \cup {conn}]
          /\ UNCHANGED chan
       \/ /\ Receiving(at) /\ Len(chan[at]) < WorkerConns
          /\ chan' = [chan EXCEPT ![at] = Append(@, conn)]
          /\ UNCHANGED lost
    /\ pc' = "inc"
    /\ UNCHANGED <<single, conn, at, idx, stopped, count, tx, thread, sessions, arrived, gated,
                   refused, cut, fails>>

\* The mutant: the count is left alone when the connection was not handed over.
IncIfSent ==
    /\ pc = "inc"
    /\ count' = [count EXCEPT ![at] = IF conn \in lost[at] THEN @ ELSE Plus(@, 1)]
    /\ pc' = "idle"
    /\ UNCHANGED <<single, conn, at, idx, stopped, chan, tx, thread, sessions, history>>

\* worker.inc_conn_count(), whether or not send succeeded.
Inc ==
    /\ pc = "inc"
    /\ count' = [count EXCEPT ![at] = Plus(@, 1)]
    /\ pc' = "idle"
    /\ UNCHANGED <<single, conn, at, idx, stopped, chan, tx, thread, sessions, history>>

\* The stream of Inners has ended, the loop clears its tasks and with them Inner: each
\* Worker in turn drops its sender and joins its thread.
StopMulti ==
    /\ ~single /\ stopped /\ pc = "idle"
    /\ pc' = "drop" /\ at' = 0
    /\ UNCHANGED <<single, conn, idx, stopped, count, chan, tx, thread, sessions, history>>

\* The mutant: the thread is joined with its channel still open.
JoinFirst ==
    /\ pc = "drop"
    /\ pc' = "join"
    /\ UNCHANGED <<single, conn, at, idx, stopped, count, chan, tx, thread, sessions, history>>

DropWorker ==
    /\ pc = "drop"
    /\ tx' = [tx EXCEPT ![at] = FALSE]
    /\ pc' = "join"
    /\ UNCHANGED <<single, conn, at, idx, stopped, count, chan, thread, sessions, history>>

\* The last reference to the channel went with the thread or with tx: what is in it is
\* dropped.
Join ==
    /\ pc = "join" /\ thread[at] = "gone"
    /\ lost' = [lost EXCEPT ![at] = @ \cup {chan[at][k] : k \in DOMAIN chan[at]}]
    /\ chan' = [chan EXCEPT ![at] = <<>>]
    /\ pc' = IF at = NumWorkers - 1 THEN "gone" ELSE "drop"
    /\ at' = IF at = NumWorkers - 1 THEN at ELSE at + 1
    /\ UNCHANGED <<single, conn, idx, stopped, count, tx, thread, sessions, arrived, gated, refused,
                   cut, fails>>

----------------------------------------------------------------------------
(* A worker thread: Inner::handle.                                         *)

\* A connection becomes a Session and, if the handler wants it, a task.
Take(w, g) ==
    /\ ~single /\ thread[w] = "run" /\ chan[w] # <<>>
    /\ chan' = [chan EXCEPT ![w] = Tail(@)]
    /\ sessions' = [sessions EXCEPT ![w] = @ \cup {Head(chan[w])}]
    /\ gated' = IF g THEN gated \cup {Head(chan[w])} ELSE gated
    /\ UNCHANGED <<single, threadVars, stopped, count, tx, thread, arrived, refused, lost, cut, fails>>

\* Recv::poll finds no message ...
FindEmpty(w) ==
    /\ ~single /\ thread[w] = "run" /\ chan[w] = <<>>
    /\ thread' = [thread EXCEPT ![w] = "empty"]
    /\ UNCHANGED <<single, threadVars, stopped, count, chan, tx, sessions, history>>

\* ... and waits, if there still is a sender,
Wait(w) ==
    /\ thread[w] = "empty" /\ tx[w]
    /\ thread' = [thread EXCEPT ![w] = "run"]
    /\ UNCHANGED <<single, threadVars, stopped, count, chan, tx, sessions, history>>

\* or is done.
EndOfStream(w) ==
    /\ thread[w] = "empty" /\ ~tx[w]
    /\ MainDone(w)
    /\ UNCHANGED <<single, threadVars, stopped, chan, tx, arrived, gated, refused, lost, fails>>

\* Recv::poll fails (epoll_ctl, the eventfd): reactor::run returns the error.
Fail(w) ==
    /\ ~single /\ Receiving(w) /\ fails < MaxFails
    /\ fails' = fails + 1
    /\ MainDone(w)
    /\ UNCHANGED <<single, threadVars, stopped, chan, tx, arrived, gated, refused, lost>>

----------------------------------------------------------------------------
\* Server::drop.
Stop ==
    /\ ~stopped
    /\ stopped' = TRUE
    /\ UNCHANGED <<single, threadVars, count, chan, tx, thread, sessions, history>>

ServerStep == Look \/ Send \/ Inc \/ StopMulti \/ DropWorker \/ Join \/ StopSingle
WorkerStep(w) == (\E g \in BOOLEAN : Take(w, g)) \/ FindEmpty(w) \/ Wait(w) \/ EndOfStream(w)

Next ==
    \/ Accept \/ (\E g \in BOOLEAN : AcceptSingle(g)) \/ Stop \/ ServerStep
    \/ \E w \in Workers : WorkerStep(w) \/ Fail(w) \/ \E c \in Conns : Close(w, c)

Spec == Init /\ [][Next]_vars

\* Threads run; the loop of the server thread sees the end of its stream however many
\* connections keep coming; a session whose task holds a gate ends (the program
\* promises that when it takes a Gate, and nothing else would end it).
Fairness ==
    /\ WF_vars(Look \/ Send \/ Inc \/ DropWorker \/ Join) /\ SF_vars(StopMulti) /\ WF_vars(StopSingle)
    /\ \A w \in Workers : WF_vars(WorkerStep(w))
    /\ \A w \in Workers, c \in Conns : WF_vars(c \in gated /\ Close(w, c))

FairSpec == Spec /\ Fairness

----------------------------------------------------------------------------
(* Properties.                                                             *)

Busy(w) == Cardinality(sessions[w]) + Len(chan[w])

\* worker_conns is the "max number of simultaneous connections per worker", those in
\* the channel included, although the count is checked, the connection handed over and
\* the count incremented in three steps while sessions of the worker end.  So the server
\* thread never spins in send on a full channel.
WithinLimit ==
    /\ \A w \in Workers : Busy(w) <= WorkerConns
    /\ pc = "send" /\ Receiving(at) => Len(chan[at]) < WorkerConns

\* Whenever the server thread looks at a counter, it is exact: not one too few for a
\* connection it has just handed over, and never the huge value it has when a session
\* ends before the server thread has counted it.
CountExact ==
    ~single /\ pc = "look" => \A w \in Workers : Receiving(w) => count[w] = Busy(w)

\* With several workers, one is passed over only while it has all the connections it
\* may have: no place is lost when connections end, are refused or fail.
PassedOverOnlyWhenFull ==
    [][ pc = "look" /\ pc' # "send" /\ (at' # at \/ pc' # pc) /\ Receiving(at)
          => Busy(at) = WorkerConns ]_vars

\* With one worker, a connection is refused only to "not exceed worker_conns".  The code
\* does not keep this: the place that run_single takes for a refused connection is never
\* given back.
RefusedOnlyWhenFull ==
    [][single /\ refused' # refused => Cardinality(sessions[0]) = WorkerConns]_vars

\* A worker whose thread has failed takes no more than worker_conns connections with it:
\* the count goes up for a connection that could not be handed over too.  And no session
\* that holds a Gate is ended by the shutdown.
LossBounded ==
    /\ \A w \in Workers : Cardinality(lost[w]) <= WorkerConns
    /\ cut \cap gated = {}

\* Dropping the Server returns: every thread is joined.
Stops == stopped ~> (IF single THEN thread[0] = "gone" ELSE pc = "gone")
=============================================================================

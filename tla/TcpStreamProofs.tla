--------------------------- MODULE TcpStreamProofs ---------------------------
(***************************************************************************)
(* A TCP stream on the three event queues (src/net/tcp.rs,                 *)
(* src/sys/unix/net/tcp.rs, src/sys/windows/net/tcp.rs), for buffers and   *)
(* transfers of every size.                                                *)
(***************************************************************************)
EXTENDS TcpStream, FiniteSetTheorems, SequenceTheorems, NaturalsInduction, WellFoundedInduction,
        TLAPS

Forms == {"None", "Incoming", "Accepted", "Connecting", "Finishing", "Connected", "Error",
          "Recv", "Sender", "Split", "Closed"}

\* The program keeps clear of the races that concern tasks, wakeups and completions; it
\* may discard what it has not sent, and let any number of blocks gather.
Orderly == Races \subseteq {"discard", "iov"}

InRun(t) == \E i \in DOMAIN run : run[i] = t

CtlTypes ==
    /\ form \in Forms /\ backend \in {"epoll", "kqueue", "iocp"}
    /\ own \in [Ops -> Tasks \cup {None}]
    /\ ops \subseteq Ops /\ pend \subseteq Ops
    /\ sch \in [R : Tasks, W : Tasks, rr : BOOLEAN, wr : BOOLEAN]
    /\ io \in [Ops -> {"idle", "flying", "queued"}]
    /\ run \in {<<>>, <<A>>, <<B>>, <<A, B>>} /\ alive \subseteq Tasks
    /\ left \in {<<>>} \cup {<<x>> : x \in Tasks \cup Ops}
    /\ told \in [Tasks -> SUBSET {"R", "W", "C"}]
    /\ fault = FALSE

\* Only a split stream is shared.  Polls are of live tasks.
StageOK ==
    /\ \A t \in Tasks : InRun(t) => t \in alive
    /\ form \notin {"Split", "Closed"} => alive = {A} /\ own["R"] = A /\ own["W"] = A
    /\ form = "Split" => \A o \in Ops : own[o] \in alive \cup {None}
    /\ form = "Connecting" => run = <<A>>

\* What a task can have been told.
SaidOK ==
    /\ form \in {"None", "Accepted", "Connecting", "Connected", "Error"} => told[A] = {}
    /\ form \in {"Incoming", "Finishing"} => told[A] \subseteq {"C"}
    /\ form \in {"Recv", "Sender", "Split"} => \A t \in Tasks : "C" \notin told[t]
    /\ "C" \notin told[B]

\* What is registered or in flight before there is a stream.
UseOK ==
    /\ form \in {"None", "Connecting", "Connected"} => ops = {}
    /\ form = "Incoming" => ops \subseteq {"R"} /\ ~InUse("W")
    /\ form = "Finishing" => ops \subseteq {"W"}
    /\ form \in {"Connecting", "Finishing", "Connected"} => ~InUse("R")
    /\ form = "Connected" => ~InUse("W")

\* What is left of a wakeup finds its task, or its schedule.
LeftOK ==
    left # <<>> =>
      /\ backend = "epoll" => left[1] \in alive
      /\ backend # "epoll" => left[1] \in Ops
      /\ backend = "kqueue" => form \in {"Recv", "Sender", "Split"} /\ sch[left[1]] \in alive

\* A registered operation runs a live task, the one that holds that side.
WatchOK == HasNio => \A o \in ops : sch[o] \in alive /\ (own[o] # None => sch[o] = own[o])

\* Completion ports: a side is ready if and only if its Overlapped is not in use.
PortOK ==
    /\ ~Iocp => pend = {} /\ \A o \in Ops : io[o] = "idle"
    /\ Iocp => ops = {}
    /\ \A o \in Ops : InUse(o) => HasNio /\ own[o] # None /\ sch[o] = own[o]
    /\ \A o \in Ops : Iocp /\ left = <<o>> => io[o] = "idle"
    /\ InUse("R") => "R" \in pend
    /\ Iocp /\ form = "Connecting" => InUse("W")
    /\ Iocp /\ HasNio => (sch.rr <=> ~InUse("R")) /\ (form # "Connecting" => (sch.wr <=> ~InUse("W")))

\* Registered, for the tasks that are being polled too.
Half(h) == IF h # "C" THEN h ELSE IF form = "Incoming" THEN "R" ELSE "W"
ToldOK ==
    \A t \in alive : \A h \in told[t] :
      own[Half(h)] = t /\ HasNio => (Half(h) \in ops \/ InUse(Half(h))) /\ sch[Half(h)] = t

CtlInv == CtlTypes /\ StageOK /\ SaidOK /\ UseOK /\ LeftOK /\ WatchOK /\ PortOK /\ ToldOK

----------------------------------------------------------------------------
(* Tasks, registrations and completions.                                   *)

\* What a poll in progress says of its task.
LEMMA PollFacts ==
    ASSUME CtlInv, NEW t, Polls(t)
    PROVE  /\ t \in Tasks /\ t \in alive /\ run # <<>> /\ t = Current /\ InRun(t)
           /\ (run = <<A>> /\ t = A) \/ (run = <<B>> /\ t = B) \/ (run = <<A, B>> /\ t = B)
           /\ form \notin {"Split", "Closed"} => t = A /\ run = <<A>>
<1>1. run \in {<<>>, <<A>>, <<B>>, <<A, B>>} /\ run # <<>> /\ t = run[Len(run)]
    BY DEF CtlInv, CtlTypes, Polls, Current
<1>2. (run = <<A>> /\ t = A) \/ (run = <<B>> /\ t = B) \/ (run = <<A, B>> /\ t = B)
  <2>0. ASSUME NEW x, NEW y
        PROVE  /\ Len(<<x>>) = 1 /\ <<x>>[1] = x /\ <<x>> # <<>>
               /\ Len(<<x, y>>) = 2 /\ <<x, y>>[2] = y /\ <<x, y>> # <<>>
      OBVIOUS
  <2>1. CASE run = <<A>>
    <3>1. run[Len(run)] = A
        BY <2>0, <2>1
    <3>2. t = A
        BY <1>1, <3>1
    <3> QED BY <2>1, <3>2
  <2>2. CASE run = <<B>>
    <3>1. run[Len(run)] = B
        BY <2>0, <2>2
    <3>2. t = B
        BY <1>1, <3>1
    <3> QED BY <2>2, <3>2
  <2>3. CASE run = <<A, B>>
    <3>1. run[Len(run)] = B
        BY <2>0, <2>3
    <3>2. t = B
        BY <1>1, <3>1
    <3> QED BY <2>3, <3>2
  <2> QED BY <1>1, <2>1, <2>2, <2>3
<1>3. InRun(t) /\ t \in Tasks
    BY <1>2 DEF InRun, Tasks
<1>4. t \in alive
    BY <1>3 DEF CtlInv, StageOK
<1>5. ASSUME form \notin {"Split", "Closed"} PROVE t = A /\ run = <<A>>
  <2>1. t = A
      BY <1>4, <1>5 DEF CtlInv, StageOK
  <2>2. t # B
      BY <2>1, TcpStreamAssumption DEF TcpStreamAssumption
  <2> QED BY <1>2, <2>1, <2>2
<1> QED BY <1>1, <1>2, <1>3, <1>4, <1>5 DEF Current

Flag(s, o) == IF o = "R" THEN s.rr ELSE s.wr

\* The other side's registration is left alone.
Only(o) ==
    \A p \in Ops \ {o} : /\ p \in ops' <=> p \in ops
                         /\ p \in pend' <=> p \in pend
                         /\ sch'[p] = sch[p] /\ Flag(sch', p) = Flag(sch, p) /\ io'[p] = io[p]

NioTypes ==
    /\ ops \subseteq Ops /\ pend \subseteq Ops
    /\ sch \in [R : Tasks, W : Tasks, rr : BOOLEAN, wr : BOOLEAN]
    /\ io \in [Ops -> {"idle", "flying", "queued"}]

\* Side o now waits, for task t.
Asked(t, o) ==
    /\ NioTypes' /\ Only(o) /\ sch'[o] = t
    /\ ~Iocp => o \in ops' /\ io' = io /\ pend' = pend
    /\ Iocp => /\ ops' = {} /\ Flag(sch', o) = FALSE
               /\ io'[o] # "idle" \/ left = <<o>>
               /\ left = <<o>> => io'[o] = io[o]
               /\ o = "R" => o \in pend'

\* schedule_read, and the read that is started on Windows.
LEMMA AwaitReadAsks ==
    ASSUME CtlInv, HasNio, NEW t \in Tasks, own["R"] = t, UNCHANGED <<left, backend>>,
           (AwaitRead(t) /\ (Iocp => is_read_ready)) \/ (UNCHANGED nio /\ ~is_read_ready)
    PROVE  Asked(t, "R")
<1> USE DEF CtlInv, CtlTypes, NioTypes, nio, overlapped, Ops
<1>1. CASE Iocp /\ AwaitRead(t) /\ is_read_ready
  <2>1. /\ io' = [io EXCEPT !["R"] = "flying"] /\ pend' = pend \cup {"R"} /\ UNCHANGED ops
        /\ sch' = [sch EXCEPT !["R"] = t, !.rr = @ /\ "R" # "R", !.wr = @ /\ "R" # "W"]
      BY <1>1 DEF AwaitRead, Start, Schedule
  <2>2. /\ sch' \in [R : Tasks, W : Tasks, rr : BOOLEAN, wr : BOOLEAN]
        /\ sch'["R"] = t /\ sch'["W"] = sch["W"] /\ sch'.rr = FALSE /\ sch'.wr = sch.wr
      BY <2>1
  <2>3. io' \in [Ops -> {"idle", "flying", "queued"}] /\ io'["R"] = "flying" /\ io'["W"] = io["W"]
      BY <2>1
  <2>4. left # <<"R">>
      BY <1>1 DEF is_read_ready, PortOK, InUse
  <2> QED BY <1>1, <2>1, <2>2, <2>3, <2>4 DEF Asked, Only, Flag, PortOK
<1>2. CASE ~Iocp /\ AwaitRead(t)
  <2>1. CASE "R" \in ops
    <3>1. UNCHANGED nio /\ sch["R"] = t
        BY <1>2, <2>1, TcpStreamAssumption DEF AwaitRead, schedule_read, WatchOK, TcpStreamAssumption
    <3> QED BY <1>2, <2>1, <3>1 DEF Asked, Only
  <2>2. CASE "R" \notin ops
    <3>1. /\ ops' = ops \cup {"R"} /\ sch' = [sch EXCEPT !.R = t, !.rr = FALSE]
          /\ UNCHANGED <<pend, io>>
        BY <1>2, <2>2 DEF AwaitRead, schedule_read
    <3>2. /\ sch' \in [R : Tasks, W : Tasks, rr : BOOLEAN, wr : BOOLEAN]
          /\ sch'["R"] = t /\ sch'["W"] = sch["W"] /\ sch'.wr = sch.wr
        BY <3>1
    <3> QED BY <1>2, <3>1, <3>2 DEF Asked, Only, Flag
  <2> QED BY <2>1, <2>2
<1>3. CASE UNCHANGED nio /\ ~is_read_ready
  <2>1. sch.rr = FALSE /\ "R" \in ops \cup pend
      BY <1>3 DEF is_read_ready
  <2>2. CASE Iocp
    <3>1. InUse("R") /\ "R" \in pend /\ sch["R"] = t /\ ops = {}
        BY <2>1, <2>2 DEF PortOK
    <3> QED BY <1>3, <2>1, <2>2, <3>1 DEF Asked, Only, Flag, InUse
  <2>3. CASE ~Iocp
    <3>1. "R" \in ops /\ sch["R"] = t
        BY <1>3, <2>1, <2>3, TcpStreamAssumption DEF WatchOK, TcpStreamAssumption, PortOK
    <3> QED BY <1>3, <2>3, <3>1 DEF Asked, Only
  <2> QED BY <2>2, <2>3
<1> QED BY <1>1, <1>2, <1>3

\* A task asks for what it holds, and is told NotReady or not.
LEMMA AskStep ==
    ASSUME CtlInv, NEW t \in alive, HasNio, NEW o \in Ops, own[o] = t, Asked(t, o),
           form \in {"Incoming", "Finishing", "Recv", "Sender", "Split"},
           form = "Incoming" => o = "R", form = "Finishing" => o = "W",
           UNCHANGED <<form, own, backend, run, left, alive, fault>>,
           NEW h \in {"R", "W", "C"}, Half(h) = o, h = "C" <=> form \in {"Incoming", "Finishing"},
           told' \in [Tasks -> SUBSET {"R", "W", "C"}], \A u \in Tasks \ {t} : told'[u] = told[u],
           told'[t] \subseteq told[t] \cup {h}
    PROVE  CtlInv'
<1> USE DEF CtlInv
<1>1. CtlTypes'
    BY DEF CtlTypes, Asked, NioTypes
<1>2. StageOK'
    BY DEF StageOK, InRun
<1>3. SaidOK'
  <2>1. CASE form \in {"Incoming", "Finishing"}
    <3>1. t = A /\ B \in Tasks \ {A}
        BY <2>1, TcpStreamAssumption DEF StageOK, Tasks, TcpStreamAssumption
    <3> QED BY <2>1, <3>1 DEF SaidOK
  <2>2. CASE form \in {"Recv", "Sender", "Split"}
    <3>1. \A u \in Tasks : "C" \notin told'[u]
        BY <2>2 DEF SaidOK
    <3> QED BY <2>2, <3>1 DEF SaidOK, Tasks
  <2> QED BY <2>1, <2>2
<1>0. ASSUME NEW p \in Ops, p # o PROVE InUse(p)' <=> InUse(p)
    BY <1>0 DEF InUse, Iocp, Asked, Only
<1>4. UseOK'
  <2>1. CASE form = "Incoming"
      BY <1>0, <1>1, <2>1 DEF UseOK, Asked, Only, CtlTypes, Ops
  <2>2. CASE form = "Finishing"
      BY <1>0, <1>1, <2>2 DEF UseOK, Asked, Only, CtlTypes, Ops
  <2> QED BY <2>1, <2>2 DEF UseOK
<1>5. LeftOK'
    BY DEF LeftOK, Asked, Only, CtlTypes
<1>6. WatchOK'
    BY DEF WatchOK, HasNio, Asked, Only, CtlTypes, NioTypes
<1>7. PortOK'
  <2>1. CASE Iocp
    <3>1. /\ InUse(o)' /\ sch'[o] = t /\ t # None /\ ops' = {} /\ Flag(sch', o) = FALSE
          /\ o = "R" => o \in pend'
        BY <2>1, TcpStreamAssumption DEF Asked, InUse, Iocp, CtlTypes, TcpStreamAssumption
    <3>2. /\ Iocp' /\ HasNio'
          /\ \A p \in Ops : InUse(p)' => own'[p] # None /\ sch'[p] = own'[p]
        BY <1>0, <2>1, <3>1 DEF PortOK, Asked, Only, HasNio, Iocp
    <3>3. CASE o = "R"
        BY <1>0, <2>1, <3>1, <3>2, <3>3 DEF PortOK, Asked, Only, Flag, Ops
    <3>4. CASE o = "W"
        BY <1>0, <2>1, <3>1, <3>2, <3>4 DEF PortOK, Asked, Only, Flag, Ops
    <3> QED BY <3>3, <3>4 DEF Ops
  <2>2. CASE ~Iocp
    <3>1. io' = io /\ ~Iocp' /\ ~InUse("R")' /\ ~InUse("W")' /\ (\A p \in Ops : io'[p] = "idle") /\ pend' = {}
        BY <2>2 DEF Asked, PortOK, InUse, Iocp, Ops
    <3> QED BY <3>1 DEF PortOK, Ops
  <2> QED BY <2>1, <2>2
<1>8. ToldOK'
    BY DEF ToldOK, HasNio, Asked, Only, CtlTypes, NioTypes, InUse, Iocp, Ops, Half
<1> QED BY <1>1, <1>2, <1>3, <1>4, <1>5, <1>6, <1>7, <1>8

\* schedule_write, and the WSASend that is started on Windows.
LEMMA AwaitWriteAsks ==
    ASSUME CtlInv, HasNio, form # "Connecting", NEW t \in Tasks, own["W"] = t, UNCHANGED <<left, backend>>,
           \/ ~Iocp /\ schedule_write(t)
           \/ Iocp /\ Start(t, "W") /\ is_write_ready
           \/ UNCHANGED nio /\ ~is_write_ready
    PROVE  Asked(t, "W")
<1> USE DEF CtlInv, CtlTypes, NioTypes, nio, overlapped, Ops
<1>1. CASE Iocp /\ Start(t, "W") /\ is_write_ready
  <2>1. /\ io' = [io EXCEPT !["W"] = "flying"] /\ pend' = pend \cup {"W"} /\ UNCHANGED ops
        /\ sch' = [sch EXCEPT !["W"] = t, !.rr = @ /\ "W" # "R", !.wr = @ /\ "W" # "W"]
      BY <1>1 DEF Start, Schedule
  <2>2. /\ sch' \in [R : Tasks, W : Tasks, rr : BOOLEAN, wr : BOOLEAN]
        /\ sch'["W"] = t /\ sch'["R"] = sch["R"] /\ sch'.wr = FALSE /\ sch'.rr = sch.rr
      BY <2>1
  <2>3. io' \in [Ops -> {"idle", "flying", "queued"}] /\ io'["W"] = "flying" /\ io'["R"] = io["R"]
      BY <2>1
  <2>4. left # <<"W">>
      BY <1>1 DEF is_write_ready, PortOK, InUse
  <2> QED BY <1>1, <2>1, <2>2, <2>3, <2>4 DEF Asked, Only, Flag, PortOK
<1>2. CASE ~Iocp /\ schedule_write(t)
  <2>1. CASE "W" \in ops
    <3>1. UNCHANGED nio /\ sch["W"] = t
        BY <1>2, <2>1, TcpStreamAssumption DEF schedule_write, WatchOK, TcpStreamAssumption
    <3> QED BY <1>2, <2>1, <3>1 DEF Asked, Only
  <2>2. CASE "W" \notin ops
    <3>1. /\ ops' = ops \cup {"W"} /\ sch' = [sch EXCEPT !.W = t, !.wr = FALSE]
          /\ UNCHANGED <<pend, io>>
        BY <1>2, <2>2 DEF schedule_write
    <3>2. /\ sch' \in [R : Tasks, W : Tasks, rr : BOOLEAN, wr : BOOLEAN]
          /\ sch'["W"] = t /\ sch'["R"] = sch["R"] /\ sch'.rr = sch.rr
        BY <3>1
    <3> QED BY <1>2, <3>1, <3>2 DEF Asked, Only, Flag
  <2> QED BY <2>1, <2>2
<1>3. CASE UNCHANGED nio /\ ~is_write_ready
  <2>1. sch.wr = FALSE /\ ("W" \in ops \/ Iocp)
      BY <1>3 DEF is_write_ready
  <2>2. CASE Iocp
    <3>1. InUse("W") /\ sch["W"] = t /\ ops = {}
        BY <2>1, <2>2 DEF PortOK
    <3> QED BY <1>3, <2>1, <2>2, <3>1 DEF Asked, Only, Flag, InUse
  <2>3. CASE ~Iocp
    <3>1. "W" \in ops /\ sch["W"] = t
        BY <1>3, <2>1, <2>3, TcpStreamAssumption DEF WatchOK, TcpStreamAssumption
    <3> QED BY <1>3, <2>3, <3>1 DEF Asked, Only
  <2> QED BY <2>2, <2>3
<1> QED BY <1>1, <1>2, <1>3

\* Side o has nothing more to wait for: what it had registered or started is over.
Settled(o) ==
    /\ sch' \in [R : Tasks, W : Tasks, rr : BOOLEAN, wr : BOOLEAN]
    /\ sch'["R"] = sch["R"] /\ sch'["W"] = sch["W"] /\ io' = io
    /\ Iocp => sch'.rr = sch.rr /\ sch'.wr = sch.wr
    /\ ops' = ops \/ ops' = ops \ {o}
    /\ pend' = pend \/ (pend' = pend \ {o} /\ (o = "R" => ~InUse(o)))

\* A task is answered for a side it holds.
LEMMA SettleStep ==
    ASSUME CtlInv, NEW t \in alive, NEW o \in Ops, own[o] = t, Settled(o),
           form \in {"Recv", "Sender", "Split"},
           UNCHANGED <<form, own, backend, run, left, alive, fault>>,
           told' \in [Tasks -> SUBSET {"R", "W", "C"}], \A u \in Tasks \ {t} : told'[u] = told[u],
           told'[t] \subseteq told[t] \ {o}
    PROVE  CtlInv'
<1> USE DEF CtlInv
<1>0. \A p \in Ops : InUse(p)' <=> InUse(p)
    BY DEF InUse, Iocp, Settled
<1>1. CtlTypes'
    BY DEF CtlTypes, Settled
<1>2. StageOK'
    BY DEF StageOK, InRun
<1>3. SaidOK'
  <2>1. \A u \in Tasks : "C" \notin told'[u]
      BY DEF SaidOK
  <2> QED BY <2>1 DEF SaidOK, Tasks
<1>4. UseOK'
    BY DEF UseOK
<1>5. LeftOK'
    BY DEF LeftOK, Settled, CtlTypes, Ops
<1>6. WatchOK'
    BY DEF WatchOK, HasNio, Settled, CtlTypes, Ops
<1>7. PortOK'
  <2>1. /\ ~Iocp' => pend' = {} /\ \A p \in Ops : io'[p] = "idle"
        /\ Iocp' => ops' = {}
      BY DEF PortOK, Settled, Iocp
  <2>2. /\ \A p \in Ops : InUse(p)' => HasNio' /\ own'[p] # None /\ sch'[p] = own'[p]
        /\ InUse("R")' => "R" \in pend'
      BY <1>0 DEF PortOK, Settled, HasNio, Ops
  <2>3. Iocp' /\ HasNio' => (sch'.rr <=> ~InUse("R")') /\ (form' # "Connecting" => (sch'.wr <=> ~InUse("W")'))
      BY <1>0 DEF PortOK, Settled, HasNio, Ops, Iocp
  <2>4. \A p \in Ops : Iocp' /\ left' = <<p>> => io'[p] = "idle"
      BY DEF PortOK, Settled, Iocp
  <2> QED BY <2>1, <2>2, <2>3, <2>4 DEF PortOK
<1>8. ToldOK'
  <2> SUFFICES ASSUME NEW u \in alive, NEW h \in told'[u], own[h] = u
               PROVE  h \in Ops /\ (h \in ops' \/ InUse(h)') /\ sch'[h] = u
    <3>1. \A u \in alive : \A h \in told'[u] : h # "C"
        BY DEF SaidOK, CtlTypes
    <3> QED BY <3>1 DEF ToldOK, Half, HasNio
  <2>1. h \in told[u] /\ h \in Ops /\ u \in Tasks /\ h # "C"
      BY DEF CtlTypes, Ops, SaidOK
  <2>2. Half(h) = h /\ HasNio
      BY <2>1 DEF Half, HasNio
  <2>3. h # o
      BY <2>1
  <2>4. (h \in ops \/ InUse(h)) /\ sch[h] = u
      BY <2>1, <2>2 DEF ToldOK
  <2> QED BY <1>0, <2>1, <2>3, <2>4 DEF Settled, Ops
<1> QED BY <1>1, <1>2, <1>3, <1>4, <1>5, <1>6, <1>7, <1>8

\* Steps that leave tasks, registrations and what is in use as they are.
LEMMA QuietCtl ==
    ASSUME CtlInv, UNCHANGED <<form, own, ops, sch, pend, run, left, alive, told, fault, backend>>,
           io' \in [Ops -> {"idle", "flying", "queued"}], \A o \in Ops : io'[o] = "idle" <=> io[o] = "idle"
    PROVE  CtlInv'
<1> USE DEF CtlInv
<1>0. \A p \in Ops : InUse(p)' <=> InUse(p)
    BY DEF InUse, Iocp
<1>1. CtlTypes'
    BY DEF CtlTypes
<1>2. StageOK' /\ SaidOK'
    BY DEF StageOK, SaidOK, InRun
<1>3. UseOK' /\ LeftOK' /\ WatchOK'
    BY <1>0 DEF UseOK, LeftOK, WatchOK, HasNio, Ops
<1>4. PortOK'
    BY <1>0 DEF PortOK, HasNio, Ops, Iocp
<1>5. ToldOK'
    BY <1>0 DEF ToldOK, HasNio, Ops, Half, CtlTypes
<1> QED BY <1>1, <1>2, <1>3, <1>4, <1>5

\* The kernel and the peer.
LEMMA NetworkCtl == ASSUME CtlInv, Network PROVE CtlInv'
<1> USE DEF handle, nio, overlapped, loop
<1>1. CASE (\E k \in Segments : Arrive(k)) \/ PeerReads \/ (\E how \in {"closed", "reset"} : PeerEnds(how))
            \/ (\E how \in {"up", "refused"} : Answer(how))
  <2>1. UNCHANGED <<form, own, ops, sch, pend, io, run, left, alive, told, fault, backend>>
      BY <1>1 DEF Arrive, PeerReads, PeerEnds, Answer
  <2> QED BY <2>1, QuietCtl DEF CtlInv, CtlTypes
<1>2. CASE \E o \in Ops : Complete(o)
  <2>1. PICK o \in Ops : Complete(o)
      BY <1>2
  <2>2. /\ UNCHANGED <<form, own, ops, sch, pend, run, left, alive, told, fault, backend>>
        /\ io[o] = "flying" /\ (io' = io \/ io' = [io EXCEPT ![o] = "queued"])
      BY <2>1 DEF Complete
  <2>3. io \in [Ops -> {"idle", "flying", "queued"}]
      BY DEF CtlInv, CtlTypes
  <2> QED BY <2>2, <2>3, QuietCtl
<1> QED BY <1>1, <1>2 DEF Network

\* What a poll tells its task.
LEMMA ToldFacts ==
    ASSUME CtlInv, NEW t \in Tasks, NEW h \in {"R", "W", "C"}, NotReady(t, h) \/ Answered(t, h)
    PROVE  /\ told' \in [Tasks -> SUBSET {"R", "W", "C"}] /\ (\A u \in Tasks \ {t} : told'[u] = told[u])
           /\ told'[t] \subseteq told[t] \cup {h}
           /\ Answered(t, h) => told'[t] = told[t] \ {h}
<1> USE DEF CtlInv, CtlTypes
<1>1. CASE NotReady(t, h)
  <2>1. told' = [told EXCEPT ![t] = @ \cup {h}]
      BY <1>1 DEF NotReady
  <2>2. \A u \in Tasks : told'[u] = IF u = t THEN told[t] \cup {h} ELSE told[u]
      BY <2>1
  <2>3. told' \in [Tasks -> SUBSET {"R", "W", "C"}]
      BY <2>1
  <2>4. Answered(t, h) => told'[t] = told[t] \ {h}
      BY DEF Answered
  <2> QED BY <2>2, <2>3, <2>4
<1>2. CASE Answered(t, h)
    BY <1>2 DEF Answered
<1> QED BY <1>1, <1>2

\* IStream::poll_recv.
LEMMA RecvCtl ==
    ASSUME CtlInv, NEW t, RecvSome(t) \/ RecvNone(t) \/ RecvErr(t) \/ RecvNotReady(t)
    PROVE  CtlInv'
<1>1. Receives(t) /\ UNCHANGED <<form, own, backend, run, left, alive, fault>>
    BY DEF RecvSome, RecvNone, RecvErr, RecvNotReady, handle, loop
<1>2. Polls(t) /\ form \in {"Recv", "Split"} /\ own["R"] = t /\ HasNio
    BY <1>1 DEF Receives, HasNio
<1>3. t \in Tasks /\ t \in alive
    BY <1>2, PollFacts
<1>4. NotReady(t, "R") \/ Answered(t, "R")
    BY DEF RecvSome, RecvNone, RecvErr, RecvNotReady
<1>5. /\ told' \in [Tasks -> SUBSET {"R", "W", "C"}] /\ (\A u \in Tasks \ {t} : told'[u] = told[u])
      /\ told'[t] \subseteq told[t] \cup {"R"}
      /\ Answered(t, "R") => told'[t] = told[t] \ {"R"}
    BY <1>3, <1>4, ToldFacts
<1>6. "R" \in Ops /\ Half("R") = "R"
    BY DEF Ops, Half
<1>7. CASE (AwaitRead(t) /\ is_read_ready) \/ (UNCHANGED nio /\ ~is_read_ready)
  <2>1. Asked(t, "R")
      BY <1>1, <1>2, <1>3, <1>7, AwaitReadAsks
  <2> QED BY <1>1, <1>2, <1>3, <1>5, <1>6, <2>1, AskStep
<1>8. CASE Ends("R") /\ Answered(t, "R") /\ is_read_ready
  <2>1. ~InUse("R")
      BY <1>2, <1>8 DEF is_read_ready, CtlInv, PortOK, InUse, Ops
  <2>2. Settled("R")
      BY <1>8, <2>1 DEF Ends, Settled, CtlInv, CtlTypes
  <2> QED BY <1>1, <1>2, <1>3, <1>5, <1>6, <1>8, <2>2, SettleStep
<1>9. (AwaitRead(t) /\ is_read_ready) \/ (UNCHANGED nio /\ ~is_read_ready) \/ (Ends("R") /\ Answered(t, "R") /\ is_read_ready)
    BY DEF RecvSome, RecvNone, RecvErr, RecvNotReady, AwaitRead
<1> QED BY <1>7, <1>8, <1>9

\* The sinks.
LEMMA SendCtl ==
    ASSUME CtlInv, Orderly, NEW t,
           (\E k \in ItemSizes : start_send(t, k)) \/ poll_complete(t) \/ poll_err(t) \/ close(t)
    PROVE  CtlInv'
<1>1. Sends(t) /\ UNCHANGED <<form, own, backend, run, left, alive, fault>>
    BY DEF start_send, poll_complete, poll_err, close, handle, loop, SendRest
<1>2. Polls(t) /\ form \in {"Sender", "Split"} /\ own["W"] = t /\ HasNio
    BY <1>1 DEF Sends, HasNio
<1>3. t \in Tasks /\ t \in alive
    BY <1>2, PollFacts
<1>4. NotReady(t, "W") \/ Answered(t, "W")
    BY DEF start_send, poll_complete, poll_err, close, Answered
<1>5. /\ told' \in [Tasks -> SUBSET {"R", "W", "C"}] /\ (\A u \in Tasks \ {t} : told'[u] = told[u])
      /\ told'[t] \subseteq told[t] \cup {"W"}
      /\ Answered(t, "W") => told'[t] = told[t] \ {"W"}
    BY <1>3, <1>4, ToldFacts
<1>6. "W" \in Ops /\ Half("W") = "W"
    BY DEF Ops, Half
<1>7. CASE \/ ~Iocp /\ schedule_write(t)
           \/ Iocp /\ Start(t, "W") /\ is_write_ready
           \/ UNCHANGED nio /\ ~is_write_ready
  <2>1. Asked(t, "W")
      BY <1>1, <1>2, <1>3, <1>7, AwaitWriteAsks
  <2> QED BY <1>1, <1>2, <1>3, <1>5, <1>6, <2>1, AskStep
<1>8. CASE Answered(t, "W") /\ (Ends("W") \/ cancel_write \/ UNCHANGED nio)
  <2>1. Settled("W")
    <3>1. CASE Ends("W")
        BY <3>1 DEF Ends, Settled, CtlInv, CtlTypes
    <3>2. CASE UNCHANGED nio
        BY <3>2 DEF nio, overlapped, Settled, CtlInv, CtlTypes
    <3>3. CASE cancel_write /\ "W" \in ops
      <4>1. ~Iocp /\ ops' = ops \ {"W"} /\ sch' = [sch EXCEPT !.wr = TRUE] /\ UNCHANGED <<io, pend>>
          BY <3>3 DEF cancel_write, overlapped, CtlInv, PortOK
      <4> QED BY <4>1 DEF Settled, CtlInv, CtlTypes
    <3>4. CASE cancel_write /\ "W" \notin ops
        BY <3>2, <3>4 DEF cancel_write
    <3> QED BY <1>8, <3>1, <3>2, <3>3, <3>4
  <2> QED BY <1>1, <1>2, <1>3, <1>5, <1>6, <1>8, <2>1, SettleStep
<1>9. ASSUME SendWaits \/ SendPart(t) \/ SendBlocks(t)
      PROVE  \/ ~Iocp /\ schedule_write(t)
             \/ Iocp /\ Start(t, "W") /\ is_write_ready
             \/ UNCHANGED nio /\ ~is_write_ready
    BY <1>9 DEF SendWaits, SendPart, SendBlocks, Tries, Orderly
<1>10. ASSUME SendNothing \/ SendAll PROVE Ends("W") \/ cancel_write \/ UNCHANGED nio
    BY <1>10 DEF SendNothing, SendAll
<1>11. \/ \/ ~Iocp /\ schedule_write(t)
          \/ Iocp /\ Start(t, "W") /\ is_write_ready
          \/ UNCHANGED nio /\ ~is_write_ready
       \/ Answered(t, "W") /\ (Ends("W") \/ cancel_write \/ UNCHANGED nio)
    BY <1>9, <1>10 DEF start_send, poll_complete, poll_err, close, Answered
<1> QED BY <1>7, <1>8, <1>11

\* No Overlapped is in use while there is no Nio.
LEMMA NoneInUse ==
    ASSUME CtlInv, ~HasNio
    PROVE  (\A o \in Ops : ~InUse(o) /\ io[o] = "idle") /\ (Iocp => left = <<>>)
<1>1. \A o \in Ops : ~InUse(o) /\ io[o] = "idle"
    BY DEF CtlInv, PortOK, InUse
<1>2. ASSUME Iocp PROVE left = <<>>
  <2>1. left # <<>> => left[1] \in Ops
      BY <1>2 DEF CtlInv, LeftOK, Iocp
  <2>2. left \in {<<>>} \cup {<<x>> : x \in Tasks \cup Ops}
      BY DEF CtlInv, CtlTypes
  <2>3. ASSUME left # <<>> PROVE \E o \in Ops : left = <<o>>
    <3>1. PICK x : left = <<x>>
        BY <2>2, <2>3
    <3>2. left[1] = x
        BY <3>1
    <3> QED BY <2>1, <2>3, <3>1, <3>2
  <2> QED BY <1>1, <1>2, <2>3 DEF InUse
<1> QED BY <1>1, <1>2

\* try_from: a new Nio, for a stream that a listener or connect has just made.  On
\* Windows the connect that is in progress is in flight.
LEMMA RegisterCtl ==
    ASSUME CtlInv, NEW t, Polls(t), form \in {"None", "Accepted"},
           form' \in {"Incoming", "Connecting", "Connected", "Error", "Recv", "Sender", "Split"},
           Register(t), UNCHANGED <<own, backend, run, left, alive, told, fault>>,
           io' = IF Iocp /\ form' = "Connecting" THEN [io EXCEPT !.W = "flying"] ELSE io
    PROVE  CtlInv'
<1> USE DEF CtlInv
<1>1. /\ t = A /\ run = <<A>> /\ A \in Tasks /\ A # None
      /\ alive = {A} /\ own["R"] = A /\ own["W"] = A /\ told[A] = {}
    BY PollFacts, TcpStreamAssumption DEF StageOK, SaidOK, Tasks, TcpStreamAssumption
<1>2. /\ ops' = {} /\ pend' = {} /\ sch' = [R |-> A, W |-> A, rr |-> TRUE, wr |-> TRUE]
    BY <1>1 DEF Register
<1>3. /\ sch' \in [R : Tasks, W : Tasks, rr : BOOLEAN, wr : BOOLEAN]
      /\ sch'["R"] = A /\ sch'["W"] = A /\ sch'.rr = TRUE /\ sch'.wr = TRUE
    BY <1>1, <1>2
<1>4. (\A o \in Ops : io[o] = "idle") /\ (Iocp => left = <<>>) /\ backend' = backend
    BY NoneInUse DEF HasNio
<1>5. /\ io' \in [Ops -> {"idle", "flying", "queued"}] /\ io'["R"] = "idle"
      /\ io'["W"] # "idle" <=> Iocp /\ form' = "Connecting"
    BY <1>4 DEF CtlTypes, Ops
<1>6. ~InUse("R")' /\ (InUse("W")' <=> Iocp /\ form' = "Connecting")
    BY <1>4, <1>5 DEF InUse, Iocp
<1>7. CtlTypes'
    BY <1>2, <1>3, <1>5 DEF CtlTypes, Forms
<1>8. StageOK' /\ SaidOK'
  <2>1. \A u \in Tasks : "C" \notin told[u]
      BY <1>1 DEF SaidOK, Tasks
  <2>2. StageOK'
      BY <1>1 DEF StageOK, InRun, Ops
  <2>3. SaidOK'
      BY <1>1, <2>1 DEF SaidOK, Tasks
  <2> QED BY <2>2, <2>3
<1>9. UseOK' /\ WatchOK'
    BY <1>2, <1>6 DEF UseOK, WatchOK
<1>10. LeftOK'
    BY <1>4 DEF LeftOK, Iocp, CtlTypes
<1>11. PortOK'
    BY <1>1, <1>2, <1>3, <1>4, <1>5, <1>6 DEF PortOK, Ops, Iocp, HasNio
<1>12. ToldOK'
    BY <1>1 DEF ToldOK
<1> QED BY <1>7, <1>8, <1>9, <1>10, <1>11, <1>12

\* TcpListener::incoming, Connect::from, and recv, send and split of an accepted stream.
LEMMA MakeCtl ==
    ASSUME CtlInv, NEW t,
           \/ Listen(t)
           \/ \E how \in {"up", "progress", "refused"} : Connect(t, how)
           \/ \E f \in {"Recv", "Sender", "Split"} : FromStream(t, f)
    PROVE  CtlInv'
<1>1. /\ Polls(t) /\ Register(t) /\ UNCHANGED <<own, backend, run, left, alive, told, fault>>
      /\ form \in {"None", "Accepted"}
    BY DEF Listen, Connect, FromStream, loop
<1>2. CASE Listen(t) \/ \E f \in {"Recv", "Sender", "Split"} : FromStream(t, f)
  <2>1. form' \in {"Incoming", "Recv", "Sender", "Split"} /\ io' = io
      BY <1>2 DEF Listen, FromStream
  <2> QED BY <1>1, <2>1, RegisterCtl
<1>3. CASE \E how \in {"up", "progress", "refused"} : Connect(t, how)
  <2>1. PICK how \in {"up", "progress", "refused"} : Connect(t, how)
      BY <1>3
  <2>2. /\ how = "up" => form' = "Connected"
        /\ how = "progress" => form' = "Connecting"
        /\ how = "refused" => form' = "Error"
      BY <2>1 DEF Connect
  <2>3. io' = IF Iocp /\ form' = "Connecting" THEN [io EXCEPT !.W = "flying"] ELSE io
      BY <2>1, <2>2 DEF Connect
  <2> QED BY <1>1, <2>2, <2>3, RegisterCtl
<1> QED BY <1>2, <1>3

\* A connection is accepted, or connect has failed: the Nio goes with the listener or
\* the socket, and nothing of it is in use.
LEMMA WithoutNioCtl ==
    ASSUME CtlInv, NEW t, AcceptReady(t) \/ FinishingErr(t) \/ ErrorPoll(t)
    PROVE  CtlInv'
<1> USE DEF CtlInv
<1>1. /\ Polls(t) /\ form \in {"Incoming", "Finishing", "Error"} /\ form' \in {"Accepted", "Closed"}
      /\ Answered(t, "C") /\ UNCHANGED <<own, ops, sch, pend, io, backend, run, left, alive, fault>>
      /\ form' = "Accepted" => form = "Incoming"
    BY DEF AcceptReady, FinishingErr, ErrorPoll, Becomes, nio, overlapped, loop
<1>2. t = A /\ t \in Tasks /\ run = <<A>> /\ alive = {A} /\ own["R"] = A /\ own["W"] = A
    BY <1>1, PollFacts DEF StageOK
<1>3. /\ told' \in [Tasks -> SUBSET {"R", "W", "C"}] /\ (\A u \in Tasks \ {t} : told'[u] = told[u])
      /\ told'[t] = told[t] \ {"C"}
    BY <1>1, <1>2, ToldFacts
<1>4. \A o \in Ops : ~InUse(o)
  <2>1. CASE AcceptReady(t)
      BY <2>1 DEF AcceptReady, is_read_ready, UseOK, PortOK, InUse, Iocp, Ops, HasNio
  <2>2. CASE FinishingErr(t)
      BY <2>2 DEF FinishingErr, is_write_ready, UseOK, PortOK, InUse, Iocp, Ops, HasNio
  <2>3. CASE ErrorPoll(t)
      BY <2>3, NoneInUse DEF ErrorPoll, HasNio
  <2> QED BY <2>1, <2>2, <2>3
<1>5. \A o \in Ops : ~InUse(o)'
    BY <1>1, <1>4 DEF InUse, Iocp
<1>6. ~HasNio'
    BY <1>1 DEF HasNio
<1>7. CtlTypes'
    BY <1>1, <1>3 DEF CtlTypes, Forms
<1>8. StageOK'
    BY <1>1, <1>2 DEF StageOK, InRun
<1>9. SaidOK'
    BY <1>1, <1>2, <1>3, TcpStreamAssumption DEF SaidOK, Tasks, TcpStreamAssumption
<1>10. UseOK' /\ WatchOK' /\ ToldOK'
    BY <1>1, <1>6 DEF UseOK, WatchOK, ToldOK
<1>11. LeftOK'
    BY <1>1, <1>2 DEF LeftOK
<1>12. PortOK'
    BY <1>1, <1>5, <1>6 DEF PortOK, Iocp, Ops
<1> QED BY <1>7, <1>8, <1>9, <1>10, <1>11, <1>12

\* connect is done: the stream is a Sender.
LEMMA ConnectedCtl ==
    ASSUME CtlInv, NEW t, FinishingOk(t) \/ ConnectedPoll(t)
    PROVE  CtlInv'
<1> USE DEF CtlInv
<1>1. /\ Polls(t) /\ form \in {"Finishing", "Connected"} /\ form' = "Sender"
      /\ Answered(t, "C") /\ UNCHANGED <<own, pend, io, backend, run, left, alive, fault>>
    BY DEF FinishingOk, ConnectedPoll, Becomes, nio, overlapped, loop, cancel_write
<1>2. t = A /\ t \in Tasks /\ run = <<A>> /\ alive = {A} /\ own["R"] = A /\ own["W"] = A
    BY <1>1, PollFacts DEF StageOK
<1>3. /\ told' \in [Tasks -> SUBSET {"R", "W", "C"}] /\ (\A u \in Tasks \ {t} : told'[u] = told[u])
      /\ told'[t] = told[t] \ {"C"}
    BY <1>1, <1>2, ToldFacts
<1>4. told'[A] = {}
    BY <1>1, <1>2, <1>3 DEF SaidOK
<1>5. \A o \in Ops : ~InUse(o)
  <2>1. CASE FinishingOk(t)
      BY <2>1 DEF FinishingOk, is_write_ready, UseOK, PortOK, InUse, Iocp, Ops, HasNio
  <2>2. CASE ConnectedPoll(t)
      BY <2>2 DEF ConnectedPoll, UseOK, Ops
  <2> QED BY <2>1, <2>2
<1>6. \A o \in Ops : ~InUse(o)'
    BY <1>1, <1>5 DEF InUse, Iocp
<1>7. ops' = {} /\ ops \subseteq {"W"} /\ "R" \notin ops'
    BY <1>1 DEF UseOK, FinishingOk, ConnectedPoll, cancel_write, nio
<1>8. /\ sch' \in [R : Tasks, W : Tasks, rr : BOOLEAN, wr : BOOLEAN]
      /\ Iocp => sch' = sch
  <2>1. sch' = sch \/ (sch' = [sch EXCEPT !.wr = TRUE] /\ ~Iocp)
      BY DEF FinishingOk, ConnectedPoll, cancel_write, nio, PortOK
  <2> QED BY <2>1 DEF CtlTypes
<1>9. CtlTypes'
    BY <1>1, <1>3, <1>7, <1>8 DEF CtlTypes, Forms
<1>10. StageOK'
    BY <1>1, <1>2 DEF StageOK, InRun
<1>11. SaidOK'
    BY <1>1, <1>2, <1>3, <1>4, TcpStreamAssumption DEF SaidOK, Tasks, TcpStreamAssumption
<1>12. UseOK' /\ WatchOK'
    BY <1>1, <1>7 DEF UseOK, WatchOK
<1>13. ToldOK'
    BY <1>1, <1>2, <1>4 DEF ToldOK
<1>14. LeftOK'
    BY <1>1, <1>2 DEF LeftOK
<1>15. PortOK'
  <2>1. Iocp => sch.rr /\ sch.wr
      BY <1>1, <1>5 DEF PortOK, Ops, HasNio
  <2> QED BY <1>1, <1>6, <1>7, <1>8, <2>1 DEF PortOK, Iocp, Ops
<1> QED BY <1>9, <1>10, <1>11, <1>12, <1>13, <1>14, <1>15

\* WouldBlock of accept; connect is still in progress.
LEMMA AwaitCtl ==
    ASSUME CtlInv, NEW t, AcceptNotReady(t) \/ FinishingWaits(t)
    PROVE  CtlInv'
<1>1. /\ Polls(t) /\ form \in {"Incoming", "Finishing"} /\ HasNio /\ NotReady(t, "C")
      /\ UNCHANGED <<form, own, backend, run, left, alive, fault>>
    BY DEF AcceptNotReady, FinishingWaits, handle, loop, HasNio
<1>2. t = A /\ t \in Tasks /\ t \in alive /\ own["R"] = A /\ own["W"] = A
    BY <1>1, PollFacts DEF CtlInv, StageOK
<1>3. /\ told' \in [Tasks -> SUBSET {"R", "W", "C"}] /\ (\A u \in Tasks \ {t} : told'[u] = told[u])
      /\ told'[t] \subseteq told[t] \cup {"C"}
    BY <1>1, <1>2, ToldFacts
<1>4. CASE AcceptNotReady(t)
  <2>1. Asked(t, "R")
      BY <1>1, <1>2, <1>4, AwaitReadAsks DEF AcceptNotReady
  <2>2. Half("C") = "R" /\ "R" \in Ops /\ form = "Incoming"
      BY <1>4 DEF Half, Ops, AcceptNotReady
  <2> QED BY <1>1, <1>2, <1>3, <2>1, <2>2, AskStep
<1>5. CASE FinishingWaits(t)
  <2>1. Asked(t, "W")
      BY <1>1, <1>2, <1>5, AwaitWriteAsks DEF FinishingWaits
  <2>2. Half("C") = "W" /\ "W" \in Ops /\ form = "Finishing"
      BY <1>5 DEF Half, Ops, FinishingWaits
  <2> QED BY <1>1, <1>2, <1>3, <2>1, <2>2, AskStep
<1> QED BY <1>4, <1>5

\* Another error of accept: the task is no longer told to wait.
LEMMA AcceptErrCtl == ASSUME CtlInv, NEW t, AcceptErr(t) PROVE CtlInv'
<1> USE DEF CtlInv
<1>1. /\ Polls(t) /\ form = "Incoming" /\ Answered(t, "C")
      /\ UNCHANGED <<form, own, ops, sch, pend, wsa, io, run, left, alive, fault, backend>>
    BY DEF AcceptErr, handle, nio, overlapped, loop
<1>2. t \in Tasks
    BY <1>1, PollFacts
<1>3. told' \in [Tasks -> SUBSET {"R", "W", "C"}] /\ \A u \in Tasks : told'[u] \subseteq told[u]
    BY <1>1, <1>2 DEF Answered, CtlTypes
<1>4. \A p \in Ops : InUse(p)' <=> InUse(p)
    BY <1>1 DEF InUse, Iocp
<1>5. CtlTypes'
    BY <1>1, <1>3 DEF CtlTypes
<1>6. StageOK' /\ SaidOK'
    BY <1>1, <1>3 DEF StageOK, SaidOK, InRun, Tasks, CtlTypes
<1>7. UseOK' /\ LeftOK' /\ WatchOK'
    BY <1>1, <1>4 DEF UseOK, LeftOK, WatchOK, HasNio, Ops
<1>8. PortOK'
    BY <1>1, <1>4 DEF PortOK, HasNio, Ops, Iocp
<1>9. ToldOK'
  <2> SUFFICES ASSUME NEW u \in alive, NEW h \in told'[u], own[Half(h)] = u, HasNio
               PROVE  (Half(h) \in ops \/ InUse(Half(h))) /\ sch[Half(h)] = u
      BY <1>1 DEF ToldOK, HasNio, Half, InUse, Iocp
  <2>1. h \in told[u] /\ h \in {"R", "W", "C"}
      BY <1>3 DEF CtlTypes
  <2> QED BY <2>1 DEF ToldOK
<1> QED BY <1>5, <1>6, <1>7, <1>8, <1>9

\* The first poll of a connect in progress.
LEMMA ConnectingCtl == ASSUME CtlInv, NEW t, ConnectingPoll(t) PROVE CtlInv'
<1> USE DEF CtlInv
<1>1. /\ Polls(t) /\ form = "Connecting" /\ form' = "Finishing" /\ NotReady(t, "C")
      /\ UNCHANGED <<own, backend, run, left, alive, fault>>
    BY DEF ConnectingPoll, loop
<1>2. /\ t = A /\ t \in Tasks /\ run = <<A>> /\ alive = {A} /\ own["R"] = A /\ own["W"] = A /\ A # None
      /\ ops = {} /\ ~InUse("R")
    BY <1>1, PollFacts, TcpStreamAssumption DEF StageOK, UseOK, TcpStreamAssumption, Tasks
<1>3. /\ told' \in [Tasks -> SUBSET {"R", "W", "C"}] /\ (\A u \in Tasks \ {t} : told'[u] = told[u])
      /\ told'[t] \subseteq told[t] \cup {"C"}
    BY <1>1, <1>2, ToldFacts
<1>4. told'[A] \subseteq {"C"}
    BY <1>1, <1>2, <1>3 DEF SaidOK
<1>5. /\ UNCHANGED <<pend, io>> /\ (IF Iocp THEN ops' = {} ELSE ops' = {"W"})
      /\ sch' \in [R : Tasks, W : Tasks, rr : BOOLEAN, wr : BOOLEAN] /\ sch'["W"] = A
      /\ sch'.rr = sch.rr /\ sch'.wr = FALSE
  <2>1. CASE Iocp
    <3>1. /\ sch' = [sch EXCEPT !["W"] = A, !.rr = @ /\ "W" # "R", !.wr = @ /\ "W" # "W"]
          /\ UNCHANGED <<ops, pend, io>>
        BY <1>2, <2>1 DEF ConnectingPoll, Schedule, overlapped
    <3> QED BY <1>2, <2>1, <3>1 DEF CtlTypes
  <2>2. CASE ~Iocp
    <3>1. /\ sch' = [sch EXCEPT !.W = A, !.wr = FALSE] /\ ops' = {"W"} /\ UNCHANGED <<pend, io>>
        BY <1>2, <2>2 DEF ConnectingPoll, schedule_write, overlapped
    <3> QED BY <1>2, <2>2, <3>1 DEF CtlTypes
  <2> QED BY <2>1, <2>2
<1>6. \A o \in Ops : InUse(o)' <=> InUse(o)
    BY <1>1, <1>5 DEF InUse, Iocp
<1>7. Iocp => InUse("W")
    BY <1>1 DEF PortOK
<1>8. CtlTypes'
    BY <1>1, <1>3, <1>5 DEF CtlTypes, Forms, Ops
<1>9. StageOK'
    BY <1>1, <1>2 DEF StageOK, InRun
<1>10. SaidOK'
    BY <1>1, <1>2, <1>3, <1>4, TcpStreamAssumption DEF SaidOK, Tasks, TcpStreamAssumption
<1>11. UseOK'
    BY <1>1, <1>2, <1>5, <1>6 DEF UseOK, Ops
<1>12. WatchOK'
    BY <1>1, <1>2, <1>5 DEF WatchOK, Ops
<1>13. LeftOK'
    BY <1>1, <1>2 DEF LeftOK
<1>14. PortOK'
    BY <1>1, <1>2, <1>5, <1>6, <1>7 DEF PortOK, Iocp, Ops, HasNio
<1>15. ToldOK'
    BY <1>1, <1>2, <1>4, <1>5, <1>6, <1>7 DEF ToldOK, Half, Ops
<1> QED BY <1>8, <1>9, <1>10, <1>11, <1>12, <1>13, <1>14, <1>15

\* A poll returns.
LEMMA PopFacts ==
    ASSUME CtlInv, run # <<>>, Pop
    PROVE  /\ run = <<A, B>> => run' = <<A>>
           /\ run # <<A, B>> => run' = <<>>
           /\ run' \in {<<>>, <<A>>, <<B>>, <<A, B>>}
           /\ \A t \in Tasks : InRun(t)' => InRun(t)
<1>1. run \in {<<>>, <<A>>, <<B>>, <<A, B>>}
    BY DEF CtlInv, CtlTypes
<1>2. ASSUME NEW x, NEW y
      PROVE  /\ SubSeq(<<x>>, 1, Len(<<x>>) - 1) = <<>>
             /\ SubSeq(<<x, y>>, 1, Len(<<x, y>>) - 1) = <<x>>
  <2>1. Len(<<x>>) = 1 /\ Len(<<x, y>>) = 2
      OBVIOUS
  <2>2. SubSeq(<<x>>, 1, 0) = <<>>
      OBVIOUS
  <2>3. SubSeq(<<x, y>>, 1, 1) = <<x>>
    <3>1. <<x, y>> \in Seq({x, y}) /\ <<x, y>>[1] = x /\ <<x>> \in Seq({x, y}) /\ <<x>>[1] = x
        OBVIOUS
    <3>2. /\ SubSeq(<<x, y>>, 1, 1) \in Seq({x, y}) /\ Len(SubSeq(<<x, y>>, 1, 1)) = 1
          /\ SubSeq(<<x, y>>, 1, 1)[1] = x
        BY <3>1, SubSeqProperties
    <3>3. \A i \in 1..1 : SubSeq(<<x, y>>, 1, 1)[i] = <<x>>[i]
        BY <3>1, <3>2
    <3> QED BY <2>1, <3>1, <3>2, <3>3, SeqEqual
  <2> QED BY <2>1, <2>2, <2>3
<1>3. CASE run = <<A, B>>
  <2>1. run' = <<A>>
      BY <1>2, <1>3 DEF Pop
  <2> QED BY <1>3, <2>1 DEF InRun
<1>4. CASE run # <<A, B>>
  <2>1. PICK x : run = <<x>>
      BY <1>1, <1>4
  <2>2. run' = <<>>
      BY <1>2, <2>1 DEF Pop
  <2> QED BY <1>4, <2>2 DEF InRun
<1> QED BY <1>3, <1>4

\* The end of a poll: a task that has made a connect has polled it.
LEMMA ParkCtl == ASSUME CtlInv, Orderly, NEW t, Park(t) PROVE CtlInv'
<1> USE DEF CtlInv
<1>1. /\ Polls(t) /\ Pop
      /\ UNCHANGED <<form, own, ops, sch, pend, io, backend, left, alive, told, fault>>
    BY DEF Park, handle, nio, overlapped
<1>2. t \in Tasks /\ run # <<>> /\ (form \notin {"Split", "Closed"} => t = A)
    BY <1>1, PollFacts
<1>3. run' \in {<<>>, <<A>>, <<B>>, <<A, B>>} /\ \A u \in Tasks : InRun(u)' => InRun(u)
    BY <1>1, <1>2, PopFacts
<1>4. form # "Connecting"
  <2> SUFFICES ASSUME form = "Connecting" PROVE FALSE
      OBVIOUS
  <2>1. own["R"] = A /\ t = A /\ told[A] = {}
      BY <1>2 DEF StageOK, SaidOK
  <2> QED BY <2>1 DEF Park, Orderly
<1>5. \A o \in Ops : InUse(o)' <=> InUse(o)
    BY <1>1 DEF InUse, Iocp
<1>6. CtlTypes'
    BY <1>1, <1>3 DEF CtlTypes
<1>7. StageOK'
    BY <1>1, <1>3, <1>4 DEF StageOK
<1>8. SaidOK' /\ LeftOK' /\ WatchOK'
    BY <1>1 DEF SaidOK, LeftOK, WatchOK, HasNio
<1>9. UseOK' /\ PortOK'
    BY <1>1, <1>5 DEF UseOK, PortOK, HasNio, Iocp, Ops
<1>10. ToldOK'
    BY <1>1, <1>5 DEF ToldOK, HasNio, Half, CtlTypes, Ops
<1> QED BY <1>6, <1>7, <1>8, <1>9, <1>10

\* What is freed is not in use.
LEMMA FreesFacts ==
    ASSUME CtlInv, Orderly, NEW os \in SUBSET Ops, MayFree(os), Frees(os)
    PROVE  pend' = pend \ os /\ io' = io /\ \A o \in os : ~InUse(o)
<1>1. \A o \in os : ~InUse(o)
    BY DEF MayFree, Orderly
<1>2. io' = [o \in Ops |-> io[o]] /\ pend' = pend \ os
    BY <1>1 DEF Frees
<1> QED BY <1>1, <1>2 DEF CtlInv, CtlTypes

\* into_sender, into_recv and into_twoway.
LEMMA IntoCtl ==
    ASSUME CtlInv, Orderly, NEW t, NEW f \in {"Recv", "Sender", "Split"}, Into(t, f)
    PROVE  CtlInv'
<1> USE DEF CtlInv
<1>1. /\ Polls(t) /\ form \in {"Recv", "Sender"} /\ form' = f /\ told' = [told EXCEPT ![t] = {}]
      /\ UNCHANGED <<own, ops, sch, backend, run, left, alive, fault>>
      /\ MayFree(GivenUp(f)) /\ Frees(GivenUp(f))
    BY DEF Into, loop
<1>2. t = A /\ t \in Tasks /\ alive = {A} /\ own["R"] = A /\ own["W"] = A
    BY <1>1, PollFacts DEF StageOK
<1>3. /\ told' \in [Tasks -> SUBSET {"R", "W", "C"}] /\ (\A u \in Tasks : told'[u] \subseteq told[u])
      /\ told'[A] = {}
    BY <1>1, <1>2 DEF CtlTypes
<1>4. GivenUp(f) \in SUBSET Ops
    BY DEF GivenUp, Ops
<1>5. pend' = pend \ GivenUp(f) /\ io' = io /\ \A o \in GivenUp(f) : ~InUse(o)
    BY <1>1, <1>4, FreesFacts
<1>6. \A o \in Ops : InUse(o)' <=> InUse(o)
    BY <1>1, <1>5 DEF InUse, Iocp
<1>7. CtlTypes'
    BY <1>1, <1>3, <1>5 DEF CtlTypes, Forms
<1>8. StageOK'
    BY <1>1, <1>2 DEF StageOK, InRun, Ops
<1>9. SaidOK'
    BY <1>1, <1>3 DEF SaidOK, Tasks
<1>10. UseOK' /\ LeftOK' /\ WatchOK'
    BY <1>1 DEF UseOK, LeftOK, WatchOK, HasNio
<1>11. PortOK'
    BY <1>1, <1>5, <1>6 DEF PortOK, Iocp, Ops, HasNio
<1>12. ToldOK'
    BY <1>1, <1>2, <1>3 DEF ToldOK
<1> QED BY <1>7, <1>8, <1>9, <1>10, <1>11, <1>12

\* A half goes to a task of its own, with nothing registered or in flight.
LEMMA SpawnCtl == ASSUME CtlInv, Orderly, NEW t, NEW h \in Ops, Spawn(t, h) PROVE CtlInv'
<1> USE DEF CtlInv
<1>1. /\ form = "Split" /\ own[h] = t /\ B \notin alive /\ run = <<A>> /\ Polls(t)
      /\ h \notin ops /\ ~InUse(h) /\ own' = [own EXCEPT ![h] = B]
      /\ alive' = alive \cup {B} /\ run' = Append(run, B)
      /\ told' = [told EXCEPT ![B] = {}, ![A] = @ \ {h}]
      /\ UNCHANGED <<form, ops, sch, pend, io, backend, left, fault>>
    BY DEF Spawn, nio, overlapped, Orderly
<1>2. t = A /\ A \in alive /\ A \in Tasks /\ B \in Tasks /\ A # B /\ B # None
    BY <1>1, PollFacts, TcpStreamAssumption DEF TcpStreamAssumption, Tasks
<1>3. run' = <<A, B>>
  <2>1. Append(<<A>>, B) = <<A, B>>
    <3>1. /\ <<A>> \in Seq(Tasks) /\ <<A, B>> \in Seq(Tasks) /\ Len(<<A>>) = 1 /\ Len(<<A, B>>) = 2
          /\ <<A>>[1] = A /\ <<A, B>>[1] = A /\ <<A, B>>[2] = B
        BY <1>2
    <3>2. /\ Append(<<A>>, B) \in Seq(Tasks) /\ Len(Append(<<A>>, B)) = 2
          /\ Append(<<A>>, B)[1] = A /\ Append(<<A>>, B)[2] = B
        BY <1>2, <3>1, AppendProperties
    <3>3. \A i \in 1..2 : Append(<<A>>, B)[i] = <<A, B>>[i]
        BY <3>1, <3>2
    <3> QED BY <3>1, <3>2, <3>3, SeqEqual
  <2> QED BY <1>1, <2>1
<1>4. /\ told' \in [Tasks -> SUBSET {"R", "W", "C"}] /\ told'[B] = {} /\ told'[A] = told[A] \ {h}
    BY <1>1, <1>2 DEF CtlTypes, Tasks
<1>5. own' \in [Ops -> Tasks \cup {None}] /\ own'[h] = B /\ \A o \in Ops \ {h} : own'[o] = own[o]
    BY <1>1, <1>2 DEF CtlTypes
<1>6. \A o \in Ops : InUse(o)' <=> InUse(o)
    BY <1>1 DEF InUse, Iocp
<1>7. CtlTypes'
    BY <1>1, <1>2, <1>3, <1>4, <1>5 DEF CtlTypes
<1>8. StageOK'
  <2>1. \A u \in Tasks : u \in alive'
      BY <1>1, <1>2 DEF Tasks
  <2> QED BY <1>1, <1>7, <2>1 DEF StageOK, CtlTypes
<1>9. SaidOK'
    BY <1>1, <1>4 DEF SaidOK, Tasks
<1>10. UseOK'
    BY <1>1 DEF UseOK
<1>11. LeftOK'
    BY <1>1 DEF LeftOK
<1>12. WatchOK'
    BY <1>1, <1>5 DEF WatchOK, HasNio, CtlTypes
<1>13. PortOK'
    BY <1>1, <1>5, <1>6 DEF PortOK, Iocp, Ops, HasNio
<1>14. ToldOK'
  <2> SUFFICES ASSUME NEW u \in alive', NEW x \in told'[u], own'[x] = u
               PROVE  x \in Ops /\ (x \in ops' \/ InUse(x)') /\ sch'[x] = u
    <3>1. \A u \in alive' : \A x \in told'[u] : x # "C"
        BY <1>1, <1>7, <1>9 DEF SaidOK, CtlTypes
    <3> QED BY <3>1 DEF ToldOK, Half
  <2>1. u = A /\ x \in told[A] /\ x # h
      BY <1>1, <1>2, <1>4, <1>7 DEF CtlTypes, Tasks
  <2>2. x \in Ops
      BY <1>1, <1>2, <2>1 DEF CtlTypes, SaidOK, Ops
  <2>3. own[x] = A /\ Half(x) = x /\ HasNio
      BY <1>1, <1>5, <2>1, <2>2 DEF Half, Ops, HasNio
  <2>4. (x \in ops \/ InUse(x)) /\ sch[x] = A
      BY <1>2, <2>1, <2>3 DEF ToldOK
  <2> QED BY <1>1, <1>6, <2>1, <2>2, <2>4
<1> QED BY <1>7, <1>8, <1>9, <1>10, <1>11, <1>12, <1>13, <1>14

\* A task gives up sides it holds, alone or as it ends: nothing freed is in use, what
\* stays registered is another task's, and what is left of the wakeup still finds its
\* way.
LEMMA ReleaseCtl ==
    ASSUME CtlInv, Orderly, NEW t \in Tasks, NEW hs \in SUBSET Ops, \A o \in hs : own[o] = t,
           MayFree(hs), Release(hs), form \notin {"Split", "Closed"} => hs = Ops,
           UNCHANGED <<backend, left, fault>>, alive' \subseteq alive,
           alive' = alive \/ (alive' = alive \ {t} /\ \A o \in Ops \ hs : own[o] # t),
           left # <<>> => /\ backend = "epoll" => left[1] \in alive'
                          /\ backend # "epoll" => Lasts(hs)
                          /\ backend = "kqueue" => sch[left[1]] \in alive',
           Lasts(hs) /\ HasNio => \A o \in ops : sch[o] \in alive',
           told' \in [Tasks -> SUBSET {"R", "W", "C"}], \A u \in Tasks : told'[u] \subseteq told[u],
           run' \in {<<>>, <<A>>, <<B>>, <<A, B>>}, \A u \in Tasks : InRun(u)' => u \in alive'
    PROVE  CtlInv'
<1> USE DEF CtlInv
<1>1. /\ own' = [o \in Ops |-> IF o \in hs THEN None ELSE own[o]]
      /\ Frees(IF Lasts(hs) THEN hs ELSE Ops)
      /\ IF Lasts(hs) THEN UNCHANGED <<form, ops, sch>>
         ELSE form' = "Closed" /\ ops' = {} /\ sch' = [sch EXCEPT !.R = A, !.W = A]
    BY DEF Release
<1>2. own' \in [Ops -> Tasks \cup {None}] /\ \A o \in Ops : own'[o] = IF o \in hs THEN None ELSE own[o]
    BY <1>1 DEF CtlTypes
<1>3. (\A o \in hs : ~InUse(o)) /\ t # None
    BY TcpStreamAssumption DEF MayFree, Orderly, TcpStreamAssumption
<1>4. \A u \in Tasks : "C" \in told'[u] => "C" \in told[u]
    OBVIOUS
<1>5. CASE ~Lasts(hs)
  <2>1. \A o \in Ops : ~InUse(o)
      BY <1>3, <1>5 DEF Lasts, PortOK
  <2>2. pend' = pend \ Ops /\ io' = io
    <3>1. MayFree(Ops) /\ Frees(Ops)
        BY <1>1, <1>5, <2>1 DEF MayFree
    <3> QED BY <3>1, FreesFacts
  <2>3. /\ sch' \in [R : Tasks, W : Tasks, rr : BOOLEAN, wr : BOOLEAN] /\ ops' = {} /\ form' = "Closed"
    <3>1. ops' = {} /\ form' = "Closed" /\ sch' = [sch EXCEPT !.R = A, !.W = A]
        BY <1>1, <1>5
    <3>2. sch \in [R : Tasks, W : Tasks, rr : BOOLEAN, wr : BOOLEAN] /\ A \in Tasks
        BY DEF CtlTypes, Tasks
    <3>3. sch' \in [R : Tasks, W : Tasks, rr : BOOLEAN, wr : BOOLEAN]
        BY <3>1, <3>2
    <3> QED BY <3>1, <3>3
  <2>4. \A o \in Ops : ~InUse(o)'
      BY <2>1, <2>2 DEF InUse, Iocp
  <2>5. CtlTypes'
      BY <1>2, <2>2, <2>3 DEF CtlTypes, Forms
  <2>6. StageOK' /\ SaidOK' /\ UseOK'
    <3>1. "C" \notin told'[B]
        BY <1>4 DEF SaidOK, Tasks
    <3> QED BY <2>3, <3>1 DEF StageOK, SaidOK, UseOK
  <2>7. LeftOK'
      BY <1>5 DEF LeftOK
  <2>8. ~HasNio'
      BY <2>3 DEF HasNio
  <2>9. WatchOK' /\ ToldOK'
      BY <2>8 DEF WatchOK, ToldOK
  <2>10. PortOK'
      BY <2>2, <2>3, <2>4, <2>8 DEF PortOK, Iocp, Ops
  <2> QED BY <2>5, <2>6, <2>7, <2>9, <2>10
<1>6. CASE Lasts(hs)
  <2>1. pend' = pend \ hs /\ io' = io /\ UNCHANGED <<form, ops, sch>>
      BY <1>1, <1>6, FreesFacts
  <2>2. form \in {"Split", "Closed"}
      BY <1>6 DEF Lasts
  <2>3. \A o \in Ops : InUse(o)' <=> InUse(o)
      BY <2>1 DEF InUse, Iocp
  <2>4. CtlTypes'
      BY <1>2, <2>1 DEF CtlTypes
  <2>5. StageOK'
      BY <1>2, <2>1, <2>2 DEF StageOK
  <2>6. SaidOK' /\ UseOK'
    <3>1. "C" \notin told'[B]
        BY <1>4 DEF SaidOK, Tasks
    <3> QED BY <1>4, <2>1, <2>2, <3>1 DEF SaidOK, UseOK
  <2>7. LeftOK'
      BY <2>1 DEF LeftOK
  <2>8. WatchOK'
      BY <1>2, <1>6, <2>1 DEF WatchOK, HasNio, CtlTypes
  <2>9. PortOK'
      BY <1>2, <1>3, <2>1, <2>2, <2>3 DEF PortOK, Iocp, HasNio, Ops
  <2>10. ToldOK'
    <3>1. CASE form = "Closed"
        BY <2>1, <3>1 DEF ToldOK, HasNio
    <3>2. CASE form = "Split"
      <4> SUFFICES ASSUME NEW u \in alive', NEW x \in told'[u], own'[x] = u
                   PROVE  x \in Ops /\ (x \in ops' \/ InUse(x)') /\ sch'[x] = u
        <5>1. \A u \in alive' : \A x \in told'[u] : x # "C"
            BY <1>4, <3>2 DEF SaidOK, CtlTypes
        <5> QED BY <5>1 DEF ToldOK, Half
      <4>1. u \in alive /\ u \in Tasks /\ u # None /\ x \in told[u] /\ x \in {"R", "W", "C"}
          BY TcpStreamAssumption DEF CtlTypes, TcpStreamAssumption
      <4>2. x \in Ops
          BY <3>2, <4>1 DEF SaidOK, Ops
      <4>3. own[x] = u /\ Half(x) = x /\ HasNio
          BY <1>2, <3>2, <4>1, <4>2 DEF Half, Ops, HasNio
      <4>4. (x \in ops \/ InUse(x)) /\ sch[x] = u
          BY <4>1, <4>3 DEF ToldOK
      <4> QED BY <2>1, <2>3, <4>2, <4>4
    <3> QED BY <2>2, <3>1, <3>2
  <2> QED BY <2>4, <2>5, <2>6, <2>7, <2>8, <2>9, <2>10
<1> QED BY <1>5, <1>6

\* A task drops a half, or the whole stream.
LEMMA DropCtl == ASSUME CtlInv, Orderly, NEW t, NEW hs \in SUBSET Ops, DropHalves(t, hs) PROVE CtlInv'
<1> USE DEF CtlInv
<1>1. /\ Polls(t) /\ hs \subseteq HeldBy(t) /\ (hs # Ops => form = "Split")
      /\ left # <<>> /\ backend # "epoll" => Lasts(hs)
      /\ MayFree(hs) /\ Release(hs) /\ UNCHANGED <<backend, run, left, alive, fault, told>>
    BY DEF DropHalves, loop, Orderly
<1>2. t \in Tasks /\ \A o \in hs : own[o] = t
    BY <1>1, PollFacts DEF HeldBy
<1>3. \A u \in Tasks : InRun(u)' => u \in alive'
    BY <1>1 DEF StageOK, InRun
<1>4. left # <<>> => /\ backend = "epoll" => left[1] \in alive'
                     /\ backend # "epoll" => Lasts(hs)
                     /\ backend = "kqueue" => sch[left[1]] \in alive'
    BY <1>1 DEF LeftOK
<1>5. HasNio => \A o \in ops : sch[o] \in alive'
    BY <1>1 DEF WatchOK
<1>6. /\ told' \in [Tasks -> SUBSET {"R", "W", "C"}] /\ (\A u \in Tasks : told'[u] \subseteq told[u])
      /\ run' \in {<<>>, <<A>>, <<B>>, <<A, B>>} /\ alive' \subseteq alive
    BY <1>1 DEF CtlTypes
<1> QED BY <1>1, <1>2, <1>3, <1>4, <1>5, <1>6, ReleaseCtl

\* A task is done and is dropped with all it holds.
LEMMA EndCtl == ASSUME CtlInv, Orderly, NEW t, End(t) PROVE CtlInv'
<1> USE DEF CtlInv
<1> DEFINE hs == HeldBy(t)
<1>1. /\ Polls(t) /\ (t = B \/ run = <<A>>)
      /\ left # <<>> => IF backend = "epoll" THEN left[1] # t
                        ELSE Lasts(hs) /\ sch[left[1]] # t
      /\ HasNio /\ Lasts(hs) => \A o \in ops : sch[o] # t
      /\ MayFree(hs) /\ Release(hs) /\ alive' = alive \ {t} /\ told' = [told EXCEPT ![t] = {}]
      /\ Pop /\ UNCHANGED <<backend, left, fault>>
    BY DEF End, Orderly
<1>2. /\ t \in Tasks /\ run # <<>> /\ (form \notin {"Split", "Closed"} => t = A /\ run = <<A>>)
      /\ (run = <<A>> /\ t = A) \/ (run = <<B>> /\ t = B) \/ (run = <<A, B>> /\ t = B)
    BY <1>1, PollFacts
<1>3. hs \in SUBSET Ops /\ (\A o \in hs : own[o] = t) /\ (\A o \in Ops \ hs : own[o] # t)
    BY DEF HeldBy
<1>4. form \notin {"Split", "Closed"} => hs = Ops
    BY <1>2 DEF HeldBy, StageOK, Ops
<1> HIDE DEF hs
<1>5. /\ told' \in [Tasks -> SUBSET {"R", "W", "C"}] /\ (\A u \in Tasks : told'[u] \subseteq told[u])
    BY <1>1, <1>2 DEF CtlTypes
<1>6. run' \in {<<>>, <<A>>, <<B>>, <<A, B>>} /\ \A u \in Tasks : InRun(u)' => u \in alive'
  <2>1. CASE run = <<A, B>>
    <3>1. run' = <<A>> /\ t = B /\ A # B
        BY <1>1, <1>2, <2>1, PopFacts, TcpStreamAssumption DEF TcpStreamAssumption
    <3>2. InRun(A) /\ A \in alive
        BY <2>1 DEF InRun, StageOK, Tasks
    <3> QED BY <1>1, <3>1, <3>2 DEF InRun
  <2>2. CASE run # <<A, B>>
    <3>1. run' = <<>>
        BY <1>1, <1>2, <2>2, PopFacts
    <3> QED BY <3>1 DEF InRun
  <2> QED BY <2>1, <2>2
<1>7. left # <<>> => /\ backend = "epoll" => left[1] \in alive'
                     /\ backend # "epoll" => Lasts(hs)
                     /\ backend = "kqueue" => sch[left[1]] \in alive'
    BY <1>1 DEF LeftOK
<1>8. Lasts(hs) /\ HasNio => \A o \in ops : sch[o] \in alive'
    BY <1>1 DEF WatchOK
<1> QED BY <1>1, <1>2, <1>3, <1>4, <1>5, <1>6, <1>7, <1>8, ReleaseCtl

\* The events that are left when one is taken.
LEMMA OneLeft ==
    ASSUME NEW ev \in SUBSET Ops, NEW o \in ev
    PROVE  /\ ev = {o} => SetToSeq(ev \ {o}) = <<>>
           /\ \A p \in ev \ {o} : ev = {o, p} /\ SetToSeq(ev \ {o}) = <<p>>
<1>1. ASSUME NEW S, S = {} PROVE SetToSeq(S) = <<>>
  <2>1. Cardinality(S) = 0
      BY <1>1, FS_EmptySet
  <2>2. <<>> \in [1..0 -> S] /\ IsInjective(<<>>) /\ \A f \in [1..0 -> S] : f = <<>>
      BY DEF IsInjective
  <2> QED BY <2>1, <2>2 DEF SetToSeq
<1>2. ASSUME NEW p PROVE SetToSeq({p}) = <<p>>
  <2>1. Cardinality({p}) = 1
      BY FS_Singleton
  <2>2. <<p>> \in [1..1 -> {p}] /\ IsInjective(<<p>>) /\ \A f \in [1..1 -> {p}] : f = <<p>>
      BY DEF IsInjective
  <2> QED BY <2>1, <2>2 DEF SetToSeq
<1>3. \A p \in ev \ {o} : ev = {o, p} /\ ev \ {o} = {p}
    BY DEF Ops
<1>4. ev = {o} => ev \ {o} = {}
    OBVIOUS
<1> QED BY <1>1, <1>2, <1>3, <1>4

\* A wakeup runs task u: what is no longer in use is what u was told to wait for.
LEMMA WakeStep ==
    ASSUME CtlInv, run = <<>>, NEW u \in alive, run' = <<u>>, told' = [told EXCEPT ![u] = {}],
           UNCHANGED <<form, own, ops, pend, backend, alive, fault>>,
           sch' \in [R : Tasks, W : Tasks, rr : BOOLEAN, wr : BOOLEAN],
           sch'["R"] = sch["R"], sch'["W"] = sch["W"],
           io' \in [Ops -> {"idle", "flying", "queued"}], ~Iocp => io' = io,
           left' \in {<<>>} \cup {<<x>> : x \in Tasks \cup Ops}, LeftOK',
           \A o \in Ops : /\ InUse(o)' => InUse(o)
                          /\ InUse(o) => InUse(o)' \/ sch[o] = u
                          /\ Iocp /\ left' = <<o>> => io'[o] = "idle",
           Iocp /\ HasNio => (sch'.rr <=> ~InUse("R")') /\ (sch'.wr <=> ~InUse("W")')
    PROVE  CtlInv'
<1> USE DEF CtlInv
<1>1. u \in Tasks /\ form # "Connecting"
    BY DEF CtlTypes, StageOK
<1>2. /\ told' \in [Tasks -> SUBSET {"R", "W", "C"}] /\ told'[u] = {}
      /\ \A v \in Tasks : told'[v] \subseteq told[v]
    BY <1>1 DEF CtlTypes
<1>3. CtlTypes'
  <2>1. run' \in {<<>>, <<A>>, <<B>>, <<A, B>>}
      BY <1>1 DEF Tasks
  <2> QED BY <1>2, <2>1 DEF CtlTypes
<1>4. StageOK'
  <2>1. \A v \in Tasks : InRun(v)' => v = u
      BY DEF InRun
  <2> QED BY <1>1, <2>1 DEF StageOK
<1>5. SaidOK'
    BY <1>2 DEF SaidOK, Tasks
<1>6. UseOK'
    BY DEF UseOK, Ops
<1>7. WatchOK'
    BY DEF WatchOK, HasNio, CtlTypes, Ops
<1>8. PortOK'
  <2>1. /\ ~Iocp' => pend' = {} /\ \A o \in Ops : io'[o] = "idle"
        /\ Iocp' => ops' = {}
        /\ \A o \in Ops : Iocp' /\ left' = <<o>> => io'[o] = "idle"
      BY DEF PortOK, Iocp
  <2>2. \A o \in Ops : InUse(o)' => HasNio' /\ own'[o] # None /\ sch'[o] = own'[o]
      BY DEF PortOK, HasNio, Ops
  <2>3. InUse("R")' => "R" \in pend'
      BY DEF PortOK, Ops
  <2>4. Iocp' /\ HasNio' => (sch'.rr <=> ~InUse("R")') /\ (sch'.wr <=> ~InUse("W")')
      BY DEF Iocp, HasNio
  <2> QED BY <1>1, <2>1, <2>2, <2>3, <2>4 DEF PortOK
<1>9. ToldOK'
  <2> SUFFICES ASSUME NEW v \in alive', NEW h \in told'[v], NEW o, o = Half(h), own[o] = v, HasNio
               PROVE  (o \in ops' \/ InUse(o)') /\ sch'[o] = v
    <3>1. \A h : Half(h)' = Half(h)
        BY DEF Half
    <3>2. HasNio' <=> HasNio
        BY DEF HasNio
    <3> QED BY <3>1, <3>2 DEF ToldOK, InUse, Iocp
  <2>1. v \in alive /\ v \in Tasks /\ v # u /\ h \in told[v] /\ h \in {"R", "W", "C"}
      BY <1>2 DEF CtlTypes
  <2>2. o \in Ops
      BY <2>1 DEF Half, Ops
  <2>3. (o \in ops \/ InUse(o)) /\ sch[o] = v
      BY <2>1 DEF ToldOK
  <2> QED BY <2>1, <2>2, <2>3 DEF Ops
<1> QED BY <1>3, <1>4, <1>5, <1>6, <1>7, <1>8, <1>9

\* get_ready_tasks.
LEMMA ReadyFacts ==
    ASSUME CtlInv, NEW ev, Ready(ev)
    PROVE  /\ sch' \in [R : Tasks, W : Tasks, rr : BOOLEAN, wr : BOOLEAN]
           /\ sch'["R"] = sch["R"] /\ sch'["W"] = sch["W"]
           /\ sch'.rr <=> sch.rr \/ "R" \in ev
           /\ sch'.wr <=> sch.wr \/ "W" \in ev
<1>1. sch \in [R : Tasks, W : Tasks, rr : BOOLEAN, wr : BOOLEAN]
    BY DEF CtlInv, CtlTypes
<1>2. sch' = [sch EXCEPT !.rr = @ \/ "R" \in ev, !.wr = @ \/ "W" \in ev]
    BY DEF Ready
<1> QED BY <1>1, <1>2

\* run_task finds its task.
LEMMA RunTaskFacts ==
    ASSUME NEW t \in alive, RunTask(t)
    PROVE  run' = <<t>> /\ told' = [told EXCEPT ![t] = {}] /\ UNCHANGED fault
BY DEF RunTask

\* What is in the list that is left.
LEMMA LeftFacts ==
    ASSUME CtlInv, left # <<>>
    PROVE  left = <<left[1]>> /\ left[1] \in Tasks \cup Ops
<1>1. PICK x \in Tasks \cup Ops : left = <<x>>
    BY DEF CtlInv, CtlTypes
<1>2. left[1] = x
    BY <1>1
<1> QED BY <1>1, <1>2

\* A wait of epoll, and the second task of a Pair.
LEMMA EpollCtl == ASSUME CtlInv, Orderly, EpollWait \/ RunSecond PROVE CtlInv'
<1> USE DEF CtlInv
<1>1. /\ backend = "epoll" /\ run = <<>> /\ ~Iocp
      /\ UNCHANGED <<form, own, ops, pend, io, backend, alive>>
    BY DEF EpollWait, RunSecond, Idle, Iocp, handle, nio, overlapped
<1>2. \A o \in Ops : ~InUse(o) /\ ~InUse(o)'
    BY <1>1 DEF PortOK, InUse, Iocp
<1>3. io' \in [Ops -> {"idle", "flying", "queued"}]
    BY <1>1 DEF CtlTypes
<1>4. CASE EpollWait
  <2> DEFINE ev == {o \in ops : IF o = "R" THEN Readable ELSE Writable}
             u == IF "R" \in ev THEN sch.R ELSE sch.W
  <2>1. /\ HasNio /\ (ev = {} => sch.W \in alive) /\ Ready(IF ev = {} THEN {"W"} ELSE ev)
        /\ RunTask(u) /\ left' = IF ev = Ops THEN <<sch.W>> ELSE <<>>
      BY <1>4 DEF EpollWait, Orderly
  <2>2. ev \subseteq ops /\ ops \subseteq {"R", "W"}
      BY DEF CtlTypes, Ops
  <2> HIDE DEF ev
  <2>3. u \in alive /\ ("W" \in ev => sch.W \in alive)
    <3>1. \A o \in ev : sch[o] \in alive
        BY <2>1, <2>2 DEF WatchOK
    <3>2. ("R" \in ev => sch.R \in alive) /\ ("W" \in ev => sch.W \in alive)
        BY <3>1
    <3> QED BY <2>1, <2>2, <3>2
  <2> HIDE DEF u
  <2>4. run' = <<u>> /\ told' = [told EXCEPT ![u] = {}] /\ UNCHANGED fault
      BY <2>1, <2>3, RunTaskFacts
  <2>5. /\ sch' \in [R : Tasks, W : Tasks, rr : BOOLEAN, wr : BOOLEAN]
        /\ sch'["R"] = sch["R"] /\ sch'["W"] = sch["W"]
      BY <2>1, ReadyFacts
  <2>6. left' \in {<<>>} \cup {<<x>> : x \in Tasks \cup Ops} /\ LeftOK'
    <3>1. CASE ev = Ops
      <4>1. left' = <<sch.W>> /\ sch.W \in alive /\ sch.W \in Tasks
          BY <2>1, <2>3, <3>1 DEF Ops, CtlTypes
      <4>2. left'[1] = sch.W
          BY <4>1
      <4> QED BY <1>1, <4>1, <4>2 DEF LeftOK
    <3>2. CASE ev # Ops
        BY <2>1, <3>2 DEF LeftOK
    <3> QED BY <3>1, <3>2
  <2> QED BY <1>1, <1>2, <1>3, <2>3, <2>4, <2>5, <2>6, WakeStep
<1>5. CASE RunSecond
  <2>1. left # <<>> /\ left' = <<>> /\ RunTask(left[1]) /\ UNCHANGED sch
      BY <1>5 DEF RunSecond, nio
  <2>2. left[1] \in alive
      BY <1>1, <2>1 DEF LeftOK
  <2>3. run' = <<left[1]>> /\ told' = [told EXCEPT ![left[1]] = {}] /\ UNCHANGED fault
      BY <2>1, <2>2, RunTaskFacts
  <2>4. left' \in {<<>>} \cup {<<x>> : x \in Tasks \cup Ops} /\ LeftOK'
      BY <2>1 DEF LeftOK
  <2>5. sch' \in [R : Tasks, W : Tasks, rr : BOOLEAN, wr : BOOLEAN]
      BY <2>1 DEF CtlTypes
  <2> QED BY <1>1, <1>2, <1>3, <2>1, <2>2, <2>3, <2>4, <2>5, WakeStep
<1> QED BY <1>4, <1>5

\* A wait of kqueue, and the second event, whose schedule is still there.
LEMMA KqueueCtl ==
    ASSUME CtlInv, KeventWait \/ (SecondEvent /\ backend = "kqueue")
    PROVE  CtlInv'
<1> USE DEF CtlInv
<1>1. /\ backend = "kqueue" /\ run = <<>> /\ ~Iocp
      /\ UNCHANGED <<form, own, ops, pend, io, backend, alive>>
    BY DEF KeventWait, SecondEvent, Idle, Iocp, handle, overlapped
<1>2. \A o \in Ops : ~InUse(o) /\ ~InUse(o)'
    BY <1>1 DEF PortOK, InUse, Iocp
<1>3. io' \in [Ops -> {"idle", "flying", "queued"}]
    BY <1>1 DEF CtlTypes
<1>4. CASE KeventWait
  <2> DEFINE ev == {o \in ops : IF o = "R" THEN Readable ELSE Writable}
  <2>1. HasNio /\ \E o \in ev : Ready({o}) /\ RunTask(sch[o]) /\ left' = SetToSeq(ev \ {o})
      BY <1>4 DEF KeventWait
  <2>2. ev \subseteq ops /\ ops \subseteq Ops /\ ev \in SUBSET Ops
      BY DEF CtlTypes
  <2> HIDE DEF ev
  <2>3. PICK o \in ev : Ready({o}) /\ RunTask(sch[o]) /\ left' = SetToSeq(ev \ {o})
      BY <2>1
  <2>4. \A p \in ev : sch[p] \in alive
      BY <2>1, <2>2 DEF WatchOK
  <2>5. run' = <<sch[o]>> /\ told' = [told EXCEPT ![sch[o]] = {}] /\ UNCHANGED fault
      BY <2>3, <2>4, RunTaskFacts
  <2>6. /\ sch' \in [R : Tasks, W : Tasks, rr : BOOLEAN, wr : BOOLEAN]
        /\ sch'["R"] = sch["R"] /\ sch'["W"] = sch["W"]
      BY <2>3, ReadyFacts
  <2>7. left' \in {<<>>} \cup {<<x>> : x \in Tasks \cup Ops} /\ LeftOK'
    <3>1. CASE ev = {o}
        BY <2>2, <2>3, <3>1, OneLeft DEF LeftOK
    <3>2. CASE ev # {o}
      <4>1. PICK p \in ev \ {o} : ev = {o, p} /\ left' = <<p>>
          BY <2>2, <2>3, <3>2, OneLeft
      <4>2. left'[1] = p /\ p \in Ops /\ sch'[p] \in alive
          BY <2>2, <2>4, <2>6, <4>1 DEF Ops
      <4>3. "R" \in ops /\ "W" \in ops
          BY <2>2, <4>1 DEF Ops
      <4>4. form \in {"Recv", "Sender", "Split"}
          BY <2>1, <4>3 DEF UseOK, HasNio, CtlTypes, Forms
      <4> QED BY <1>1, <4>1, <4>2, <4>4 DEF LeftOK
    <3> QED BY <3>1, <3>2
  <2> QED BY <1>1, <1>2, <1>3, <2>4, <2>5, <2>6, <2>7, WakeStep
<1>5. CASE SecondEvent
  <2>1. /\ left # <<>> /\ left' = <<>> /\ HasNio /\ left[1] \in Ops /\ sch[left[1]] \in alive
        /\ io[left[1]] # "freed"
      BY <1>1, <1>5 DEF SecondEvent, LeftOK, HasNio, PortOK
  <2>2. Ready({left[1]}) /\ RunTask(sch[left[1]])
      BY <1>5, <2>1 DEF SecondEvent
  <2>3. run' = <<sch[left[1]]>> /\ told' = [told EXCEPT ![sch[left[1]]] = {}] /\ UNCHANGED fault
      BY <2>1, <2>2, RunTaskFacts
  <2>4. /\ sch' \in [R : Tasks, W : Tasks, rr : BOOLEAN, wr : BOOLEAN]
        /\ sch'["R"] = sch["R"] /\ sch'["W"] = sch["W"]
      BY <2>2, ReadyFacts
  <2>5. left' \in {<<>>} \cup {<<x>> : x \in Tasks \cup Ops} /\ LeftOK'
      BY <2>1 DEF LeftOK
  <2> QED BY <1>1, <1>2, <1>3, <2>1, <2>3, <2>4, <2>5, WakeStep
<1> QED BY <1>4, <1>5

\* A wait of a completion port, and the second completion.
LEMMA IocpCtl ==
    ASSUME CtlInv, IocpWait \/ (SecondEvent /\ backend = "iocp")
    PROVE  CtlInv'
<1> USE DEF CtlInv
<1>1. /\ Iocp /\ Iocp' /\ backend = "iocp" /\ run = <<>>
      /\ UNCHANGED <<form, own, ops, pend, backend, alive>>
    BY DEF IocpWait, SecondEvent, Idle, Iocp, handle, overlapped
<1>2. form # "Connecting"
    BY <1>1 DEF StageOK
<1>3. ASSUME NEW o \in Ops, InUse(o)
      PROVE  HasNio /\ sch[o] \in alive /\ io[o] # "freed"
  <2>1. HasNio /\ own[o] # None /\ sch[o] = own[o] /\ io[o] # "freed"
      BY <1>3 DEF PortOK, CtlTypes
  <2>2. own[o] \in alive
    <3>1. CASE form = "Split"
        BY <2>1, <3>1 DEF StageOK
    <3>2. CASE form # "Split"
        BY <2>1, <3>2 DEF StageOK, HasNio, Ops
    <3> QED BY <3>1, <3>2
  <2> QED BY <2>1, <2>2
<1>4. HasNio => (sch.rr <=> ~InUse("R")) /\ (sch.wr <=> ~InUse("W"))
    BY <1>1, <1>2 DEF PortOK
<1>5. CASE IocpWait
  <2> DEFINE ev == {o \in Ops : io[o] \in {"queued", "freed"}}
  <2>1. PICK o \in ev :
          /\ IF HasNio /\ io[o] # "freed" THEN Ready({o}) /\ RunTask(sch[o])
                                          ELSE fault' = TRUE /\ UNCHANGED <<sch, run, told>>
          /\ left' = SetToSeq(ev \ {o})
          /\ io' = [x \in Ops |-> IF io[x] = "queued" THEN "idle" ELSE io[x]]
      BY <1>5 DEF IocpWait
  <2>2. left = <<>> /\ ev \in SUBSET Ops /\ o \in Ops /\ InUse(o)
      BY <1>5 DEF IocpWait, InUse
  <2>3. \A p \in Ops : p \in ev <=> io[p] = "queued"
      BY DEF CtlTypes
  <2> HIDE DEF ev
  <2>4. HasNio /\ sch[o] \in alive /\ Ready({o}) /\ RunTask(sch[o])
      BY <1>3, <2>1, <2>2
  <2>5. run' = <<sch[o]>> /\ told' = [told EXCEPT ![sch[o]] = {}] /\ UNCHANGED fault
      BY <2>4, RunTaskFacts
  <2>6. /\ sch' \in [R : Tasks, W : Tasks, rr : BOOLEAN, wr : BOOLEAN]
        /\ sch'["R"] = sch["R"] /\ sch'["W"] = sch["W"]
        /\ sch'.rr <=> sch.rr \/ o = "R"
        /\ sch'.wr <=> sch.wr \/ o = "W"
      BY <2>4, ReadyFacts
  <2>7. /\ io' \in [Ops -> {"idle", "flying", "queued"}]
        /\ \A p \in Ops : io'[p] = IF io[p] = "queued" THEN "idle" ELSE io[p]
      BY <2>1 DEF CtlTypes
  <2>8. /\ left' \in {<<>>} \cup {<<x>> : x \in Tasks \cup Ops}
        /\ left' # <<>> => left'[1] \in Ops
        /\ \A p \in Ops : left' = <<p>> <=> p \in ev /\ p # o
    <3>1. CASE ev = {o}
      <4>1. left' = <<>>
          BY <2>1, <2>2, <3>1, OneLeft
      <4> QED BY <3>1, <4>1
    <3>2. CASE ev # {o}
      <4>1. PICK p \in ev \ {o} : ev = {o, p} /\ left' = <<p>>
          BY <2>1, <2>2, <3>2, OneLeft
      <4>2. p \in Ops /\ left'[1] = p /\ \A q : <<p>> = <<q>> <=> p = q
          BY <2>2, <4>1
      <4> QED BY <4>1, <4>2
    <3> QED BY <3>1, <3>2
  <2>9. \A p \in Ops : InUse(p)' <=> InUse(p) /\ p # o
    <3> SUFFICES ASSUME NEW p \in Ops PROVE InUse(p)' <=> InUse(p) /\ p # o
        OBVIOUS
    <3>1. InUse(p) <=> io[p] # "idle"
        BY <2>2 DEF InUse
    <3>2. InUse(p)' <=> io'[p] # "idle" \/ (p \in ev /\ p # o)
        BY <1>1, <2>8 DEF InUse
    <3> QED BY <2>3, <2>7, <3>1, <3>2
  <2>10. LeftOK'
      BY <1>1, <2>8 DEF LeftOK
  <2>11. (sch'.rr <=> ~InUse("R")') /\ (sch'.wr <=> ~InUse("W")')
      BY <1>4, <2>4, <2>6, <2>9 DEF Ops
  <2>12. \A p \in Ops : left' = <<p>> => io'[p] = "idle"
      BY <2>3, <2>7, <2>8
  <2> QED BY <1>1, <2>4, <2>5, <2>6, <2>7, <2>8, <2>9, <2>10, <2>11, <2>12, WakeStep
<1>6. CASE SecondEvent
  <2> DEFINE o == left[1]
  <2>1. left # <<>> /\ left' = <<>> /\ UNCHANGED io /\ o \in Ops /\ left = <<o>>
      BY <1>1, <1>6, LeftFacts DEF SecondEvent, LeftOK, overlapped
  <2>2. InUse(o) /\ io[o] = "idle"
      BY <1>1, <2>1 DEF InUse, PortOK
  <2>3. HasNio /\ sch[o] \in alive /\ Ready({o}) /\ RunTask(sch[o])
      BY <1>3, <1>6, <2>1, <2>2 DEF SecondEvent
  <2> HIDE DEF o
  <2>4. run' = <<sch[o]>> /\ told' = [told EXCEPT ![sch[o]] = {}] /\ UNCHANGED fault
      BY <2>3, RunTaskFacts
  <2>5. /\ sch' \in [R : Tasks, W : Tasks, rr : BOOLEAN, wr : BOOLEAN]
        /\ sch'["R"] = sch["R"] /\ sch'["W"] = sch["W"]
        /\ sch'.rr <=> sch.rr \/ o = "R"
        /\ sch'.wr <=> sch.wr \/ o = "W"
      BY <2>3, ReadyFacts
  <2>6. \A p \in Ops : InUse(p)' <=> InUse(p) /\ p # o
    <3> SUFFICES ASSUME NEW p \in Ops PROVE InUse(p)' <=> InUse(p) /\ p # o
        OBVIOUS
    <3>1. left = <<p>> <=> p = o
        BY <2>1
    <3>2. left' # <<p>>
        BY <2>1
    <3> QED BY <2>1, <2>2, <3>1, <3>2 DEF InUse
  <2>7. /\ left' \in {<<>>} \cup {<<x>> : x \in Tasks \cup Ops} /\ LeftOK'
        /\ io' \in [Ops -> {"idle", "flying", "queued"}] /\ \A p \in Ops : left' # <<p>>
      BY <2>1 DEF LeftOK, CtlTypes
  <2>8. (sch'.rr <=> ~InUse("R")') /\ (sch'.wr <=> ~InUse("W")')
      BY <1>4, <2>3, <2>5, <2>6 DEF Ops
  <2> QED BY <1>1, <2>3, <2>4, <2>5, <2>6, <2>7, <2>8, WakeStep
<1> QED BY <1>5, <1>6

\* A task is run for something else.
LEMMA OtherCtl == ASSUME CtlInv, NEW t, OtherRun(t) PROVE CtlInv'
<1> USE DEF CtlInv
<1>1. /\ run = <<>> /\ t \in alive /\ RunTask(t)
      /\ UNCHANGED <<form, own, ops, sch, pend, io, backend, left, alive>>
    BY DEF OtherRun, Idle, handle, nio, overlapped
<1>2. run' = <<t>> /\ told' = [told EXCEPT ![t] = {}] /\ UNCHANGED fault
    BY <1>1, RunTaskFacts
<1>3. /\ sch' \in [R : Tasks, W : Tasks, rr : BOOLEAN, wr : BOOLEAN]
      /\ io' \in [Ops -> {"idle", "flying", "queued"}]
      /\ left' \in {<<>>} \cup {<<x>> : x \in Tasks \cup Ops} /\ LeftOK'
    BY <1>1 DEF CtlTypes, LeftOK
<1>4. \A o \in Ops : (InUse(o)' <=> InUse(o)) /\ (Iocp /\ left' = <<o>> => io'[o] = "idle")
    BY <1>1 DEF InUse, Iocp, PortOK
<1>5. form # "Connecting"
    BY <1>1 DEF StageOK
<1>6. Iocp /\ HasNio => (sch'.rr <=> ~InUse("R")') /\ (sch'.wr <=> ~InUse("W")')
    BY <1>1, <1>4, <1>5 DEF PortOK, Ops
<1> QED BY <1>1, <1>2, <1>3, <1>4, <1>6, WakeStep

\* Every step keeps the invariant.
LEMMA StepCtl == ASSUME CtlInv, Orderly, [Next]_vars PROVE CtlInv'
<1>1. CASE UNCHANGED vars
  <2>1. UNCHANGED <<form, own, ops, sch, pend, io, run, left, alive, told, fault, backend>>
      BY <1>1 DEF vars
  <2> QED BY <2>1, QuietCtl DEF CtlInv, CtlTypes
<1>2. CASE Network
    BY <1>2, NetworkCtl
<1>3. CASE EventLoop
  <2>1. backend \in {"epoll", "kqueue", "iocp"}
      BY DEF CtlInv, CtlTypes
  <2>2. SecondEvent => backend # "epoll"
      BY DEF SecondEvent
  <2> QED BY <1>3, <2>1, <2>2, EpollCtl, KqueueCtl, IocpCtl DEF EventLoop
<1>4. ASSUME NEW t \in Tasks, OtherRun(t) \/ Makes(t) \/ Uses(t) \/ Park(t) \/ End(t)
      PROVE  CtlInv'
  <2>1. CASE OtherRun(t) \/ Park(t) \/ End(t)
      BY <2>1, OtherCtl, ParkCtl, EndCtl
  <2>2. CASE Makes(t)
    <3>1. CASE Listen(t) \/ \E how \in {"up", "progress", "refused"} : Connect(t, how)
        BY <3>1, MakeCtl
    <3>2. CASE AcceptReady(t) \/ FinishingErr(t) \/ ErrorPoll(t)
        BY <3>2, WithoutNioCtl
    <3>3. CASE FinishingOk(t) \/ ConnectedPoll(t)
        BY <3>3, ConnectedCtl
    <3>4. CASE AcceptNotReady(t) \/ FinishingWaits(t)
        BY <3>4, AwaitCtl
    <3>5. CASE ConnectingPoll(t)
        BY <3>5, ConnectingCtl
    <3>6. CASE AcceptErr(t)
        BY <3>6, AcceptErrCtl
    <3> QED BY <2>2, <3>1, <3>2, <3>3, <3>4, <3>5, <3>6 DEF Makes
  <2>3. CASE Uses(t)
    <3>1. CASE \E f \in {"Recv", "Sender", "Split"} : FromStream(t, f)
        BY <3>1, MakeCtl
    <3>2. CASE \E f \in {"Recv", "Sender", "Split"} : Into(t, f)
        BY <3>2, IntoCtl
    <3>3. CASE \E h \in Ops : Spawn(t, h)
        BY <3>3, SpawnCtl
    <3>4. CASE RecvSome(t) \/ RecvNone(t) \/ RecvErr(t) \/ RecvNotReady(t)
        BY <3>4, RecvCtl
    <3>5. CASE (\E k \in ItemSizes : start_send(t, k)) \/ poll_complete(t) \/ poll_err(t) \/ close(t)
        BY <3>5, SendCtl
    <3>6. CASE \E hs \in SUBSET Ops : DropHalves(t, hs)
        BY <3>6, DropCtl
    <3> QED BY <2>3, <3>1, <3>2, <3>3, <3>4, <3>5, <3>6 DEF Uses
  <2> QED BY <1>4, <2>1, <2>2, <2>3
<1> QED BY <1>1, <1>2, <1>3, <1>4 DEF Next

\* It holds at the start.
LEMMA InitCtl == Init => CtlInv
<1> SUFFICES ASSUME Init PROVE CtlInv
    OBVIOUS
<1> USE DEF Init
<1>0. A # B /\ None \notin {A, B} /\ Backends \subseteq {"epoll", "kqueue", "iocp"}
    BY TcpStreamAssumption DEF TcpStreamAssumption, Tasks
<1>1. CtlTypes
    BY <1>0 DEF CtlTypes, Ops, Tasks, Forms
<1>2. \A t \in Tasks : InRun(t) => t \in alive
    BY DEF InRun
<1>3. \A o \in Ops : ~InUse(o)
    BY DEF InUse, Ops
<1>4. StageOK /\ SaidOK
    BY <1>2 DEF StageOK, SaidOK, Tasks
<1>5. UseOK /\ LeftOK /\ WatchOK
    BY <1>3 DEF UseOK, LeftOK, WatchOK, HasNio, Ops
<1>6. ~HasNio /\ pend = {} /\ \A o \in Ops : io[o] = "idle"
    BY DEF HasNio, Ops
<1>7. PortOK
    BY <1>3, <1>6 DEF PortOK, Ops
<1>8. ToldOK
    BY <1>6 DEF ToldOK, Tasks
<1> QED BY <1>1, <1>4, <1>5, <1>7, <1>8 DEF CtlInv

\* A registered side runs the live task that holds it, an Overlapped is in use exactly
\* while its side is not ready, and what was told NotReady is registered or in flight, on
\* every event queue, through conversions, splits, moves and drops.
THEOREM StreamInvariance == ASSUME Orderly PROVE Spec => []CtlInv
<1>1. Init => CtlInv
    BY InitCtl
<1>2. CtlInv /\ [Next]_vars => CtlInv'
    BY StepCtl
<1> QED BY <1>1, <1>2, PTL DEF Spec

\* No wakeup is lost on a stream: Nio::schedule_read and schedule_write do nothing if the
\* operation is registered, and the task they leave in the schedule is the right one.
THEOREM StreamRegistered == ASSUME Orderly PROVE Spec => []Registered
<1>1. CtlInv => Registered
    BY DEF CtlInv, ToldOK, Registered, Half
<1> QED BY <1>1, StreamInvariance, PTL

\* run_task and the schedules, looked up unchecked, find what an event names.
THEOREM StreamNeverUnreachable == ASSUME Orderly PROVE Spec => []NeverUnreachable
<1>1. CtlInv => NeverUnreachable
    BY DEF CtlInv, CtlTypes, NeverUnreachable
<1> QED BY <1>1, StreamInvariance, PTL

----------------------------------------------------------------------------
(* The receive buffer.                                                     *)

Blocks == [c : Nat, off : Nat, cap : Nat]

\* Memory in use, p, is apart from what is left of two blocks and from all memory to come.
Apart(p, b1, b2, nx) ==
    /\ b1.c < nx /\ b2.c < nx /\ b1.c # b2.c
    /\ \A k \in 1..Len(p) : /\ p[k][1] < nx
                            /\ p[k][1] = b1.c => p[k][2] <= b1.off
                            /\ p[k][1] = b2.c => p[k][2] <= b2.off
    /\ \A k, l \in 1..Len(p) : p[k] = p[l] => k = l

BufferOK ==
    /\ rb \in [blocks : [1..2 -> Blocks], reverse : BOOLEAN, next : Nat]
    /\ \A i \in 1..2 : rb.blocks[i].cap >= MinRoom
    /\ put \in Seq(Nat \X Nat) /\ Apart(put, rb.blocks[1], rb.blocks[2], rb.next)

\* Where received bytes are, and how many.
InInv ==
    /\ BufferOK /\ got = put
    /\ rcvq \in Seq(Nat) /\ arrived \in Nat /\ Len(put) + Len(rcvq) = arrived

\* The two blocks in either order.
LEMMA ApartSwap ==
    ASSUME NEW p, NEW b1, NEW b2, NEW nx, Apart(p, b1, b2, nx)
    PROVE  Apart(p, b2, b1, nx)
BY DEF Apart

\* The cells a read of n bytes fills.
LEMMA CellFacts ==
    ASSUME NEW b \in Blocks, NEW n \in Nat
    PROVE  /\ Cells(b, n) \in Seq(Nat \X Nat) /\ Len(Cells(b, n)) = n
           /\ \A i \in 1..n : Cells(b, n)[i] = <<b.c, b.off + i>>
<1> DEFINE s == Cells(b, n)
<1>1. s = [i \in 1..n |-> <<b.c, b.off + i>>]
    BY DEF Cells
<1>2. \A i \in 1..n : <<b.c, b.off + i>> \in Nat \X Nat
    BY DEF Blocks
<1>3. s \in [1..n -> Nat \X Nat]
    BY <1>1, <1>2
<1>4. s \in Seq(Nat \X Nat) /\ Len(s) = n
    BY <1>3, SeqDef, LenProperties
<1> QED BY <1>1, <1>4

\* They are as many as the bytes.
LEMMA MoreCells ==
    ASSUME NEW p \in Seq(Nat \X Nat), NEW b \in Blocks, NEW n \in Nat
    PROVE  Len(p \o Cells(b, n)) = Len(p) + n
<1> DEFINE s == Cells(b, n)
<1>1. s \in Seq(Nat \X Nat) /\ Len(s) = n
    BY CellFacts
<1> HIDE DEF s
<1>2. Len(p \o s) = Len(p) + n
    BY <1>1, ConcatProperties
<1> QED BY <1>2 DEF s

\* A read into the rest of a block, which shrinks by what was read.
LEMMA ReadApart ==
    ASSUME NEW p \in Seq(Nat \X Nat), NEW b \in Blocks, NEW b2 \in Blocks, NEW nx \in Nat,
           NEW n \in Nat, NEW b1 \in Blocks, b1.c = b.c, b1.off = b.off + n, Apart(p, b, b2, nx)
    PROVE  p \o Cells(b, n) \in Seq(Nat \X Nat) /\ Apart(p \o Cells(b, n), b1, b2, nx)
<1> DEFINE s == Cells(b, n)
           q == p \o s
           lp == Len(p)
           lq == Len(q)
<1>1. /\ s \in Seq(Nat \X Nat) /\ Len(s) = n
      /\ \A i \in 1..n : s[i] = <<b.c, b.off + i>>
    BY CellFacts
<1> HIDE DEF s
<1>2. /\ q \in Seq(Nat \X Nat) /\ lq = lp + n /\ lp \in Nat
      /\ \A k \in 1..lq : q[k] = IF k <= lp THEN p[k] ELSE s[k - lp]
    BY <1>1, ConcatProperties, LenProperties
<1> HIDE DEF q, lp, lq
<1>3. \A k \in 1..lp : q[k] = p[k]
    BY <1>2
<1>4. \A k \in 1..lq : k > lp => q[k] = <<b.c, b.off + (k - lp)>> /\ k - lp \in 1..n
    BY <1>1, <1>2
<1>5. \A k \in 1..lq : k > lp => q[k][1] = b.c /\ q[k][2] = b.off + (k - lp)
    BY <1>4
<1>6. /\ b.c \in Nat /\ b.off \in Nat /\ b2.c \in Nat /\ b2.off \in Nat /\ b1.off \in Nat
      /\ \A k \in 1..lp : p[k] \in Nat \X Nat /\ p[k][2] \in Nat /\ p[k][1] \in Nat
  <2>1. \A k \in 1..lp : p[k] \in Nat \X Nat
      BY DEF lp
  <2> QED BY <2>1 DEF Blocks
<1>7. ASSUME NEW k \in 1..lq
      PROVE  /\ q[k][1] < nx
             /\ q[k][1] = b1.c => q[k][2] <= b1.off
             /\ q[k][1] = b2.c => q[k][2] <= b2.off
  <2>1. CASE k <= lp
    <3>1. k \in 1..lp
        BY <1>2, <2>1
    <3>2. q[k] = p[k] /\ p[k][2] \in Nat
        BY <1>3, <1>6, <3>1
    <3>3. p[k][1] < nx /\ (p[k][1] = b.c => p[k][2] <= b.off) /\ (p[k][1] = b2.c => p[k][2] <= b2.off)
        BY <3>1 DEF Apart, lp, lq
    <3> QED BY <1>6, <3>2, <3>3
  <2>2. CASE k > lp
    <3>1. q[k][1] = b.c /\ q[k][2] = b.off + (k - lp) /\ k - lp \in 1..n
        BY <1>4, <1>5, <2>2
    <3>2. b.c < nx /\ b.c # b2.c
        BY DEF Apart, lp, lq
    <3> QED BY <1>6, <3>1, <3>2
  <2> QED BY <1>2, <2>1, <2>2
<1>8. ASSUME NEW k \in 1..lq, NEW l \in 1..lq, q[k] = q[l], k < l
      PROVE  FALSE
  <2>1. CASE l <= lp
    <3>1. k \in 1..lp /\ l \in 1..lp
        BY <1>2, <1>8, <2>1
    <3>2. p[k] = p[l]
        BY <1>3, <1>8, <3>1
    <3> QED BY <1>8, <3>1, <3>2 DEF Apart, lp, lq
  <2>2. CASE l > lp /\ k <= lp
    <3>1. k \in 1..lp /\ q[k] = p[k]
        BY <1>2, <1>3, <2>2
    <3>2. p[k][1] = b.c /\ p[k][2] = b.off + (l - lp) /\ l - lp \in 1..n
        BY <1>4, <1>5, <1>8, <2>2, <3>1
    <3>3. p[k][2] <= b.off
        BY <3>1, <3>2 DEF Apart, lp, lq
    <3> QED BY <1>6, <3>2, <3>3
  <2>3. CASE k > lp
    <3>1. k \in Int /\ l \in Int /\ lp \in Int /\ l > lp
        BY <1>2, <1>8, <2>3
    <3>2. q[k][2] = b.off + (k - lp)
        BY <1>5, <2>3
    <3>3. q[l][2] = b.off + (l - lp)
        BY <1>5, <3>1
    <3>4. b.off + (k - lp) = b.off + (l - lp)
        BY <1>8, <3>2, <3>3
    <3> QED BY <1>6, <1>8, <3>1, <3>4
  <2> QED BY <1>2, <2>1, <2>2, <2>3
<1>9. \A k, l \in 1..lq : q[k] = q[l] => k = l
    BY <1>2, <1>8
<1>10. b1.c < nx /\ b2.c < nx /\ b1.c # b2.c
    BY DEF Apart, lp, lq
<1>11. Apart(q, b1, b2, nx)
    BY <1>7, <1>9, <1>10 DEF Apart, lp, lq
<1> QED BY <1>2, <1>11 DEF q, s

\* A block taken anew is apart from everything.
LEMMA FreshApart ==
    ASSUME NEW p \in Seq(Nat \X Nat), NEW b, NEW b2 \in Blocks, NEW nx \in Nat, Apart(p, b, b2, nx)
    PROVE  Fresh(nx) \in Blocks /\ Fresh(nx).cap >= MinRoom /\ Apart(p, Fresh(nx), b2, nx + 1)
<1>1. /\ Fresh(nx) \in Blocks /\ Fresh(nx).c = nx /\ Fresh(nx).cap >= MinRoom
    BY TcpStreamAssumption DEF TcpStreamAssumption, Fresh, Blocks
<1>2. b2.c \in Nat /\ b2.c < nx /\ b2.c # nx
    BY DEF Apart, Blocks
<1>3. ASSUME NEW k \in 1..Len(p)
      PROVE  p[k][1] < nx + 1 /\ p[k][1] # nx /\ (p[k][1] = b2.c => p[k][2] <= b2.off)
  <2>1. p[k] \in Nat \X Nat
      OBVIOUS
  <2>2. p[k][1] \in Nat
      BY <2>1
  <2>3. p[k][1] < nx /\ (p[k][1] = b2.c => p[k][2] <= b2.off)
      BY DEF Apart
  <2> QED BY <2>2, <2>3
<1>4. \A k, l \in 1..Len(p) : p[k] = p[l] => k = l
    BY DEF Apart
<1>5. nx < nx + 1 /\ b2.c < nx + 1
    BY <1>2
<1>6. Apart(p, Fresh(nx), b2, nx + 1)
    BY <1>1, <1>2, <1>3, <1>4, <1>5 DEF Apart
<1> QED BY <1>1, <1>6

\* A read of n bytes into a block, and what is left of the block or the one that replaces it.
LEMMA RestApart ==
    ASSUME NEW p \in Seq(Nat \X Nat), NEW b \in Blocks, NEW b2 \in Blocks, NEW nx \in Nat,
           NEW n \in Nat, n <= b.cap, Apart(p, b, b2, nx)
    PROVE  /\ p \o Cells(b, n) \in Seq(Nat \X Nat)
           /\ Rest(b, n, nx) \in Blocks /\ Rest(b, n, nx).cap >= MinRoom
           /\ nx + Taken(b, n) \in Nat
           /\ Apart(p \o Cells(b, n), Rest(b, n, nx), b2, nx + Taken(b, n))
<1> DEFINE b1 == [b EXCEPT !.off = @ + n, !.cap = @ - n]
<1>1. b.cap \in Nat /\ b.off \in Nat /\ MinRoom \in Nat
    BY TcpStreamAssumption DEF TcpStreamAssumption, Blocks
<1>2. b1 \in Blocks /\ b1.c = b.c /\ b1.off = b.off + n /\ b1.cap = b.cap - n
  <2>1. b.off + n \in Nat /\ b.cap - n \in Nat
      BY <1>1
  <2>2. \A x, y \in Nat : LET r == [b EXCEPT !.off = x, !.cap = y] IN
          r \in Blocks /\ r.c = b.c /\ r.off = x /\ r.cap = y
      BY DEF Blocks
  <2>3. b1 = [b EXCEPT !.off = b.off + n, !.cap = b.cap - n]
      OBVIOUS
  <2> QED BY <2>1, <2>2, <2>3
<1> HIDE DEF b1
<1>3. p \o Cells(b, n) \in Seq(Nat \X Nat) /\ Apart(p \o Cells(b, n), b1, b2, nx)
    BY <1>2, ReadApart
<1>4. CASE Spent(b, n)
  <2>1. Rest(b, n, nx) = Fresh(nx) /\ Taken(b, n) = 1
      BY <1>4 DEF Rest, Taken
  <2>2. Fresh(nx) \in Blocks /\ Fresh(nx).cap >= MinRoom /\ Apart(p \o Cells(b, n), Fresh(nx), b2, nx + 1)
      BY <1>3, FreshApart
  <2> QED BY <1>3, <2>1, <2>2
<1>5. CASE ~Spent(b, n)
  <2>1. Rest(b, n, nx) = b1 /\ Taken(b, n) = 0 /\ nx + 0 = nx
      BY <1>5 DEF Rest, Taken, b1
  <2>2. b1.cap >= MinRoom
      BY <1>1, <1>2, <1>5 DEF Spent
  <2> QED BY <1>2, <1>3, <2>1, <2>2
<1> QED BY <1>4, <1>5

\* The first n cells of two runs of cells.
LEMMA FirstCells ==
    ASSUME NEW b1 \in Blocks, NEW b2 \in Blocks, NEW n \in Nat, n <= b1.cap + b2.cap
    PROVE  LET cells == Cells(b1, b1.cap) \o Cells(b2, b2.cap) IN
           /\ n <= b1.cap => SubSeq(cells, 1, n) = Cells(b1, n)
           /\ n > b1.cap => /\ n - b1.cap \in Nat /\ n - b1.cap <= b2.cap
                            /\ SubSeq(cells, 1, n) = Cells(b1, b1.cap) \o Cells(b2, n - b1.cap)
<1> DEFINE c1 == b1.cap
           c2 == b2.cap
           s1 == Cells(b1, c1)
           s2 == Cells(b2, c2)
           cells == s1 \o s2
           sub == SubSeq(cells, 1, n)
<1>1. c1 \in Nat /\ c2 \in Nat
    BY DEF Blocks
<1> HIDE DEF c1, c2
<1>2. /\ s1 \in Seq(Nat \X Nat) /\ Len(s1) = c1 /\ \A i \in 1..c1 : s1[i] = <<b1.c, b1.off + i>>
      /\ s2 \in Seq(Nat \X Nat) /\ Len(s2) = c2 /\ \A i \in 1..c2 : s2[i] = <<b2.c, b2.off + i>>
    BY <1>1, CellFacts
<1> HIDE DEF s1, s2
<1>3. /\ cells \in Seq(Nat \X Nat) /\ Len(cells) = c1 + c2
      /\ \A i \in 1..(c1 + c2) : cells[i] = IF i <= c1 THEN s1[i] ELSE s2[i - c1]
    BY <1>2, ConcatProperties
<1> HIDE DEF cells
<1>4. n <= c1 + c2
    BY DEF c1, c2
<1>5. sub \in Seq(Nat \X Nat) /\ Len(sub) = n /\ \A i \in 1..n : sub[i] = cells[i]
  <2>1. 1 \in 1..Len(cells) + 1 /\ n \in 0..Len(cells)
      BY <1>1, <1>3, <1>4
  <2>2. \A i \in 1..n : i \in 1..Len(cells)
      BY <1>1, <1>3, <1>4
  <2>3. /\ sub \in Seq(Nat \X Nat) /\ Len(sub) = (IF 1 <= n THEN n - 1 + 1 ELSE 0)
        /\ \A i \in 1..n : sub[i] = cells[1 + i - 1]
      BY <1>3, <2>1, <2>2, SubSeqProperties
  <2> QED BY <2>3
<1> HIDE DEF sub
<1>6. ASSUME n <= c1 PROVE sub = Cells(b1, n)
  <2> DEFINE r == Cells(b1, n)
  <2>1. r \in Seq(Nat \X Nat) /\ Len(r) = n /\ \A i \in 1..n : r[i] = <<b1.c, b1.off + i>>
      BY CellFacts
  <2> HIDE DEF r
  <2>2. \A i \in 1..n : sub[i] = r[i]
    <3> SUFFICES ASSUME NEW i \in 1..n PROVE sub[i] = r[i]
        OBVIOUS
    <3>1. i \in 1..c1 /\ i \in 1..(c1 + c2) /\ i <= c1
        BY <1>1, <1>6
    <3>2. sub[i] = s1[i]
        BY <1>3, <1>5, <3>1
    <3> QED BY <1>2, <2>1, <3>1, <3>2
  <2>3. sub = r
      BY <1>5, <2>1, <2>2, SeqEqual
  <2> QED BY <2>3 DEF r
<1>7. ASSUME n > c1 PROVE n - c1 \in Nat /\ n - c1 <= c2 /\ sub = s1 \o Cells(b2, n - c1)
  <2> DEFINE m == n - c1
             s3 == Cells(b2, m)
             r == s1 \o s3
  <2>1. m \in Nat /\ m <= c2 /\ n = c1 + m
      BY <1>1, <1>4, <1>7
  <2> HIDE DEF m
  <2>2. s3 \in Seq(Nat \X Nat) /\ Len(s3) = m /\ \A i \in 1..m : s3[i] = <<b2.c, b2.off + i>>
      BY <2>1, CellFacts
  <2> HIDE DEF s3
  <2>3. /\ r \in Seq(Nat \X Nat) /\ Len(r) = c1 + m
        /\ \A i \in 1..(c1 + m) : r[i] = IF i <= c1 THEN s1[i] ELSE s3[i - c1]
      BY <1>2, <2>2, ConcatProperties, ZenonT(60)
  <2> HIDE DEF r
  <2>4. \A i \in 1..n : sub[i] = r[i]
    <3> SUFFICES ASSUME NEW i \in 1..n PROVE sub[i] = r[i]
        OBVIOUS
    <3>1. i \in 1..(c1 + c2) /\ i \in 1..(c1 + m)
        BY <1>1, <1>4, <2>1
    <3>2. CASE i <= c1
        BY <1>3, <1>5, <2>3, <3>1, <3>2
    <3>3. CASE ~(i <= c1)
      <4>1. i - c1 \in 1..m /\ i - c1 \in 1..c2
          BY <1>1, <2>1, <3>3
      <4>2. s2[i - c1] = s3[i - c1]
          BY <1>2, <2>2, <4>1
      <4> QED BY <1>3, <1>5, <2>3, <3>1, <3>3, <4>2
    <3> QED BY <3>2, <3>3
  <2>5. sub = r
      BY <1>5, <2>1, <2>3, <2>4, SeqEqual
  <2> QED BY <2>1, <2>5 DEF r, s3, m
<1> QED BY <1>6, <1>7 DEF sub, cells, s1, s2, c1, c2

\* Concatenation is associative.
LEMMA Associates ==
    ASSUME NEW T, NEW x \in Seq(T), NEW y \in Seq(T), NEW z \in Seq(T)
    PROVE  (x \o y) \o z = x \o (y \o z)
OBVIOUS

\* Buffer::readv.
LEMMA ReadvBuffer ==
    ASSUME BufferOK, NEW n \in Nat, n <= Room, readv(n), got = put
    PROVE  BufferOK' /\ got' = put' /\ Len(put') = Len(put) + n
<1> DEFINE i == IF rb.reverse THEN 2 ELSE 1
           j == 3 - i
           b1 == rb.blocks[i]
           b2 == rb.blocks[j]
           nx == rb.next
           m == n - b1.cap
<1>1. (i = 1 /\ j = 2) \/ (i = 2 /\ j = 1)
    OBVIOUS
<1>2. /\ rb \in [blocks : [1..2 -> Blocks], reverse : BOOLEAN, next : Nat] /\ nx \in Nat
      /\ b1 \in Blocks /\ b2 \in Blocks /\ put \in Seq(Nat \X Nat)
      /\ b1.cap >= MinRoom /\ b2.cap >= MinRoom
    BY <1>1 DEF BufferOK
<1>3. Apart(put, b1, b2, nx)
    BY <1>1, ApartSwap DEF BufferOK
<1>4. b1.cap \in Nat /\ b2.cap \in Nat /\ n <= b1.cap + b2.cap
    BY <1>1, <1>2, SMTT(40) DEF Room, Blocks
<1>5. /\ put' = put \o SubSeq(Cells(b1, b1.cap) \o Cells(b2, b2.cap), 1, n)
      /\ n <= b1.cap =>
           /\ got' = got \o Cells(b1, n)
           /\ rb' = [rb EXCEPT !.blocks[i] = Rest(b1, n, nx), !.next = @ + Taken(b1, n)]
      /\ n > b1.cap =>
           /\ got' = got \o Cells(b1, b1.cap) \o Cells(b2, m)
           /\ rb' = [rb EXCEPT !.blocks[i] = Fresh(nx), !.blocks[j] = Rest(b2, m, nx + 1),
                               !.reverse = IF Spent(b2, m) THEN @ ELSE ~@,
                               !.next = @ + 1 + Taken(b2, m)]
  <2>1. n > b1.cap => ~(n <= b1.cap)
      BY <1>4
  <2> QED BY <2>1 DEF readv
<1> HIDE DEF i, j, b1, b2, nx, m
<1>6. CASE n <= b1.cap
  <2> DEFINE x == Rest(b1, n, nx)
             z == nx + Taken(b1, n)
             p == put \o Cells(b1, n)
  <2>1. put' = p /\ got' = p
      BY <1>2, <1>4, <1>5, <1>6, FirstCells, ZenonT(60)
  <2>2. p \in Seq(Nat \X Nat) /\ x \in Blocks /\ x.cap >= MinRoom /\ z \in Nat /\ Apart(p, x, b2, z)
      BY <1>2, <1>3, <1>6, RestApart
  <2>3. rb' = [rb EXCEPT !.blocks[i] = x, !.next = @ + Taken(b1, n)]
      BY <1>5, <1>6
  <2>4. Len(p) = Len(put) + n
      BY <1>2, MoreCells
  <2> HIDE DEF x, p
  <2>5. /\ rb' \in [blocks : [1..2 -> Blocks], reverse : BOOLEAN, next : Nat]
        /\ rb'.blocks[i] = x /\ rb'.blocks[j] = b2 /\ rb'.next = z
    <3>1. rb' = [rb EXCEPT !.blocks = [rb.blocks EXCEPT ![i] = x], !.next = z]
        BY <1>2, <2>3 DEF nx
    <3> HIDE DEF z
    <3>2. [rb.blocks EXCEPT ![i] = x] \in [1..2 -> Blocks]
        BY <1>1, <1>2, <2>2
    <3>3. [rb.blocks EXCEPT ![i] = x][i] = x /\ [rb.blocks EXCEPT ![i] = x][j] = b2
        BY <1>1, <1>2 DEF b2
    <3> QED BY <1>2, <2>2, <3>1, <3>2, <3>3
  <2>6. BufferOK'
    <3>1. Apart(p, rb'.blocks[1], rb'.blocks[2], rb'.next)
        BY <1>1, <2>2, <2>5, ApartSwap
    <3>2. \A k \in 1..2 : rb'.blocks[k].cap >= MinRoom
        BY <1>1, <1>2, <2>2, <2>5
    <3> QED BY <2>1, <2>2, <2>5, <3>1, <3>2 DEF BufferOK
  <2> QED BY <2>1, <2>4, <2>6
<1>7. CASE n > b1.cap
  <2> DEFINE p1 == put \o Cells(b1, b1.cap)
             x == Fresh(nx)
             y == Rest(b2, m, nx + 1)
             z == nx + 1 + Taken(b2, m)
             p == p1 \o Cells(b2, m)
  <2>0. m \in Nat /\ m <= b2.cap /\ n = b1.cap + m
      BY <1>4, <1>7 DEF m
  <2>1. put' = p /\ got' = p
    <3> DEFINE c1 == Cells(b1, b1.cap)
               c2 == Cells(b2, m)
    <3>0. SubSeq(c1 \o Cells(b2, b2.cap), 1, n) = c1 \o c2
        BY <1>2, <1>4, <1>7, FirstCells DEF m
    <3>1. put' = put \o (c1 \o c2)
        BY <1>5, <3>0
    <3>2. c1 \in Seq(Nat \X Nat) /\ c2 \in Seq(Nat \X Nat)
        BY <1>2, <1>4, <2>0, CellFacts
    <3>3. got' = (put \o c1) \o c2 /\ p = (put \o c1) \o c2
        BY <1>5, <1>7
    <3> HIDE DEF c1, c2, p
    <3> DEFINE T == Nat \X Nat
    <3>4. put \in Seq(T) /\ c1 \in Seq(T) /\ c2 \in Seq(T)
        BY <1>2, <3>2
    <3> HIDE DEF T
    <3>5. (put \o c1) \o c2 = put \o (c1 \o c2)
        BY <3>4, Associates, SMTT(40)
    <3> QED BY <3>1, <3>3, <3>5
  <2>2. p1 \in Seq(Nat \X Nat) /\ x \in Blocks /\ x.cap >= MinRoom /\ Apart(p1, x, b2, nx + 1)
    <3>1. [b1 EXCEPT !.off = b1.off + b1.cap] \in Blocks /\ [b1 EXCEPT !.off = b1.off + b1.cap].c = b1.c
          /\ [b1 EXCEPT !.off = b1.off + b1.cap].off = b1.off + b1.cap
      <4>1. b1.off + b1.cap \in Nat
          BY <1>2, <1>4, SMTT(40) DEF Blocks
      <4> QED BY <1>2, <4>1 DEF Blocks
    <3>2. PICK b \in Blocks : b.c = b1.c /\ b.off = b1.off + b1.cap
        BY <3>1
    <3>3. p1 \in Seq(Nat \X Nat) /\ Apart(p1, b, b2, nx)
        BY <1>2, <1>3, <1>4, <3>2, ReadApart
    <3> HIDE DEF p1
    <3> QED BY <1>2, <3>3, FreshApart
  <2>3. /\ p \in Seq(Nat \X Nat) /\ y \in Blocks /\ y.cap >= MinRoom /\ z \in Nat /\ Apart(p, y, x, z)
    <3>1. nx + 1 \in Nat /\ Apart(p1, b2, x, nx + 1)
        BY <1>2, <2>2, ApartSwap
    <3> HIDE DEF p1, x
    <3> QED BY <1>2, <2>0, <2>2, <3>1, RestApart
  <2>4. Len(p) = Len(put) + n
    <3>1. Len(p1) = Len(put) + b1.cap
        BY <1>2, <1>4, MoreCells
    <3>2. Len(p) = Len(p1) + m
        BY <1>2, <2>0, <2>2, MoreCells
    <3> QED BY <1>2, <1>4, <2>0, <3>1, <3>2, LenProperties
  <2>5. rb' = [rb EXCEPT !.blocks[i] = x, !.blocks[j] = y,
                         !.reverse = IF Spent(b2, m) THEN @ ELSE ~@,
                         !.next = @ + 1 + Taken(b2, m)]
      BY <1>5, <1>7
  <2> HIDE DEF x, y, p, p1
  <2>6. /\ rb' \in [blocks : [1..2 -> Blocks], reverse : BOOLEAN, next : Nat]
        /\ rb'.blocks[i] = x /\ rb'.blocks[j] = y /\ rb'.next = z
    <3> DEFINE bs == [rb.blocks EXCEPT ![i] = x, ![j] = y]
               rv == IF Spent(b2, m) THEN rb.reverse ELSE ~rb.reverse
    <3>1. rb' = [rb EXCEPT !.blocks = bs, !.reverse = rv, !.next = z]
        BY <1>2, <2>5 DEF nx
    <3> HIDE DEF z
    <3>2. bs \in [1..2 -> Blocks]
        BY <1>1, <1>2, <2>2, <2>3
    <3>3. bs[i] = x /\ bs[j] = y
        BY <1>1, <1>2
    <3>4. rv \in BOOLEAN
        BY <1>2
    <3> HIDE DEF bs, rv
    <3> QED BY <1>2, <2>3, <3>1, <3>2, <3>3, <3>4
  <2>7. BufferOK'
    <3>1. Apart(p, rb'.blocks[1], rb'.blocks[2], rb'.next)
        BY <1>1, <2>3, <2>6, ApartSwap
    <3>2. \A k \in 1..2 : rb'.blocks[k].cap >= MinRoom
        BY <1>1, <2>2, <2>3, <2>6
    <3> QED BY <2>1, <2>3, <2>6, <3>1, <3>2 DEF BufferOK
  <2> QED BY <2>1, <2>4, <2>7
<1> QED BY <1>4, <1>6, <1>7

\* IStream::poll_recv takes n bytes off the receive queue.
LEMMA RecvIn == ASSUME InInv, NEW t, RecvSome(t) PROVE InInv'
<1> DEFINE n == IF Len(rcvq) <= Room THEN Len(rcvq) ELSE Room
<1>1. readv(n) /\ rcvq' = SubSeq(rcvq, n + 1, Len(rcvq)) /\ UNCHANGED arrived
    BY DEF RecvSome
<1>2. BufferOK /\ got = put /\ rcvq \in Seq(Nat) /\ arrived \in Nat /\ Len(put) + Len(rcvq) = arrived
    BY DEF InInv
<1>3. rb.blocks[1] \in Blocks /\ rb.blocks[2] \in Blocks /\ put \in Seq(Nat \X Nat)
    BY <1>2 DEF BufferOK
<1>4. Room \in Nat /\ Len(rcvq) \in Nat /\ Len(put) \in Nat
  <2>0. rb.blocks[1].cap \in Nat /\ rb.blocks[2].cap \in Nat
      BY <1>3 DEF Blocks
  <2>1. Room \in Nat
      BY <2>0 DEF Room
  <2>2. Len(rcvq) \in Nat
      BY <1>2, LenProperties
  <2>3. Len(put) \in Nat
      BY <1>3, LenProperties
  <2> QED BY <2>1, <2>2, <2>3
<1>5. n \in Nat /\ n <= Room /\ n <= Len(rcvq)
    BY <1>4
<1> HIDE DEF n
<1>6. BufferOK' /\ got' = put' /\ Len(put') = Len(put) + n
    BY <1>1, <1>2, <1>5, ReadvBuffer
<1>7. rcvq' \in Seq(Nat) /\ Len(rcvq') = Len(rcvq) - n
  <2>1. \A i \in (n + 1)..Len(rcvq) : rcvq[i] \in Nat
      BY <1>2, <1>5
  <2>2. n + 1 \in Int /\ Len(rcvq) \in Int
      BY <1>4, <1>5
  <2>3. rcvq' \in Seq(Nat) /\ Len(rcvq') = IF n + 1 <= Len(rcvq) THEN Len(rcvq) - (n + 1) + 1 ELSE 0
      BY <1>1, <2>1, <2>2, SubSeqProperties
  <2> QED BY <1>4, <1>5, <2>3
<1>8. Len(put') + Len(rcvq') = arrived'
  <2>1. \A x, y \in Nat : (x + n) + (y - n) = x + y
      BY <1>5
  <2>2. (Len(put) + n) + (Len(rcvq) - n) = Len(put) + Len(rcvq)
      BY <1>4, <2>1
  <2>3. arrived' = arrived /\ Len(put) + Len(rcvq) = arrived
      BY <1>1, <1>2
  <2> QED BY <1>6, <1>7, <2>2, <2>3
<1> QED BY <1>1, <1>2, <1>6, <1>7, <1>8 DEF InInv

\* Every step keeps the invariant.
LEMMA StepIn == ASSUME InInv, [Next]_vars PROVE InInv'
<1> USE DEF inbound
<1>1. CASE UNCHANGED <<rb, arrived, put, got, rcvq>>
    BY <1>1 DEF InInv, BufferOK
<1>2. CASE \E k \in Segments : Arrive(k)
  <2>1. PICK k \in Segments : Arrive(k)
      BY <1>2
  <2> DEFINE s == [i \in 1..k |-> arrived + i]
  <2>2. k \in Nat /\ arrived \in Nat /\ rcvq = <<>> /\ Len(put) + Len(rcvq) = arrived /\ put \in Seq(Nat \X Nat)
      BY <2>1, TcpStreamAssumption DEF TcpStreamAssumption, Arrive, InInv, BufferOK
  <2>3. UNCHANGED <<rb, put, got>> /\ arrived' = arrived + k /\ rcvq' = rcvq \o s
      BY <2>1 DEF Arrive
  <2>4. s \in Seq(Nat) /\ Len(s) = k
    <3>1. s \in [1..k -> Nat]
        BY <2>2
    <3> QED BY <2>2, <3>1, SeqDef, LenProperties
  <2> HIDE DEF s
  <2>5. rcvq' \in Seq(Nat) /\ Len(rcvq') = k /\ Len(rcvq) = 0
      BY <2>2, <2>3, <2>4
  <2>6. Len(put) \in Nat
      BY <2>2, LenProperties
  <2>7. Len(put') + Len(rcvq') = arrived' /\ arrived' \in Nat
    <3>1. Len(put) = arrived /\ arrived \in Nat /\ k \in Nat
        BY <2>2, <2>5, <2>6
    <3>2. arrived' = arrived + k /\ put' = put /\ Len(rcvq') = k
        BY <2>3, <2>5
    <3> QED BY <3>1, <3>2
  <2> QED BY <2>3, <2>5, <2>7 DEF InInv, BufferOK
<1>3. ASSUME NEW t, RecvSome(t) PROVE InInv'
    BY <1>3, RecvIn
<1>4. CASE Network
  <2>1. CASE PeerReads \/ (\E how \in {"closed", "reset"} : PeerEnds(how))
              \/ (\E how \in {"up", "refused"} : Answer(how)) \/ (\E o \in Ops : Complete(o))
      BY <1>1, <2>1 DEF PeerReads, PeerEnds, Answer, Complete
  <2> QED BY <1>2, <1>4, <2>1 DEF Network
<1>5. CASE EventLoop
    BY <1>1, <1>5 DEF EventLoop, EpollWait, KeventWait, IocpWait, RunSecond, SecondEvent, kernel
<1>6. ASSUME NEW t \in Tasks, OtherRun(t) \/ Park(t) \/ End(t) PROVE InInv'
    BY <1>1, <1>6 DEF OtherRun, Park, End, kernel
<1>7. ASSUME NEW t \in Tasks, Makes(t) PROVE InInv'
    BY <1>1, <1>7 DEF Makes, Listen, AcceptReady, AcceptNotReady, AcceptErr, Connect, ConnectingPoll,
        FinishingWaits, FinishingOk, FinishingErr, ConnectedPoll, ErrorPoll, kernel
<1>8. ASSUME NEW t \in Tasks, Uses(t) PROVE InInv'
  <2>1. CASE (\E f \in {"Recv", "Sender", "Split"} : FromStream(t, f) \/ Into(t, f))
              \/ (\E h \in Ops : Spawn(t, h)) \/ (\E hs \in SUBSET Ops : DropHalves(t, hs))
      BY <1>1, <2>1 DEF FromStream, Into, Spawn, DropHalves, kernel
  <2>2. CASE RecvSome(t)
      BY <1>3, <2>2
  <2>3. CASE RecvNone(t) \/ RecvErr(t) \/ RecvNotReady(t)
      BY <1>1, <2>3 DEF RecvNone, RecvErr, RecvNotReady, kernel
  <2>4. CASE (\E k \in ItemSizes : start_send(t, k)) \/ poll_complete(t) \/ poll_err(t) \/ close(t)
      BY <1>1, <2>4 DEF start_send, poll_complete, poll_err, close, SendRest, kernel
  <2> QED BY <1>8, <2>1, <2>2, <2>3, <2>4 DEF Uses
<1>9. CASE UNCHANGED vars
    BY <1>1, <1>9 DEF vars
<1> QED BY <1>4, <1>5, <1>6, <1>7, <1>8, <1>9 DEF Next

\* It holds at the start: two blocks of their own, nothing received.
LEMMA InitIn == Init => InInv
<1> SUFFICES ASSUME Init PROVE InInv
    OBVIOUS
<1>1. Fresh(1) \in Blocks /\ Fresh(2) \in Blocks /\ Fresh(1).cap >= MinRoom /\ Fresh(2).cap >= MinRoom
      /\ Fresh(1).c = 1 /\ Fresh(2).c = 2
    BY TcpStreamAssumption DEF TcpStreamAssumption, Fresh, Blocks
<1>2. rb = [blocks |-> <<Fresh(1), Fresh(2)>>, reverse |-> FALSE, next |-> 3]
      /\ put = <<>> /\ got = <<>> /\ rcvq = <<>> /\ arrived = 0
    BY DEF Init
<1>3. /\ rb \in [blocks : [1..2 -> Blocks], reverse : BOOLEAN, next : Nat]
      /\ rb.blocks[1] = Fresh(1) /\ rb.blocks[2] = Fresh(2) /\ rb.next = 3
  <2> DEFINE bs == <<Fresh(1), Fresh(2)>>
  <2>1. bs \in [1..2 -> Blocks] /\ bs[1] = Fresh(1) /\ bs[2] = Fresh(2)
      BY <1>1
  <2> HIDE DEF bs
  <2>2. rb = [blocks |-> bs, reverse |-> FALSE, next |-> 3]
      BY <1>2 DEF bs
  <2> QED BY <2>1, <2>2
<1>4. Apart(put, rb.blocks[1], rb.blocks[2], rb.next) /\ put \in Seq(Nat \X Nat)
    BY <1>1, <1>2, <1>3 DEF Apart
<1>5. \A i \in 1..2 : rb.blocks[i].cap >= MinRoom
    BY <1>1, <1>3
<1>6. BufferOK
    BY <1>3, <1>4, <1>5 DEF BufferOK
<1> QED BY <1>2, <1>6 DEF InInv

\* What a program has received keeps its bytes: no later readv of any stream of the thread
\* writes memory that a ByteBuf handed out holds, for blocks, reads and segments of every
\* size, whatever races the program allows itself.
THEOREM StreamInIntact == Spec => []InIntact
<1>1. InInv => InIntact
  <2> SUFFICES ASSUME InInv PROVE InIntact
      OBVIOUS
  <2>1. got = put /\ put \in Seq(Nat \X Nat) /\ Apart(put, rb.blocks[1], rb.blocks[2], rb.next)
        /\ Len(put) + Len(rcvq) = arrived
      BY DEF InInv, BufferOK
  <2>2. DOMAIN put = 1..Len(put)
      BY <2>1, LenProperties
  <2> QED BY <2>1, <2>2 DEF InIntact, Apart
<1>2. Init => InInv
    BY InitIn
<1>3. InInv /\ [Next]_vars => InInv'
    BY StepIn
<1> QED BY <1>1, <1>2, <1>3, PTL DEF Spec

----------------------------------------------------------------------------
(* Chains of blocks: what FlattenSeq and skip make of them.                *)

\* A nonempty set of natural numbers has a least element: induction, in a form that
\* takes a set and no operator.
LEMMA LeastNat ==
    ASSUME NEW T \in SUBSET Nat, T # {}
    PROVE  \E m \in T : \A k \in T : m <= k
<1> DEFINE R == OpToRel(<, Nat)
<1>1. IsWellFoundedOn(R, Nat)
    BY NatLessThanWellFounded
<1>2. \A x, y \in Nat : x < y => <<x, y>> \in R
    BY DEF OpToRel
<1> HIDE DEF R
<1>3. PICK m \in T : \A y \in T : ~(<<y, m>> \in R)
    BY <1>1, WFMin
<1>4. ASSUME NEW k \in T PROVE m <= k
  <2>1. m \in Nat /\ k \in Nat
      OBVIOUS
  <2>2. ~(k < m)
      BY <1>2, <1>3, <2>1
  <2> QED BY <2>1, <2>2
<1> QED BY <1>4

\* A set of natural numbers with 0 and every successor is all of them.
LEMMA AllNat ==
    ASSUME NEW T \in SUBSET Nat, 0 \in T, \A n \in T : n + 1 \in T
    PROVE  T = Nat
<1> SUFFICES ASSUME T # Nat PROVE FALSE
    OBVIOUS
<1> DEFINE U == Nat \ T
<1>1. U \in SUBSET Nat /\ U # {}
    OBVIOUS
<1>2. PICK m \in U : \A k \in U : m <= k
    BY <1>1, LeastNat
<1>3. m \in Nat /\ m # 0 /\ m - 1 \in Nat /\ ~(m <= m - 1)
    BY <1>2
<1>4. m - 1 \in T
    BY <1>2, <1>3
<1>5. (m - 1) + 1 = m
    BY <1>3
<1> QED BY <1>2, <1>4, <1>5

\* FlattenSeq's recursive function takes the blocks one by one.
FlatStep(g, s, n) == [i \in 1..n |-> IF i = 1 THEN s[i] ELSE g[i - 1] \o s[i]]

\* The definition, in these terms.
LEMMA FlattenDef ==
    ASSUME NEW s
    PROVE  FlattenSeq(s) = IF Len(s) = 0 THEN s
                           ELSE (CHOOSE g : g = FlatStep(g, s, Len(s)))[Len(s)]
BY DEF FlattenSeq, FlatStep

\* Its equation has a solution: one for n blocks gives one for n + 1.
LEMMA FlatExists ==
    ASSUME NEW s, NEW n \in Nat
    PROVE  \E g : g = FlatStep(g, s, n)
<1> DEFINE T == {m \in Nat : \E g : g = FlatStep(g, s, m)}
<1>1. 0 \in T
  <2> DEFINE g == [i \in 1..0 |-> s]
  <2>1. g = FlatStep(g, s, 0)
      BY DEF FlatStep
  <2> QED BY <2>1
<1>2. ASSUME NEW m \in T PROVE m + 1 \in T
  <2>1. m \in Nat /\ m + 1 \in Nat
      OBVIOUS
  <2>2. PICK g : g = FlatStep(g, s, m)
      OBVIOUS
  <2> DEFINE h == FlatStep(g, s, m + 1)
  <2>3. \A i \in 1..m : h[i] = g[i]
    <3>1. \A i \in 1..m : i \in 1..m + 1
        BY <2>1
    <3>2. \A i \in 1..m : g[i] = IF i = 1 THEN s[i] ELSE g[i - 1] \o s[i]
        BY <2>2 DEF FlatStep
    <3> QED BY <3>1, <3>2 DEF FlatStep
  <2>4. \A i \in 1..m + 1 : i # 1 => h[i - 1] = g[i - 1]
    <3>1. \A i \in 1..m + 1 : i # 1 => i - 1 \in 1..m
        BY <2>1
    <3> QED BY <2>3, <3>1
  <2>5. h = FlatStep(h, s, m + 1)
    <3>1. h = [i \in 1..m + 1 |-> IF i = 1 THEN s[i] ELSE g[i - 1] \o s[i]]
        BY DEF FlatStep
    <3>2. FlatStep(h, s, m + 1) = [i \in 1..m + 1 |-> IF i = 1 THEN s[i] ELSE h[i - 1] \o s[i]]
        BY DEF FlatStep
    <3> HIDE DEF h
    <3> QED BY <2>4, <3>1, <3>2, ZenonT(60)
  <2> HIDE DEF h
  <2> QED BY <2>1, <2>5
<1>3. T = Nat
  <2>1. T \in SUBSET Nat
      OBVIOUS
  <2> HIDE DEF T
  <2> QED BY <1>1, <1>2, <2>1, AllNat
<1> QED BY <1>3

\* One more block: its bytes come last.
LEMMA FlattenAppend ==
    ASSUME NEW S, NEW s \in Seq(Seq(S)), NEW e \in Seq(S)
    PROVE  FlattenSeq(Append(s, e)) = IF s = <<>> THEN e ELSE FlattenSeq(s) \o e
<1> DEFINE n == Len(s)
           t == Append(s, e)
           g == CHOOSE f : f = FlatStep(f, s, n)
           h == CHOOSE f : f = FlatStep(f, t, n + 1)
<1>1. n \in Nat /\ Len(t) = n + 1 /\ t[n + 1] = e /\ (\A i \in 1..n : t[i] = s[i])
      /\ (s = <<>> <=> n = 0)
    BY LenProperties, AppendProperties, EmptySeq
<1> HIDE DEF n, t
<1>2. g = FlatStep(g, s, n)
    BY <1>1, FlatExists
<1>3. h = FlatStep(h, t, n + 1)
    BY <1>1, FlatExists
<1> HIDE DEF g, h
<1>4. \A i \in 1..n : g[i] = IF i = 1 THEN s[i] ELSE g[i - 1] \o s[i]
    BY <1>2 DEF FlatStep
<1>5. \A i \in 1..n + 1 : h[i] = IF i = 1 THEN t[i] ELSE h[i - 1] \o t[i]
    BY <1>3 DEF FlatStep
<1>6. FlattenSeq(t) = h[n + 1]
    BY <1>1, FlattenDef DEF h
<1>7. n # 0 => FlattenSeq(s) = g[n]
    BY <1>1, FlattenDef DEF g, n
<1> DEFINE T == {m \in Nat : m >= 1 /\ m <= n => h[m] = g[m]}
<1>8. 0 \in T
    OBVIOUS
<1>9. ASSUME NEW m \in T PROVE m + 1 \in T
  <2> SUFFICES ASSUME m + 1 <= n PROVE h[m + 1] = g[m + 1]
      OBVIOUS
  <2>1. m + 1 \in 1..n /\ m + 1 \in 1..n + 1 /\ m \in Nat /\ (m + 1) - 1 = m /\ (m + 1 # 1 => m >= 1 /\ m <= n)
      BY <1>1
  <2>2. m + 1 # 1 => h[m] = g[m]
      BY <2>1
  <2>3. g[m + 1] = IF m + 1 = 1 THEN s[m + 1] ELSE g[m] \o s[m + 1]
      BY <1>4, <2>1
  <2>4. h[m + 1] = IF m + 1 = 1 THEN t[m + 1] ELSE h[m] \o t[m + 1]
      BY <1>5, <2>1
  <2> QED BY <1>1, <2>1, <2>2, <2>3, <2>4
<1>10. T = Nat
  <2>1. T \in SUBSET Nat
      OBVIOUS
  <2> HIDE DEF T
  <2> QED BY <1>8, <1>9, <2>1, AllNat
<1>11. CASE n = 0
    BY <1>1, <1>5, <1>6, <1>11 DEF t
<1>12. CASE n # 0
  <2>1. n + 1 \in 1..n + 1 /\ n + 1 # 1 /\ (n + 1) - 1 = n /\ n >= 1 /\ n <= n
      BY <1>1, <1>12
  <2>2. h[n] = g[n]
      BY <1>1, <1>10, <2>1
  <2>3. h[n + 1] = h[n] \o e
      BY <1>1, <1>5, <2>1
  <2> QED BY <1>1, <1>6, <1>7, <1>12, <2>2, <2>3 DEF t
<1> QED BY <1>11, <1>12

\* The first m blocks of a chain, and one more.
LEMMA OneMore ==
    ASSUME NEW S, NEW s \in Seq(S), NEW m \in Nat, m + 1 <= Len(s)
    PROVE  /\ SubSeq(s, 1, m) \in Seq(S) /\ s[m + 1] \in S /\ Len(SubSeq(s, 1, m)) = m
           /\ SubSeq(s, 1, m + 1) = Append(SubSeq(s, 1, m), s[m + 1])
<1>1. Len(s) \in Nat /\ \A i \in 1..Len(s) : s[i] \in S
    BY LenProperties, ElementOfSeq
<1> DEFINE n == Len(s)
<1> HIDE DEF n
<1>2. n \in Nat /\ m + 1 <= n /\ 1 \in Int /\ m \in Int /\ m + 1 \in Int /\ m + 1 \in 1..n
      /\ (\A i \in 1..m : i \in 1..n) /\ (\A i \in 1..m + 1 : i \in 1..n) /\ (m < 1 => m = 0)
      /\ 1 <= m + 1 /\ (m + 1) - 1 + 1 = m + 1 /\ m - 1 + 1 = m
    BY <1>1 DEF n
<1>3. (\A i \in 1..m : s[i] \in S) /\ (\A i \in 1..m + 1 : s[i] \in S)
    BY <1>1, <1>2 DEF n
<1> DEFINE p == SubSeq(s, 1, m)
           q == SubSeq(s, 1, m + 1)
<1>4. p \in Seq(S) /\ Len(p) = (IF 1 <= m THEN m - 1 + 1 ELSE 0) /\ \A i \in 1..m - 1 + 1 : p[i] = s[1 + i - 1]
    BY <1>2, <1>3, SubSeqProperties
<1>5. q \in Seq(S) /\ Len(q) = m + 1 /\ \A i \in 1..(m + 1) - 1 + 1 : q[i] = s[1 + i - 1]
    BY <1>2, <1>3, SubSeqProperties
<1> HIDE DEF p, q
<1>6. Len(p) = m /\ \A i \in 1..m : p[i] = s[i]
    BY <1>2, <1>4
<1>7. \A i \in 1..m + 1 : q[i] = s[i]
    BY <1>2, <1>5
<1>8. s[m + 1] \in S
    BY <1>2, <1>3
<1> DEFINE r == Append(p, s[m + 1])
<1>9. r \in Seq(S) /\ Len(r) = m + 1 /\ (\A i \in 1..m : r[i] = p[i]) /\ r[m + 1] = s[m + 1]
    BY <1>4, <1>6, <1>8, AppendProperties
<1> HIDE DEF r
<1>10. \A i \in 1..m + 1 : q[i] = r[i]
  <2>1. \A i \in 1..m + 1 : i \in 1..m \/ i = m + 1
      BY <1>2
  <2> QED BY <1>2, <1>6, <1>7, <1>9, <2>1
<1>11. q = r
    BY <1>5, <1>9, <1>10, SeqEqual
<1> QED BY <1>4, <1>6, <1>8, <1>11 DEF p, q, r

\* The bytes of a chain are a sequence of bytes; it has none only if it has no block.
LEMMA FlattenType ==
    ASSUME NEW S, NEW s \in Seq(Seq(S))
    PROVE  FlattenSeq(s) \in Seq(S)
<1> DEFINE P(m) == SubSeq(s, 1, m)
           F(m) == FlattenSeq(P(m))
           T == {m \in Nat : m <= Len(s) => F(m) \in Seq(S)}
<1>0. Len(s) \in Nat /\ P(0) = <<>> /\ P(Len(s)) = s /\ Len(<<>>) = 0 /\ <<>> \in Seq(S)
    BY LenProperties, SubSeqEmpty, SubSeqFull, EmptySeq
<1>1. 0 \in T
  <2>1. FlattenSeq(<<>>) = <<>>
      BY <1>0, FlattenDef
  <2> QED BY <1>0, <2>1
<1>2. ASSUME NEW m \in T PROVE m + 1 \in T
  <2> SUFFICES ASSUME m + 1 <= Len(s) PROVE FlattenSeq(P(m + 1)) \in Seq(S)
      OBVIOUS
  <2>1. m \in Nat /\ m <= Len(s)
      BY <1>0
  <2>2. P(m) \in Seq(Seq(S)) /\ s[m + 1] \in Seq(S) /\ P(m + 1) = Append(P(m), s[m + 1])
      BY <2>1, OneMore
  <2>3. FlattenSeq(P(m)) \in Seq(S)
      BY <2>1
  <2> HIDE DEF P
  <2>4. FlattenSeq(P(m + 1)) = IF P(m) = <<>> THEN s[m + 1] ELSE FlattenSeq(P(m)) \o s[m + 1]
      BY <2>2, FlattenAppend
  <2>5. FlattenSeq(P(m)) \o s[m + 1] \in Seq(S)
      BY <2>2, <2>3, ConcatProperties
  <2> QED BY <2>2, <2>4, <2>5
<1>3. T = Nat
  <2>1. T \in SUBSET Nat
      OBVIOUS
  <2> HIDE DEF T
  <2> QED BY <1>1, <1>2, <2>1, AllNat
<1>4. FlattenSeq(P(Len(s))) \in Seq(S)
  <2> HIDE DEF F
  <2>1. Len(s) \in T /\ Len(s) <= Len(s)
      BY <1>0, <1>3
  <2>2. F(Len(s)) \in Seq(S)
      BY <2>1
  <2> QED BY <2>2 DEF F
<1> QED BY <1>0, <1>4

\* The two facts by which chains are reasoned about.
LEMMA FlattenMore ==
    ASSUME NEW S, NEW s \in Seq(Seq(S)), NEW e \in Seq(S)
    PROVE  /\ FlattenSeq(<<>>) = <<>>
           /\ FlattenSeq(Append(s, e)) = FlattenSeq(s) \o e
<1>1. FlattenSeq(<<>>) = <<>>
    BY FlattenDef, EmptySeq
<1>2. <<>> \o e = e
    BY ConcatEmptySeq
<1> QED BY <1>1, <1>2, FlattenAppend

\* What skip does with a block: nothing of it is left, or its rest and all that follow.
SkipOp(r, blk) ==
    IF r.n >= Len(blk) THEN [r EXCEPT !.n = @ - Len(blk)]
    ELSE [n |-> 0, b |-> Append(r.b, SubSeq(blk, r.n + 1, Len(blk)))]
SkipStep(g, b, n, D) ==
    [x \in D |-> IF x = {} THEN [n |-> n, b |-> <<>>] ELSE SkipOp(g[x \ {Max(x)}], b[Max(x)])]

\* The definition of the fold, in these terms.
LEMMA SkipDef ==
    ASSUME NEW b, NEW n
    PROVE  skip(b, n) = (CHOOSE g : g = SkipStep(g, b, n, SUBSET (DOMAIN b)))[DOMAIN b].b
BY DEF skip, FoldLeft, MapThenFoldSet, SkipStep, SkipOp

\* The last of the first m + 1 numbers.
LEMMA MaxLast ==
    ASSUME NEW m \in Nat, NEW x \in SUBSET (1..m + 1), m + 1 \in x
    PROVE  Max(x) = m + 1 /\ x \ {m + 1} \in SUBSET (1..m)
<1>1. \A y \in x : m + 1 >= y
    OBVIOUS
<1>2. \A y \in x : (\A z \in x : y >= z) => y = m + 1
    OBVIOUS
<1>3. Max(x) = m + 1
    BY <1>1, <1>2 DEF Max
<1> QED BY <1>3

\* The fold's equation has a solution for every number of blocks.
LEMMA SkipExists ==
    ASSUME NEW b, NEW n, NEW k \in Nat
    PROVE  \E g : g = SkipStep(g, b, n, SUBSET (1..k))
<1> DEFINE D(m) == SUBSET (1..m)
           T == {m \in Nat : \E g : g = SkipStep(g, b, n, D(m))}
           z == [n |-> n, b |-> <<>>]
<1>1. 0 \in T
  <2> DEFINE g == [x \in D(0) |-> z]
  <2>1. \A x \in D(0) : x = {}
      OBVIOUS
  <2>2. g = SkipStep(g, b, n, D(0))
    <3> HIDE DEF D
    <3> QED BY <2>1 DEF SkipStep
  <2> QED BY <2>2
<1>2. ASSUME NEW m \in T PROVE m + 1 \in T
  <2>1. m \in Nat /\ m + 1 \in Nat
      OBVIOUS
  <2>2. PICK g : g = SkipStep(g, b, n, D(m))
      OBVIOUS
  <2> DEFINE h == [x \in D(m + 1) |-> IF m + 1 \in x THEN SkipOp(g[x \ {m + 1}], b[m + 1]) ELSE g[x]]
  <2>3. \A x \in D(m) : x \in D(m + 1) /\ m + 1 \notin x
      BY <2>1
  <2>4. \A x \in D(m + 1) : m + 1 \notin x => x \in D(m)
      BY <2>1
  <2>5. \A x \in D(m + 1) : m + 1 \in x => Max(x) = m + 1 /\ x \ {m + 1} \in D(m)
      BY <2>1, MaxLast
  <2>6. \A x : \A y : x \in D(m) => x \ {y} \in D(m)
      OBVIOUS
  <2> HIDE DEF D
  <2>7. \A x \in D(m) : h[x] = g[x]
      BY <2>3
  <2>8. \A x \in D(m) : g[x] = IF x = {} THEN z ELSE SkipOp(g[x \ {Max(x)}], b[Max(x)])
      BY <2>2 DEF SkipStep
  <2>9. ASSUME NEW x \in D(m + 1)
        PROVE  h[x] = IF x = {} THEN z ELSE SkipOp(h[x \ {Max(x)}], b[Max(x)])
    <3>1. CASE m + 1 \in x
      <4>1. h[x] = SkipOp(g[x \ {m + 1}], b[m + 1]) /\ x # {}
          BY <3>1
      <4> QED BY <2>5, <2>7, <3>1, <4>1
    <3>2. CASE m + 1 \notin x
      <4>1. h[x] = g[x] /\ x \in D(m)
          BY <2>4, <3>2
      <4>2. h[x \ {Max(x)}] = g[x \ {Max(x)}]
          BY <2>6, <2>7, <4>1
      <4> QED BY <2>8, <4>1, <4>2
    <3> QED BY <3>1, <3>2
  <2>10. h = SkipStep(h, b, n, D(m + 1))
    <3>1. h = [x \in D(m + 1) |-> h[x]]
        OBVIOUS
    <3> HIDE DEF h
    <3> QED BY <2>9, <3>1 DEF SkipStep
  <2> HIDE DEF h
  <2> QED BY <2>1, <2>10
<1>3. T = Nat
  <2>1. T \in SUBSET Nat
      OBVIOUS
  <2> HIDE DEF T
  <2> QED BY <1>1, <1>2, <2>1, AllNat
<1> QED BY <1>3

\* What is left of a sequence without its first n elements.
From(s, n) == SubSeq(s, n + 1, Len(s))

LEMMA PartFacts ==
    ASSUME NEW S, NEW s \in Seq(S), NEW n \in Nat, NEW k \in Nat, n <= k, k <= Len(s)
    PROVE  /\ SubSeq(s, n + 1, k) \in Seq(S) /\ Len(SubSeq(s, n + 1, k)) = k - n
           /\ \A i \in 1..k - n : SubSeq(s, n + 1, k)[i] = s[n + i]
<1> DEFINE p == SubSeq(s, n + 1, k)
<1>1. Len(s) \in Nat /\ \A i \in 1..Len(s) : s[i] \in S
    BY LenProperties, ElementOfSeq
<1> DEFINE l == Len(s)
<1> HIDE DEF l
<1>2. \A i \in n + 1..k : s[i] \in S
  <2>1. \A i \in n + 1..k : i \in 1..l
      BY <1>1 DEF l
  <2> QED BY <1>1, <2>1 DEF l
<1>3. n + 1 \in Int /\ k \in Int
    OBVIOUS
<1>4. p \in Seq(S) /\ Len(p) = (IF n + 1 <= k THEN k - (n + 1) + 1 ELSE 0)
      /\ \A i \in 1..k - (n + 1) + 1 : p[i] = s[(n + 1) + i - 1]
    BY <1>2, <1>3, SubSeqProperties
<1> HIDE DEF p
<1>5. k - (n + 1) + 1 = k - n /\ (~(n + 1 <= k) => k - n = 0) /\ \A i \in 1..k - n : (n + 1) + i - 1 = n + i
    OBVIOUS
<1>6. Len(p) = k - n
    BY <1>4, <1>5
<1>7. \A i \in 1..k - n : p[i] = s[n + i]
    BY <1>4, <1>5
<1> QED BY <1>4, <1>6, <1>7 DEF p

LEMMA FromFacts ==
    ASSUME NEW S, NEW s \in Seq(S), NEW n \in Nat, n <= Len(s)
    PROVE  /\ Len(s) \in Nat /\ From(s, n) \in Seq(S) /\ Len(From(s, n)) = Len(s) - n
           /\ \A i \in 1..Len(s) - n : From(s, n)[i] = s[n + i]
<1>1. Len(s) \in Nat /\ Len(s) <= Len(s)
    BY LenProperties
<1> QED BY <1>1, PartFacts DEF From

\* All is left, or nothing.
LEMMA FromEnds ==
    ASSUME NEW S, NEW s \in Seq(S)
    PROVE  From(s, 0) = s /\ From(s, Len(s)) = <<>>
<1>1. Len(s) \in Nat
    BY LenProperties
<1>2. SubSeq(s, 0 + 1, Len(s)) = s
    BY SubSeqFull
<1> DEFINE l == Len(s)
<1> HIDE DEF l
<1>3. l + 1 \in Int /\ l \in Int /\ l < l + 1
    BY <1>1 DEF l
<1>4. SubSeq(s, l + 1, l) = <<>>
    BY <1>3, SubSeqEmpty
<1> QED BY <1>2, <1>4 DEF From, l

\* A part and what is left after it.
LEMMA CutFrom ==
    ASSUME NEW S, NEW s \in Seq(S), NEW n \in Nat, NEW k \in Nat, n <= k, k <= Len(s)
    PROVE  SubSeq(s, n + 1, k) \o From(s, k) = From(s, n)
<1> DEFINE l == Len(s)
           p == SubSeq(s, n + 1, k)
           q == From(s, k)
           r == From(s, n)
<1>1. l \in Nat /\ p \in Seq(S) /\ Len(p) = k - n /\ \A i \in 1..k - n : p[i] = s[n + i]
    BY LenProperties, PartFacts
<1>2. q \in Seq(S) /\ Len(q) = l - k /\ \A i \in 1..l - k : q[i] = s[k + i]
    BY FromFacts
<1>3. n <= l
    BY <1>1
<1>4. r \in Seq(S) /\ Len(r) = l - n /\ \A i \in 1..l - n : r[i] = s[n + i]
    BY <1>3, FromFacts
<1>5. k <= l
    OBVIOUS
<1> HIDE DEF l, p, q, r
<1>6. p \o q \in Seq(S) /\ Len(p \o q) = Len(p) + Len(q)
      /\ \A i \in 1..Len(p) + Len(q) : (p \o q)[i] = IF i <= Len(p) THEN p[i] ELSE q[i - Len(p)]
    BY <1>1, <1>2, ConcatProperties
<1>7. Len(p) + Len(q) = l - n
    BY <1>1, <1>2
<1>8. ASSUME NEW i \in 1..l - n PROVE (p \o q)[i] = r[i]
  <2>0. i \in Nat /\ i >= 1 /\ i <= l - n
      BY <1>1
  <2>1. CASE i <= k - n
    <3>1. i \in 1..k - n
        BY <2>0, <2>1
    <3> QED BY <1>1, <1>4, <1>6, <1>7, <2>1, <3>1
  <2>2. CASE ~(i <= k - n)
    <3>1. i - (k - n) \in 1..l - k /\ k + (i - (k - n)) = n + i
        BY <1>1, <1>5, <2>0, <2>2
    <3>2. (p \o q)[i] = q[i - (k - n)]
        BY <1>1, <1>6, <1>7, <2>2
    <3> QED BY <1>2, <1>4, <3>1, <3>2
  <2> QED BY <2>1, <2>2
<1>9. p \o q = r
    BY <1>4, <1>6, <1>7, <1>8, SeqEqual
<1> QED BY <1>9 DEF p, q, r

\* What is left of two sequences together, of the first or of the second only.
LEMMA FromConcat ==
    ASSUME NEW S, NEW s \in Seq(S), NEW t \in Seq(S), NEW n \in Nat
    PROVE  /\ n <= Len(s) => From(s \o t, n) = From(s, n) \o t
           /\ Len(s) <= n /\ n <= Len(s) + Len(t) => From(s \o t, n) = From(t, n - Len(s))
<1> DEFINE a == Len(s)
           b == Len(t)
           u == s \o t
<1>1. a \in Nat /\ b \in Nat /\ u \in Seq(S) /\ Len(u) = a + b
      /\ \A i \in 1..a + b : u[i] = IF i <= a THEN s[i] ELSE t[i - a]
    BY LenProperties, ConcatProperties
<1> HIDE DEF a, b, u
<1>2. ASSUME n <= a + b
      PROVE  From(u, n) \in Seq(S) /\ Len(From(u, n)) = a + b - n
             /\ \A i \in 1..a + b - n : From(u, n)[i] = u[n + i]
  <2>1. u \in Seq(S) /\ n <= Len(u)
      BY <1>1, <1>2
  <2>2. From(u, n) \in Seq(S) /\ Len(From(u, n)) = Len(u) - n
        /\ \A i \in 1..Len(u) - n : From(u, n)[i] = u[n + i]
      BY <2>1, FromFacts
  <2> QED BY <1>1, <2>2
<1>3. ASSUME n <= a PROVE From(u, n) = From(s, n) \o t
  <2> DEFINE p == From(s, n)
             q == p \o t
             r == From(u, n)
  <2>1. p \in Seq(S) /\ Len(p) = a - n /\ \A i \in 1..a - n : p[i] = s[n + i]
      BY <1>3, FromFacts DEF a
  <2>2. n <= a + b
      BY <1>1, <1>3
  <2>3. r \in Seq(S) /\ Len(r) = a + b - n /\ \A i \in 1..a + b - n : r[i] = u[n + i]
      BY <1>2, <2>2
  <2> HIDE DEF p, r
  <2>4. q \in Seq(S) /\ Len(q) = (a - n) + b
        /\ \A i \in 1..(a - n) + b : q[i] = IF i <= a - n THEN p[i] ELSE t[i - (a - n)]
      BY <2>1, ConcatProperties DEF b
  <2> HIDE DEF q
  <2>5. (a - n) + b = a + b - n
      BY <1>1
  <2>6. ASSUME NEW i \in 1..a + b - n PROVE q[i] = r[i]
    <3>1. i \in Nat /\ i >= 1 /\ i <= a + b - n /\ n + i \in 1..a + b
        BY <1>1
    <3>2. r[i] = IF n + i <= a THEN s[n + i] ELSE t[(n + i) - a]
        BY <1>1, <2>3, <3>1
    <3>3. q[i] = IF i <= a - n THEN p[i] ELSE t[i - (a - n)]
        BY <2>4, <2>5
    <3>4. CASE i <= a - n
      <4>1. i \in 1..a - n /\ n + i <= a
          BY <1>1, <3>1, <3>4
      <4> QED BY <2>1, <3>2, <3>3, <3>4, <4>1
    <3>5. CASE ~(i <= a - n)
      <4>1. ~(n + i <= a) /\ (n + i) - a = i - (a - n)
          BY <1>1, <3>1, <3>5
      <4> QED BY <3>2, <3>3, <3>5, <4>1
    <3> QED BY <3>4, <3>5
  <2>7. q = r
      BY <2>3, <2>4, <2>5, <2>6, SeqEqual
  <2> QED BY <2>7 DEF p, q, r
<1>4. ASSUME a <= n, n <= a + b PROVE From(u, n) = From(t, n - a)
  <2> DEFINE k == n - a
             q == From(t, k)
             r == From(u, n)
  <2>1. k \in Nat /\ k <= b /\ b - k = a + b - n
      BY <1>1, <1>4
  <2>2. r \in Seq(S) /\ Len(r) = a + b - n /\ \A i \in 1..a + b - n : r[i] = u[n + i]
      BY <1>2, <1>4
  <2> HIDE DEF r
  <2>3. q \in Seq(S) /\ Len(q) = b - k /\ \A i \in 1..b - k : q[i] = t[k + i]
    <3> HIDE DEF k
    <3> QED BY <2>1, FromFacts DEF b
  <2> HIDE DEF q
  <2>4. ASSUME NEW i \in 1..a + b - n PROVE r[i] = q[i]
    <3>1. i \in Nat /\ i >= 1 /\ i <= a + b - n /\ n + i \in 1..a + b /\ ~(n + i <= a) /\ (n + i) - a = k + i
        BY <1>1, <1>4
    <3>2. r[i] = t[k + i]
      <4> HIDE DEF k
      <4> QED BY <1>1, <2>2, <3>1
    <3> QED BY <2>1, <2>3, <3>2
  <2>5. r = q
    <3> HIDE DEF k
    <3> QED BY <2>1, <2>2, <2>3, <2>4, SeqEqual
  <2> QED BY <2>5 DEF q, r
<1> QED BY <1>3, <1>4 DEF a, b, u

\* skip of n bytes leaves the bytes after the first n, in blocks that are not empty and are
\* no more than there were.
LEMMA SkipBytes ==
    ASSUME NEW S, NEW b \in Seq(Seq(S) \ {<<>>}), NEW n \in Nat, n <= Len(FlattenSeq(b))
    PROVE  /\ skip(b, n) \in Seq(Seq(S) \ {<<>>}) /\ Len(skip(b, n)) <= Len(b)
           /\ FlattenSeq(skip(b, n)) = From(FlattenSeq(b), n)
<1> DEFINE Blk == Seq(S) \ {<<>>}
           g == CHOOSE f : f = SkipStep(f, b, n, SUBSET (1..Len(b)))
           R(m) == g[1..m]
           P(m) == SubSeq(b, 1, m)
           F(m) == FlattenSeq(P(m))
           L(m) == Len(F(m))
           Good(m, r) == /\ r \in [n : Nat, b : Seq(Blk)] /\ Len(r.b) <= m
                         /\ n >= L(m) => r.n = n - L(m) /\ r.b = <<>>
                         /\ n < L(m) => r.n = 0 /\ FlattenSeq(r.b) = From(F(m), n)
           T == {m \in Nat : m <= Len(b) => Good(m, R(m))}
<1>0. \A s \in Seq(Blk) : s \in Seq(Seq(S))
    BY SeqMonotonic
<1>1. Len(b) \in Nat /\ DOMAIN b = 1..Len(b) /\ (\A m \in 1..Len(b) : b[m] \in Blk) /\ b \in Seq(Seq(S))
    BY <1>0, LenProperties, ElementOfSeq
<1>2. g = SkipStep(g, b, n, SUBSET (1..Len(b)))
    BY <1>1, SkipExists
<1>3. skip(b, n) = R(Len(b)).b
    BY <1>1, SkipDef
<1> HIDE DEF g
<1>4. R(0) = [n |-> n, b |-> <<>>]
  <2>1. 1..0 = {} /\ {} \in SUBSET (1..Len(b))
      OBVIOUS
  <2> QED BY <1>2, <2>1 DEF SkipStep
<1>5. ASSUME NEW m \in Nat, m + 1 <= Len(b) PROVE R(m + 1) = SkipOp(R(m), b[m + 1])
  <2>1. 1..m + 1 \in SUBSET (1..Len(b)) /\ m + 1 \in 1..m + 1 /\ (1..m + 1) \ {m + 1} = 1..m
      BY <1>1, <1>5
  <2>2. Max(1..m + 1) = m + 1
      BY <2>1, MaxLast
  <2> QED BY <1>2, <2>1, <2>2 DEF SkipStep
<1>6. P(0) = <<>> /\ P(Len(b)) = b /\ F(0) = <<>> /\ L(0) = 0
  <2>1. P(0) = <<>> /\ P(Len(b)) = b
      BY <1>1, SubSeqEmpty, SubSeqFull
  <2>2. FlattenSeq(<<>>) = <<>> /\ Len(<<>>) = 0
      BY FlattenDef, EmptySeq
  <2> QED BY <2>1, <2>2
<1> HIDE DEF R
<1>7. 0 \in T
  <2>1. [n |-> n, b |-> <<>>] \in [n : Nat, b : Seq(Blk)] /\ Len(<<>>) <= 0
      BY EmptySeq
  <2> HIDE DEF Blk
  <2>2. Good(0, R(0))
    <3> DEFINE z == [n |-> n, b |-> <<>>]
    <3>1. z.n = n - 0 /\ z.b = <<>> /\ Len(z.b) <= 0 /\ ~(n < 0)
        BY <2>1
    <3> HIDE DEF F, L, z
    <3> QED BY <1>4, <1>6, <2>1, <3>1 DEF z
  <2> HIDE DEF Good
  <2> QED BY <2>2
<1>8. ASSUME NEW m \in T PROVE m + 1 \in T
  <2> SUFFICES ASSUME m + 1 <= Len(b) PROVE Good(m + 1, R(m + 1))
    <3> HIDE DEF Good
    <3> QED OBVIOUS
  <2>1. m \in Nat /\ m <= Len(b) /\ m + 1 \in 1..Len(b)
    <3>1. m \in Nat
      <4> HIDE DEF Good
      <4> QED OBVIOUS
    <3> DEFINE N == Len(b)
    <3>2. N \in Nat /\ m + 1 <= N
        BY <1>1
    <3> HIDE DEF N, T, Good, R, F, L, P
    <3>3. m <= N /\ m + 1 \in 1..N
        BY <3>1, <3>2
    <3> QED BY <3>1, <3>3 DEF N
  <2>2. Good(m, R(m))
    <3> HIDE DEF Good
    <3> QED BY <2>1
  <2> DEFINE r == R(m)
             e == b[m + 1]
             x == F(m)
             y == F(m + 1)
             le == Len(e)
             lx == Len(x)
  <2>3. e \in Seq(S) /\ le \in Nat /\ le > 0 /\ e # <<>>
    <3>1. e \in Seq(S) /\ e # <<>>
        BY <1>1, <2>1
    <3> HIDE DEF e
    <3>2. le \in Nat \ {0}
        BY <3>1, EmptySeq
    <3> HIDE DEF le
    <3> QED BY <3>1, <3>2
  <2>4. y = x \o e /\ x \in Seq(S) /\ y \in Seq(S) /\ lx \in Nat /\ Len(y) = lx + le
    <3>1. P(m) \in Seq(Seq(S)) /\ P(m + 1) = Append(P(m), e)
        BY <1>1, <2>1, OneMore
    <3> HIDE DEF P, e
    <3>2. x \in Seq(S) /\ y = x \o e
        BY <2>3, <3>1, FlattenType, FlattenMore
    <3> HIDE DEF x, y
    <3> QED BY <2>3, <3>2, ConcatProperties, LenProperties
  <2>5. R(m + 1) = SkipOp(r, e)
      BY <1>5, <2>1
  <2>6. /\ r \in [n : Nat, b : Seq(Blk)] /\ Len(r.b) <= m
        /\ n >= lx => r.n = n - lx /\ r.b = <<>>
        /\ n < lx => r.n = 0 /\ FlattenSeq(r.b) = From(x, n)
      BY <2>2
  <2>7. r.n \in Nat /\ r.b \in Seq(Blk) /\ Len(r.b) \in Nat
    <3> HIDE DEF r, Blk
    <3> QED BY <2>6, LenProperties
  <2>8. ASSUME r.n >= le PROVE Good(m + 1, R(m + 1))
    <3>1. R(m + 1) = [r EXCEPT !.n = @ - le]
        BY <2>5, <2>8 DEF SkipOp
    <3> DEFINE v == r.n - le
    <3>2. v \in Nat
      <4> HIDE DEF r, le
      <4> QED BY <2>3, <2>7, <2>8, SMTT(40)
    <3> DEFINE q == [r EXCEPT !.n = v]
    <3>3. q \in [n : Nat, b : Seq(Blk)] /\ q.n = v /\ q.b = r.b
      <4> HIDE DEF r, v, Blk
      <4> QED BY <2>6, <3>2
    <3>4. R(m + 1) = q
        BY <3>1
    <3>5. n >= lx /\ n >= lx + le /\ v = n - (lx + le) /\ ~(n < lx + le)
      <4> HIDE DEF lx, le, r
      <4> QED BY <2>3, <2>4, <2>6, <2>7, <2>8
    <3>6. r.b = <<>> /\ Len(r.b) <= m + 1
        BY <2>1, <2>6, <2>7, <3>5
    <3> HIDE DEF q, r, x, y, lx, le, v, Blk, F
    <3> QED BY <2>4, <3>3, <3>4, <3>5, <3>6 DEF y
  <2>9. ASSUME ~(r.n >= le) PROVE Good(m + 1, R(m + 1))
    <3> DEFINE p == SubSeq(e, r.n + 1, le)
               c == Append(r.b, p)
               q == [n |-> 0, b |-> c]
    <3>1. R(m + 1) = q
        BY <2>5, <2>9 DEF SkipOp
    <3>2. r.n <= le /\ r.n < le
      <4> HIDE DEF r, le
      <4> QED BY <2>3, <2>7, <2>9
    <3>3. p = From(e, r.n) /\ p \in Seq(S) /\ Len(p) = le - r.n
      <4> DEFINE k == r.n
      <4>1. k \in Nat /\ k <= Len(e)
          BY <2>7, <3>2
      <4> HIDE DEF k, e
      <4>2. From(e, k) \in Seq(S) /\ Len(From(e, k)) = Len(e) - k
          BY <2>3, <4>1, FromFacts
      <4> QED BY <4>2 DEF From, k
    <3>4. p \in Blk
      <4>1. Len(p) # 0
        <5> HIDE DEF p, r, le
        <5> QED BY <2>3, <2>7, <3>2, <3>3
      <4> HIDE DEF p
      <4> QED BY <3>3, <4>1, EmptySeq
    <3>5. c \in Seq(Blk) /\ Len(c) = Len(r.b) + 1
      <4> HIDE DEF p, r, Blk
      <4> QED BY <2>7, <3>4, AppendProperties
    <3>6. FlattenSeq(c) = FlattenSeq(r.b) \o p
      <4>1. r.b \in Seq(Seq(S))
          BY <1>0, <2>7
      <4> HIDE DEF p, r
      <4> QED BY <3>3, <4>1, FlattenMore
    <3>7. n < lx + le /\ ~(n >= lx + le)
      <4> HIDE DEF r, lx, le
      <4> QED BY <2>3, <2>4, <2>6, <2>7, <3>2
    <3>8. FlattenSeq(c) = From(y, n)
      <4>1. CASE n >= lx
        <5>1. FlattenSeq(r.b) = <<>> /\ r.n = n - lx
            BY <2>6, <4>1, <1>6, <2>3, FlattenMore
        <5>2. From(y, n) = From(e, n - lx)
          <6>1. n <= lx + le /\ lx <= n
            <7> HIDE DEF lx, le
            <7> QED BY <2>3, <2>4, <3>7, <4>1
          <6> HIDE DEF x, y, e
          <6> QED BY <2>3, <2>4, <6>1, FromConcat
        <5>3. <<>> \o p = p
          <6> HIDE DEF p
          <6> QED BY <3>3, ConcatEmptySeq
        <5> HIDE DEF p, c, r, lx
        <5> QED BY <3>3, <3>6, <5>1, <5>2, <5>3
      <4>2. CASE ~(n >= lx)
        <5>1. n < lx /\ n <= lx
          <6> HIDE DEF lx
          <6> QED BY <2>4, <4>2
        <5>2. FlattenSeq(r.b) = From(x, n) /\ r.n = 0
            BY <2>6, <5>1
        <5>3. p = e
          <6> HIDE DEF e, p, r
          <6> QED BY <2>3, <3>3, <5>2, FromEnds
        <5>4. From(y, n) = From(x, n) \o e
          <6> HIDE DEF x, y, e
          <6> QED BY <2>3, <2>4, <5>1, FromConcat, ZenonT(60)
        <5> HIDE DEF p, c, r, lx, e, x, y
        <5> QED BY <3>6, <5>2, <5>3, <5>4
      <4> QED BY <4>1, <4>2
    <3>9. q \in [n : Nat, b : Seq(Blk)] /\ q.n = 0 /\ q.b = c
      <4> HIDE DEF c, Blk
      <4> QED BY <3>5
    <3>10. Len(c) <= m + 1
      <4> HIDE DEF c, r
      <4> QED BY <2>1, <2>6, <2>7, <3>5
    <3> HIDE DEF q, c, r, x, y, lx, le, Blk, F
    <3> QED BY <2>4, <3>1, <3>7, <3>8, <3>9, <3>10 DEF y
  <2> QED BY <2>8, <2>9
<1>9. T = Nat
  <2>1. T \in SUBSET Nat
      OBVIOUS
  <2> HIDE DEF T
  <2> QED BY <1>7, <1>8, <2>1, AllNat
<1>10. Good(Len(b), R(Len(b)))
  <2> HIDE DEF Good
  <2> QED BY <1>1, <1>9
<1> DEFINE f == FlattenSeq(b)
           r == R(Len(b))
<1>11. F(Len(b)) = f /\ L(Len(b)) = Len(f) /\ f \in Seq(S) /\ Len(f) \in Nat
  <2>1. f \in Seq(S)
      BY <1>1, FlattenType
  <2> QED BY <1>6, <2>1, LenProperties
<1>12. r \in [n : Nat, b : Seq(Blk)] /\ Len(r.b) <= Len(b)
       /\ (n >= Len(f) => r.b = <<>>) /\ (n < Len(f) => FlattenSeq(r.b) = From(f, n))
    BY <1>10, <1>11
<1>13. FlattenSeq(r.b) = From(f, n)
  <2>1. CASE n < Len(f)
      BY <1>12, <2>1
  <2>2. CASE ~(n < Len(f))
    <3>1. n = Len(f) /\ n >= Len(f)
      <4> HIDE DEF f
      <4> QED BY <1>11, <2>2 DEF f
    <3>2. FlattenSeq(<<>>) = <<>>
        BY FlattenDef, EmptySeq
    <3> HIDE DEF r, f
    <3> QED BY <1>11, <1>12, <3>1, <3>2, FromEnds
  <2> QED BY <2>1, <2>2
<1>14. r.b \in Seq(Blk)
  <2> HIDE DEF r, Blk
  <2> QED BY <1>12
<1> QED BY <1>3, <1>12, <1>13, <1>14

----------------------------------------------------------------------------
(* What the program sends.                                                 *)

\* A sink's buffer is a chain of blocks, none of them empty.
Chains == Seq(Seq(Nat) \ {<<>>})
Flat == FlattenSeq(buf)

\* What is taken by a WSASend in flight is the first part of what the sink holds.
SinkOK ==
    /\ buf \in Chains /\ Len(buf) <= IovMax
    /\ wsa \in [n : Nat, k : Nat] /\ wsa.k <= wsa.n /\ wsa.n <= Len(Flat)

\* A WSASend is over when all its bytes were taken, or the connection is broken.
FlightOK ==
    /\ "W" \notin pend => wsa = NoSend
    /\ "W" \in pend => form \in {"Sender", "Split"} /\ (io["W"] = "flying" \/ wsa.k = wsa.n \/ net = "reset")

\* The peer's bytes, those on the way and those in the sink are what the program gave.
StreamOK ==
    /\ peer \in Seq(Nat) /\ sndq \in Seq(Nat) /\ given \in Nat
    /\ \A i \in 1..Len(peer \o sndq) : (peer \o sndq)[i] = i
    /\ net # "reset" /\ ~cut => (peer \o sndq) \o From(Flat, wsa.k) = Up(given)

\* A sink that was shut down, or that nobody holds, is empty; one cut off is not held.
EndOK ==
    /\ shut \/ own["W"] = None => buf = <<>>
    /\ cut => own["W"] = None

\* A stream is connected; a connect whose side is ready has been answered.
ConnOK ==
    /\ form = "None" => conn = "idle"
    /\ form \in {"Accepted", "Connected", "Sender", "Recv", "Split"} => conn = "up"
    /\ form \in {"Connecting", "Finishing"} => conn \in {"progress", "up", "refused"}
    /\ net # "open" => conn = "up"
    /\ form = "Finishing" /\ ~Iocp => "W" \in ops /\ (sch.wr => conn # "progress")
    /\ form \in {"Connecting", "Finishing"} /\ Iocp => io["W"] = "flying" \/ conn # "progress"

\* An error is the network's.
FailOK == failed => net = "reset" \/ conn = "refused" \/ form = "Closed"

SendInv == SinkOK /\ FlightOK /\ StreamOK /\ EndOK
OutInv == SendInv /\ ConnOK /\ FailOK


\* The bytes the program gives, numbered.
LEMMA UpFacts ==
    ASSUME NEW n \in Nat
    PROVE  Up(n) \in Seq(Nat) /\ Len(Up(n)) = n /\ \A i \in 1..n : Up(n)[i] = i
<1>1. Up(n) = [i \in 1..n |-> i] /\ \A i \in 1..n : i \in Nat
    BY DEF Up
<1>2. Up(n) \in [1..n -> Nat]
    BY <1>1
<1>3. Up(n) \in Seq(Nat)
    BY <1>2
<1>4. Len(Up(n)) \in Nat /\ DOMAIN Up(n) = 1..Len(Up(n))
    BY <1>3, LenProperties
<1> QED BY <1>1, <1>2, <1>3, <1>4

LEMMA UpPrefix ==
    ASSUME NEW n \in Nat, NEW s \in Seq(Nat), NEW r \in Seq(Nat), s \o r = Up(n)
    PROVE  \A i \in 1..Len(s) : s[i] = i
<1> DEFINE a == Len(s)
           b == Len(r)
<1>1. a \in Nat /\ b \in Nat /\ Len(s \o r) = a + b
      /\ \A i \in 1..a + b : (s \o r)[i] = IF i <= a THEN s[i] ELSE r[i - a]
    BY LenProperties, ConcatProperties
<1> HIDE DEF a, b
<1>2. n = a + b
    BY <1>1, UpFacts
<1>3. ASSUME NEW i \in 1..a PROVE s[i] = i
  <2>1. i \in 1..a + b /\ i <= a
      BY <1>1
  <2>2. (s \o r)[i] = s[i]
      BY <1>1, <2>1
  <2>3. Up(n)[i] = i
      BY <1>2, <2>1, UpFacts
  <2> QED BY <2>2, <2>3
<1> QED BY <1>3 DEF a

\* A chain without bytes has no blocks.
LEMMA NoBytes ==
    ASSUME NEW b \in Chains
    PROVE  /\ FlattenSeq(b) \in Seq(Nat) /\ Len(FlattenSeq(b)) \in Nat /\ Len(b) \in Nat
           /\ b = <<>> <=> FlattenSeq(b) = <<>>
           /\ b = <<>> <=> Len(FlattenSeq(b)) = 0
<1> DEFINE Blk == Seq(Nat) \ {<<>>}
           f == FlattenSeq(b)
<1>0. \A s \in Seq(Blk) : s \in Seq(Seq(Nat))
    BY SeqMonotonic
<1>1. b \in Seq(Blk) /\ b \in Seq(Seq(Nat))
    BY <1>0 DEF Chains
<1>2. f \in Seq(Nat)
    BY <1>1, FlattenType
<1>3. Len(f) \in Nat /\ Len(b) \in Nat /\ (f = <<>> <=> Len(f) = 0)
  <2> HIDE DEF f, Blk
  <2> QED BY <1>1, <1>2, LenProperties, EmptySeq
<1>4. b = <<>> => f = <<>>
    BY FlattenDef, EmptySeq
<1>5. ASSUME b # <<>> PROVE Len(f) # 0
  <2>1. PICK s \in Seq(Blk), e \in Blk : b = Append(s, e)
    <3> HIDE DEF Blk
    <3> QED BY <1>1, <1>5, SequenceEmptyOrAppend
  <2>2. s \in Seq(Seq(Nat)) /\ e \in Seq(Nat) /\ e # <<>>
      BY <1>0
  <2>3. f = FlattenSeq(s) \o e
      BY <2>1, <2>2, FlattenMore
  <2>4. FlattenSeq(s) \in Seq(Nat)
      BY <2>2, FlattenType
  <2>5. Len(f) = Len(FlattenSeq(s)) + Len(e)
      BY <2>2, <2>3, <2>4, ConcatProperties
  <2>6. Len(FlattenSeq(s)) \in Nat /\ Len(e) \in Nat \ {0}
      BY <2>2, <2>4, LenProperties, EmptySeq
  <2> QED BY <2>5, <2>6
<1> QED BY <1>2, <1>3, <1>4, <1>5

\* skip on a sink's chain.
LEMMA SkipChain ==
    ASSUME NEW b \in Chains, NEW n \in Nat, n <= Len(FlattenSeq(b))
    PROVE  /\ skip(b, n) \in Chains /\ Len(skip(b, n)) <= Len(b) /\ Len(skip(b, n)) \in Nat
           /\ FlattenSeq(skip(b, n)) = From(FlattenSeq(b), n)
<1>1. /\ skip(b, n) \in Chains /\ Len(skip(b, n)) <= Len(b)
      /\ FlattenSeq(skip(b, n)) = From(FlattenSeq(b), n)
    BY SkipBytes DEF Chains
<1> QED BY <1>1, LenProperties DEF Chains

\* What poll_send starts from: the bytes that were not taken.
LEMMA BaseFacts ==
    ASSUME SinkOK, FlightOK, Sent
    PROVE  /\ Base \in Chains /\ Len(Base) <= Len(buf) /\ Len(Base) \in Nat /\ Len(buf) \in Nat
           /\ FlattenSeq(Base) = From(Flat, wsa.k)
           /\ Offered = Len(From(Flat, wsa.k)) /\ Offered \in Nat
           /\ Base = <<>> <=> Offered = 0
           /\ buf = <<>> => Base = <<>>
<1>1. buf \in Chains /\ wsa.n \in Nat /\ wsa.k \in Nat /\ wsa.n <= Len(Flat)
    BY DEF SinkOK
<1>2. Flat \in Seq(Nat) /\ Len(buf) \in Nat
    BY <1>1, NoBytes DEF Flat
<1>3. Base \in Chains /\ Len(Base) <= Len(buf) /\ Len(Base) \in Nat /\ FlattenSeq(Base) = From(Flat, wsa.k)
  <2>1. CASE "W" \in pend
    <3>1. Base = skip(buf, wsa.n) /\ wsa.k = wsa.n
        BY <2>1 DEF Base, Sent
    <3>2. /\ skip(buf, wsa.n) \in Chains /\ Len(skip(buf, wsa.n)) <= Len(buf) /\ Len(skip(buf, wsa.n)) \in Nat
          /\ FlattenSeq(skip(buf, wsa.n)) = From(Flat, wsa.n)
        BY <1>1, SkipChain DEF Flat
    <3> QED BY <3>1, <3>2
  <2>2. CASE "W" \notin pend
    <3>1. Base = buf /\ wsa.k = 0
        BY <2>2 DEF Base, FlightOK, NoSend
    <3>2. From(Flat, 0) = Flat
        BY <1>2, FromEnds
    <3>3. Len(buf) <= Len(buf)
        BY <1>2
    <3> QED BY <1>1, <1>2, <3>1, <3>2, <3>3 DEF Flat
  <2> QED BY <2>1, <2>2
<1>4. Offered = Len(From(Flat, wsa.k)) /\ Offered \in Nat /\ (Base = <<>> <=> Offered = 0)
    BY <1>3, NoBytes DEF Offered
<1>5. buf = <<>> => Base = <<>>
  <2>1. SUFFICES ASSUME buf = <<>> PROVE Base = <<>>
      OBVIOUS
  <2>2. Len(Base) = 0
      BY <1>2, <1>3, <2>1, EmptySeq
  <2> QED BY <1>3, <2>2, EmptySeq DEF Chains
<1> QED BY <1>2, <1>3, <1>4, <1>5


\* Steps that leave the sink, what is on the way and the WSASend as they are.
LEMMA KeepOut ==
    ASSUME SendInv, UNCHANGED <<buf, wsa, peer, sndq, given, shut, net>>, cut' <=> cut,
           "W" \in pend' <=> "W" \in pend,
           "W" \in pend => form' \in {"Sender", "Split"} /\ (io["W"] = "flying" => io'["W"] = "flying"),
           own["W"] = None <=> own'["W"] = None
    PROVE  SendInv'
<1>1. Flat' = Flat
    BY DEF Flat
<1>2. SinkOK'
    BY <1>1 DEF SendInv, SinkOK
<1>3. FlightOK'
    BY DEF SendInv, FlightOK
<1>4. StreamOK'
    BY <1>1 DEF SendInv, StreamOK
<1>5. EndOK'
    BY DEF SendInv, EndOK
<1> QED BY <1>2, <1>3, <1>4, <1>5 DEF SendInv

\* The peer reads one of the bytes that are on the way.
LEMMA PeerReadsOut == ASSUME SendInv, PeerReads PROVE SendInv'
<1>1. /\ sndq # <<>> /\ peer' = Append(peer, Head(sndq)) /\ sndq' = Tail(sndq)
      /\ UNCHANGED <<form, own, pend, io, wsa, buf, given, cut, net, shut>>
    BY DEF PeerReads, handle, nio, overlapped
<1>2. peer \in Seq(Nat) /\ sndq \in Seq(Nat)
    BY DEF SendInv, StreamOK
<1> DEFINE a == Len(peer)
           b == Len(sndq)
           q == peer \o sndq
           r == peer' \o sndq'
           h == Head(sndq)
<1>3. a \in Nat /\ b \in Nat \ {0} /\ q \in Seq(Nat) /\ Len(q) = a + b
      /\ \A i \in 1..a + b : q[i] = IF i <= a THEN peer[i] ELSE sndq[i - a]
    BY <1>1, <1>2, LenProperties, EmptySeq, ConcatProperties
<1>4. h \in Nat /\ h = sndq[1] /\ sndq' \in Seq(Nat) /\ Len(sndq') = b - 1 /\ \A i \in 1..b - 1 : sndq'[i] = sndq[i + 1]
    BY <1>1, <1>2, HeadTailProperties
<1>5. peer' \in Seq(Nat) /\ Len(peer') = a + 1 /\ (\A i \in 1..a : peer'[i] = peer[i]) /\ peer'[a + 1] = h
    BY <1>1, <1>2, <1>4, AppendProperties
<1>6. r \in Seq(Nat) /\ Len(r) = (a + 1) + (b - 1)
      /\ \A i \in 1..(a + 1) + (b - 1) : r[i] = IF i <= a + 1 THEN peer'[i] ELSE sndq'[i - (a + 1)]
  <2> DEFINE u == peer'
             v == sndq'
  <2>1. u \in Seq(Nat) /\ v \in Seq(Nat) /\ Len(u) = a + 1 /\ Len(v) = b - 1
      BY <1>4, <1>5
  <2> HIDE DEF u, v, a, b
  <2>2. u \o v \in Seq(Nat) /\ Len(u \o v) = Len(u) + Len(v)
        /\ \A i \in 1..Len(u) + Len(v) : (u \o v)[i] = IF i <= Len(u) THEN u[i] ELSE v[i - Len(u)]
      BY <2>1, ConcatProperties
  <2> QED BY <2>1, <2>2 DEF u, v
<1> HIDE DEF a, b, q, r, h
<1>7. (a + 1) + (b - 1) = a + b
    BY <1>3
<1>8. ASSUME NEW i \in 1..a + b PROVE q[i] = r[i]
  <2>0. i \in Nat /\ i >= 1 /\ i <= a + b
      BY <1>3
  <2>1. CASE i <= a
    <3>1. i \in 1..a /\ i <= a + 1
        BY <1>3, <2>0, <2>1
    <3> QED BY <1>3, <1>5, <1>6, <1>7, <2>1, <3>1
  <2>2. CASE i = a + 1
    <3>1. i - a = 1 /\ ~(i <= a) /\ i <= a + 1
        BY <1>3, <2>2
    <3> QED BY <1>3, <1>4, <1>5, <1>6, <1>7, <2>2, <3>1
  <2>3. CASE ~(i <= a + 1)
    <3>1. ~(i <= a) /\ i - (a + 1) \in 1..b - 1 /\ (i - (a + 1)) + 1 = i - a
        BY <1>3, <2>0, <2>3
    <3>2. r[i] = sndq'[i - (a + 1)]
        BY <1>6, <1>7, <2>3
    <3>3. sndq'[i - (a + 1)] = sndq[i - a]
        BY <1>4, <3>1
    <3>4. q[i] = sndq[i - a]
        BY <1>3, <3>1
    <3> QED BY <3>2, <3>3, <3>4
  <2>4. i <= a \/ i = a + 1 \/ ~(i <= a + 1)
      BY <1>3, <2>0
  <2> QED BY <2>1, <2>2, <2>3, <2>4
<1>9. q = r
    BY <1>3, <1>6, <1>7, <1>8, SeqEqual
<1>10. Flat' = Flat
    BY <1>1 DEF Flat
<1>11. SinkOK' /\ FlightOK' /\ EndOK'
    BY <1>1, <1>10 DEF SendInv, SinkOK, FlightOK, EndOK
<1>12. StreamOK'
    BY <1>1, <1>4, <1>5, <1>9, <1>10 DEF SendInv, StreamOK, q, r
<1> QED BY <1>11, <1>12 DEF SendInv

\* The peer closes, or the connection breaks.
LEMMA PeerEndsOut == ASSUME SendInv, NEW how \in {"closed", "reset"}, PeerEnds(how) PROVE SendInv'
<1>1. /\ net = "open" /\ net' = how /\ sndq' = (IF how = "reset" THEN <<>> ELSE sndq)
      /\ UNCHANGED <<form, own, pend, io, wsa, buf, given, peer, cut, shut>>
    BY DEF PeerEnds, handle, nio, overlapped, outbound
<1>2. Flat' = Flat
    BY <1>1 DEF Flat
<1>3. SinkOK' /\ FlightOK' /\ EndOK'
    BY <1>1, <1>2 DEF SendInv, SinkOK, FlightOK, EndOK
<1>4. StreamOK'
  <2>1. CASE how = "closed"
      BY <1>1, <1>2, <2>1 DEF SendInv, StreamOK
  <2>2. CASE how = "reset"
    <3>1. peer \in Seq(Nat) /\ sndq \in Seq(Nat) /\ given \in Nat
          /\ \A i \in 1..Len(peer \o sndq) : (peer \o sndq)[i] = i
        BY DEF SendInv, StreamOK
    <3>2. sndq' = <<>> /\ peer' = peer /\ peer \o <<>> = peer /\ <<>> \in Seq(Nat)
        BY <1>1, <2>2, <3>1, ConcatEmptySeq, EmptySeq
    <3> DEFINE a == Len(peer)
               b == Len(sndq)
               q == peer \o sndq
    <3>3. a \in Nat /\ b \in Nat /\ Len(q) = a + b /\ \A i \in 1..a + b : q[i] = IF i <= a THEN peer[i] ELSE sndq[i - a]
        BY <3>1, LenProperties, ConcatProperties
    <3>4. \A i \in 1..a : peer[i] = i
      <4>1. \A i \in 1..a + b : q[i] = i
          BY <3>1, <3>3
      <4> HIDE DEF a, b, q
      <4>2. \A i \in 1..a : i \in 1..a + b /\ i <= a
          BY <3>3
      <4> QED BY <3>3, <4>1, <4>2
    <3> HIDE DEF a
    <3>5. peer' \o sndq' = peer
        BY <3>2
    <3>6. net' = "reset" /\ given' = given
        BY <1>1, <2>2
    <3> QED BY <3>1, <3>2, <3>4, <3>5, <3>6 DEF StreamOK, a
  <2> QED BY <2>1, <2>2
<1> QED BY <1>3, <1>4 DEF SendInv

\* Bytes that move from the front of what is left to the end of what was sent.
Cat(s, t) == s \o t

LEMMA Moves ==
    ASSUME NEW T, NEW p \in Seq(T), NEW q \in Seq(T), NEW x \in Seq(T), NEW y \in Seq(T)
    PROVE  /\ Cat(q, x) \in Seq(T) /\ Cat(p, Cat(q, x)) \in Seq(T)
           /\ Cat(Cat(p, Cat(q, x)), y) = Cat(Cat(p, q), Cat(x, y))
<1>1. p \o q \in Seq(T) /\ q \o x \in Seq(T) /\ x \o y \in Seq(T)
    BY ConcatProperties
<1>2. p \o (q \o x) = (p \o q) \o x
    BY Associates, SMTT(40)
<1>3. ((p \o q) \o x) \o y = (p \o q) \o (x \o y)
    BY <1>1, Associates, SMTT(40)
<1>4. p \o (q \o x) \in Seq(T)
    BY <1>1, ConcatProperties
<1> QED BY <1>1, <1>2, <1>3, <1>4 DEF Cat

\* What is on the way grows by bytes taken from what was not taken, and the rest stays.
LEMMA TakenOut ==
    ASSUME StreamOK, NEW f \in Seq(Nat), NEW k \in Nat, NEW j \in Nat, k <= j, j <= Len(f),
           net # "reset", ~cut, (peer \o sndq) \o From(f, k) = Up(given),
           sndq' = sndq \o SubSeq(f, k + 1, j), UNCHANGED <<peer, given>>,
           From(Flat', wsa'.k) = From(f, j)
    PROVE  StreamOK'
<1>1. peer \in Seq(Nat) /\ sndq \in Seq(Nat) /\ given \in Nat
    BY DEF StreamOK
<1> DEFINE x == SubSeq(f, k + 1, j)
           y == From(f, j)
           q == peer \o (sndq \o x)
<1>2. x \in Seq(Nat)
    BY PartFacts
<1>3. y \in Seq(Nat) /\ x \o y = From(f, k)
    BY FromFacts, CutFrom
<1> HIDE DEF x, y
<1>4. sndq \o x \in Seq(Nat) /\ q \in Seq(Nat) /\ q \o y = (peer \o sndq) \o (x \o y)
  <2>1. Cat(sndq, x) \in Seq(Nat) /\ Cat(peer, Cat(sndq, x)) \in Seq(Nat)
        /\ Cat(Cat(peer, Cat(sndq, x)), y) = Cat(Cat(peer, sndq), Cat(x, y))
      BY <1>1, <1>2, <1>3, Moves
  <2> QED BY <2>1 DEF Cat
<1>5. q \o y = Up(given)
    BY <1>3, <1>4
<1> HIDE DEF q
<1>6. \A i \in 1..Len(q) : q[i] = i
    BY <1>1, <1>3, <1>4, <1>5, UpPrefix
<1>7. peer' \o sndq' = q /\ sndq' = sndq \o x /\ peer' = peer /\ given' = given /\ From(Flat', wsa'.k) = y
    BY DEF q, x, y
<1> QED BY <1>1, <1>4, <1>5, <1>6, <1>7 DEF StreamOK

\* A WSASend has some of its bytes taken, or fails.
LEMMA CompleteOut == ASSUME CtlInv, SendInv, NEW o \in Ops, Complete(o) PROVE SendInv'
<1>1. io[o] = "flying" /\ io \in [Ops -> {"idle", "flying", "queued"}]
      /\ UNCHANGED <<form, own, pend, buf, given, peer, cut, net, shut>>
    BY DEF Complete, CtlInv, CtlTypes, handle, outbound
<1>2. CASE /\ o = "R" \/ form \in {"Connecting", "Finishing"}
           /\ io' = [io EXCEPT ![o] = "queued"] /\ UNCHANGED <<wsa, sndq>>
  <2>1. "W" \in pend => form \in {"Sender", "Split"}
      BY DEF SendInv, FlightOK
  <2>2. o = "R" => io'["W"] = io["W"]
      BY <1>1, <1>2 DEF Ops
  <2>3. "W" \in pend => io'["W"] = io["W"] /\ form' \in {"Sender", "Split"}
      BY <1>1, <1>2, <2>1, <2>2
  <2> QED BY <1>1, <1>2, <2>3, KeepOut
<1>3. CASE o = "W" /\ form \in {"Sender", "Split"} /\ net = "reset" /\ io' = [io EXCEPT !.W = "queued"] /\ UNCHANGED <<wsa, sndq>>
  <2>1. Flat' = Flat
      BY <1>1 DEF Flat
  <2> QED BY <1>1, <1>3, <2>1 DEF SendInv, SinkOK, FlightOK, StreamOK, EndOK
<1> DEFINE k == IF wsa.n - wsa.k <= SndCap - Len(sndq) THEN wsa.n ELSE wsa.k + SndCap - Len(sndq)
<1>4. CASE /\ o = "W" /\ net # "reset" /\ k > wsa.k /\ wsa' = [wsa EXCEPT !.k = k]
           /\ sndq' = sndq \o SubSeq(FlattenSeq(buf), wsa.k + 1, k)
           /\ io' = IF k = wsa.n THEN [io EXCEPT !.W = "queued"] ELSE io
  <2>1. /\ wsa \in [n : Nat, k : Nat] /\ wsa.k <= wsa.n /\ wsa.n <= Len(Flat) /\ buf \in Chains /\ sndq \in Seq(Nat)
        /\ StreamOK
      BY DEF SendInv, SinkOK, StreamOK
  <2>2. Len(sndq) \in Nat /\ SndCap \in Nat /\ wsa.n \in Nat /\ wsa.k \in Nat
      BY <2>1, LenProperties, TcpStreamAssumption DEF TcpStreamAssumption
  <2>3. Flat \in Seq(Nat) /\ Len(Flat) \in Nat
      BY <2>1, NoBytes DEF Flat
  <2> DEFINE l == Len(sndq)
             c == wsa.n
             d == wsa.k
             lf == Len(Flat)
  <2>4. k \in Nat /\ k <= c /\ d <= k /\ k <= lf
    <3>1. k = (IF c - d <= SndCap - l THEN c ELSE d + SndCap - l) /\ k > d /\ c <= lf
          /\ l \in Nat /\ SndCap \in Nat /\ c \in Nat /\ d \in Nat /\ lf \in Nat
        BY <1>4, <2>1, <2>2, <2>3
    <3> HIDE DEF k, c, d, l, lf
    <3> QED BY <3>1
  <2> HIDE DEF k
  <2>5. wsa' \in [n : Nat, k : Nat] /\ wsa'.n = wsa.n /\ wsa'.k = k
      BY <1>4, <2>1, <2>4
  <2>6. Flat' = Flat
      BY <1>1 DEF Flat
  <2>7. own["W"] # None
      BY <1>1, <1>4 DEF CtlInv, PortOK, InUse, Ops
  <2>8. ~cut
      BY <2>7 DEF SendInv, EndOK
  <2>9. "W" \in pend
    <3>1. wsa.k # wsa.n
        BY <1>4, <2>1, <2>2, <2>4
    <3> QED BY <3>1 DEF SendInv, FlightOK, NoSend
  <2>10. SinkOK'
      BY <1>1, <2>1, <2>4, <2>5, <2>6 DEF SendInv, SinkOK
  <2>11. FlightOK'
    <3>1. io'["W"] = "flying" \/ wsa'.k = wsa'.n
      <4>1. CASE k = wsa.n
          BY <2>5, <4>1
      <4>2. CASE k # wsa.n
          BY <1>1, <1>4, <4>2
      <4> QED BY <4>1, <4>2
    <3> QED BY <1>1, <2>9, <3>1 DEF SendInv, FlightOK
  <2>12. EndOK'
      BY <1>1 DEF SendInv, EndOK
  <2>13. StreamOK'
    <3>1. (peer \o sndq) \o From(Flat, wsa.k) = Up(given)
        BY <1>4, <2>8 DEF SendInv, StreamOK
    <3>2. sndq' = sndq \o SubSeq(Flat, wsa.k + 1, k) /\ UNCHANGED <<peer, given>>
        BY <1>1, <1>4 DEF Flat
    <3>3. From(Flat', wsa'.k) = From(Flat, k)
        BY <2>5, <2>6
    <3> HIDE DEF c, d, lf
    <3> QED BY <1>4, <2>1, <2>2, <2>3, <2>4, <2>8, <3>1, <3>2, <3>3, TakenOut DEF d, lf
  <2> QED BY <2>10, <2>11, <2>12, <2>13 DEF SendInv
<1> QED BY <1>2, <1>3, <1>4 DEF Complete

\* start_send: a block more.
LEMMA StartSendOut ==
    ASSUME CtlInv, SendInv, Races = {}, NEW t, NEW k \in ItemSizes, start_send(t, k)
    PROVE  SendInv'
<1> DEFINE e == [i \in 1..k |-> given + i]
<1>1. /\ Sends(t) /\ ~shut /\ ~(Len(buf) >= IovMax) /\ given' = given + k /\ buf' = Append(buf, e)
      /\ UNCHANGED <<form, own, pend, io, wsa, peer, cut, sndq, net, shut>>
    BY DEF start_send, handle, nio, overlapped, kernel
<1>2. t \in Tasks /\ own["W"] = t
    BY <1>1, PollFacts DEF Sends
<1>3. own["W"] # None /\ ~cut
    BY <1>2, TcpStreamAssumption DEF TcpStreamAssumption, SendInv, EndOK
<1>4. k \in Nat \ {0} /\ IovMax \in Nat /\ given \in Nat /\ peer \in Seq(Nat) /\ sndq \in Seq(Nat)
    BY TcpStreamAssumption DEF TcpStreamAssumption, SendInv, StreamOK
<1>5. buf \in Chains /\ wsa \in [n : Nat, k : Nat] /\ wsa.k <= wsa.n /\ wsa.n <= Len(Flat)
    BY DEF SendInv, SinkOK
<1>6. Flat \in Seq(Nat) /\ Len(Flat) \in Nat /\ Len(buf) \in Nat
    BY <1>5, NoBytes DEF Flat
<1>7. e \in Seq(Nat) /\ Len(e) = k /\ \A i \in 1..k : e[i] = given + i
  <2>1. e \in [1..k -> Nat]
      BY <1>4
  <2>2. e \in Seq(Nat)
      BY <1>4, <2>1
  <2>3. Len(e) \in Nat /\ DOMAIN e = 1..Len(e)
      BY <2>2, LenProperties
  <2> QED BY <1>4, <2>1, <2>2, <2>3
<1> HIDE DEF e
<1>8. e \in Seq(Nat) \ {<<>>}
    BY <1>4, <1>7, EmptySeq
<1>9. buf' \in Chains /\ Len(buf') = Len(buf) + 1
  <2> DEFINE Blk == Seq(Nat) \ {<<>>}
  <2>1. e \in Blk /\ buf \in Seq(Blk)
      BY <1>5, <1>8 DEF Chains
  <2> HIDE DEF Blk
  <2>2. Append(buf, e) \in Seq(Blk) /\ Len(Append(buf, e)) = Len(buf) + 1
      BY <2>1, AppendProperties
  <2> QED BY <1>1, <2>2 DEF Chains, Blk
<1>10. Flat' = Flat \o e
  <2>1. buf \in Seq(Seq(Nat))
      BY <1>5, SeqMonotonic DEF Chains
  <2> QED BY <1>1, <1>7, <2>1, FlattenMore DEF Flat
<1>11. Len(Flat \o e) = Len(Flat) + k /\ Flat \o e \in Seq(Nat)
    BY <1>6, <1>7, ConcatProperties
<1>12. SinkOK'
  <2>1. wsa.n <= Len(Flat')
    <3> DEFINE l == Len(Flat)
    <3>1. wsa.n \in Nat /\ wsa.n <= l /\ l \in Nat /\ Len(Flat') = l + k
        BY <1>5, <1>6, <1>10, <1>11
    <3> HIDE DEF l
    <3> QED BY <1>4, <3>1
  <2>2. Len(buf') <= IovMax
      BY <1>1, <1>4, <1>6, <1>9
  <2> QED BY <1>1, <1>5, <1>9, <2>1, <2>2 DEF SinkOK
<1>13. FlightOK' /\ EndOK'
    BY <1>1, <1>3 DEF SendInv, FlightOK, EndOK
<1>14. StreamOK'
  <2>1. CASE net = "reset"
    <3>1. net' = "reset" /\ given' \in Nat /\ peer' = peer /\ sndq' = sndq
        BY <1>1, <1>4, <2>1
    <3> QED BY <3>1 DEF SendInv, StreamOK
  <2>2. CASE net # "reset"
    <3> DEFINE q == peer \o sndq
               f == From(Flat, wsa.k)
               d == wsa.k
               l == Len(Flat)
    <3>1. q \o f = Up(given)
        BY <1>3, <2>2 DEF SendInv, StreamOK
    <3>2. d \in Nat /\ d <= l /\ l \in Nat
        BY <1>5, <1>6
    <3>3. f \in Seq(Nat) /\ q \in Seq(Nat)
      <4> HIDE DEF d
      <4>1. From(Flat, d) \in Seq(Nat)
          BY <1>6, <3>2, FromFacts DEF l
      <4> QED BY <1>4, <4>1, ConcatProperties DEF d
    <3>4. From(Flat', wsa'.k) = f \o e
      <4> HIDE DEF d
      <4>1. From(Flat \o e, d) = From(Flat, d) \o e
          BY <1>6, <1>7, <3>2, FromConcat DEF l
      <4> QED BY <1>1, <1>10, <4>1 DEF d
    <3> HIDE DEF q, f, l
    <3>5. q \o (f \o e) = Up(given) \o e
      <4>1. Cat(q, Cat(f, e)) = Cat(Cat(q, f), e)
        <5> DEFINE z == <<>>
        <5>1. z \in Seq(Nat)
            BY EmptySeq
        <5>2. Cat(z, q) = q /\ Cat(z, Cat(q, f)) = Cat(q, f)
          <6>1. Cat(q, f) \in Seq(Nat)
              BY <3>3, ConcatProperties DEF Cat
          <6> QED BY <3>3, <6>1, ConcatEmptySeq DEF Cat
        <5> HIDE DEF z
        <5>3. Cat(Cat(z, Cat(q, f)), e) = Cat(Cat(z, q), Cat(f, e))
            BY <1>7, <3>3, <5>1, Moves
        <5> QED BY <5>2, <5>3
      <4> QED BY <3>1, <4>1 DEF Cat
    <3>6. Up(given) \o e = Up(given + k)
      <4> DEFINE u == Up(given)
                 v == Up(given + k)
                 w == u \o e
      <4>1. given + k \in Nat
          BY <1>4
      <4>2. u \in Seq(Nat) /\ Len(u) = given /\ \A i \in 1..given : u[i] = i
          BY <1>4, UpFacts
      <4>3. v \in Seq(Nat) /\ Len(v) = given + k /\ \A i \in 1..given + k : v[i] = i
          BY <4>1, UpFacts
      <4> HIDE DEF u, v
      <4>4. w \in Seq(Nat) /\ Len(w) = given + k
            /\ \A i \in 1..given + k : w[i] = IF i <= given THEN u[i] ELSE e[i - given]
          BY <1>7, <4>2, ConcatProperties
      <4> HIDE DEF w
      <4>5. ASSUME NEW i \in 1..given + k PROVE w[i] = v[i]
        <5>1. CASE i <= given
          <6>1. i \in 1..given
              BY <1>4, <5>1
          <6> QED BY <4>2, <4>3, <4>4, <5>1, <6>1
        <5>2. CASE ~(i <= given)
          <6>1. i - given \in 1..k /\ given + (i - given) = i
              BY <1>4, <5>2
          <6> QED BY <1>7, <4>3, <4>4, <5>2, <6>1
        <5> QED BY <5>1, <5>2
      <4>6. w = v
          BY <4>3, <4>4, <4>5, SeqEqual
      <4> QED BY <4>6 DEF u, v, w
    <3>7. given' \in Nat /\ given' = given + k
        BY <1>1, <1>4
    <3>8. peer' \o sndq' = q /\ peer' = peer /\ sndq' = sndq
        BY <1>1 DEF q
    <3>9. \A i \in 1..Len(q) : q[i] = i
        BY DEF SendInv, StreamOK, q
    <3> QED BY <1>4, <3>4, <3>5, <3>6, <3>7, <3>8, <3>9 DEF StreamOK
  <2> QED BY <2>1, <2>2
<1> QED BY <1>12, <1>13, <1>14 DEF SendInv

\* The WSASend, once a poll of the sink is over.
Cleared == "W" \notin pend' /\ wsa' = NoSend

\* n bytes are written, and what is left stays in the sink.
LEMMA SendsBytesOut ==
    ASSUME SendInv, NEW n \in Nat, SendsBytes(n), Cleared, own["W"] # None,
           UNCHANGED <<own, given, peer, cut, net>>
    PROVE  /\ SinkOK' /\ FlightOK' /\ StreamOK'
           /\ n = Offered => buf' = <<>>
<1>1. /\ Sent /\ ~Breaks /\ n <= Offered /\ sndq' = sndq \o SubSeq(FlattenSeq(Base), 1, n) /\ buf' = skip(Base, n)
    BY DEF SendsBytes, Tries
<1> DEFINE f == From(Flat, wsa.k)
<1>2. SinkOK /\ FlightOK /\ StreamOK /\ ~cut
    BY DEF SendInv, EndOK
<1>3. /\ Base \in Chains /\ Len(Base) <= Len(buf) /\ Len(Base) \in Nat /\ Len(buf) \in Nat
      /\ FlattenSeq(Base) = f /\ Offered = Len(f) /\ (Base = <<>> <=> Offered = 0)
    BY <1>1, <1>2, BaseFacts
<1>4. f \in Seq(Nat) /\ Len(f) \in Nat /\ n <= Len(f)
    BY <1>1, <1>3, NoBytes
<1> HIDE DEF f
<1>5. /\ buf' \in Chains /\ Len(buf') <= Len(Base) /\ Len(buf') \in Nat
      /\ FlattenSeq(buf') = From(f, n)
  <2>1. n <= Len(FlattenSeq(Base))
      BY <1>3, <1>4
  <2> QED BY <1>1, <1>3, <2>1, SkipChain
<1>6. Flat' = From(f, n) /\ From(f, n) \in Seq(Nat) /\ Len(From(f, n)) = Len(f) - n
    BY <1>4, <1>5, FromFacts DEF Flat
<1>7. wsa' = [n |-> 0, k |-> 0] /\ From(Flat', wsa'.k) = From(f, n)
  <2>1. wsa' = [n |-> 0, k |-> 0]
      BY DEF Cleared, NoSend
  <2>2. From(From(f, n), 0) = From(f, n)
      BY <1>6, FromEnds
  <2> QED BY <1>6, <2>1, <2>2
<1>8. SinkOK'
  <2>1. Len(buf') <= IovMax
    <3>1. Len(buf) <= IovMax /\ IovMax \in Nat
        BY <1>2, TcpStreamAssumption DEF SinkOK, TcpStreamAssumption
    <3> QED BY <1>3, <1>5, <3>1
  <2>2. wsa' \in [n : Nat, k : Nat] /\ wsa'.k <= wsa'.n /\ wsa'.n = 0
      BY <1>7
  <2>3. Len(Flat') \in Nat
      BY <1>6, LenProperties
  <2> QED BY <1>5, <2>1, <2>2, <2>3 DEF SinkOK
<1>9. FlightOK'
    BY DEF Cleared, FlightOK
<1>10. StreamOK'
  <2>1. CASE net # "reset"
    <3>1. (peer \o sndq) \o f = Up(given)
        BY <1>2, <2>1 DEF StreamOK, f
    <3>2. From(f, 0) = f
        BY <1>4, FromEnds
    <3>3. sndq' = sndq \o SubSeq(f, 0 + 1, n) /\ UNCHANGED <<peer, given>>
        BY <1>1, <1>3
    <3>4. 0 \in Nat /\ 0 <= n
        OBVIOUS
    <3>5. (peer \o sndq) \o From(f, 0) = Up(given)
        BY <3>1, <3>2
    <3> QED BY <1>2, <1>4, <1>7, <2>1, <3>3, <3>4, <3>5, TakenOut
  <2>2. CASE net = "reset"
    <3>1. Offered = 0 /\ n = 0
      <4>1. Base = <<>>
          BY <1>1, <2>2 DEF Breaks
      <4> QED BY <1>1, <1>3, <4>1
    <3>2. sndq' = sndq
      <4>1. SubSeq(f, 1, 0) = <<>> /\ sndq \in Seq(Nat)
          BY <1>2, SubSeqEmpty DEF StreamOK
      <4>2. sndq \o <<>> = sndq
          BY <4>1, ConcatEmptySeq
      <4> QED BY <1>1, <1>3, <3>1, <4>1, <4>2
    <3>3. net' = "reset" /\ given' = given /\ peer' = peer
        BY <2>2
    <3> QED BY <1>2, <3>2, <3>3 DEF StreamOK
  <2> QED BY <2>1, <2>2
<1>11. ASSUME n = Offered PROVE buf' = <<>>
  <2>1. n = Len(f) /\ From(f, Len(f)) = <<>>
      BY <1>3, <1>4, <1>11, FromEnds
  <2>2. FlattenSeq(buf') = <<>>
      BY <1>5, <2>1
  <2> QED BY <1>5, <2>2, NoBytes
<1> QED BY <1>8, <1>9, <1>10, <1>11


\* What poll_complete and close do to the sink.
LEMMA PollSendOut ==
    ASSUME CtlInv, SendInv, Orderly, NEW t \in Tasks, own["W"] = t, form \in {"Sender", "Split"},
           SendNothing \/ SendAll \/ SendWaits \/ SendPart(t) \/ SendBlocks(t),
           UNCHANGED <<form, own, backend, given, peer, cut, net>>
    PROVE  /\ SinkOK' /\ FlightOK' /\ StreamOK'
           /\ SendNothing \/ SendAll => buf' = <<>>
           /\ buf = <<>> => buf' = <<>>
<1>0. own["W"] # None /\ (~Iocp => pend = {}) /\ SinkOK /\ FlightOK /\ StreamOK
    BY TcpStreamAssumption DEF TcpStreamAssumption, CtlInv, PortOK, SendInv
<1>1. ASSUME UNCHANGED <<buf, sndq, wsa, pend, io>> PROVE SinkOK' /\ FlightOK' /\ StreamOK'
  <2>1. Flat' = Flat
      BY <1>1 DEF Flat
  <2> QED BY <1>0, <1>1, <2>1 DEF SinkOK, FlightOK, StreamOK
<1>2. CASE SendNothing \/ SendWaits
  <2>1. UNCHANGED <<buf, sndq, wsa, pend, io>>
      BY <1>2 DEF SendNothing, SendWaits, nio, overlapped
  <2>2. SendNothing \/ SendAll => buf = <<>>
      BY <1>2 DEF SendNothing, SendWaits, SendAll, SendsBytes, Tries
  <2> QED BY <1>1, <2>1, <2>2
<1>3. ASSUME SendAll \/ SendPart(t) PROVE Cleared /\ buf # <<>>
  <2>1. buf # <<>>
      BY <1>3 DEF SendAll, SendPart, SendsBytes, Tries
  <2>2. CASE Ends("W")
      BY <2>1, <2>2 DEF Ends, Cleared
  <2>3. CASE ~Iocp /\ (cancel_write \/ schedule_write(t))
    <3>1. UNCHANGED <<pend, wsa>>
        BY <2>3 DEF cancel_write, schedule_write, nio, overlapped
    <3> QED BY <1>0, <2>1, <2>3, <3>1 DEF FlightOK, Cleared
  <2> QED BY <1>3, <2>2, <2>3 DEF SendAll, SendPart
<1>4. CASE SendAll
  <2>1. PICK n \in 0..SndCap : SendsBytes(n) /\ n = Offered
      BY <1>4 DEF SendAll
  <2>2. n \in Nat
      BY <2>1, TcpStreamAssumption DEF TcpStreamAssumption
  <2> QED BY <1>0, <1>3, <1>4, <2>1, <2>2, SendsBytesOut
<1>5. CASE SendPart(t)
  <2>1. PICK n \in 1..SndCap : SendsBytes(n)
      BY <1>5 DEF SendPart
  <2>2. n \in Nat
      BY <2>1, TcpStreamAssumption DEF TcpStreamAssumption
  <2>3. ~SendNothing /\ (SendAll => buf' = <<>>)
      BY <1>0, <1>3, <1>4, <1>5 DEF SendNothing
  <2> QED BY <1>0, <1>3, <1>5, <2>1, <2>2, <2>3, SendsBytesOut
<1>6. CASE SendBlocks(t)
  <2>1. Tries /\ Base # <<>> /\ UNCHANGED sndq /\ buf # <<>> /\ Sent
      BY <1>6 DEF SendBlocks, Tries
  <2>2. ~SendNothing /\ (SendAll => buf' = <<>>)
      BY <1>4, <2>1 DEF SendNothing
  <2>3. CASE ~Iocp
    <3>1. UNCHANGED <<buf, wsa, pend, io>>
        BY <1>6, <2>3 DEF SendBlocks, schedule_write, nio, overlapped
    <3> QED BY <1>1, <2>1, <2>2, <3>1
  <2>4. CASE Iocp
    <3>1. buf' = Base /\ Start(t, "W") /\ wsa' = [n |-> Offered, k |-> 0]
        BY <1>6, <2>4 DEF SendBlocks
    <3> DEFINE f == From(Flat, wsa.k)
    <3>2. /\ Base \in Chains /\ Len(Base) <= Len(buf) /\ Len(Base) \in Nat /\ Len(buf) \in Nat
          /\ FlattenSeq(Base) = f /\ Offered = Len(f) /\ Offered \in Nat
        BY <1>0, <2>1, BaseFacts
    <3>3. f \in Seq(Nat)
        BY <3>2, NoBytes
    <3> HIDE DEF f
    <3>4. Flat' = f
        BY <3>1, <3>2 DEF Flat
    <3>5. wsa' \in [n : Nat, k : Nat] /\ wsa'.k = 0 /\ wsa'.n = Offered /\ 0 <= Offered /\ Offered <= Offered
        BY <3>1, <3>2
    <3>6. SinkOK'
      <4>1. Len(buf) <= IovMax /\ IovMax \in Nat
          BY <1>0, TcpStreamAssumption DEF SinkOK, TcpStreamAssumption
      <4>2. Len(buf') <= IovMax
          BY <3>1, <3>2, <4>1
      <4> QED BY <3>1, <3>2, <3>4, <3>5, <4>2 DEF SinkOK
    <3>7. FlightOK'
      <4>1. pend' = pend \cup {"W"} /\ io' = [io EXCEPT !["W"] = "flying"] /\ io \in [Ops -> {"idle", "flying", "queued"}]
          BY <3>1 DEF Start, CtlInv, CtlTypes
      <4>2. io'["W"] = "flying"
          BY <4>1 DEF Ops
      <4> QED BY <4>1, <4>2 DEF FlightOK
    <3>8. StreamOK'
      <4>1. From(Flat', wsa'.k) = f
          BY <3>3, <3>4, <3>5, FromEnds
      <4> QED BY <1>0, <2>1, <4>1 DEF StreamOK, f
    <3> QED BY <2>1, <2>2, <3>6, <3>7, <3>8
  <2> QED BY <2>3, <2>4
<1> QED BY <1>2, <1>4, <1>5, <1>6

\* poll_complete, close, and their errors, which are the network's.
LEMMA PollOut ==
    ASSUME CtlInv, SendInv, Races = {}, NEW t, poll_complete(t) \/ close(t) \/ poll_err(t)
    PROVE  SendInv' /\ (poll_err(t) => net = "reset" /\ UNCHANGED net)
<1>0. Orderly
    BY DEF Orderly
<1>1. Sends(t) /\ UNCHANGED <<form, own, backend, given, peer, cut, net>>
    BY DEF poll_complete, close, poll_err, SendRest, handle, loop
<1>2. t \in Tasks /\ own["W"] = t /\ form \in {"Sender", "Split"} /\ own["W"] # None
    BY <1>1, PollFacts, TcpStreamAssumption DEF Sends, TcpStreamAssumption
<1>3. ~cut /\ EndOK /\ SinkOK /\ FlightOK /\ StreamOK
    BY <1>2 DEF SendInv, EndOK
<1>4. ASSUME poll_complete(t) \/ close(t) PROVE SendInv'
  <2>1. /\ SendNothing \/ SendAll \/ SendWaits \/ SendPart(t) \/ SendBlocks(t)
        /\ (shut' = shut \/ SendNothing \/ SendAll)
      BY <1>4 DEF poll_complete, close
  <2>2. SinkOK' /\ FlightOK' /\ StreamOK' /\ (SendNothing \/ SendAll => buf' = <<>>) /\ (buf = <<>> => buf' = <<>>)
      BY <1>0, <1>1, <1>2, <2>1, PollSendOut
  <2>3. EndOK'
      BY <1>1, <1>2, <1>3, <2>1, <2>2 DEF EndOK
  <2> QED BY <2>2, <2>3 DEF SendInv
<1>5. ASSUME poll_err(t) PROVE net = "reset" /\ SendInv'
  <2>1. /\ IF buf = <<>> THEN net = "reset" ELSE is_write_ready /\ (Sent => Breaks)
        /\ buf' = (IF Sent THEN Base ELSE buf) /\ Ends("W") /\ UNCHANGED <<sndq, shut>>
      BY <1>5 DEF poll_err
  <2>2. Cleared
      BY <2>1 DEF Ends, Cleared
  <2>3. net = "reset"
    <3>1. CASE buf # <<>> /\ Sent
      <4>1. ~Iocp => Len(buf) <= IovMax /\ Len(buf) \in Nat /\ IovMax \in Nat
          BY <1>3, NoBytes, TcpStreamAssumption DEF SinkOK, TcpStreamAssumption
      <4>2. Breaks
          BY <2>1, <3>1
      <4> QED BY <4>1, <4>2 DEF Breaks
    <3>2. CASE buf # <<>> /\ ~Sent
      <4>1. "W" \in pend /\ wsa.k # wsa.n /\ is_write_ready
          BY <2>1, <3>2 DEF Sent
      <4>2. Iocp /\ HasNio /\ form # "Connecting"
          BY <1>2, <4>1 DEF CtlInv, PortOK, HasNio
      <4>3. ~InUse("W")
          BY <4>1, <4>2 DEF is_write_ready, CtlInv, PortOK
      <4> QED BY <1>3, <4>1, <4>3 DEF InUse, FlightOK
    <3> QED BY <2>1, <3>1, <3>2
  <2>4. buf' \in Chains /\ Len(buf') <= Len(buf) /\ Len(buf') \in Nat /\ Len(buf) \in Nat /\ (buf = <<>> => buf' = <<>>)
    <3>1. CASE Sent
        BY <1>3, <2>1, <3>1, BaseFacts
    <3>2. CASE ~Sent
      <4>1. buf \in Chains /\ Len(buf) \in Nat /\ buf' = buf
          BY <1>3, <2>1, <3>2, NoBytes DEF SinkOK
      <4> QED BY <4>1
    <3> QED BY <3>1, <3>2
  <2>5. SinkOK'
    <3>1. Len(buf) <= IovMax /\ IovMax \in Nat
        BY <1>3, TcpStreamAssumption DEF SinkOK, TcpStreamAssumption
    <3>2. Len(buf') <= IovMax
        BY <2>4, <3>1
    <3>3. Len(Flat') \in Nat
        BY <2>4, NoBytes DEF Flat
    <3>4. wsa' = [n |-> 0, k |-> 0]
        BY <2>2 DEF Cleared, NoSend
    <3>5. wsa' \in [n : Nat, k : Nat] /\ wsa'.k <= wsa'.n /\ wsa'.n = 0
        BY <3>4
    <3> QED BY <2>4, <3>2, <3>3, <3>5 DEF SinkOK
  <2>6. FlightOK'
      BY <2>2 DEF Cleared, FlightOK
  <2>7. StreamOK'
    <3>1. net' = "reset" /\ UNCHANGED <<sndq, peer, given>>
        BY <1>1, <2>1, <2>3
    <3> QED BY <1>3, <3>1 DEF StreamOK
  <2>8. EndOK'
      BY <1>1, <1>2, <1>3, <2>1, <2>4 DEF EndOK
  <2> QED BY <2>3, <2>5, <2>6, <2>7, <2>8 DEF SendInv
<1> QED BY <1>1, <1>4, <1>5

\* What is left when the sink is emptied, or dropped with all it holds.
LEMMA EmptyOut ==
    ASSUME SendInv, buf' = <<>>, Cleared, buf = <<>> \/ cut', cut => cut', cut' => own'["W"] = None,
           UNCHANGED <<peer, sndq, given, net>>
    PROVE  SendInv'
<1>0. SinkOK /\ FlightOK /\ StreamOK /\ EndOK
    BY DEF SendInv
<1>1. <<>> \in Chains /\ Len(<<>>) = 0 /\ FlattenSeq(<<>>) = <<>>
    BY EmptySeq, FlattenDef DEF Chains
<1>2. wsa' = [n |-> 0, k |-> 0] /\ Flat' = <<>>
    BY <1>1 DEF Cleared, NoSend, Flat
<1>3. wsa' \in [n : Nat, k : Nat] /\ wsa'.k = 0 /\ wsa'.n = 0
    BY <1>2
<1>4. SinkOK'
  <2>1. IovMax \in Nat
      BY TcpStreamAssumption DEF TcpStreamAssumption
  <2> QED BY <1>1, <1>2, <1>3, <2>1 DEF SinkOK
<1>5. FlightOK' /\ EndOK'
    BY DEF Cleared, FlightOK, EndOK
<1>6. StreamOK'
  <2>1. CASE cut'
      BY <1>0, <2>1 DEF StreamOK
  <2>2. CASE ~cut'
    <3>1. Flat = <<>> /\ ~cut
        BY <1>1, <2>2 DEF Flat
    <3>2. wsa.k = 0
      <4>1. wsa \in [n : Nat, k : Nat] /\ wsa.k <= wsa.n /\ wsa.n <= 0
          BY <1>0, <1>1, <3>1 DEF SinkOK
      <4> QED BY <4>1
    <3>3. From(Flat', wsa'.k) = From(Flat, wsa.k)
        BY <1>2, <1>3, <3>1, <3>2
    <3> QED BY <1>0, <3>1, <3>3 DEF StreamOK
  <2> QED BY <2>1, <2>2
<1> QED BY <1>4, <1>5, <1>6 DEF SendInv

\* A side that is given up with Frees.
LEMMA FreesOut ==
    ASSUME CtlInv, NEW os \in SUBSET Ops, Frees(os)
    PROVE  /\ "W" \in os => Cleared
           /\ "W" \notin os => ("W" \in pend' <=> "W" \in pend) /\ wsa' = wsa /\ io'["W"] = io["W"]
BY DEF Frees, Cleared, Ops

\* into_sender, into_recv and into_twoway.
LEMMA IntoOut ==
    ASSUME CtlInv, SendInv, Races = {}, NEW t, NEW f \in {"Recv", "Sender", "Split"}, Into(t, f)
    PROVE  SendInv'
<1>1. /\ Frees(GivenUp(f)) /\ form' = f /\ (f = "Recv" => buf = <<>>)
      /\ cut' = (cut \/ (f = "Recv" /\ buf # <<>>)) /\ buf' = (IF f = "Recv" THEN <<>> ELSE buf)
      /\ UNCHANGED <<own, given, peer, sndq, net, shut>>
    BY DEF Into, kernel
<1>2. cut => own["W"] = None
    BY DEF SendInv, EndOK
<1>4. CASE f = "Recv"
  <2>1. GivenUp(f) = {"W"} /\ {"W"} \in SUBSET Ops
      BY <1>4 DEF GivenUp, Ops
  <2>2. Cleared
      BY <1>1, <2>1, FreesOut
  <2>3. buf' = <<>> /\ buf = <<>> /\ (cut => cut') /\ (cut' => own'["W"] = None)
      BY <1>1, <1>2, <1>4
  <2> QED BY <1>1, <2>2, <2>3, EmptyOut
<1>5. CASE f # "Recv"
  <2>1. GivenUp(f) \in SUBSET Ops /\ "W" \notin GivenUp(f)
      BY <1>5 DEF GivenUp, Ops
  <2>2. ("W" \in pend' <=> "W" \in pend) /\ wsa' = wsa /\ io'["W"] = io["W"]
      BY <1>1, <2>1, FreesOut
  <2>3. buf' = buf /\ form' \in {"Sender", "Split"} /\ (cut' <=> cut)
      BY <1>1, <1>5
  <2> QED BY <1>1, <2>2, <2>3, KeepOut
<1> QED BY <1>4, <1>5

\* Dropping a half, or the whole stream.
LEMMA ReleaseOut ==
    ASSUME CtlInv, SendInv, NEW hs \in SUBSET Ops, Release(hs), UNCHANGED <<given, peer, sndq, net, shut>>
    PROVE  SendInv'
<1>1. /\ own' = [h \in Ops |-> IF h \in hs THEN None ELSE own[h]]
      /\ Frees(IF Lasts(hs) THEN hs ELSE Ops)
      /\ Lasts(hs) => form' = form
      /\ cut' = (cut \/ ("W" \in hs /\ buf # <<>>))
      /\ buf' = (IF "W" \in hs THEN <<>> ELSE buf)
    BY DEF Release
<1>2. (cut => own["W"] = None) /\ (own["W"] = None => buf = <<>>) /\ ("W" \in pend => form \in {"Sender", "Split"})
    BY DEF SendInv, EndOK, FlightOK
<1>3. own'["W"] = IF "W" \in hs THEN None ELSE own["W"]
    BY <1>1 DEF Ops
<1>4. Ops \in SUBSET Ops /\ "W" \in Ops
    BY DEF Ops
<1>5. CASE "W" \in hs
  <2>1. Cleared
      BY <1>1, <1>4, <1>5, FreesOut
  <2>2. buf' = <<>> /\ (buf = <<>> \/ cut') /\ (cut => cut') /\ own'["W"] = None
      BY <1>1, <1>3, <1>5
  <2> QED BY <2>1, <2>2, EmptyOut
<1>6. CASE "W" \notin hs /\ Lasts(hs)
  <2>1. ("W" \in pend' <=> "W" \in pend) /\ wsa' = wsa /\ io'["W"] = io["W"]
      BY <1>1, <1>6, FreesOut
  <2>2. buf' = buf /\ (cut' <=> cut) /\ form' = form /\ own'["W"] = own["W"]
      BY <1>1, <1>3, <1>6
  <2> QED BY <1>2, <2>1, <2>2, KeepOut
<1>7. CASE "W" \notin hs /\ ~Lasts(hs)
  <2>1. own["W"] = None
      BY <1>7 DEF Lasts, Ops
  <2>2. Cleared
      BY <1>1, <1>4, <1>7, FreesOut
  <2>3. buf' = <<>> /\ buf = <<>> /\ (cut => cut') /\ own'["W"] = None
      BY <1>1, <1>2, <1>3, <1>7, <2>1
  <2> QED BY <2>2, <2>3, EmptyOut
<1> QED BY <1>5, <1>6, <1>7

\* The event loop, and a task run for something else.
LEMMA LoopOut == ASSUME CtlInv, SendInv, EventLoop \/ (\E t \in Tasks : OtherRun(t) \/ Park(t)) PROVE SendInv'
<1>1. UNCHANGED <<form, own, pend, wsa, buf, peer, sndq, given, cut, shut, net>>
    BY DEF EventLoop, EpollWait, KeventWait, IocpWait, RunSecond, SecondEvent, OtherRun, Park,
           handle, nio, overlapped, outbound, kernel
<1>2. io["W"] = "flying" => io'["W"] = "flying"
  <2>1. CASE UNCHANGED io
      BY <2>1
  <2>2. CASE io' = [x \in Ops |-> IF io[x] = "queued" THEN "idle" ELSE io[x]]
      BY <2>2 DEF Ops
  <2> QED BY <2>1, <2>2 DEF EventLoop, EpollWait, KeventWait, IocpWait, RunSecond, SecondEvent, OtherRun, Park,
           nio, overlapped
<1>3. "W" \in pend => form \in {"Sender", "Split"}
    BY DEF SendInv, FlightOK
<1> QED BY <1>1, <1>2, <1>3, KeepOut

\* Before there is a stream nothing is sent.
LEMMA MakesOut ==
    ASSUME CtlInv, SendInv, NEW t, Makes(t) \/ (\E f \in {"Recv", "Sender", "Split"} : FromStream(t, f))
    PROVE  SendInv'
<1>1. UNCHANGED <<own, buf, peer, sndq, given, cut, shut, net>> /\ form \notin {"Sender", "Split"}
    BY DEF Makes, Listen, AcceptReady, AcceptNotReady, AcceptErr, Connect, ConnectingPoll, FinishingWaits, FinishingOk,
           FinishingErr, ConnectedPoll, ErrorPoll, FromStream, handle, outbound, kernel
<1>2. "W" \notin pend
    BY <1>1 DEF SendInv, FlightOK
<1>3. UNCHANGED wsa /\ (pend' \subseteq pend \cup {"R"})
  <2>1. CASE Register(t)
      BY <2>1 DEF Register
  <2>2. CASE UNCHANGED nio \/ UNCHANGED overlapped \/ schedule_write(t) \/ cancel_write \/ schedule_read(t)
      BY <2>2 DEF nio, overlapped, schedule_write, cancel_write, schedule_read
  <2>3. CASE Start(t, "R") /\ UNCHANGED wsa
      BY <2>3 DEF Start
  <2> QED BY <2>1, <2>2, <2>3 DEF Makes, Listen, AcceptReady, AcceptNotReady, AcceptErr, Connect, ConnectingPoll,
           FinishingWaits, FinishingOk, FinishingErr, ConnectedPoll, ErrorPoll, FromStream, AwaitRead
<1> QED BY <1>1, <1>2, <1>3, KeepOut

\* Reading, and giving a half away, leave the sink alone.
LEMMA ReadsOut ==
    ASSUME CtlInv, SendInv, NEW t,
           RecvSome(t) \/ RecvNone(t) \/ RecvErr(t) \/ RecvNotReady(t) \/ (\E h \in Ops : Spawn(t, h))
    PROVE  SendInv'
<1>1. UNCHANGED <<form, buf, peer, sndq, given, cut, shut, net>>
    BY DEF RecvSome, RecvNone, RecvErr, RecvNotReady, Spawn, handle, outbound, kernel
<1>2. "W" \in pend => form \in {"Sender", "Split"}
    BY DEF SendInv, FlightOK
<1>3. UNCHANGED wsa /\ ("W" \in pend' <=> "W" \in pend) /\ io'["W"] = io["W"]
  <2>1. CASE UNCHANGED nio \/ schedule_read(t)
      BY <2>1 DEF nio, overlapped, schedule_read
  <2>2. CASE Ends("R")
      BY <2>2 DEF Ends
  <2>3. CASE Start(t, "R") /\ UNCHANGED wsa
      BY <2>3 DEF Start, CtlInv, CtlTypes, Ops
  <2> QED BY <2>1, <2>2, <2>3 DEF RecvSome, RecvNone, RecvErr, RecvNotReady, Spawn, AwaitRead
<1>4. own["W"] = None <=> own'["W"] = None
  <2>1. CASE UNCHANGED own
      BY <2>1
  <2>2. CASE \E h \in Ops : Spawn(t, h)
    <3>1. PICK h \in Ops : Spawn(t, h)
        BY <2>2
    <3>2. own' = [own EXCEPT ![h] = B] /\ own[h] = t /\ t \in Tasks
        BY <3>1, PollFacts DEF Spawn
    <3>3. own \in [Ops -> Tasks \cup {None}] /\ B # None /\ t # None
        BY <3>2, TcpStreamAssumption DEF CtlInv, CtlTypes, TcpStreamAssumption, Tasks
    <3> QED BY <3>2, <3>3 DEF Ops
  <2> QED BY <2>1, <2>2 DEF RecvSome, RecvNone, RecvErr, RecvNotReady, handle
<1> QED BY <1>1, <1>2, <1>3, <1>4, KeepOut

\* Every step keeps the order of what is sent.
LEMMA StepSend == ASSUME CtlInv, SendInv, Races = {}, [Next]_vars PROVE SendInv'
<1>1. CASE \E k \in Segments : Arrive(k)
  <2>1. UNCHANGED <<form, own, pend, io, wsa, buf, peer, sndq, given, cut, shut, net>>
      BY <1>1 DEF Arrive, handle, nio, overlapped, outbound
  <2> QED BY <2>1, KeepOut DEF SendInv, FlightOK
<1>2. CASE \E how \in {"up", "refused"} : Answer(how)
  <2>1. UNCHANGED <<form, own, pend, io, wsa, buf, peer, sndq, given, cut, shut, net>>
      BY <1>2 DEF Answer, handle, nio, overlapped, outbound
  <2> QED BY <2>1, KeepOut DEF SendInv, FlightOK
<1>3. CASE Network
    BY <1>1, <1>2, <1>3, PeerReadsOut, PeerEndsOut, CompleteOut DEF Network
<1>4. CASE EventLoop
    BY <1>4, LoopOut
<1>5. ASSUME NEW t \in Tasks, OtherRun(t) \/ Makes(t) \/ Uses(t) \/ Park(t) \/ End(t) PROVE SendInv'
  <2>1. CASE OtherRun(t) \/ Park(t)
      BY <2>1, LoopOut
  <2>2. CASE Makes(t)
      BY <2>2, MakesOut
  <2>3. CASE End(t)
    <3>1. HeldBy(t) \in SUBSET Ops /\ Release(HeldBy(t)) /\ UNCHANGED <<given, peer, sndq, net, shut>>
        BY <2>3 DEF End, HeldBy, kernel
    <3> QED BY <3>1, ReleaseOut
  <2>4. CASE \E hs \in SUBSET Ops : DropHalves(t, hs)
    <3>1. PICK hs \in SUBSET Ops : DropHalves(t, hs)
        BY <2>4
    <3>2. Release(hs) /\ UNCHANGED <<given, peer, sndq, net, shut>>
        BY <3>1 DEF DropHalves, kernel
    <3> QED BY <3>2, ReleaseOut
  <2>5. CASE \E f \in {"Recv", "Sender", "Split"} : FromStream(t, f) \/ Into(t, f)
      BY <2>5, MakesOut, IntoOut
  <2>6. CASE RecvSome(t) \/ RecvNone(t) \/ RecvErr(t) \/ RecvNotReady(t) \/ (\E h \in Ops : Spawn(t, h))
      BY <2>6, ReadsOut
  <2>7. CASE \E k \in ItemSizes : start_send(t, k)
      BY <2>7, StartSendOut
  <2>8. CASE poll_complete(t) \/ poll_err(t) \/ close(t)
      BY <2>8, PollOut
  <2> QED BY <1>5, <2>1, <2>2, <2>3, <2>4, <2>5, <2>6, <2>7, <2>8 DEF Uses
<1>6. CASE UNCHANGED vars
  <2>1. UNCHANGED <<form, own, pend, io, wsa, buf, peer, sndq, given, cut, shut, net>>
      BY <1>6 DEF vars
  <2> QED BY <2>1, KeepOut DEF SendInv, FlightOK
<1> QED BY <1>3, <1>4, <1>5, <1>6 DEF Next


----------------------------------------------------------------------------
(* How the connection is made, and whose the errors are.                   *)

\* Steps that leave the connection alone, and what a connect waits for.
LEMMA KeepConn ==
    ASSUME ConnOK, UNCHANGED <<form, conn, net, backend>>,
           form \in {"Connecting", "Finishing"} =>
             ops' = ops /\ (sch'.wr => sch.wr) /\ (io["W"] = "flying" => io'["W"] = "flying")
    PROVE  ConnOK'
BY DEF ConnOK, Iocp

\* A stream that is connected.
LEMMA UpConn ==
    ASSUME conn' = "up", form' \notin {"None", "Finishing"}
    PROVE  ConnOK'
BY DEF ConnOK

\* A handle that never was, or no longer is, a stream.
LEMMA NoStreamConn ==
    ASSUME ConnOK, form' \in {"Incoming", "Error", "Closed"}, UNCHANGED <<conn, net>>
    PROVE  ConnOK'
BY DEF ConnOK

LEMMA NetworkConn == ASSUME CtlInv, ConnOK, Network PROVE ConnOK'
<1>1. CASE (\E k \in Segments : Arrive(k)) \/ PeerReads
    BY <1>1, KeepConn DEF Arrive, PeerReads, handle, nio, overlapped, loop
<1>2. CASE \E how \in {"closed", "reset"} : PeerEnds(how)
    BY <1>2 DEF PeerEnds, Linked, ConnOK, Iocp, handle, nio, overlapped, loop
<1>3. CASE \E how \in {"up", "refused"} : Answer(how)
    BY <1>3 DEF Answer, ConnOK, Iocp, handle, nio, overlapped, loop
<1>4. CASE \E o \in Ops : Complete(o)
  <2>1. PICK o \in Ops : Complete(o)
      BY <1>4
  <2>2. UNCHANGED <<form, ops, sch, conn, net, backend>>
      BY <2>1 DEF Complete, handle, loop
  <2>3. CASE form \notin {"Connecting", "Finishing"}
      BY <2>2, <2>3, KeepConn
  <2>4. CASE form \in {"Connecting", "Finishing"} /\ o = "W"
    <3>1. conn # "progress"
        BY <2>1, <2>4 DEF Complete, Writable
    <3> QED BY <2>2, <3>1 DEF ConnOK, Iocp
  <2>5. CASE form \in {"Connecting", "Finishing"} /\ o = "R"
    <3>1. io' = [io EXCEPT !["R"] = "queued"]
        BY <2>1, <2>5 DEF Complete
    <3>2. io'["W"] = io["W"]
        BY <3>1 DEF CtlInv, CtlTypes, Ops
    <3> QED BY <2>2, <3>2, KeepConn
  <2> QED BY <2>3, <2>4, <2>5 DEF Ops
<1> QED BY <1>1, <1>2, <1>3, <1>4 DEF Network

\* A connect that is in progress is not reported.
LEMMA LoopConn == ASSUME CtlInv, ConnOK, EventLoop \/ (\E t \in Tasks : OtherRun(t) \/ Park(t)) PROVE ConnOK'
<1>1. UNCHANGED <<form, ops, conn, net, backend>>
    BY DEF EventLoop, EpollWait, KeventWait, IocpWait, RunSecond, SecondEvent, OtherRun, Park, handle, nio, kernel
<1>2. CASE form \notin {"Connecting", "Finishing"}
    BY <1>1, <1>2, KeepConn
<1>3. CASE form \in {"Connecting", "Finishing"}
  <2>1. io["W"] = "flying" => io'["W"] = "flying"
    <3>1. CASE UNCHANGED io
        BY <3>1
    <3>2. CASE io' = [x \in Ops |-> IF io[x] = "queued" THEN "idle" ELSE io[x]]
        BY <3>2 DEF Ops
    <3> QED BY <3>1, <3>2 DEF EventLoop, EpollWait, KeventWait, IocpWait, RunSecond, SecondEvent, OtherRun, Park,
             nio, overlapped
  <2>2. CASE Iocp
      BY <1>1, <1>3, <2>1, <2>2 DEF ConnOK, Iocp
  <2>3. CASE ~Iocp /\ sch'.wr = sch.wr
      BY <1>1, <2>1, <2>3, KeepConn
  <2>4. CASE ~Iocp /\ sch'.wr # sch.wr
    <3>1. ops \subseteq {"W"}
        BY <1>3 DEF CtlInv, UseOK
    <3>2. EpollWait \/ KeventWait \/ SecondEvent
        BY <2>4 DEF EventLoop, IocpWait, RunSecond, OtherRun, Park, nio
    <3>3. ~SecondEvent
        BY <1>3, <2>4 DEF SecondEvent, CtlInv, LeftOK, CtlTypes, Iocp
    <3>4. CASE EpollWait
      <4> DEFINE ev == {o \in ops : IF o = "R" THEN Readable ELSE Writable}
      <4>1. ev # {} \/ HungUp
          BY <3>4 DEF EpollWait
      <4>2. Writable \/ HungUp
          BY <3>1, <4>1
      <4>3. conn # "progress"
          BY <1>3, <4>2 DEF Writable, HungUp, ConnOK
      <4> QED BY <1>1, <2>1, <4>3 DEF ConnOK, Iocp
    <3>5. CASE KeventWait
      <4>1. \E o \in {p \in ops : IF p = "R" THEN Readable ELSE Writable} : TRUE
          BY <3>5 DEF KeventWait
      <4>2. Writable
          BY <3>1, <4>1
      <4>3. conn # "progress"
          BY <1>3, <4>2 DEF Writable
      <4> QED BY <1>1, <2>1, <4>3 DEF ConnOK, Iocp
    <3> QED BY <3>2, <3>3, <3>4, <3>5
  <2> QED BY <2>2, <2>3, <2>4
<1> QED BY <1>2, <1>3

\* poll_accept and poll_connect: a connect is over when its side is ready.
LEMMA MakesConn == ASSUME CtlInv, ConnOK, NEW t, Makes(t) PROVE ConnOK'
<1>1. CASE Listen(t)
    BY <1>1, NoStreamConn DEF Listen, kernel
<1>2. CASE AcceptReady(t)
    BY <1>2, UpConn DEF AcceptReady, kernel
<1>3. CASE AcceptNotReady(t) \/ AcceptErr(t)
  <2>1. form = "Incoming" /\ form' = form /\ UNCHANGED <<conn, net>>
      BY <1>3 DEF AcceptNotReady, AcceptErr, handle, kernel
  <2> QED BY <2>1, NoStreamConn
<1>4. CASE \E how \in {"up", "progress", "refused"} : Connect(t, how)
  <2>1. PICK how \in {"up", "progress", "refused"} : Connect(t, how)
      BY <1>4
  <2>2. /\ form = "None" /\ conn = "idle" /\ net = "open" /\ net' = net /\ backend' = backend
        /\ conn' = (IF how = "refused" THEN conn ELSE how)
        /\ io' = (IF Iocp /\ how = "progress" THEN [io EXCEPT !.W = "flying"] ELSE io)
      BY <2>1 DEF Connect, ConnOK, loop
  <2>3. CASE how = "up"
    <3>1. form' = "Connected"
        BY <2>1, <2>3 DEF Connect
    <3> QED BY <2>2, <2>3, <3>1, UpConn
  <2>4. CASE how = "progress"
    <3>1. form' = "Connecting"
        BY <2>1, <2>4 DEF Connect
    <3>2. Iocp => io'["W"] = "flying"
        BY <2>2, <2>4 DEF CtlInv, CtlTypes, Ops
    <3> QED BY <2>2, <2>4, <3>1, <3>2 DEF ConnOK, Iocp
  <2>5. CASE how = "refused"
    <3>1. form' = "Error"
        BY <2>1, <2>5 DEF Connect
    <3> QED BY <2>2, <2>5, <3>1, NoStreamConn
  <2> QED BY <2>3, <2>4, <2>5
<1>5. CASE ConnectingPoll(t)
  <2>1. /\ form = "Connecting" /\ form' = "Finishing" /\ UNCHANGED <<conn, net, backend>>
        /\ IF Iocp THEN UNCHANGED io ELSE schedule_write(t)
      BY <1>5 DEF ConnectingPoll, loop, kernel, overlapped
  <2>2. ops = {} /\ sch \in [R : Tasks, W : Tasks, rr : BOOLEAN, wr : BOOLEAN]
      BY <2>1 DEF CtlInv, CtlTypes, UseOK
  <2>3. ~Iocp => "W" \in ops' /\ ~sch'.wr
      BY <2>1, <2>2 DEF schedule_write
  <2> QED BY <2>1, <2>3 DEF ConnOK, Iocp
<1>6. CASE FinishingWaits(t)
    BY <1>6, KeepConn DEF FinishingWaits, handle, nio, overlapped, loop, kernel
<1>7. CASE FinishingOk(t)
  <2>1. form = "Finishing" /\ is_write_ready /\ conn # "refused" /\ form' = "Sender" /\ UNCHANGED conn
      BY <1>7 DEF FinishingOk, Becomes, kernel
  <2>2. conn # "progress"
    <3>1. CASE Iocp
      <4>1. sch.wr
          BY <2>1, <3>1 DEF is_write_ready
      <4>2. ~InUse("W")
          BY <2>1, <3>1, <4>1 DEF CtlInv, PortOK, HasNio
      <4> QED BY <2>1, <3>1, <4>2 DEF InUse, ConnOK
    <3>2. CASE ~Iocp
        BY <2>1, <3>2 DEF ConnOK, is_write_ready
    <3> QED BY <3>1, <3>2
  <2>3. conn = "up"
      BY <2>1, <2>2 DEF ConnOK
  <2> QED BY <2>1, <2>3, UpConn
<1>8. CASE FinishingErr(t) \/ ErrorPoll(t)
    BY <1>8, NoStreamConn DEF FinishingErr, ErrorPoll, Becomes, kernel
<1>9. CASE ConnectedPoll(t)
  <2>1. conn' = "up" /\ form' = "Sender"
      BY <1>9 DEF ConnectedPoll, Becomes, kernel, ConnOK
  <2> QED BY <2>1, UpConn
<1> QED BY <1>1, <1>2, <1>3, <1>4, <1>5, <1>6, <1>7, <1>8, <1>9 DEF Makes

\* A task that lets a side go keeps the stream if the other side is still held.
LEMMA ReleaseConn ==
    ASSUME CtlInv, ConnOK, NEW hs \in SUBSET Ops, Release(hs), UNCHANGED <<conn, net>>,
           Lasts(hs) => form \in {"Split", "Closed"}
    PROVE  ConnOK'
<1>1. CASE Lasts(hs) /\ form = "Split"
  <2>1. conn' = "up" /\ form' = "Split"
      BY <1>1 DEF Release, ConnOK
  <2> QED BY <2>1, UpConn
<1>2. CASE (Lasts(hs) => form = "Closed")
  <2>1. form' = "Closed"
      BY <1>2 DEF Release
  <2> QED BY <2>1, NoStreamConn
<1> QED BY <1>1, <1>2

LEMMA UsesConn == ASSUME CtlInv, ConnOK, NEW t, Uses(t) \/ End(t) PROVE ConnOK'
<1>1. CASE \E f \in {"Recv", "Sender", "Split"} : FromStream(t, f) \/ Into(t, f)
  <2>1. conn' = "up" /\ form' \in {"Recv", "Sender", "Split"}
      BY <1>1 DEF FromStream, Into, kernel, ConnOK
  <2> QED BY <2>1, UpConn
<1>2. CASE \/ (\E h \in Ops : Spawn(t, h)) \/ RecvSome(t) \/ RecvNone(t) \/ RecvErr(t) \/ RecvNotReady(t)
           \/ (\E k \in ItemSizes : start_send(t, k)) \/ poll_complete(t) \/ poll_err(t) \/ close(t)
  <2>1. form \in {"Recv", "Sender", "Split"} /\ form' = form /\ conn' = conn
      BY <1>2 DEF Spawn, Receives, RecvSome, RecvNone, RecvErr, RecvNotReady, Sends, start_send, poll_complete, poll_err,
                  close, SendRest, handle, kernel
  <2>2. conn' = "up"
      BY <2>1 DEF ConnOK
  <2> QED BY <2>1, <2>2, UpConn
<1>3. CASE \E hs \in SUBSET Ops : DropHalves(t, hs)
  <2>1. PICK hs \in SUBSET Ops : DropHalves(t, hs)
      BY <1>3
  <2>2. Release(hs) /\ UNCHANGED <<conn, net>> /\ (hs # Ops => form = "Split")
      BY <2>1 DEF DropHalves, kernel
  <2>3. Lasts(hs) => form = "Split"
      BY <2>2 DEF Lasts
  <2> QED BY <2>2, <2>3, ReleaseConn
<1>4. CASE End(t)
  <2>1. Release(HeldBy(t)) /\ UNCHANGED <<conn, net>> /\ Polls(t) /\ HeldBy(t) \in SUBSET Ops
      BY <1>4 DEF End, HeldBy, kernel
  <2>2. ASSUME form \notin {"Split", "Closed"} PROVE ~Lasts(HeldBy(t))
    <3>1. t = A /\ own["R"] = A /\ own["W"] = A
        BY <2>1, <2>2, PollFacts DEF CtlInv, StageOK
    <3> QED BY <3>1 DEF Lasts, HeldBy, Ops
  <2> QED BY <2>1, <2>2, ReleaseConn
<1> QED BY <1>1, <1>2, <1>3, <1>4 DEF Uses

LEMMA StepConn == ASSUME CtlInv, ConnOK, [Next]_vars PROVE ConnOK'
<1>1. CASE UNCHANGED vars
    BY <1>1, KeepConn DEF vars
<1> QED BY <1>1, NetworkConn, LoopConn, MakesConn, UsesConn DEF Next

\* What an error is blamed on stays as it is.
LEMMA BlameStays ==
    ASSUME CtlInv, ConnOK, [Next]_vars
    PROVE  /\ net = "reset" => net' = "reset"
           /\ conn = "refused" => conn' = "refused"
           /\ form = "Closed" => form' = "Closed"
<1>1. CASE Network
    BY <1>1 DEF Network, Arrive, PeerReads, PeerEnds, Answer, Complete, handle
<1>2. CASE EventLoop \/ (\E t \in Tasks : OtherRun(t) \/ Park(t))
    BY <1>2 DEF EventLoop, EpollWait, KeventWait, IocpWait, RunSecond, SecondEvent, OtherRun, Park, handle, kernel
<1>3. ASSUME NEW t \in Tasks, Makes(t)
      PROVE  /\ net = "reset" => net' = "reset"
             /\ conn = "refused" => conn' = "refused"
             /\ form = "Closed" => form' = "Closed"
    BY <1>3 DEF Makes, Listen, AcceptReady, AcceptNotReady, AcceptErr, Connect, ConnectingPoll, FinishingWaits, FinishingOk,
           FinishingErr, ConnectedPoll, ErrorPoll, kernel, ConnOK
<1>4. ASSUME NEW t \in Tasks, Uses(t) \/ End(t)
      PROVE  UNCHANGED <<net, conn>> /\ (form = "Closed" => form' = "Closed")
  <2>1. CASE \E f \in {"Recv", "Sender", "Split"} : FromStream(t, f) \/ Into(t, f)
      BY <2>1 DEF FromStream, Into, kernel
  <2>2. CASE \/ (\E h \in Ops : Spawn(t, h)) \/ RecvSome(t) \/ RecvNone(t) \/ RecvErr(t) \/ RecvNotReady(t)
             \/ (\E k \in ItemSizes : start_send(t, k)) \/ poll_complete(t) \/ poll_err(t) \/ close(t)
      BY <2>2 DEF Spawn, RecvSome, RecvNone, RecvErr, RecvNotReady, start_send, poll_complete, poll_err,
                  close, SendRest, handle, kernel
  <2>3. CASE (\E hs \in SUBSET Ops : DropHalves(t, hs)) \/ End(t)
      BY <2>3 DEF DropHalves, End, Release, kernel
  <2> QED BY <1>4, <2>1, <2>2, <2>3 DEF Uses
<1>5. CASE UNCHANGED vars
    BY <1>5 DEF vars
<1> QED BY <1>1, <1>2, <1>3, <1>4, <1>5 DEF Next

\* A program meets an error when the network has failed, or its connect has.
LEMMA StepFail == ASSUME CtlInv, OutInv, Races = {}, [Next]_vars PROVE FailOK'
<1>0. SendInv /\ ConnOK /\ FailOK
    BY DEF OutInv
<1>1. failed' => failed \/ net = "reset" \/ form' = "Closed"
  <2>1. CASE Network \/ EventLoop
      BY <2>1 DEF Network, Arrive, PeerReads, PeerEnds, Answer, Complete, EventLoop, EpollWait, KeventWait, IocpWait,
                  RunSecond, SecondEvent
  <2>2. ASSUME NEW t \in Tasks, OtherRun(t) \/ Makes(t) \/ Park(t) \/ End(t)
        PROVE  failed' => failed \/ form' = "Closed"
      BY <2>2 DEF OtherRun, Park, End, Makes, Listen, AcceptReady, AcceptNotReady, AcceptErr, Connect, ConnectingPoll,
                  FinishingWaits, FinishingOk, FinishingErr, ConnectedPoll, ErrorPoll, Becomes
  <2>3. ASSUME NEW t \in Tasks, Uses(t)
        PROVE  failed' => failed \/ net = "reset"
    <3>1. CASE RecvErr(t)
        BY <3>1 DEF RecvErr
    <3>2. CASE poll_err(t)
        BY <1>0, <3>2, PollOut
    <3> QED BY <2>3, <3>1, <3>2 DEF Uses, FromStream, Into, Spawn, RecvSome, RecvNone, RecvNotReady, start_send,
               poll_complete, close, DropHalves
  <2>4. CASE UNCHANGED vars
      BY <2>4 DEF vars
  <2> QED BY <2>1, <2>2, <2>3, <2>4 DEF Next
<1> QED BY <1>0, <1>1, BlameStays DEF FailOK

LEMMA StepOut == ASSUME CtlInv, OutInv, Races = {}, [Next]_vars PROVE OutInv'
BY StepSend, StepConn, StepFail DEF OutInv

LEMMA InitOut == Init => OutInv
<1> SUFFICES ASSUME Init PROVE OutInv
    OBVIOUS
<1>1. <<>> \in Chains /\ Len(<<>>) = 0 /\ FlattenSeq(<<>>) = <<>> /\ <<>> \in Seq(Nat) /\ <<>> \o <<>> = <<>>
    BY EmptySeq, FlattenDef DEF Chains
<1>2. Flat = <<>> /\ wsa = [n |-> 0, k |-> 0] /\ buf = <<>>
    BY <1>1 DEF Init, Flat, NoSend
<1>3. SinkOK
  <2>1. IovMax \in Nat
      BY TcpStreamAssumption DEF TcpStreamAssumption
  <2> QED BY <1>1, <1>2, <2>1 DEF SinkOK
<1>4. FlightOK /\ EndOK /\ ConnOK /\ FailOK
    BY DEF Init, FlightOK, EndOK, ConnOK, FailOK
<1>5. StreamOK
  <2>1. peer = <<>> /\ sndq = <<>> /\ given = 0
      BY DEF Init
  <2>2. From(Flat, wsa.k) = <<>> /\ Up(0) = <<>>
      BY <1>1, <1>2, FromEnds, UpFacts DEF Up
  <2> QED BY <1>1, <2>1, <2>2 DEF StreamOK
<1> QED BY <1>3, <1>4, <1>5 DEF OutInv, SendInv

\* For every size of items, of the send buffer and of what a write takes, on each event
\* queue: what the program gives to start_send is, in order and each byte once, what the
\* peer has, then what is on the way, then what the sink still holds, until the connection
\* breaks or the sink is dropped; shutdown follows the last byte; nothing is sent before
\* connect is done; an error is the network's.  The program keeps clear of the races.
THEOREM StreamOutIntact == ASSUME Races = {} PROVE Spec => []OutIntact
<1>1. Orderly
    BY DEF Orderly
<1>2. CtlInv /\ OutInv /\ [Next]_vars => (CtlInv /\ OutInv)'
    BY <1>1, StepCtl, StepOut
<1>3. OutInv => OutIntact
  <2> SUFFICES ASSUME OutInv PROVE OutIntact
      OBVIOUS
  <2>1. net # "reset" /\ ~cut =>
          peer \o sndq \o SubSeq(FlattenSeq(buf), wsa.k + 1, Len(FlattenSeq(buf))) = Up(given)
      BY DEF OutInv, SendInv, StreamOK, From, Flat
  <2>2. \A i \in DOMAIN peer : peer[i] = i
    <3>1. peer \in Seq(Nat) /\ sndq \in Seq(Nat) /\ \A i \in 1..Len(peer \o sndq) : (peer \o sndq)[i] = i
        BY DEF OutInv, SendInv, StreamOK
    <3>2. DOMAIN peer = 1..Len(peer) /\ Len(peer) \in Nat /\ Len(sndq) \in Nat /\ Len(peer \o sndq) = Len(peer) + Len(sndq)
          /\ \A i \in 1..Len(peer) : i \in 1..Len(peer) + Len(sndq) /\ (peer \o sndq)[i] = peer[i]
        BY <3>1, LenProperties, ConcatProperties
    <3> QED BY <3>1, <3>2
  <2>3. shut => buf = <<>>
      BY DEF OutInv, SendInv, EndOK
  <2>4. (form \in {"Sender", "Recv", "Split"} => conn = "up")
        /\ (failed => net = "reset" \/ conn = "refused" \/ form = "Closed")
      BY DEF OutInv, ConnOK, FailOK
  <2> QED BY <2>1, <2>2, <2>3, <2>4 DEF OutIntact
<1> QED BY <1>2, <1>3, InitCtl, InitOut, PTL DEF Spec
=============================================================================

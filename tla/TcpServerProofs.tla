--------------------------- MODULE TcpServerProofs ---------------------------
(***************************************************************************)
(* The counters of the server thread are exact whenever it looks at them,  *)
(* for any number of workers, places and connections.  The counter of a    *)
(* worker is checked, the connection handed over and the counter           *)
(* incremented in three steps, while sessions of that worker end: between  *)
(* the last two it is one behind what the worker has, modulo the word,     *)
(* and a session that ends then takes it below zero.                       *)
(***************************************************************************)
EXTENDS TcpServer, FiniteSetTheorems, FunctionTheorems, SequenceTheorems, TLAPS

PCs == {"idle", "look", "send", "inc", "drop", "join", "gone"}

TypeOK ==
    /\ single \in BOOLEAN /\ stopped \in BOOLEAN
    /\ pc \in PCs /\ conn \in 0..MaxConns /\ at \in Workers /\ idx \in Workers
    /\ arrived \in 0..MaxConns /\ fails \in Nat
    /\ count \in [Workers -> 0..Word - 1]
    /\ chan \in [Workers -> Seq(Conns)]
    /\ tx \in [Workers -> BOOLEAN]
    /\ thread \in [Workers -> {"run", "empty", "closing", "gone"}]
    /\ sessions \in [Workers -> SUBSET Conns] /\ lost \in [Workers -> SUBSET Conns]
    /\ gated \subseteq Conns /\ refused \subseteq Conns /\ cut \subseteq Conns

InChan(w) == Range(chan[w])

\* The server thread has a connection in hand that no one else knows.
InHand == pc \in {"look", "send"}
Seen == IF InHand THEN arrived - 1 ELSE arrived

\* With one worker nothing goes through the steps of Inner::run.
SingleOK == single => pc = "idle" /\ \A w \in Workers : chan[w] = <<>> /\ lost[w] = {}

HandOK == InHand => arrived >= 1 /\ conn = arrived

\* Only connections that were handed over (or refused) are anywhere.
KnownOK ==
    /\ \A w \in Workers : /\ sessions[w] \subseteq 1..Seen /\ lost[w] \subseteq 1..Seen
                          /\ InChan(w) \subseteq 1..Seen
    /\ cut \subseteq 1..Seen /\ refused \subseteq 1..Seen

\* What waits in a channel is nowhere else, and waits once.
ApartOK ==
    /\ \A v, w \in Workers : InChan(w) \cap (sessions[v] \cup lost[v] \cup cut) = {}
    /\ \A v, w \in Workers : v # w => InChan(v) \cap InChan(w) = {}
    /\ \A w \in Workers : \A j, k \in DOMAIN chan[w] : chan[w][j] = chan[w][k] => j = k

\* All the places of worker w that are taken, lost ones included, and those taken for
\* refused connections.
Taken(w) == Cardinality(sessions[w]) + Len(chan[w]) + Cardinality(lost[w])
Wasted(w) == IF single /\ w = 0 THEN Cardinality(refused) ELSE 0

\* A connection of worker w is handed over and not counted yet.
Pending(w) == IF pc = "inc" /\ at = w THEN 1 ELSE 0

\* The counter c is behind the total t by p, modulo Word.
Behind(c, p, t) == c + p = t \/ (p = 1 /\ t = 0 /\ c = Word - 1)

CountOK ==
    \A w \in Workers : /\ Taken(w) <= WorkerConns
                       /\ Taken(w) + Wasted(w) <= Seen
                       /\ Behind(count[w], Pending(w), Taken(w) + Wasted(w))

\* The place that was found free is still free when the connection is handed over.
SendOK == pc = "send" => Taken(at) < WorkerConns

LossOK == \A w \in Workers : Receiving(w) => lost[w] = {}

GateOK == cut \cap gated = {}

ServerInv ==
    /\ TypeOK /\ SingleOK /\ HandOK /\ KnownOK /\ ApartOK
    /\ CountOK /\ SendOK /\ LossOK /\ GateOK

----------------------------------------------------------------------------
(* Arithmetic on the counters, and finite sets.                            *)

\* The constants, as numbers.
LEMMA Numbers ==
    /\ NumWorkers \in Nat /\ NumWorkers > 1 /\ WorkerConns \in Nat /\ WorkerConns > 0
    /\ MaxConns \in Nat /\ Word \in Nat /\ MaxConns < Word
BY ServerAssumption

\* fetch_add and fetch_sub on a usize, one or k at a time, without the modulus.
LEMMA PlusFacts ==
    ASSUME NEW n \in 0..Word - 1
    PROVE  /\ Plus(n, 1) = IF n = Word - 1 THEN 0 ELSE n + 1
           /\ \A k \in 0..Word - 1 : Plus(n, Word - k) = IF n < k THEN n + Word - k ELSE n - k
           /\ Release(n) = IF n = 0 THEN Word - 1 ELSE n - 1
<1>1. Word \in Nat /\ Word > 0
    BY Numbers
<1>2. Plus(n, 1) = IF n = Word - 1 THEN 0 ELSE n + 1
    BY <1>1 DEF Plus
<1>3. ASSUME NEW k \in 0..Word - 1
      PROVE  Plus(n, Word - k) = IF n < k THEN n + Word - k ELSE n - k
    BY <1>1 DEF Plus
<1>4. Release(n) = IF n = 0 THEN Word - 1 ELSE n - 1
    BY <1>1 DEF Release, Plus
<1> QED BY <1>2, <1>3, <1>4

\* The sets of a state are finite, and its counts are numbers.
LEMMA CountFacts ==
    ASSUME TypeOK, NEW w \in Workers
    PROVE  /\ IsFiniteSet(sessions[w]) /\ IsFiniteSet(lost[w]) /\ IsFiniteSet(refused)
           /\ Cardinality(sessions[w]) \in Nat /\ Cardinality(lost[w]) \in Nat
           /\ Cardinality(refused) \in Nat /\ Wasted(w) \in Nat
           /\ Len(chan[w]) \in Nat /\ DOMAIN chan[w] = 1..Len(chan[w]) /\ chan[w] \in Seq(Conns)
           /\ Taken(w) \in Nat /\ count[w] \in 0..Word - 1 /\ Pending(w) \in 0..1
           /\ arrived \in Nat /\ Seen \in Int
<1>1. IsFiniteSet(Conns)
    BY FS_Interval, Numbers DEF Conns
<1>2. /\ sessions[w] \subseteq Conns /\ lost[w] \subseteq Conns /\ refused \subseteq Conns
      /\ chan[w] \in Seq(Conns) /\ count[w] \in 0..Word - 1
    BY DEF TypeOK
<1>3. IsFiniteSet(sessions[w]) /\ IsFiniteSet(lost[w]) /\ IsFiniteSet(refused)
    BY <1>1, <1>2, FS_Subset
<1>4. /\ Cardinality(sessions[w]) \in Nat /\ Cardinality(lost[w]) \in Nat
      /\ Cardinality(refused) \in Nat
    BY <1>3, FS_CardinalityType
<1>5. Len(chan[w]) \in Nat /\ DOMAIN chan[w] = 1..Len(chan[w])
    BY <1>2, LenProperties
<1>6. Taken(w) \in Nat /\ Wasted(w) \in Nat /\ Pending(w) \in 0..1
    BY <1>4, <1>5 DEF Taken, Wasted, Pending
<1>7. arrived \in Nat /\ Seen \in Int
    BY Numbers DEF TypeOK, Seen
<1> QED BY <1>2, <1>3, <1>4, <1>5, <1>6, <1>7

\* A step that moves no connection and leaves the counters alone keeps the counting.
LEMMA Quiet ==
    ASSUME ServerInv,
           UNCHANGED <<single, count, chan, sessions, refused, lost, cut, gated>>,
           Seen' = Seen, \A w \in Workers : Pending(w)' = Pending(w),
           \A w \in Workers : Receiving(w)' => Receiving(w)
    PROVE  KnownOK' /\ ApartOK' /\ CountOK' /\ LossOK' /\ GateOK'
<1>1. \A w \in Workers : /\ InChan(w)' = InChan(w) /\ Taken(w)' = Taken(w)
                         /\ Wasted(w)' = Wasted(w)
    BY DEF InChan, Taken, Wasted
<1>2. KnownOK'
    BY <1>1 DEF ServerInv, KnownOK
<1>3. ApartOK'
    BY <1>1 DEF ServerInv, ApartOK
<1>4. CountOK'
  <2> SUFFICES ASSUME NEW w \in Workers
               PROVE  /\ Taken(w)' <= WorkerConns /\ Taken(w)' + Wasted(w)' <= Seen'
                      /\ Behind(count'[w], Pending(w)', Taken(w)' + Wasted(w)')
      BY DEF CountOK, Behind
  <2>1. /\ Taken(w) <= WorkerConns /\ Taken(w) + Wasted(w) <= Seen
        /\ Behind(count[w], Pending(w), Taken(w) + Wasted(w))
      BY DEF ServerInv, CountOK
  <2> QED BY <1>1, <2>1
<1>5. LossOK' /\ GateOK'
    BY DEF ServerInv, LossOK, GateOK
<1> QED BY <1>2, <1>3, <1>4, <1>5

\* accept: the connection is in the server thread's hand.
LEMMA AcceptInv ==
    ASSUME ServerInv, Accept
    PROVE  ServerInv'
<1>1. TypeOK'
    BY Numbers DEF ServerInv, Accept, TypeOK, PCs, Conns
<1>2. SingleOK' /\ HandOK' /\ SendOK'
    BY Numbers DEF ServerInv, Accept, TypeOK, SingleOK, HandOK, SendOK, InHand
<1>3. Seen' = Seen
    BY Numbers DEF ServerInv, Accept, TypeOK, Seen, InHand
<1>4. \A w \in Workers : Pending(w)' = Pending(w) /\ (Receiving(w)' => Receiving(w))
    BY DEF Accept, Pending, Receiving
<1>5. KnownOK' /\ ApartOK' /\ CountOK' /\ LossOK' /\ GateOK'
    BY <1>3, <1>4, Quiet DEF Accept
<1> QED BY <1>1, <1>2, <1>5 DEF ServerInv

\* Steps that only move the server thread from a state in which it has no connection in
\* hand, or a worker between waiting and looking.
LEMMA IdleInv ==
    ASSUME ServerInv,
           \/ Stop \/ StopMulti \/ DropWorker \/ UNCHANGED vars
           \/ \E w \in Workers : FindEmpty(w) \/ Wait(w)
    PROVE  ServerInv'
<1>1. CASE Stop \/ StopMulti \/ DropWorker \/ UNCHANGED vars
  <2>1. TypeOK'
    <3>1. 0 \in Workers
        BY Numbers DEF Workers
    <3>2. CASE Stop
        BY <3>2 DEF ServerInv, Stop, threadVars, history, TypeOK
    <3>3. CASE StopMulti
        BY <3>1, <3>3 DEF ServerInv, StopMulti, history, TypeOK, PCs
    <3>4. CASE DropWorker
        BY <3>4 DEF ServerInv, DropWorker, history, TypeOK, PCs
    <3>5. CASE UNCHANGED vars
        BY <3>5 DEF ServerInv, vars, threadVars, history, TypeOK
    <3> QED BY <1>1, <3>2, <3>3, <3>4, <3>5
  <2>2. SingleOK' /\ HandOK'
      BY <1>1 DEF ServerInv, Stop, StopMulti, DropWorker, vars, threadVars, history, SingleOK, HandOK, InHand
  <2>3. Seen' = Seen
      BY <1>1 DEF Stop, StopMulti, DropWorker, vars, threadVars, history, Seen, InHand
  <2>4. \A w \in Workers : Pending(w)' = Pending(w) /\ (Receiving(w)' => Receiving(w))
      BY <1>1 DEF Stop, StopMulti, DropWorker, vars, threadVars, history, Pending, Receiving
  <2>5. SendOK'
      BY <1>1 DEF ServerInv, Stop, StopMulti, DropWorker, vars, threadVars, history, SendOK, Taken
  <2>6. UNCHANGED <<single, count, chan, sessions, refused, lost, cut, gated>>
      BY <1>1 DEF Stop, StopMulti, DropWorker, vars, threadVars, history
  <2> QED BY <2>1, <2>2, <2>3, <2>4, <2>5, <2>6, Quiet DEF ServerInv
<1>2. ASSUME NEW w \in Workers, FindEmpty(w) \/ Wait(w) PROVE ServerInv'
  <2>1. TypeOK'
      BY <1>2 DEF ServerInv, FindEmpty, Wait, threadVars, history, TypeOK
  <2>2. SingleOK' /\ HandOK'
      BY <1>2 DEF ServerInv, FindEmpty, Wait, threadVars, history, SingleOK, HandOK, InHand
  <2>3. Seen' = Seen
      BY <1>2 DEF FindEmpty, Wait, threadVars, history, Seen, InHand
  <2>4. \A v \in Workers : Pending(v)' = Pending(v) /\ (Receiving(v)' => Receiving(v))
      BY <1>2 DEF ServerInv, TypeOK, FindEmpty, Wait, threadVars, history, Pending, Receiving
  <2>5. SendOK'
      BY <1>2 DEF ServerInv, FindEmpty, Wait, threadVars, history, SendOK, Taken
  <2>6. UNCHANGED <<single, count, chan, sessions, refused, lost, cut, gated>>
      BY <1>2 DEF FindEmpty, Wait, history
  <2> QED BY <2>1, <2>2, <2>3, <2>4, <2>5, <2>6, Quiet DEF ServerInv
<1> QED BY <1>1, <1>2

\* The counter of worker w, in a state in which nothing of it is pending.
LEMMA Exact ==
    ASSUME ServerInv, NEW w \in Workers, ~single, pc # "inc"
    PROVE  count[w] = Taken(w) /\ Taken(w) <= WorkerConns
<1>1. Wasted(w) = 0 /\ Pending(w) = 0
    BY DEF Wasted, Pending
<1>2. Behind(count[w], Pending(w), Taken(w) + Wasted(w)) /\ Taken(w) <= WorkerConns
    BY DEF ServerInv, CountOK
<1>3. Taken(w) \in Nat /\ count[w] \in 0..Word - 1
    BY CountFacts DEF ServerInv
<1> QED BY <1>1, <1>2, <1>3, Numbers DEF Behind

\* The next worker in turn.
LEMMA NextWorker == ASSUME NEW w \in Workers PROVE (w + 1) % NumWorkers \in Workers
BY Numbers DEF Workers

\* The look at a worker's counter: the place it finds free is free.
LEMMA LookInv ==
    ASSUME ServerInv, Look
    PROVE  ServerInv'
<1>1. /\ pc = "look" /\ ~single /\ InHand /\ at \in Workers /\ idx \in Workers
      /\ conn = arrived /\ arrived >= 1 /\ arrived \in 0..MaxConns
    BY DEF ServerInv, Look, SingleOK, HandOK, TypeOK, InHand
<1>2. (at + 1) % NumWorkers \in Workers
    BY <1>1, NextWorker
<1>3. /\ UNCHANGED <<single, conn, stopped, count, chan, tx, thread, sessions, arrived, gated, lost,
                     cut, fails>>
      /\ pc' \in {"look", "send", "idle"} /\ at' \in Workers /\ idx' \in Workers
    BY <1>1, <1>2 DEF Look
<1>4. /\ refused' \subseteq Conns /\ refused' \subseteq refused \cup {conn}
      /\ pc' # "idle" => refused' = refused
  <2>1. conn \in Conns
      BY <1>1, Numbers DEF Conns
  <2>2. refused \subseteq Conns
      BY DEF ServerInv, TypeOK
  <2>3. refused' = refused \/ (refused' = refused \cup {conn} /\ pc' = "idle")
      BY DEF Look
  <2> QED BY <2>1, <2>2, <2>3
<1>5. TypeOK'
    BY <1>3, <1>4 DEF ServerInv, TypeOK, PCs
<1>6. SingleOK' /\ HandOK'
    BY <1>1, <1>3 DEF SingleOK, HandOK
<1>7. SendOK'
  <2> SUFFICES ASSUME pc' = "send" PROVE Taken(at)' < WorkerConns
      BY DEF SendOK
  <2>1. at' = at /\ count[at] < WorkerConns
      BY <1>1 DEF Look, HasPlace
  <2>2. count[at] = Taken(at)
      BY <1>1, Exact
  <2> QED BY <1>3, <2>1, <2>2 DEF Taken
<1>8. \A w \in Workers : Pending(w)' = Pending(w) /\ (Receiving(w)' => Receiving(w))
    BY <1>1, <1>3 DEF Pending, Receiving
<1>9. CASE pc' # "idle"
  <2>1. Seen' = Seen
      BY <1>1, <1>3, <1>9 DEF Seen, InHand
  <2>2. refused' = refused
      BY <1>4, <1>9
  <2>3. KnownOK' /\ ApartOK' /\ CountOK' /\ LossOK' /\ GateOK'
      BY <1>3, <1>8, <2>1, <2>2, Quiet
  <2> QED BY <1>5, <1>6, <1>7, <2>3 DEF ServerInv
<1>10. CASE pc' = "idle"
  <2>1. Seen = arrived - 1 /\ Seen' = arrived /\ conn \in 1..arrived
      BY <1>1, <1>3, <1>10, Numbers DEF Seen, InHand
  <2>2. 1..Seen \subseteq 1..Seen'
      BY <1>1, <2>1
  <2>3. \A w \in Workers : /\ InChan(w)' = InChan(w) /\ Taken(w)' = Taken(w)
                           /\ Wasted(w) = 0 /\ Wasted(w)' = 0
      BY <1>1, <1>3 DEF InChan, Taken, Wasted
  <2>4. KnownOK'
    <3>1. KnownOK
        BY DEF ServerInv
    <3>2. refused' \subseteq 1..Seen'
        BY <1>4, <2>1, <2>2, <3>1 DEF KnownOK
    <3> QED BY <1>3, <2>2, <2>3, <3>1, <3>2 DEF KnownOK
  <2>5. ApartOK' /\ LossOK' /\ GateOK'
      BY <1>3, <1>8, <2>3 DEF ServerInv, ApartOK, LossOK, GateOK
  <2>6. CountOK'
    <3> SUFFICES ASSUME NEW w \in Workers
                 PROVE  /\ Taken(w)' <= WorkerConns /\ Taken(w)' + Wasted(w)' <= Seen'
                        /\ Behind(count'[w], Pending(w)', Taken(w)' + Wasted(w)')
        BY DEF CountOK, Behind
    <3>1. /\ Taken(w) <= WorkerConns /\ Taken(w) + Wasted(w) <= Seen
          /\ Behind(count[w], Pending(w), Taken(w) + Wasted(w))
        BY DEF ServerInv, CountOK
    <3>2. Taken(w) \in Nat
        BY CountFacts DEF ServerInv
    <3>3. Taken(w)' + Wasted(w)' <= Seen'
        BY <1>1, <2>1, <2>3, <3>1, <3>2
    <3> QED BY <1>3, <1>8, <2>3, <3>1, <3>3
  <2> QED BY <1>5, <1>6, <1>7, <2>4, <2>5, <2>6 DEF ServerInv
<1> QED BY <1>9, <1>10

\* inc_conn_count: the counter catches up, from usize::MAX too.
LEMMA IncInv ==
    ASSUME ServerInv, Inc
    PROVE  ServerInv'
<1>1. pc = "inc" /\ pc' = "idle" /\ ~single /\ at \in Workers
    BY DEF ServerInv, Inc, SingleOK, TypeOK
<1>2. /\ UNCHANGED <<single, conn, at, idx, stopped, chan, tx, thread, sessions, arrived, gated,
                     refused, lost, cut, fails>>
      /\ count' = [count EXCEPT ![at] = Plus(@, 1)]
    BY DEF Inc, history
<1>3. count[at] \in 0..Word - 1 /\ Taken(at) \in Nat /\ arrived \in 0..MaxConns
    BY <1>1, CountFacts DEF ServerInv, TypeOK
<1>4. Plus(count[at], 1) = IF count[at] = Word - 1 THEN 0 ELSE count[at] + 1
    BY <1>3, PlusFacts
<1>5. Plus(count[at], 1) \in 0..Word - 1
    BY <1>3, <1>4, Numbers
<1>6. TypeOK'
    BY <1>1, <1>2, <1>5 DEF ServerInv, TypeOK, PCs
<1>7. SingleOK' /\ HandOK' /\ SendOK'
    BY <1>1, <1>2 DEF SingleOK, HandOK, SendOK, InHand
<1>8. /\ Seen = arrived /\ Seen' = Seen
      /\ \A w \in Workers : /\ InChan(w)' = InChan(w) /\ Taken(w)' = Taken(w)
                            /\ Wasted(w) = 0 /\ Wasted(w)' = 0
                            /\ (Receiving(w)' => Receiving(w))
    BY <1>1, <1>2 DEF Seen, InHand, InChan, Taken, Wasted, Receiving
<1>9. KnownOK' /\ ApartOK' /\ LossOK' /\ GateOK'
    BY <1>2, <1>8 DEF ServerInv, KnownOK, ApartOK, LossOK, GateOK
<1>10. CountOK'
  <2> SUFFICES ASSUME NEW w \in Workers
               PROVE  /\ Taken(w)' <= WorkerConns /\ Taken(w)' + Wasted(w)' <= Seen'
                      /\ Behind(count'[w], Pending(w)', Taken(w)' + Wasted(w)')
      BY DEF CountOK, Behind
  <2>1. /\ Taken(w) <= WorkerConns /\ Taken(w) + Wasted(w) <= Seen
        /\ Behind(count[w], Pending(w), Taken(w) + Wasted(w))
      BY DEF ServerInv, CountOK
  <2>2. Pending(w)' = 0
      BY <1>1 DEF Pending
  <2>3. CASE w = at
    <3>1. Pending(w) = 1 /\ count'[w] = Plus(count[at], 1)
        BY <1>1, <1>2, <2>3 DEF Pending, ServerInv, TypeOK
    <3>2. count'[w] = Taken(w)
        BY <1>3, <1>4, <1>8, <2>1, <2>3, <3>1, Numbers DEF Behind
    <3> QED BY <1>3, <1>8, <2>1, <2>2, <2>3, <3>2 DEF Behind
  <2>4. CASE w # at
    <3>1. Pending(w) = 0 /\ count'[w] = count[w]
        BY <1>1, <1>2, <2>4 DEF Pending, ServerInv, TypeOK
    <3> QED BY <1>8, <2>1, <2>2, <3>1
  <2> QED BY <2>3, <2>4
<1> QED BY <1>6, <1>7, <1>9, <1>10 DEF ServerInv

\* The message that comes last in a channel is the one element its set gains.
LEMMA AppendRange ==
    ASSUME NEW S, NEW f \in Seq(S), NEW x \in S
    PROVE  LET g == Append(f, x) IN
           /\ g \in Seq(S) /\ Len(g) = Len(f) + 1
           /\ Range(g) = Range(f) \cup {x}
           /\ \A k \in DOMAIN g : (k \in DOMAIN f /\ g[k] = f[k]) \/ (k = Len(f) + 1 /\ g[k] = x)
<1> DEFINE g == Append(f, x)
<1>1. Len(f) \in Nat /\ DOMAIN f = 1..Len(f)
    BY LenProperties
<1>2. /\ g \in Seq(S) /\ Len(g) = Len(f) + 1 /\ g[Len(f) + 1] = x
      /\ \A k \in 1..Len(f) : g[k] = f[k]
    BY AppendProperties
<1>3. DOMAIN g = 1..Len(f) + 1
    BY <1>2, LenProperties
<1> HIDE DEF g
<1>4. \A k \in DOMAIN g : (k \in DOMAIN f /\ g[k] = f[k]) \/ (k = Len(f) + 1 /\ g[k] = x)
    BY <1>1, <1>2, <1>3
<1>5. \A k \in DOMAIN f : k \in DOMAIN g /\ g[k] = f[k]
    BY <1>1, <1>2, <1>3
<1>6. Len(f) + 1 \in DOMAIN g
    BY <1>1, <1>3
<1>7. Range(g) = Range(f) \cup {x}
    BY <1>2, <1>4, <1>5, <1>6 DEF Range
<1> QED BY <1>2, <1>4, <1>7 DEF g

\* The first message of a channel is the one element its set loses, if it is there once.
LEMMA TailRange ==
    ASSUME NEW S, NEW f \in Seq(S), f # <<>>, \A j, k \in DOMAIN f : f[j] = f[k] => j = k
    PROVE  LET g == Tail(f) IN
           /\ g \in Seq(S) /\ Len(f) \in Nat /\ Len(g) = Len(f) - 1 /\ Head(f) \in S
           /\ Range(g) = Range(f) \ {Head(f)} /\ Head(f) \in Range(f)
           /\ \A j, k \in DOMAIN g : g[j] = g[k] => j = k
<1> DEFINE g == Tail(f)
           m == Len(f)
<1>1. m \in Nat /\ DOMAIN f = 1..m /\ m # 0
    BY LenProperties, EmptySeq
<1>2. /\ Head(f) \in S /\ g \in Seq(S) /\ Len(g) = m - 1 /\ f[1] = Head(f)
      /\ \A k \in 1..Len(g) : g[k] = f[k + 1]
    BY HeadTailProperties
<1>3. DOMAIN g = 1..m - 1
    BY <1>2, LenProperties
<1> HIDE DEF g, m
<1>4. \A k \in DOMAIN g : k \in Nat /\ k + 1 \in DOMAIN f /\ k + 1 # 1 /\ g[k] = f[k + 1]
    BY <1>1, <1>2, <1>3
<1>5. 1 \in DOMAIN f
    BY <1>1
<1>6. \A k \in DOMAIN f : k = 1 \/ (k - 1 \in DOMAIN g /\ g[k - 1] = f[k])
  <2> SUFFICES ASSUME NEW k \in DOMAIN f, k # 1 PROVE k - 1 \in DOMAIN g /\ g[k - 1] = f[k]
      OBVIOUS
  <2>1. k - 1 \in 1..m - 1 /\ k - 1 + 1 = k
      BY <1>1
  <2> QED BY <1>3, <1>4, <2>1
<1>7. Range(g) = Range(f) \ {Head(f)} /\ Head(f) \in Range(f)
  <2>1. \A k \in DOMAIN g : g[k] \in Range(f) /\ g[k] # Head(f)
      BY <1>2, <1>4, <1>5 DEF Range
  <2>2. \A k \in DOMAIN f : f[k] # Head(f) => \E j \in DOMAIN g : g[j] = f[k]
      BY <1>2, <1>6
  <2> QED BY <1>2, <1>5, <2>1, <2>2 DEF Range
<1>8. \A j, k \in DOMAIN g : g[j] = g[k] => j = k
  <2> SUFFICES ASSUME NEW j \in DOMAIN g, NEW k \in DOMAIN g, g[j] = g[k] PROVE j = k
      OBVIOUS
  <2>1. j + 1 = k + 1
      BY <1>4
  <2> QED BY <1>4, <2>1
<1> QED BY <1>1, <1>2, <1>7, <1>8 DEF g, m

\* A channel has as many messages as its set has elements, if each is there once.
LEMMA RangeSize ==
    ASSUME NEW S, NEW f \in Seq(S), \A j, k \in DOMAIN f : f[j] = f[k] => j = k
    PROVE  IsFiniteSet(Range(f)) /\ Cardinality(Range(f)) = Len(f)
<1> DEFINE R == Range(f)
           D == 1..Len(f)
<1>1. Len(f) \in Nat /\ DOMAIN f = D
    BY LenProperties
<1>2. IsFiniteSet(D) /\ Cardinality(D) = Len(f)
    BY <1>1, FS_Interval
<1>3. f \in [D -> R]
  <2>1. f = [k \in D |-> f[k]]
      BY <1>1
  <2>2. \A k \in D : f[k] \in R
      BY <1>1 DEF Range
  <2> HIDE DEF R
  <2> QED BY <2>1, <2>2
<1>4. \A r \in R : \E k \in D : f[k] = r
    BY <1>1 DEF Range
<1>5. f \in Bijection(D, R)
    BY <1>1, <1>3, <1>4, Fun_IsBij
<1>6. ExistsBijection(D, R)
    BY <1>5 DEF ExistsBijection
<1> QED BY <1>2, <1>6, FS_Bijection

\* send: the connection goes to the worker's channel, or is lost with it; either way it
\* takes a place and the counter is one behind.
LEMMA SendInv ==
    ASSUME ServerInv, Send
    PROVE  ServerInv'
<1>1. /\ pc = "send" /\ pc' = "inc" /\ ~single /\ InHand /\ ~InHand' /\ at \in Workers
      /\ conn = arrived /\ arrived >= 1 /\ arrived \in 0..MaxConns
      /\ UNCHANGED <<single, conn, at, idx, stopped, count, tx, thread, sessions, arrived, gated,
                     refused, cut, fails>>
    BY DEF ServerInv, Send, SingleOK, HandOK, TypeOK, InHand
<1>2. /\ Seen = arrived - 1 /\ Seen' = arrived /\ Seen \in Nat /\ Seen' = Seen + 1
      /\ conn \in Conns /\ conn \notin 1..Seen /\ conn \in 1..Seen' /\ 1..Seen \subseteq 1..Seen'
    BY <1>1, Numbers DEF Seen, Conns
<1>3. TypeOK /\ KnownOK /\ ApartOK /\ chan[at] \in Seq(Conns) /\ lost[at] \subseteq Conns
    BY <1>1 DEF ServerInv, TypeOK
<1>4. \A w \in Workers : /\ conn \notin InChan(w) /\ conn \notin lost[w] /\ conn \notin sessions[w]
                         /\ conn \notin cut
    BY <1>2, <1>3 DEF KnownOK
<1>5. SingleOK' /\ HandOK' /\ SendOK'
    BY <1>1 DEF SingleOK, HandOK, SendOK
<1>6. GateOK'
    BY <1>1 DEF ServerInv, GateOK
<1>7. CountOK'
  <2>1. Taken(at)' = Taken(at) + 1
    <3>1. CASE lost' = [lost EXCEPT ![at] = @ \cup {conn}] /\ chan' = chan
      <4>1. lost'[at] = lost[at] \cup {conn}
          BY <1>1, <1>3, <3>1 DEF TypeOK
      <4>2. Cardinality(lost'[at]) = Cardinality(lost[at]) + 1
          BY <1>1, <1>3, <1>4, <4>1, CountFacts, FS_AddElement
      <4>3. /\ Cardinality(sessions[at]) \in Nat /\ Len(chan[at]) \in Nat
            /\ Cardinality(lost[at]) \in Nat
          BY <1>1, <1>3, CountFacts
      <4> QED BY <1>1, <3>1, <4>2, <4>3 DEF Taken
    <3>2. CASE chan' = [chan EXCEPT ![at] = Append(@, conn)] /\ lost' = lost
      <4>1. chan'[at] = Append(chan[at], conn)
          BY <1>1, <1>3, <3>2 DEF TypeOK
      <4>2. Len(chan'[at]) = Len(chan[at]) + 1
          BY <1>2, <1>3, <4>1, AppendRange
      <4>3. /\ Cardinality(sessions[at]) \in Nat /\ Len(chan[at]) \in Nat
            /\ Cardinality(lost[at]) \in Nat
          BY <1>1, <1>3, CountFacts
      <4> QED BY <1>1, <3>2, <4>2, <4>3 DEF Taken
    <3> QED BY <3>1, <3>2 DEF Send
  <2>2. \A w \in Workers : w # at => Taken(w)' = Taken(w)
      BY <1>1, <1>3 DEF Send, Taken, TypeOK
  <2>3. Taken(at) < WorkerConns /\ count[at] = Taken(at)
      BY <1>1, Exact DEF ServerInv, SendOK
  <2> SUFFICES ASSUME NEW w \in Workers
               PROVE  /\ Taken(w)' <= WorkerConns /\ Taken(w)' + Wasted(w)' <= Seen'
                      /\ Behind(count'[w], Pending(w)', Taken(w)' + Wasted(w)')
      BY DEF CountOK, Behind
  <2>4. /\ Taken(w) <= WorkerConns /\ Taken(w) + Wasted(w) <= Seen /\ Taken(w) \in Nat
        /\ Behind(count[w], Pending(w), Taken(w) + Wasted(w))
      BY CountFacts DEF ServerInv, CountOK
  <2>5. /\ Wasted(w) = 0 /\ Wasted(w)' = 0 /\ Pending(w) = 0
        /\ Pending(w)' = IF w = at THEN 1 ELSE 0
      BY <1>1 DEF Wasted, Pending
  <2>6. CASE w = at
      BY <1>1, <1>2, <2>1, <2>3, <2>4, <2>5, <2>6, Numbers DEF Behind
  <2>7. CASE w # at
      BY <1>1, <1>2, <2>2, <2>4, <2>5, <2>7, Numbers DEF Behind
  <2> QED BY <2>6, <2>7
<1>8. CASE ~Receiving(at) /\ lost' = [lost EXCEPT ![at] = @ \cup {conn}] /\ chan' = chan
  <2>1. \A w \in Workers : /\ lost'[w] = IF w = at THEN lost[w] \cup {conn} ELSE lost[w]
                           /\ InChan(w)' = InChan(w)
      BY <1>3, <1>8 DEF TypeOK, InChan
  <2>2. TypeOK'
    <3>1. lost' \in [Workers -> SUBSET Conns]
        BY <1>2, <1>3, <1>8 DEF TypeOK
    <3> QED BY <1>1, <1>3, <1>8, <3>1 DEF TypeOK, PCs
  <2>3. KnownOK'
      BY <1>1, <1>2, <1>3, <2>1 DEF KnownOK
  <2>4. ApartOK'
    <3>1. \A v, w \in Workers : InChan(w)' \cap (sessions'[v] \cup lost'[v] \cup cut') = {}
      <4> SUFFICES ASSUME NEW v \in Workers, NEW w \in Workers
                   PROVE  InChan(w)' \cap (sessions'[v] \cup lost'[v] \cup cut') = {}
          OBVIOUS
      <4>1. InChan(w) \cap (sessions[v] \cup lost[v] \cup cut) = {} /\ conn \notin InChan(w)
          BY <1>3, <1>4 DEF ApartOK
      <4>2. sessions' = sessions /\ cut' = cut /\ InChan(w)' = InChan(w)
          BY <1>1, <2>1
      <4>3. lost'[v] \subseteq lost[v] \cup {conn}
          BY <2>1
      <4> QED BY <4>1, <4>2, <4>3
    <3>2. \A v, w \in Workers : v # w => InChan(v)' \cap InChan(w)' = {}
        BY <1>3, <2>1 DEF ApartOK
    <3>3. \A w \in Workers : \A j, k \in DOMAIN chan'[w] : chan'[w][j] = chan'[w][k] => j = k
        BY <1>3, <1>8 DEF ApartOK
    <3> QED BY <3>1, <3>2, <3>3 DEF ApartOK
  <2>5. LossOK'
      BY <1>1, <1>8, <2>1 DEF ServerInv, LossOK, Receiving
  <2> QED BY <1>5, <1>6, <1>7, <2>2, <2>3, <2>4, <2>5 DEF ServerInv
<1>9. CASE chan' = [chan EXCEPT ![at] = Append(@, conn)] /\ lost' = lost
  <2>1. /\ chan'[at] = Append(chan[at], conn) /\ chan'[at] \in Seq(Conns)
        /\ \A w \in Workers : w # at => chan'[w] = chan[w]
      BY <1>1, <1>2, <1>3, <1>9, AppendRange DEF TypeOK
  <2>2. \A w \in Workers : InChan(w)' = IF w = at THEN InChan(w) \cup {conn} ELSE InChan(w)
    <3>1. InChan(at)' = InChan(at) \cup {conn}
      <4>1. Range(Append(chan[at], conn)) = Range(chan[at]) \cup {conn}
          BY <1>2, <1>3, AppendRange
      <4>2. InChan(at)' = Range(chan'[at])
          BY <1>1 DEF InChan
      <4> QED BY <2>1, <4>1, <4>2 DEF InChan
    <3>2. \A w \in Workers : w # at => InChan(w)' = InChan(w)
        BY <2>1 DEF InChan
    <3> QED BY <1>1, <3>1, <3>2
  <2>3. TypeOK'
    <3>1. chan' \in [Workers -> Seq(Conns)]
        BY <1>3, <1>9, <2>1 DEF TypeOK
    <3> QED BY <1>1, <1>3, <1>9, <3>1 DEF TypeOK, PCs
  <2>4. KnownOK'
      BY <1>1, <1>2, <1>3, <1>9, <2>2 DEF KnownOK
  <2>5. ApartOK'
    <3>1. \A v, w \in Workers : InChan(w)' \cap (sessions'[v] \cup lost'[v] \cup cut') = {}
        BY <1>1, <1>3, <1>4, <1>9, <2>2 DEF ApartOK
    <3>2. \A v, w \in Workers : v # w => InChan(v)' \cap InChan(w)' = {}
        BY <1>3, <1>4, <2>2 DEF ApartOK
    <3>3. \A w \in Workers : \A j, k \in DOMAIN chan'[w] : chan'[w][j] = chan'[w][k] => j = k
      <4> SUFFICES ASSUME NEW w \in Workers, w = at
                   PROVE  \A j, k \in DOMAIN chan'[w] : chan'[w][j] = chan'[w][k] => j = k
          BY <1>3, <2>1 DEF ApartOK
      <4>1. \A k \in DOMAIN chan'[w] :
              \/ k \in DOMAIN chan[w] /\ chan'[w][k] = chan[w][k]
              \/ k = Len(chan[w]) + 1 /\ chan'[w][k] = conn
          BY <1>2, <1>3, <2>1, AppendRange
      <4>2. \A k \in DOMAIN chan[w] : chan[w][k] # conn
          BY <1>4 DEF InChan, Range
      <4>3. \A j, k \in DOMAIN chan[w] : chan[w][j] = chan[w][k] => j = k
          BY <1>3 DEF ApartOK
      <4> QED BY <4>1, <4>2, <4>3
    <3> QED BY <3>1, <3>2, <3>3 DEF ApartOK
  <2>6. LossOK'
      BY <1>1, <1>9 DEF ServerInv, LossOK, Receiving
  <2> QED BY <1>5, <1>6, <1>7, <2>3, <2>4, <2>5, <2>6 DEF ServerInv
<1> QED BY <1>8, <1>9 DEF Send

\* An empty channel.
LEMMA NoMessages == Len(<<>>) = 0 /\ DOMAIN <<>> = {} /\ Range(<<>>) = {}
BY DEF Range

\* Join: what is left in the channel of a worker that has gone is lost, and still takes
\* the places it took.
LEMMA JoinInv ==
    ASSUME ServerInv, Join
    PROVE  ServerInv'
<1> DEFINE C == Range(chan[at])
<1>1. /\ pc = "join" /\ pc' \in {"gone", "drop"} /\ ~single /\ at \in Workers
      /\ thread[at] = "gone"
      /\ lost' = [lost EXCEPT ![at] = @ \cup C] /\ chan' = [chan EXCEPT ![at] = <<>>]
      /\ UNCHANGED <<single, conn, idx, stopped, count, tx, thread, sessions, arrived, gated, refused,
                     cut, fails>>
    BY DEF ServerInv, Join, SingleOK, TypeOK, Range
<1>2. at' \in Workers
    BY <1>1, Numbers DEF Join, Workers
<1>3. TypeOK /\ KnownOK /\ ApartOK /\ chan[at] \in Seq(Conns) /\ lost[at] \subseteq Conns
    BY <1>1 DEF ServerInv, TypeOK
<1>4. Seen' = Seen
    BY <1>1 DEF Seen, InHand
<1>5. /\ C \subseteq Conns /\ C \subseteq 1..Seen /\ C \cap lost[at] = {}
      /\ \A w \in Workers : w # at => InChan(w) \cap C = {}
  <2>1. C \subseteq Conns
      BY <1>3, LenProperties, ElementOfSeq DEF Range
  <2> QED BY <1>1, <1>3, <2>1 DEF KnownOK, ApartOK, InChan
<1>6. IsFiniteSet(C) /\ Cardinality(C) = Len(chan[at])
    BY <1>1, <1>3, RangeSize DEF ApartOK
<1>7. \A w \in Workers : /\ lost'[w] = IF w = at THEN lost[w] \cup C ELSE lost[w]
                         /\ chan'[w] = IF w = at THEN <<>> ELSE chan[w]
    BY <1>1, <1>3 DEF TypeOK
<1>8. \A w \in Workers : InChan(w)' = IF w = at THEN {} ELSE InChan(w)
    BY <1>7, NoMessages DEF InChan
<1>9. TypeOK'
  <2>1. lost' \in [Workers -> SUBSET Conns] /\ chan' \in [Workers -> Seq(Conns)]
      BY <1>1, <1>3, <1>5 DEF TypeOK
  <2> QED BY <1>1, <1>2, <1>3, <2>1 DEF TypeOK, PCs
<1>10. SingleOK' /\ HandOK' /\ SendOK'
    BY <1>1 DEF SingleOK, HandOK, SendOK, InHand
<1> HIDE DEF C
<1>11. KnownOK'
  <2>1. ASSUME NEW w \in Workers
        PROVE  /\ sessions'[w] \subseteq 1..Seen' /\ lost'[w] \subseteq 1..Seen'
               /\ InChan(w)' \subseteq 1..Seen'
    <3>1. sessions[w] \subseteq 1..Seen /\ lost[w] \subseteq 1..Seen /\ InChan(w) \subseteq 1..Seen
        BY <1>3 DEF KnownOK
    <3>2. /\ sessions' = sessions /\ lost'[w] \subseteq lost[w] \cup C
          /\ InChan(w)' \subseteq InChan(w)
        BY <1>1, <1>7, <1>8
    <3> QED BY <1>4, <1>5, <3>1, <3>2
  <2> QED BY <1>1, <1>3, <1>4, <2>1 DEF KnownOK
<1>12. ApartOK'
  <2>1. \A v, w \in Workers : InChan(w)' \cap (sessions'[v] \cup lost'[v] \cup cut') = {}
    <3> SUFFICES ASSUME NEW v \in Workers, NEW w \in Workers, w # at
                 PROVE  InChan(w)' \cap (sessions'[v] \cup lost'[v] \cup cut') = {}
        BY <1>8
    <3>1. InChan(w) \cap (sessions[v] \cup lost[v] \cup cut) = {} /\ InChan(w) \cap C = {}
        BY <1>3, <1>5 DEF ApartOK
    <3>2. sessions' = sessions /\ cut' = cut /\ InChan(w)' = InChan(w)
        BY <1>1, <1>8
    <3>3. lost'[v] \subseteq lost[v] \cup C
        BY <1>7
    <3> QED BY <3>1, <3>2, <3>3
  <2>2. \A v, w \in Workers : v # w => InChan(v)' \cap InChan(w)' = {}
      BY <1>3, <1>8 DEF ApartOK
  <2>3. \A w \in Workers : \A j, k \in DOMAIN chan'[w] : chan'[w][j] = chan'[w][k] => j = k
      BY <1>3, <1>7, NoMessages DEF ApartOK
  <2> QED BY <2>1, <2>2, <2>3 DEF ApartOK
<1>13. LossOK' /\ GateOK'
    BY <1>1, <1>7 DEF ServerInv, LossOK, GateOK, Receiving
<1>14. \A w \in Workers : Taken(w)' = Taken(w)
  <2> SUFFICES ASSUME NEW w \in Workers, w = at PROVE Taken(w)' = Taken(w)
      BY <1>1, <1>7 DEF Taken
  <2>1. /\ IsFiniteSet(lost[w]) /\ Cardinality(lost[w]) \in Nat /\ Len(chan[w]) \in Nat
        /\ Cardinality(sessions[w]) \in Nat
      BY <1>3, CountFacts
  <2>2. Cardinality(lost[w] \cup C) = Cardinality(lost[w]) + Cardinality(C) - Cardinality(lost[w] \cap C)
      BY <1>6, <2>1, FS_Union
  <2>3. Cardinality(lost[w] \cap C) = 0
      BY <1>5, FS_EmptySet
  <2>4. Cardinality(lost'[w]) = Cardinality(lost[w]) + Len(chan[w]) /\ Len(chan'[w]) = 0
    <3>1. lost'[w] = lost[w] \cup C /\ chan'[w] = <<>> /\ Cardinality(C) = Len(chan[w])
        BY <1>6, <1>7
    <3>2. Cardinality(lost[w] \cup C) = Cardinality(lost[w]) + Len(chan[w])
        BY <2>1, <2>2, <2>3, <3>1
    <3> QED BY <3>1, <3>2, NoMessages
  <2> QED BY <1>1, <2>1, <2>4 DEF Taken
<1>15. CountOK'
  <2> SUFFICES ASSUME NEW w \in Workers
               PROVE  /\ Taken(w)' <= WorkerConns /\ Taken(w)' + Wasted(w)' <= Seen'
                      /\ Behind(count'[w], Pending(w)', Taken(w)' + Wasted(w)')
      BY DEF CountOK, Behind
  <2>1. /\ Taken(w) <= WorkerConns /\ Taken(w) + Wasted(w) <= Seen
        /\ Behind(count[w], Pending(w), Taken(w) + Wasted(w))
      BY DEF ServerInv, CountOK
  <2>2. Wasted(w)' = Wasted(w) /\ Pending(w)' = Pending(w) /\ count' = count
      BY <1>1 DEF Wasted, Pending
  <2> QED BY <1>4, <1>14, <2>1, <2>2
<1> QED BY <1>9, <1>10, <1>11, <1>12, <1>13, <1>15 DEF ServerInv

\* A worker takes a connection from its channel: it becomes a session.
LEMMA TakeInv ==
    ASSUME ServerInv, NEW w \in Workers, NEW g \in BOOLEAN, Take(w, g)
    PROVE  ServerInv'
<1> DEFINE c == Head(chan[w])
<1>1. /\ ~single /\ chan[w] # <<>>
      /\ chan' = [chan EXCEPT ![w] = Tail(@)] /\ sessions' = [sessions EXCEPT ![w] = @ \cup {c}]
      /\ gated' \subseteq gated \cup {c}
      /\ UNCHANGED <<single, pc, conn, at, idx, stopped, count, tx, thread, arrived, refused, lost, cut,
                     fails>>
    BY DEF Take, threadVars
<1>2. TypeOK /\ KnownOK /\ ApartOK /\ chan[w] \in Seq(Conns) /\ sessions[w] \subseteq Conns
    BY DEF ServerInv, TypeOK
<1>3. Seen' = Seen
    BY <1>1 DEF Seen, InHand
<1>4. /\ Tail(chan[w]) \in Seq(Conns) /\ Len(Tail(chan[w])) = Len(chan[w]) - 1 /\ c \in Conns
      /\ Range(Tail(chan[w])) = InChan(w) \ {c} /\ c \in InChan(w)
      /\ \A j, k \in DOMAIN Tail(chan[w]) : Tail(chan[w])[j] = Tail(chan[w])[k] => j = k
    BY <1>1, <1>2, TailRange DEF ApartOK, InChan
<1> HIDE DEF c
<1>5. /\ c \in 1..Seen /\ c \notin cut
      /\ \A v \in Workers : /\ c \notin sessions[v] /\ c \notin lost[v]
                            /\ (v # w => c \notin InChan(v))
    BY <1>2, <1>4 DEF KnownOK, ApartOK
<1>6. \A v \in Workers : /\ chan'[v] = IF v = w THEN Tail(chan[w]) ELSE chan[v]
                         /\ sessions'[v] = IF v = w THEN sessions[v] \cup {c} ELSE sessions[v]
    BY <1>1, <1>2 DEF TypeOK
<1>7. \A v \in Workers : InChan(v)' = IF v = w THEN InChan(v) \ {c} ELSE InChan(v)
    BY <1>4, <1>6 DEF InChan
<1>8. TypeOK'
  <2>1. chan' \in [Workers -> Seq(Conns)] /\ sessions' \in [Workers -> SUBSET Conns]
      BY <1>1, <1>2, <1>4 DEF TypeOK
  <2>2. gated' \subseteq Conns
      BY <1>1, <1>2, <1>4 DEF TypeOK
  <2> QED BY <1>1, <1>2, <2>1, <2>2 DEF TypeOK
<1>9. SingleOK' /\ HandOK'
    BY <1>1 DEF ServerInv, SingleOK, HandOK, InHand
<1>10. KnownOK'
    BY <1>1, <1>2, <1>3, <1>5, <1>6, <1>7 DEF KnownOK
<1>11. ApartOK'
  <2>1. \A u, v \in Workers : InChan(v)' \cap (sessions'[u] \cup lost'[u] \cup cut') = {}
    <3> SUFFICES ASSUME NEW u \in Workers, NEW v \in Workers
                 PROVE  InChan(v)' \cap (sessions'[u] \cup lost'[u] \cup cut') = {}
        OBVIOUS
    <3>1. InChan(v) \cap (sessions[u] \cup lost[u] \cup cut) = {}
        BY <1>2 DEF ApartOK
    <3>2. lost' = lost /\ cut' = cut /\ sessions'[u] \subseteq sessions[u] \cup {c}
        BY <1>1, <1>6
    <3>3. InChan(v)' \subseteq InChan(v) /\ c \notin InChan(v)'
        BY <1>5, <1>7
    <3> QED BY <3>1, <3>2, <3>3
  <2>2. \A u, v \in Workers : u # v => InChan(u)' \cap InChan(v)' = {}
    <3> SUFFICES ASSUME NEW u \in Workers, NEW v \in Workers, u # v
                 PROVE  InChan(u)' \cap InChan(v)' = {}
        OBVIOUS
    <3>1. InChan(u) \cap InChan(v) = {}
        BY <1>2 DEF ApartOK
    <3>2. InChan(u)' \subseteq InChan(u) /\ InChan(v)' \subseteq InChan(v)
        BY <1>7
    <3> QED BY <3>1, <3>2
  <2>3. \A v \in Workers : \A j, k \in DOMAIN chan'[v] : chan'[v][j] = chan'[v][k] => j = k
      BY <1>2, <1>4, <1>6 DEF ApartOK
  <2> QED BY <2>1, <2>2, <2>3 DEF ApartOK
<1>12. LossOK' /\ GateOK'
    BY <1>1, <1>5 DEF ServerInv, LossOK, GateOK, Receiving
<1>13. \A v \in Workers : Taken(v)' = Taken(v)
  <2> SUFFICES ASSUME NEW v \in Workers, v = w PROVE Taken(v)' = Taken(v)
      BY <1>1, <1>6 DEF Taken
  <2>1. /\ IsFiniteSet(sessions[v]) /\ Cardinality(lost[v]) \in Nat /\ Len(chan[v]) \in Nat
        /\ Cardinality(sessions[v]) \in Nat
      BY <1>2, CountFacts
  <2>2. Cardinality(sessions[v] \cup {c}) = Cardinality(sessions[v]) + 1
      BY <1>5, <2>1, FS_AddElement
  <2>3. Cardinality(sessions'[v]) = Cardinality(sessions[v]) + 1 /\ Len(chan'[v]) = Len(chan[v]) - 1
      BY <1>4, <1>6, <2>2
  <2> QED BY <1>1, <2>1, <2>3 DEF Taken
<1>14. CountOK'
  <2> SUFFICES ASSUME NEW v \in Workers
               PROVE  /\ Taken(v)' <= WorkerConns /\ Taken(v)' + Wasted(v)' <= Seen'
                      /\ Behind(count'[v], Pending(v)', Taken(v)' + Wasted(v)')
      BY DEF CountOK, Behind
  <2>1. /\ Taken(v) <= WorkerConns /\ Taken(v) + Wasted(v) <= Seen
        /\ Behind(count[v], Pending(v), Taken(v) + Wasted(v))
      BY DEF ServerInv, CountOK
  <2>2. Wasted(v)' = Wasted(v) /\ Pending(v)' = Pending(v) /\ count' = count
      BY <1>1 DEF Wasted, Pending
  <2> QED BY <1>3, <1>13, <2>1, <2>2
<1>15. SendOK'
    BY <1>1, <1>2, <1>13 DEF ServerInv, SendOK, TypeOK
<1> QED BY <1>8, <1>9, <1>10, <1>11, <1>12, <1>14, <1>15 DEF ServerInv

\* How many connections have been seen.
LEMMA SeenFacts ==
    ASSUME ServerInv
    PROVE  Seen \in 0..MaxConns /\ arrived \in 0..MaxConns
BY Numbers DEF ServerInv, TypeOK, HandOK, Seen

\* An event loop ends with all its sessions, none of which (but the one that has just
\* ended) holds a gate.
LEMMA FinishInv ==
    ASSUME ServerInv, NEW w \in Workers, NEW s, s \subseteq sessions[w], s \cap gated = {},
           Finish(w, s), stopped' \in BOOLEAN, fails' \in Nat,
           UNCHANGED <<single, pc, conn, at, idx, chan, tx, arrived, gated, refused, lost>>
    PROVE  ServerInv'
<1> DEFINE k == Cardinality(sessions[w])
<1>1. /\ thread' = [thread EXCEPT ![w] = "gone"]
      /\ sessions' = [sessions EXCEPT ![w] = {}]
      /\ count' = [count EXCEPT ![w] = Plus(@, Word - k)]
      /\ cut' = cut \cup s
    BY DEF Finish
<1>2. TypeOK /\ KnownOK /\ ApartOK /\ sessions[w] \subseteq Conns /\ Seen \in 0..MaxConns
    BY SeenFacts DEF ServerInv, TypeOK
<1>3. Seen' = Seen
    BY DEF Seen, InHand
<1>4. /\ Taken(w) <= WorkerConns /\ Taken(w) + Wasted(w) <= Seen
      /\ Behind(count[w], Pending(w), Taken(w) + Wasted(w))
    BY DEF ServerInv, CountOK
<1>5. /\ k \in Nat /\ Len(chan[w]) \in Nat /\ Cardinality(lost[w]) \in Nat /\ Wasted(w) \in Nat
      /\ Pending(w) \in 0..1 /\ count[w] \in 0..Word - 1
      /\ Taken(w) = k + Len(chan[w]) + Cardinality(lost[w])
    BY <1>2, CountFacts DEF Taken
<1>6. \A v \in Workers : /\ InChan(v)' = InChan(v) /\ Wasted(v)' = Wasted(v)
                         /\ Pending(v)' = Pending(v)
                         /\ sessions'[v] = IF v = w THEN {} ELSE sessions[v]
                         /\ count'[v] = IF v = w THEN Plus(count[w], Word - k) ELSE count[v]
                         /\ (Receiving(v)' => Receiving(v))
    BY <1>1, <1>2 DEF InChan, Wasted, Pending, TypeOK, Receiving
<1>7. Taken(w)' = Len(chan[w]) + Cardinality(lost[w])
  <2>1. Cardinality(sessions'[w]) = 0
      BY <1>6, FS_EmptySet
  <2> QED BY <1>5, <2>1 DEF Taken
<1>8. \A v \in Workers : v # w => Taken(v)' = Taken(v)
    BY <1>6 DEF Taken
<1> HIDE DEF k
<1>9. /\ k \in 0..Word - 1
      /\ Plus(count[w], Word - k) = IF count[w] < k THEN count[w] + Word - k ELSE count[w] - k
  <2>1. k \in 0..Word - 1
      BY <1>2, <1>4, <1>5, Numbers
  <2> QED BY <1>5, <2>1, PlusFacts
<1>10. Plus(count[w], Word - k) \in 0..Word - 1
    BY <1>5, <1>9, Numbers
<1>11. TypeOK'
  <2>1. count' \in [Workers -> 0..Word - 1] /\ sessions' \in [Workers -> SUBSET Conns]
      BY <1>1, <1>2, <1>10 DEF TypeOK
  <2>2. cut' \subseteq Conns /\ thread' \in [Workers -> {"run", "empty", "closing", "gone"}]
      BY <1>1, <1>2 DEF TypeOK
  <2> QED BY <1>2, <2>1, <2>2 DEF TypeOK
<1>12. SingleOK' /\ HandOK'
    BY DEF ServerInv, SingleOK, HandOK, InHand
<1>13. KnownOK'
    BY <1>1, <1>2, <1>3, <1>6 DEF KnownOK
<1>14. ApartOK'
  <2>1. \A u, v \in Workers : InChan(v)' \cap (sessions'[u] \cup lost'[u] \cup cut') = {}
    <3> SUFFICES ASSUME NEW u \in Workers, NEW v \in Workers
                 PROVE  InChan(v)' \cap (sessions'[u] \cup lost'[u] \cup cut') = {}
        OBVIOUS
    <3>1. /\ InChan(v) \cap (sessions[u] \cup lost[u] \cup cut) = {}
          /\ InChan(v) \cap sessions[w] = {}
        BY <1>2 DEF ApartOK
    <3>2. sessions'[u] \subseteq sessions[u] /\ cut' \subseteq cut \cup sessions[w]
        BY <1>1, <1>6
    <3> QED BY <1>6, <3>1, <3>2
  <2> QED BY <1>2, <1>6, <2>1 DEF ApartOK
<1>15. LossOK' /\ GateOK'
    BY <1>1, <1>6 DEF ServerInv, LossOK, GateOK
<1>16. CountOK'
  <2> SUFFICES ASSUME NEW v \in Workers
               PROVE  /\ Taken(v)' <= WorkerConns /\ Taken(v)' + Wasted(v)' <= Seen'
                      /\ Behind(count'[v], Pending(v)', Taken(v)' + Wasted(v)')
      BY DEF CountOK, Behind
  <2>1. CASE v # w
    <3>1. /\ Taken(v) <= WorkerConns /\ Taken(v) + Wasted(v) <= Seen
          /\ Behind(count[v], Pending(v), Taken(v) + Wasted(v))
        BY DEF ServerInv, CountOK
    <3> QED BY <1>3, <1>6, <1>8, <2>1, <3>1
  <2>2. CASE v = w
    <3> DEFINE t == Len(chan[w]) + Cardinality(lost[w])
               c == count[w]
               p == Pending(w)
               x == Wasted(w)
               d == Plus(count[w], Word - k)
    <3>1. /\ t \in Nat /\ c \in 0..Word - 1 /\ p \in 0..1 /\ x \in Nat /\ k \in 0..Word - 1
          /\ k + t + x <= Seen /\ k + t <= WorkerConns
          /\ d = IF c < k THEN c + Word - k ELSE c - k
          /\ c + p = k + t + x \/ (p = 1 /\ k + t + x = 0 /\ c = Word - 1)
      <4>1. t \in Nat /\ Taken(w) = k + t
          BY <1>5
      <4>2. c + p = Taken(w) + x \/ (p = 1 /\ Taken(w) + x = 0 /\ c = Word - 1)
          BY <1>4 DEF Behind
      <4>3. d = IF c < k THEN c + Word - k ELSE c - k
          BY <1>9
      <4> HIDE DEF t, c, p, x, d
      <4> QED BY <1>4, <1>5, <1>9, <4>1, <4>2, <4>3 DEF c, p, x
    <3> HIDE DEF t, c, p, x, d
    <3>2. t <= WorkerConns /\ t + x <= Seen /\ Behind(d, p, t + x)
        BY <1>2, <3>1, Numbers DEF Behind
    <3>3. /\ Taken(w)' = t /\ Wasted(w)' = x /\ Pending(w)' = p /\ count'[w] = d
        BY <1>6, <1>7 DEF t, x, p, d
    <3> QED BY <1>3, <2>2, <3>2, <3>3
  <2> QED BY <2>1, <2>2
<1>17. SendOK'
  <2> SUFFICES ASSUME pc = "send" PROVE Taken(at)' < WorkerConns
      BY DEF SendOK
  <2>1. Taken(at) < WorkerConns /\ at \in Workers
      BY <1>2 DEF ServerInv, SendOK, TypeOK
  <2>2. CASE at = w
    <3> DEFINE m == Len(chan[w]) + Cardinality(lost[w])
    <3>1. Taken(at)' = m /\ Taken(at) = k + Len(chan[w]) + Cardinality(lost[w])
        BY <1>5, <1>7, <2>2 DEF Taken
    <3> QED BY <1>5, <2>1, <3>1, Numbers
  <2>3. CASE at # w
    <3>1. Taken(at)' = Taken(at)
        BY <1>8, <2>1, <2>3 DEF Taken
    <3> QED BY <2>1, <3>1
  <2> QED BY <2>2, <2>3
<1> QED BY <1>11, <1>12, <1>13, <1>14, <1>15, <1>16, <1>17 DEF ServerInv

\* The main task of worker w is done: the loop ends now, or waits for its gates.
LEMMA MainDoneInv ==
    ASSUME ServerInv, NEW w \in Workers, MainDone(w), stopped' \in BOOLEAN, fails' \in Nat,
           UNCHANGED <<single, pc, conn, at, idx, chan, tx, arrived, gated, refused, lost>>
    PROVE  ServerInv'
<1>1. CASE Gates(w) = {}
  <2>1. Finish(w, sessions[w]) /\ sessions[w] \cap gated = {}
      BY <1>1 DEF MainDone, Gates
  <2> QED BY <2>1, FinishInv
<1>2. CASE Gates(w) # {}
  <2>1. /\ thread' = [thread EXCEPT ![w] = "closing"]
        /\ UNCHANGED <<count, sessions, cut>>
      BY <1>2 DEF MainDone
  <2>2. TypeOK'
      BY <2>1 DEF ServerInv, TypeOK
  <2>3. SingleOK' /\ HandOK' /\ SendOK'
      BY <2>1 DEF ServerInv, SingleOK, HandOK, InHand, SendOK, Taken
  <2>4. Seen' = Seen
      BY DEF Seen, InHand
  <2>5. \A v \in Workers : Pending(v)' = Pending(v) /\ (Receiving(v)' => Receiving(v))
      BY <2>1 DEF Pending, Receiving, ServerInv, TypeOK
  <2> QED BY <2>1, <2>2, <2>3, <2>4, <2>5, Quiet DEF ServerInv
<1> QED BY <1>1, <1>2

\* The three ways in which a main task gets done.
LEMMA EndInv ==
    ASSUME ServerInv, StopSingle \/ \E w \in Workers : EndOfStream(w) \/ Fail(w)
    PROVE  ServerInv'
<1>1. stopped \in BOOLEAN /\ fails \in Nat /\ 0 \in Workers
    BY Numbers DEF ServerInv, TypeOK, Workers
<1>2. CASE StopSingle
    BY <1>1, <1>2, MainDoneInv DEF StopSingle, threadVars
<1>3. ASSUME NEW w \in Workers, EndOfStream(w) PROVE ServerInv'
    BY <1>1, <1>3, MainDoneInv DEF EndOfStream, threadVars
<1>4. ASSUME NEW w \in Workers, Fail(w) PROVE ServerInv'
    BY <1>1, <1>4, MainDoneInv DEF Fail, threadVars
<1> QED BY <1>2, <1>3, <1>4

\* A session ends, and gives its place back, before it was counted too.
LEMMA CloseInv ==
    ASSUME ServerInv, NEW w \in Workers, NEW c \in Conns, Close(w, c)
    PROVE  ServerInv'
<1>1. /\ c \in sessions[w] /\ stopped \in BOOLEAN /\ fails \in Nat
      /\ UNCHANGED <<single, pc, conn, at, idx, stopped, chan, tx, arrived, gated, refused, lost,
                     fails>>
    BY DEF Close, threadVars, ServerInv, TypeOK
<1>2. CASE thread[w] = "closing" /\ Gates(w) = {c}
  <2>1. Finish(w, sessions[w] \ {c})
      BY <1>2 DEF Close
  <2>2. (sessions[w] \ {c}) \cap gated = {} /\ sessions[w] \ {c} \subseteq sessions[w]
      BY <1>2 DEF Gates
  <2> QED BY <1>1, <2>1, <2>2, FinishInv
<1>3. CASE ~(thread[w] = "closing" /\ Gates(w) = {c})
  <2>1. /\ sessions' = [sessions EXCEPT ![w] = @ \ {c}]
        /\ count' = [count EXCEPT ![w] = Release(@)]
        /\ UNCHANGED <<thread, cut>>
      BY <1>3 DEF Close
  <2>2. TypeOK /\ KnownOK /\ ApartOK /\ Seen \in 0..MaxConns /\ Seen' = Seen
      BY <1>1, SeenFacts DEF ServerInv, Seen, InHand
  <2>3. \A v \in Workers : /\ InChan(v)' = InChan(v) /\ Wasted(v)' = Wasted(v)
                           /\ Pending(v)' = Pending(v)
                           /\ sessions'[v] = IF v = w THEN sessions[v] \ {c} ELSE sessions[v]
                           /\ count'[v] = IF v = w THEN Release(count[w]) ELSE count[v]
                           /\ (Receiving(v)' => Receiving(v))
      BY <1>1, <2>1, <2>2 DEF InChan, Wasted, Pending, TypeOK, Receiving
  <2>4. /\ Taken(w) <= WorkerConns /\ Taken(w) + Wasted(w) <= Seen
        /\ Behind(count[w], Pending(w), Taken(w) + Wasted(w))
        /\ Pending(w) \in 0..1 /\ count[w] \in 0..Word - 1 /\ Taken(w) \in Nat /\ Wasted(w) \in Nat
      BY <2>2, CountFacts DEF ServerInv, CountOK
  <2>5. Taken(w)' = Taken(w) - 1 /\ Taken(w) >= 1
    <3>1. /\ IsFiniteSet(sessions[w]) /\ Cardinality(sessions[w]) \in Nat /\ Len(chan[w]) \in Nat
          /\ Cardinality(lost[w]) \in Nat
        BY <2>2, CountFacts
    <3>2. Cardinality(sessions[w]) # 0
        BY <1>1, <3>1, FS_EmptySet
    <3>3. Cardinality(sessions'[w]) = Cardinality(sessions[w]) - 1
        BY <1>1, <2>3, <3>1, FS_RemoveElement
    <3> QED BY <1>1, <3>1, <3>2, <3>3 DEF Taken
  <2>6. \A v \in Workers : v # w => Taken(v)' = Taken(v)
      BY <1>1, <2>3 DEF Taken
  <2>7. Release(count[w]) = IF count[w] = 0 THEN Word - 1 ELSE count[w] - 1
      BY <2>4, PlusFacts
  <2>8. Release(count[w]) \in 0..Word - 1
    <3>1. count[w] \in 0..Word - 1
        BY <2>4
    <3> QED BY <2>7, <3>1, Numbers
  <2>9. TypeOK'
    <3>1. count' \in [Workers -> 0..Word - 1] /\ sessions' \in [Workers -> SUBSET Conns]
        BY <2>1, <2>2, <2>8 DEF TypeOK
    <3> QED BY <1>1, <2>1, <2>2, <3>1 DEF TypeOK
  <2>10. SingleOK' /\ HandOK'
      BY <1>1 DEF ServerInv, SingleOK, HandOK, InHand
  <2>11. KnownOK'
    <3>1. ASSUME NEW v \in Workers
          PROVE  /\ sessions'[v] \subseteq 1..Seen' /\ lost'[v] \subseteq 1..Seen'
                 /\ InChan(v)' \subseteq 1..Seen'
      <4>1. sessions[v] \subseteq 1..Seen /\ lost[v] \subseteq 1..Seen /\ InChan(v) \subseteq 1..Seen
          BY <2>2 DEF KnownOK
      <4>2. sessions'[v] \subseteq sessions[v]
          BY <2>3
      <4> QED BY <1>1, <2>2, <2>3, <4>1, <4>2
    <3> QED BY <1>1, <2>1, <2>2, <3>1 DEF KnownOK
  <2>12. ApartOK'
    <3>1. \A u, v \in Workers : InChan(v)' \cap (sessions'[u] \cup lost'[u] \cup cut') = {}
      <4> SUFFICES ASSUME NEW u \in Workers, NEW v \in Workers
                   PROVE  InChan(v)' \cap (sessions'[u] \cup lost'[u] \cup cut') = {}
          OBVIOUS
      <4>1. InChan(v) \cap (sessions[u] \cup lost[u] \cup cut) = {}
          BY <2>2 DEF ApartOK
      <4>2. sessions'[u] \subseteq sessions[u]
          BY <2>3
      <4> QED BY <1>1, <2>1, <2>3, <4>1, <4>2
    <3> QED BY <1>1, <2>2, <2>3, <3>1 DEF ApartOK
  <2>13. LossOK' /\ GateOK'
      BY <1>1, <2>1, <2>3 DEF ServerInv, LossOK, GateOK
  <2>14. CountOK'
    <3> SUFFICES ASSUME NEW v \in Workers
                 PROVE  /\ Taken(v)' <= WorkerConns /\ Taken(v)' + Wasted(v)' <= Seen'
                        /\ Behind(count'[v], Pending(v)', Taken(v)' + Wasted(v)')
        BY DEF CountOK, Behind
    <3>1. CASE v # w
      <4>1. /\ Taken(v) <= WorkerConns /\ Taken(v) + Wasted(v) <= Seen
            /\ Behind(count[v], Pending(v), Taken(v) + Wasted(v))
          BY DEF ServerInv, CountOK
      <4> QED BY <2>2, <2>3, <2>6, <3>1, <4>1
    <3>2. CASE v = w
      <4>1. count'[w] = Release(count[w]) /\ Wasted(w)' = Wasted(w) /\ Pending(w)' = Pending(w)
          BY <2>3
      <4>2. Taken(w)' <= WorkerConns /\ Taken(w)' + Wasted(w)' <= Seen'
          BY <2>2, <2>4, <2>5, <4>1, Numbers
      <4>3. Behind(Release(count[w]), Pending(w), Taken(w) - 1 + Wasted(w))
          BY <2>2, <2>4, <2>5, <2>7, Numbers DEF Behind
      <4> QED BY <2>5, <3>2, <4>1, <4>2, <4>3
    <3> QED BY <3>1, <3>2
  <2>15. SendOK'
    <3> SUFFICES ASSUME pc = "send" PROVE Taken(at)' < WorkerConns
        BY <1>1 DEF SendOK
    <3>1. Taken(at) < WorkerConns /\ at \in Workers /\ at' = at
        BY <1>1, <2>2 DEF ServerInv, SendOK, TypeOK
    <3>2. Taken(at)' = Taken(at) \/ (at = w /\ Taken(at)' = Taken(w) - 1)
        BY <2>5, <2>6, <3>1
    <3> QED BY <2>4, <3>1, <3>2, Numbers
  <2> QED BY <2>9, <2>10, <2>11, <2>12, <2>13, <2>14, <2>15 DEF ServerInv
<1> QED BY <1>2, <1>3

\* run_single takes a place for every connection, the refused ones included.
LEMMA AcceptSingleInv ==
    ASSUME ServerInv, NEW g \in BOOLEAN, AcceptSingle(g)
    PROVE  ServerInv'
<1> DEFINE c == arrived + 1
<1>1. /\ single /\ arrived < MaxConns /\ arrived' = c
      /\ count' = [count EXCEPT ![0] = Plus(@, 1)]
      /\ \/ /\ WorkerConns > count[0] /\ sessions' = [sessions EXCEPT ![0] = @ \cup {c}]
            /\ refused' = refused
         \/ sessions' = sessions /\ refused' = refused \cup {c}
      /\ gated' \subseteq gated \cup {c}
      /\ UNCHANGED <<single, pc, conn, at, idx, stopped, chan, tx, thread, lost, cut, fails>>
    BY DEF AcceptSingle, threadVars
<1>2. /\ TypeOK /\ KnownOK /\ pc = "idle" /\ 0 \in Workers
      /\ \A w \in Workers : chan[w] = <<>> /\ lost[w] = {}
    BY <1>1, Numbers DEF ServerInv, SingleOK, Workers
<1>3. /\ arrived \in Nat /\ Seen = arrived /\ Seen' = c /\ c \in Conns /\ c \in 1..c
      /\ c \notin 1..Seen /\ 1..Seen \subseteq 1..Seen'
    BY <1>1, <1>2, Numbers DEF TypeOK, Seen, InHand, Conns
<1>4. \A w \in Workers : c \notin sessions[w] /\ c \notin refused /\ c \notin cut
    BY <1>2, <1>3 DEF KnownOK
<1>5. /\ Taken(0) <= WorkerConns /\ Taken(0) + Wasted(0) <= Seen
      /\ Behind(count[0], Pending(0), Taken(0) + Wasted(0)) /\ Pending(0) = 0
      /\ count[0] \in 0..Word - 1 /\ Taken(0) \in Nat /\ Wasted(0) \in Nat
      /\ IsFiniteSet(sessions[0]) /\ IsFiniteSet(refused)
      /\ Cardinality(sessions[0]) \in Nat /\ Cardinality(refused) \in Nat
      /\ Taken(0) = Cardinality(sessions[0]) /\ Wasted(0) = Cardinality(refused)
  <2>1. /\ Taken(0) <= WorkerConns /\ Taken(0) + Wasted(0) <= Seen
        /\ Behind(count[0], Pending(0), Taken(0) + Wasted(0)) /\ Pending(0) = 0
        /\ count[0] \in 0..Word - 1 /\ Taken(0) \in Nat /\ Wasted(0) \in Nat
        /\ IsFiniteSet(sessions[0]) /\ IsFiniteSet(refused)
        /\ Cardinality(sessions[0]) \in Nat /\ Cardinality(refused) \in Nat
      BY <1>2, CountFacts DEF ServerInv, CountOK, Pending
  <2>2. Taken(0) = Cardinality(sessions[0]) + Len(<<>>) + Cardinality({})
      BY <1>2 DEF Taken
  <2>3. Taken(0) = Cardinality(sessions[0])
      BY <2>1, <2>2, FS_EmptySet, NoMessages
  <2>4. Wasted(0) = Cardinality(refused)
      BY <1>1 DEF Wasted
  <2> QED BY <2>1, <2>3, <2>4
<1>6. count[0] = Taken(0) + Wasted(0) /\ Plus(count[0], 1) = count[0] + 1 /\ count[0] + 1 \in 0..Word - 1
  <2>1. count[0] = Taken(0) + Wasted(0)
      BY <1>5 DEF Behind
  <2>2. Plus(count[0], 1) = IF count[0] = Word - 1 THEN 0 ELSE count[0] + 1
      BY <1>5, PlusFacts
  <2> QED BY <1>1, <1>3, <1>5, <2>1, <2>2, Numbers
<1> HIDE DEF c
<1>7. \A w \in Workers : /\ InChan(w)' = InChan(w) /\ Pending(w)' = Pending(w)
                         /\ (Receiving(w)' => Receiving(w))
                         /\ count'[w] = IF w = 0 THEN count[0] + 1 ELSE count[w]
                         /\ sessions'[w] \subseteq sessions[w] \cup {c}
                         /\ w # 0 => sessions'[w] = sessions[w]
    BY <1>1, <1>2, <1>6 DEF InChan, Pending, Receiving, TypeOK
<1>8. TypeOK'
  <2>1. count' \in [Workers -> 0..Word - 1]
      BY <1>1, <1>2, <1>6 DEF TypeOK
  <2>2. /\ sessions' \in [Workers -> SUBSET Conns] /\ refused' \subseteq Conns
        /\ gated' \subseteq Conns
    <3>1. /\ sessions \in [Workers -> SUBSET Conns] /\ refused \subseteq Conns
          /\ gated \subseteq Conns /\ c \in Conns
        BY <1>2, <1>3 DEF TypeOK
    <3>2. /\ sessions' = sessions \/ sessions' = [sessions EXCEPT ![0] = @ \cup {c}]
          /\ refused' = refused \/ refused' = refused \cup {c}
          /\ gated' \subseteq gated \cup {c}
        BY <1>1
    <3> QED BY <3>1, <3>2
  <2>3. arrived' \in 0..MaxConns
      BY <1>1, <1>3, Numbers DEF c
  <2> QED BY <1>1, <1>2, <2>1, <2>2, <2>3 DEF TypeOK
<1>9. SingleOK' /\ HandOK' /\ SendOK'
    BY <1>1, <1>2 DEF SingleOK, HandOK, SendOK, InHand
<1>10. KnownOK'
  <2>1. ASSUME NEW w \in Workers
        PROVE  /\ sessions'[w] \subseteq 1..Seen' /\ lost'[w] \subseteq 1..Seen'
               /\ InChan(w)' \subseteq 1..Seen'
    <3>1. sessions[w] \subseteq 1..Seen /\ lost[w] \subseteq 1..Seen /\ InChan(w) \subseteq 1..Seen
        BY <1>2 DEF KnownOK
    <3> QED BY <1>1, <1>3, <1>7, <3>1
  <2> QED BY <1>1, <1>2, <1>3, <2>1 DEF KnownOK
<1>11. ApartOK'
  <2>1. \A w \in Workers : InChan(w)' = {} /\ chan'[w] = <<>>
      BY <1>1, <1>2, NoMessages DEF InChan
  <2> QED BY <2>1, NoMessages DEF ApartOK
<1>12. LossOK' /\ GateOK'
    BY <1>1, <1>4, <1>2, <1>7 DEF ServerInv, LossOK, GateOK
<1>13. CountOK'
  <2> SUFFICES ASSUME NEW w \in Workers
               PROVE  /\ Taken(w)' <= WorkerConns /\ Taken(w)' + Wasted(w)' <= Seen'
                      /\ Behind(count'[w], Pending(w)', Taken(w)' + Wasted(w)')
      BY DEF CountOK, Behind
  <2>1. CASE w # 0
    <3>1. /\ Taken(w) <= WorkerConns /\ Taken(w) + Wasted(w) <= Seen /\ Taken(w) \in Nat
          /\ Behind(count[w], Pending(w), Taken(w) + Wasted(w)) /\ Seen \in Int
        BY CountFacts DEF ServerInv, CountOK
    <3>2. Taken(w)' = Taken(w) /\ Wasted(w) = 0 /\ Wasted(w)' = 0
        BY <1>1, <1>7, <2>1 DEF Taken, Wasted
    <3>3. Taken(w)' + Wasted(w)' <= Seen'
        BY <1>3, <3>1, <3>2 DEF c
    <3> QED BY <1>7, <2>1, <3>1, <3>2, <3>3
  <2>2. CASE w = 0
    <3>1. /\ Taken(0)' = Cardinality(sessions'[0])
          /\ Wasted(0)' = Cardinality(refused')
      <4>1. Taken(0)' = Cardinality(sessions'[0]) + Len(<<>>) + Cardinality({})
          BY <1>1, <1>2 DEF Taken
      <4>2. Cardinality(sessions'[0]) \in Nat
        <5>1. sessions'[0] = sessions[0] \/ sessions'[0] = sessions[0] \cup {c}
            BY <1>1, <1>2 DEF TypeOK
        <5> QED BY <1>5, <5>1, FS_AddElement, FS_CardinalityType
      <4>3. Wasted(0)' = Cardinality(refused')
          BY <1>1 DEF Wasted
      <4> QED BY <4>1, <4>2, <4>3, FS_EmptySet, NoMessages
    <3>2. count'[0] = count[0] + 1 /\ Pending(0)' = 0
        BY <1>2, <1>5, <1>7
    <3>3. CASE WorkerConns > count[0] /\ sessions' = [sessions EXCEPT ![0] = @ \cup {c}] /\ refused' = refused
      <4>1. sessions'[0] = sessions[0] \cup {c}
          BY <1>2, <3>3 DEF TypeOK
      <4>2. Cardinality(sessions'[0]) = Cardinality(sessions[0]) + 1
          BY <1>2, <1>4, <1>5, <4>1, FS_AddElement
      <4>3. Taken(0)' = Taken(0) + 1 /\ Wasted(0)' = Wasted(0)
          BY <1>5, <3>1, <3>3, <4>2
      <4> QED BY <1>3, <1>5, <1>6, <2>2, <3>2, <3>3, <4>3, Numbers DEF Behind, c
    <3>4. CASE sessions' = sessions /\ refused' = refused \cup {c}
      <4>1. Cardinality(refused') = Cardinality(refused) + 1
          BY <1>2, <1>4, <1>5, <3>4, FS_AddElement
      <4>2. Taken(0)' = Taken(0) /\ Wasted(0)' = Wasted(0) + 1
          BY <1>5, <3>1, <3>4, <4>1
      <4> QED BY <1>3, <1>5, <1>6, <2>2, <3>2, <4>2, Numbers DEF Behind, c
    <3> QED BY <1>1, <3>3, <3>4
  <2> QED BY <2>1, <2>2
<1> QED BY <1>8, <1>9, <1>10, <1>11, <1>12, <1>13 DEF ServerInv

\* The initial states satisfy the invariant.
LEMMA InitInv == Init => ServerInv
<1> SUFFICES ASSUME Init PROVE ServerInv
    OBVIOUS
<1>1. 0 \in Workers /\ 0 \in 0..Word - 1 /\ 0 \in 0..MaxConns
    BY Numbers DEF Workers
<1>2. /\ pc = "idle" /\ arrived = 0 /\ refused = {} /\ cut = {} /\ gated = {} /\ Seen = 0
      /\ \A w \in Workers : /\ count[w] = 0 /\ chan[w] = <<>> /\ sessions[w] = {} /\ lost[w] = {}
    BY DEF Init, Seen, InHand
<1>3. TypeOK
  <2>1. single \in BOOLEAN
      BY ServerAssumption DEF Init
  <2>2. thread \in [Workers -> {"run", "empty", "closing", "gone"}]
      BY DEF Init
  <2>3. tx \in [Workers -> BOOLEAN]
      BY <2>1 DEF Init
  <2> QED BY <1>1, <2>1, <2>2, <2>3 DEF Init, TypeOK, PCs
<1>4. SingleOK /\ HandOK /\ SendOK /\ LossOK /\ GateOK
    BY <1>2 DEF SingleOK, HandOK, SendOK, LossOK, GateOK, InHand
<1>5. \A w \in Workers : InChan(w) = {}
    BY <1>2, NoMessages DEF InChan
<1>6. KnownOK /\ ApartOK
    BY <1>2, <1>5, NoMessages DEF KnownOK, ApartOK
<1>7. CountOK
  <2> SUFFICES ASSUME NEW w \in Workers
               PROVE  /\ Taken(w) <= WorkerConns /\ Taken(w) + Wasted(w) <= Seen
                      /\ Behind(count[w], Pending(w), Taken(w) + Wasted(w))
      BY DEF CountOK
  <2>1. Taken(w) = 0
    <3>1. Taken(w) = Cardinality({}) + Len(<<>>) + Cardinality({})
        BY <1>2 DEF Taken
    <3> QED BY <3>1, NoMessages, FS_EmptySet
  <2>2. Wasted(w) = 0 /\ Pending(w) = 0
      BY <1>2, FS_EmptySet DEF Wasted, Pending
  <2> QED BY <1>2, <2>1, <2>2, Numbers DEF Behind
<1> QED BY <1>3, <1>4, <1>6, <1>7 DEF ServerInv

\* ServerInv is inductive.
LEMMA NextInv == ServerInv /\ [Next]_vars => ServerInv'
<1> SUFFICES ASSUME ServerInv, [Next]_vars PROVE ServerInv'
    OBVIOUS
<1>1. CASE Accept
    BY <1>1, AcceptInv
<1>2. ASSUME NEW g \in BOOLEAN, AcceptSingle(g) PROVE ServerInv'
    BY <1>2, AcceptSingleInv
<1>3. CASE Stop \/ StopMulti \/ DropWorker \/ UNCHANGED vars
    BY <1>3, IdleInv
<1>4. CASE Look
    BY <1>4, LookInv
<1>5. CASE Send
    BY <1>5, SendInv
<1>6. CASE Inc
    BY <1>6, IncInv
<1>7. CASE Join
    BY <1>7, JoinInv
<1>8. CASE StopSingle
    BY <1>8, EndInv
<1>9. ASSUME NEW w \in Workers, WorkerStep(w) \/ Fail(w) \/ \E c \in Conns : Close(w, c)
      PROVE  ServerInv'
  <2>1. ASSUME NEW g \in BOOLEAN, Take(w, g) PROVE ServerInv'
      BY <2>1, TakeInv
  <2>2. CASE FindEmpty(w) \/ Wait(w)
      BY <2>2, IdleInv
  <2>3. CASE EndOfStream(w) \/ Fail(w)
      BY <2>3, EndInv
  <2>4. ASSUME NEW c \in Conns, Close(w, c) PROVE ServerInv'
      BY <2>4, CloseInv
  <2> QED BY <1>9, <2>1, <2>2, <2>3, <2>4 DEF WorkerStep
<1> QED BY <1>1, <1>2, <1>3, <1>4, <1>5, <1>6, <1>7, <1>8, <1>9 DEF Next, ServerStep

----------------------------------------------------------------------------
(* The theorems.                                                           *)

\* The invariant holds in every execution of the server, whatever the number of workers,
\* of places and of connections, and however many workers fail.
THEOREM ServerInvariance == Spec => []ServerInv
BY InitInv, NextInv, PTL DEF Spec

\* A server thread that looks at the counter of a live worker sees exactly what that
\* worker has: the hand-over that precedes the increment, and the sessions that end
\* between the two, leave no trace once the increment is done.
THEOREM ServerCountExact == Spec => []CountExact
<1>1. ServerInv => CountExact
  <2> SUFFICES ASSUME ServerInv, ~single, pc = "look", NEW w \in Workers, Receiving(w)
               PROVE  count[w] = Busy(w)
      BY DEF CountExact
  <2>1. count[w] = Taken(w)
      BY Exact
  <2>2. Cardinality(lost[w]) = 0
      BY FS_EmptySet DEF ServerInv, LossOK
  <2>3. Cardinality(sessions[w]) \in Nat /\ Len(chan[w]) \in Nat
      BY CountFacts DEF ServerInv
  <2> QED BY <2>1, <2>2, <2>3 DEF Taken, Busy
<1> QED BY <1>1, ServerInvariance, PTL

\* No worker ever has more than worker_conns connections, in sessions and in its channel,
\* and send never finds the channel full.
THEOREM ServerWithinLimit == Spec => []WithinLimit
<1>1. ServerInv => WithinLimit
  <2> SUFFICES ASSUME ServerInv PROVE WithinLimit
      OBVIOUS
  <2>1. ASSUME NEW w \in Workers PROVE Busy(w) <= WorkerConns
    <3>1. Taken(w) <= WorkerConns
        BY DEF ServerInv, CountOK
    <3>2. /\ Cardinality(sessions[w]) \in Nat /\ Len(chan[w]) \in Nat
          /\ Cardinality(lost[w]) \in Nat
        BY CountFacts DEF ServerInv
    <3> QED BY <3>1, <3>2, Numbers DEF Taken, Busy
  <2>2. ASSUME pc = "send" PROVE Len(chan[at]) < WorkerConns
    <3>1. Taken(at) < WorkerConns /\ at \in Workers
        BY <2>2 DEF ServerInv, SendOK, TypeOK
    <3>2. /\ Cardinality(sessions[at]) \in Nat /\ Len(chan[at]) \in Nat
          /\ Cardinality(lost[at]) \in Nat
        BY <3>1, CountFacts DEF ServerInv
    <3> QED BY <3>1, <3>2, Numbers DEF Taken
  <2> QED BY <2>1, <2>2 DEF WithinLimit
<1> QED BY <1>1, ServerInvariance, PTL

\* A worker whose thread has ended takes at most worker_conns connections with it, and no
\* session that holds a gate is ended by the shutdown.
THEOREM ServerLossBounded == Spec => []LossBounded
<1>1. ServerInv => LossBounded
  <2> SUFFICES ASSUME ServerInv PROVE LossBounded
      OBVIOUS
  <2>1. ASSUME NEW w \in Workers PROVE Cardinality(lost[w]) <= WorkerConns
    <3>1. Taken(w) <= WorkerConns
        BY DEF ServerInv, CountOK
    <3>2. /\ Cardinality(sessions[w]) \in Nat /\ Len(chan[w]) \in Nat
          /\ Cardinality(lost[w]) \in Nat
        BY CountFacts DEF ServerInv
    <3> QED BY <3>1, <3>2, Numbers DEF Taken
  <2> QED BY <2>1 DEF LossBounded, ServerInv, GateOK
<1> QED BY <1>1, ServerInvariance, PTL

\* A live worker is passed over only while all its places are taken.
THEOREM ServerPassesOverOnlyFull == Spec => PassedOverOnlyWhenFull
<1> DEFINE Full == pc = "look" /\ pc' # "send" /\ (at' # at \/ pc' # pc) /\ Receiving(at)
                     => Busy(at) = WorkerConns
<1>1. ServerInv /\ [Next]_vars => [Full]_vars
  <2> SUFFICES ASSUME ServerInv, Next, pc = "look", pc' # "send", at' # at \/ pc' # pc, Receiving(at)
               PROVE  Busy(at) = WorkerConns
      OBVIOUS
  <2>1. Look
      BY DEF Next, ServerStep, WorkerStep, Accept, AcceptSingle, Stop, Send, Inc, StopMulti,
             DropWorker, Join, StopSingle, Take, FindEmpty, Wait, EndOfStream, Fail, Close, threadVars
  <2>2. ~(count[at] < WorkerConns) /\ at \in Workers /\ ~single
      BY <2>1 DEF Look, HasPlace, ServerInv, TypeOK, SingleOK
  <2>3. count[at] = Taken(at) /\ Taken(at) <= WorkerConns
      BY <2>2, Exact
  <2>4. Cardinality(lost[at]) = 0
      BY <2>2, FS_EmptySet DEF ServerInv, LossOK
  <2>5. Cardinality(sessions[at]) \in Nat /\ Len(chan[at]) \in Nat
      BY <2>2, CountFacts DEF ServerInv
  <2> QED BY <2>2, <2>3, <2>4, <2>5, Numbers DEF Taken, Busy
<1> QED BY <1>1, ServerInvariance, PTL DEF Spec, PassedOverOnlyWhenFull
=============================================================================

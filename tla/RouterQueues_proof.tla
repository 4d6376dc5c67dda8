------------------------- MODULE RouterQueues_proof -------------------------
(***************************************************************************)
(* What the router's two queues achieve, for any finite sets of models and *)
(* workers, any limit and any environment: type correctness, that every    *)
(* waiter is counted, that a model that is marked as stopping really is    *)
(* being stopped, and that a stop never reaches an instance it was not     *)
(* meant for.                                                              *)
(*                                                                         *)
(* The commands are a queue between the workers and the monitor.  A STOP   *)
(* is effective when its model's child is watched, or will be by the time  *)
(* the STOP is handled because a WATCH is before it.  A marked model has   *)
(* an effective STOP in the queue, a deadline or a dead process; a model   *)
(* that is not marked has none: a STOP left over from an earlier instance  *)
(* is always in front of the WATCH of the next.                            *)
(*                                                                         *)
(* A critical section changes the queues and the set of marked models in   *)
(* several steps, so that the parts of the invariant take them, the        *)
(* registry i and the processes ch as parameters.                          *)
(***************************************************************************)
EXTENDS ServerModels_proof, SeqLemmas

-----------------------------------------------------------------------------
(* The inductive invariant: commands.                                      *)

WatchAt(c, k, m) == c[k].type = "WATCH" /\ c[k].model = m
StopAt(c, k, m) == c[k].type = "STOP" /\ c[k].model = m

\* The k-th command of c will reach the child of m.
HitsAt(ch, c, k, m) ==
    /\ StopAt(c, k, m)
    /\ ch[m].watched \/ \E j \in DOMAIN c : j < k /\ WatchAt(c, j, m)

\* Without a process the monitor has no record, and no flag is set.
NoRecord(ch) ==
    \A m \in Models : ch[m].proc = "none" =>
        ~ch[m].watched /\ ~ch[m].asked /\ ~ch[m].deadline

\* A process that is not watched yet has one WATCH on its way, and nothing
\* else has.
WatchOnce(ch, c) ==
    \A m \in Models :
        /\ ch[m].proc # "none" /\ ~ch[m].watched =>
             \E k \in DOMAIN c : WatchAt(c, k, m)
        /\ \A k \in DOMAIN c : WatchAt(c, k, m) =>
             /\ ch[m].proc # "none" /\ ~ch[m].watched
             /\ \A j \in DOMAIN c : WatchAt(c, j, m) => j = k

StopsArrive(i, ch, s, c) ==
    \A m \in s :
        /\ i[m].status \in Running
        /\ \/ ch[m].deadline
           \/ ch[m].proc = "dead"
           \/ \E k \in DOMAIN c : HitsAt(ch, c, k, m)

StopsMeant(ch, s, c) ==
    \A m \in Models \ s :
        /\ ~ch[m].asked /\ ~ch[m].deadline
        /\ \A k \in DOMAIN c : ~HitsAt(ch, c, k, m)

\* The set s of marked models and the commands c fit together.
StopsFit(i, ch, s, c) ==
    /\ s \subseteq Models /\ c \in Seq(Command)
    /\ WatchOnce(ch, c) /\ StopsArrive(i, ch, s, c) /\ StopsMeant(ch, s, c)

-----------------------------------------------------------------------------
(* The inductive invariant: waiters.                                       *)

\* The requests in the queue for each model, as the workers w think.
Waits(w) == [m \in Models |-> {t \in Threads : w[t].queued /\ w[t].model = m}]

\* The queue q counts the waiters W.
QueueFits(q, W) ==
    /\ q \in Seq(Entry)
    /\ \A k \in DOMAIN q : q[k].waiters = Cardinality(W[q[k].model])
    /\ \A j, k \in DOMAIN q : q[j].model = q[k].model => j = k
    /\ \A m \in Models : W[m] # {} => \E k \in DOMAIN q : q[k].model = m

\* Only requests enter the queue, and they leave it before they go on.
QueuePlaces(w) ==
    \A t \in Threads :
        /\ w[t].pc \in {"ensure", "join", "loop", "claimed"} =>
             w[t].op = "request"
        /\ w[t].queued =>
             /\ w[t].op = "request"
             /\ w[t].pc \in {"loop", "lru", "unload", "gone", "spawn",
                             "claimed"}

Recency(r) == r \in Seq(Models) /\ ToSet(r) = Models

QueuesInv ==
    /\ IInv /\ Recency(recency)
    /\ NoRecord(child) /\ StopsFit(inst, child, stopping, cmds)
    /\ QueuePlaces(th) /\ QueueFits(queue, Waits(th))
    /\ arrivals \in 0..MaxArrivals /\ faults \in 0..MaxFaults

-----------------------------------------------------------------------------
(* Lemmas: the commands.                                                   *)

\* request_stop in order of last use: one STOP for each of the models.
LEMMA StopsFacts ==
  ASSUME Recency(recency), NEW ms, ms \subseteq Models
  PROVE  /\ Stops(ms) \in Seq(Command)
         /\ \A k \in DOMAIN Stops(ms) : /\ Stops(ms)[k].type = "STOP"
                                        /\ Stops(ms)[k].model \in ms
         /\ \A m \in ms : \E k \in DOMAIN Stops(ms) : Stops(ms)[k].model = m
<1> DEFINE n == Len(recency)
           stop(m) == [type |-> "STOP", model |-> m, send_exit |-> TRUE]
           s == [k \in 1..n |-> stop(recency[k])]
           K == {k \in 1..n : recency[k] \in ms}
           Solves(f) == f = [k \in 0..n |->
                               IF k = 0 THEN <<>>
                               ELSE IF recency[k] \notin ms THEN f[k - 1]
                               ELSE Append(f[k - 1], stop(recency[k]))]
           f == CHOOSE upto : Solves(upto)
<1>1. Stops(ms) = f[n]
  BY Zenon DEF Stops
<1>2. n \in Nat /\ \A k \in 1..n : recency[k] \in Models
  BY LenProperties, ElementOfSeq DEF Recency
<1>3. s \in Seq(Command) /\ Len(s) = n
  BY <1>2 DEF Command
<1>4. ASSUME NEW h
      PROVE  Solves(h) <=> CopyTable(h, s, K, n)
  <2>1. \A k \in 0..n : k # 0 => /\ k \in K <=> recency[k] \in ms
                                 /\ s[k] = stop(recency[k])
    BY <1>2
  <2>2. [k \in 0..n |-> IF k = 0 THEN <<>>
                        ELSE IF recency[k] \notin ms THEN h[k - 1]
                        ELSE Append(h[k - 1], stop(recency[k]))]
        = [k \in 0..n |-> IF k = 0 THEN <<>>
                          ELSE IF k \in K THEN Append(h[k - 1], s[k])
                          ELSE h[k - 1]]
    <3> HIDE DEF K, s, stop
    <3> QED
      BY <2>1
  <2> QED
    BY <2>2, Zenon DEF CopyTable
<1>5. Solves(f)
  <2>1. \E h : Solves(h)
    BY <1>2, <1>4, CopyTableExists
  <2> HIDE DEF Solves
  <2> QED
    BY <2>1, Zenon
<1> HIDE DEF f, Solves
<1>6. CopyTable(f, s, K, Len(s))
  BY <1>3, <1>4, <1>5
<1>7. PICK g : CopyOf(f[n], g, s, K, n, Command)
  BY <1>3, <1>6, CopyTableCopies
<1>8. f[n] \in Seq(Command) /\ DOMAIN f[n] = 1..Len(f[n])
  BY <1>7, LenProperties DEF CopyOf
<1>9. ASSUME NEW k \in DOMAIN f[n]
      PROVE  f[n][k].type = "STOP" /\ f[n][k].model \in ms
  <2>1. f[n][k] = s[g[k]] /\ g[k] \in 1..n /\ g[k] \in K
    BY <1>7, <1>8 DEF CopyOf
  <2> QED
    BY <2>1
<1>10. ASSUME NEW m \in ms
       PROVE  \E k \in DOMAIN f[n] : f[n][k].model = m
  <2>1. m \in ToSet(recency)
    BY DEF Recency
  <2>2. PICK j \in 1..n : recency[j] = m
    BY <1>2, <2>1, LenProperties DEF ToSet, Recency
  <2>3. j \in (1..n) \cap K
    BY <2>2
  <2>4. PICK k \in DOMAIN f[n] : g[k] = j
    BY <1>7, <1>8, <2>3 DEF CopyOf
  <2>5. f[n][k] = s[j]
    BY <1>7, <1>8, <2>4 DEF CopyOf
  <2> QED
    BY <2>2, <2>5
<1> QED
  BY <1>1, <1>8, <1>9, <1>10

\* A model that is used moves to the end of the order of last use.
LEMMA TouchedFacts ==
  ASSUME Recency(recency), NEW m \in Models
  PROVE  Recency(Touched(m))
<1> DEFINE n == Len(recency)
           p == Position(m)
           r == RemoveAt(recency, p)
<1>1. /\ n \in Nat /\ DOMAIN recency = 1..n /\ recency \in Seq(Models)
      /\ \A k \in 1..n : recency[k] \in Models
  BY LenProperties, ElementOfSeq DEF Recency
<1>2. \A x \in Models : \E k \in 1..n : recency[k] = x
  BY <1>1 DEF Recency, ToSet
<1>3. p \in 1..n /\ recency[p] = m
  BY <1>1, <1>2 DEF Position
<1> HIDE DEF p
<1>4. /\ r \in Seq(Models) /\ Len(r) = n - 1
      /\ \A k \in 1..(n - 1) : r[k] = IF k < p THEN recency[k] ELSE recency[k + 1]
  BY <1>1, <1>3, RemoveAtFacts
<1> HIDE DEF r
<1> DEFINE v == Append(r, m)
<1>5. /\ v \in Seq(Models) /\ Len(v) = n /\ v[n] = m
      /\ \A k \in 1..(n - 1) : v[k] = r[k]
  <2>1. /\ v \in Seq(Models) /\ Len(v) = Len(r) + 1 /\ v[Len(r) + 1] = m
        /\ \A k \in 1..Len(r) : v[k] = r[k]
    BY <1>4, AppendProperties
  <2> HIDE DEF v
  <2> QED
    BY <1>1, <1>4, <2>1
<1> HIDE DEF v
<1>6. \A x \in Models : \E k \in 1..n : v[k] = x
  <2> SUFFICES ASSUME NEW x \in Models
               PROVE  \E k \in 1..n : v[k] = x
    OBVIOUS
  <2>1. PICK k \in 1..n : recency[k] = x
    BY <1>2
  <2>2. CASE k = p
    BY <1>1, <1>3, <1>5, <2>1, <2>2
  <2>3. CASE k < p
    <3>1. k \in 1..(n - 1) /\ v[k] = recency[k]
      BY <1>3, <1>4, <1>5, <2>3
    <3> QED
      BY <1>1, <2>1, <3>1
  <2>4. CASE k > p
    <3>1. k - 1 \in 1..(n - 1) /\ ~(k - 1 < p) /\ (k - 1) + 1 = k
      BY <1>1, <1>3, <2>4
    <3>2. v[k - 1] = recency[k]
      BY <1>4, <1>5, <3>1
    <3> QED
      BY <1>1, <2>1, <3>1, <3>2
  <2> QED
    BY <1>3, <2>2, <2>3, <2>4
<1>7. ToSet(v) = Models
  <2>1. DOMAIN v = 1..n /\ \A k \in 1..n : v[k] \in Models
    BY <1>5, LenProperties, ElementOfSeq
  <2> QED
    BY <1>6, <2>1 DEF ToSet
<1> QED
  BY <1>5, <1>7 DEF Recency, Touched, r, v, p

\* Marking running models and queueing a stop for each of them keeps the
\* marks and the commands together.
LEMMA MoreStops ==
  ASSUME NEW i, NEW ch, NEW s, NEW c, StopsFit(i, ch, s, c),
         NEW V, V \subseteq Models,
         \A m \in V : i[m].status \in Running /\ ch[m].proc # "none",
         NEW d \in Seq(Command),
         \A k \in DOMAIN d : d[k].type = "STOP" /\ d[k].model \in V,
         \A m \in V : \E k \in DOMAIN d : d[k].model = m
  PROVE  StopsFit(i, ch, s \cup V, c \o d)
<1> DEFINE e == c \o d
<1>1. /\ c \in Seq(Command) /\ Len(c) \in Nat /\ Len(d) \in Nat
      /\ DOMAIN c = 1..Len(c) /\ DOMAIN d = 1..Len(d)
  BY LenProperties DEF StopsFit
<1>2. /\ e \in Seq(Command) /\ DOMAIN e = 1..(Len(c) + Len(d))
      /\ \A k \in 1..(Len(c) + Len(d)) :
           e[k] = IF k <= Len(c) THEN c[k] ELSE d[k - Len(c)]
  <2>1. /\ e \in Seq(Command) /\ Len(e) = Len(c) + Len(d)
        /\ \A k \in 1..(Len(c) + Len(d)) :
             e[k] = IF k <= Len(c) THEN c[k] ELSE d[k - Len(c)]
    BY <1>1, ConcatProperties, Zenon
  <2> QED
    BY <2>1, LenProperties
<1> HIDE DEF e
<1>3. \A k \in DOMAIN c : k \in DOMAIN e /\ e[k] = c[k]
  BY <1>1, <1>2
<1>4. \A k \in DOMAIN e : /\ k \in DOMAIN c \/ \A j \in DOMAIN c : j < k
                          /\ k \notin DOMAIN c => e[k].type = "STOP" /\ e[k].model \in V
  <2> SUFFICES ASSUME NEW k \in DOMAIN e, k \notin DOMAIN c
               PROVE  /\ \A j \in DOMAIN c : j < k
                      /\ e[k].type = "STOP" /\ e[k].model \in V
    OBVIOUS
  <2>1. k - Len(c) \in DOMAIN d /\ e[k] = d[k - Len(c)]
    BY <1>1, <1>2
  <2>2. \A j \in DOMAIN c : j < k
    BY <1>1, <1>2
  <2> QED
    BY <2>1, <2>2
<1>5. \A m \in V : \E k \in DOMAIN e : StopAt(e, k, m) /\ \A j \in DOMAIN c : j < k
  <2> SUFFICES ASSUME NEW m \in V
               PROVE  \E k \in DOMAIN e : StopAt(e, k, m) /\ \A j \in DOMAIN c : j < k
    OBVIOUS
  <2>1. PICK k \in DOMAIN d : d[k].model = m
    OBVIOUS
  <2>2. /\ k + Len(c) \in DOMAIN e /\ e[k + Len(c)] = d[k]
        /\ \A j \in DOMAIN c : j < k + Len(c)
    BY <1>1, <1>2
  <2> QED
    BY <2>1, <2>2 DEF StopAt
<1>6. \A k \in DOMAIN e, m \in Models : WatchAt(e, k, m) <=> k \in DOMAIN c /\ WatchAt(c, k, m)
  BY <1>3, <1>4 DEF WatchAt
<1>7. \A k \in DOMAIN c, m \in Models : HitsAt(ch, e, k, m) <=> HitsAt(ch, c, k, m)
  BY <1>3, <1>6 DEF HitsAt, StopAt
<1>8. WatchOnce(ch, e)
  BY <1>3, <1>6 DEF WatchOnce, StopsFit
<1>9. StopsArrive(i, ch, s \cup V, e)
  <2> SUFFICES ASSUME NEW m \in s \cup V
               PROVE  /\ i[m].status \in Running
                      /\ \/ ch[m].deadline
                         \/ ch[m].proc = "dead"
                         \/ \E k \in DOMAIN e : HitsAt(ch, e, k, m)
    BY DEF StopsArrive
  <2>1. m \in Models
    BY DEF StopsFit
  <2>2. CASE m \in s
    BY <1>3, <1>7, <2>1, <2>2 DEF StopsFit, StopsArrive
  <2>3. CASE m \in V
    <3>1. PICK k \in DOMAIN e : StopAt(e, k, m) /\ \A j \in DOMAIN c : j < k
      BY <1>5, <2>3
    <3>2. ch[m].watched \/ \E j \in DOMAIN c : WatchAt(c, j, m)
      BY <2>1, <2>3 DEF StopsFit, WatchOnce
    <3>3. HitsAt(ch, e, k, m)
      BY <1>3, <1>6, <2>1, <3>1, <3>2 DEF HitsAt
    <3> QED
      BY <2>3, <3>3
  <2> QED
    BY <2>2, <2>3
<1>10. StopsMeant(ch, s \cup V, e)
  <2> SUFFICES ASSUME NEW m \in Models, m \notin s, m \notin V
               PROVE  /\ ~ch[m].asked /\ ~ch[m].deadline
                      /\ \A k \in DOMAIN e : ~HitsAt(ch, e, k, m)
    BY DEF StopsMeant
  <2>1. /\ ~ch[m].asked /\ ~ch[m].deadline
        /\ \A k \in DOMAIN c : ~HitsAt(ch, c, k, m)
    BY DEF StopsFit, StopsMeant
  <2>2. ASSUME NEW k \in DOMAIN e PROVE ~HitsAt(ch, e, k, m)
    BY <1>4, <1>7, <2>1 DEF HitsAt, StopAt
  <2> QED
    BY <2>1, <2>2
<1> QED
  BY <1>2, <1>8, <1>9, <1>10 DEF StopsFit, e

\* What tick evicts runs.
LEMMA VictimsRun ==
  ASSUME NEW q, NEW i, NEW s
  PROVE  Victims(q, i, s) \subseteq RunningSet(i)
BY DEF Victims, Evictable, ReadyOrSleep, Running, RunningSet

\* A model runs exactly while it has a process.
RunsInProcess(i, ch) ==
  \A m \in Models : i[m].status \in Running => ch[m].proc # "none"

\* tick keeps the marks and the commands together.
LEMMA TickFits ==
  ASSUME Recency(recency), NEW i, NEW ch, RunsInProcess(i, ch), NEW q,
         NEW s, NEW c, StopsFit(i, ch, s, c)
  PROVE  StopsFit(i, ch, Marked(s, Victims(q, i, s)), c \o Stops(Victims(q, i, s)))
<1> DEFINE V == Victims(q, i, s)
<1>1. /\ V \subseteq Models
      /\ \A m \in V : i[m].status \in Running /\ ch[m].proc # "none"
  BY VictimsRun DEF RunningSet, RunsInProcess
<1> HIDE DEF V
<1> DEFINE d == Stops(V)
<1>2. /\ d \in Seq(Command)
      /\ \A k \in DOMAIN d : d[k].type = "STOP" /\ d[k].model \in V
      /\ \A m \in V : \E k \in DOMAIN d : d[k].model = m
  BY <1>1, StopsFacts
<1> HIDE DEF d
<1>3. StopsFit(i, ch, s \cup V, c \o d)
  BY <1>1, <1>2, MoreStops
<1> QED
  BY <1>3 DEF Marked, V, d

\* Where the processes go without the monitor noticing: a process that runs
\* stays or dies, and only a dead one loses its deadline.
Drifts(i, j, ch, dh) ==
  \A m \in Models :
    /\ i[m].status \in Running => j[m].status \in Running
    /\ ch[m].proc = "none" <=> dh[m].proc = "none"
    /\ ch[m].proc = "dead" => dh[m].proc = "dead"
    /\ dh[m].watched = ch[m].watched
    /\ dh[m].asked = ch[m].asked
    /\ \/ dh[m].deadline = ch[m].deadline
       \/ ~dh[m].deadline /\ dh[m].proc = "dead"

\* Such a change keeps the marks and the commands together.
LEMMA DriftFits ==
  ASSUME NEW i, NEW j, NEW ch, NEW dh, Drifts(i, j, ch, dh),
         NEW s, NEW c, StopsFit(i, ch, s, c), NoRecord(ch)
  PROVE  StopsFit(j, dh, s, c) /\ NoRecord(dh)
<1>1. s \subseteq Models
  BY DEF StopsFit
<1>2. WatchOnce(dh, c)
  BY DEF StopsFit, WatchOnce, Drifts
<1>3. \A k \in DOMAIN c, m \in Models : HitsAt(ch, c, k, m) <=> HitsAt(dh, c, k, m)
  BY DEF HitsAt, Drifts
<1>4. StopsArrive(j, dh, s, c)
  <2> SUFFICES ASSUME NEW m \in s
               PROVE  /\ j[m].status \in Running
                      /\ \/ dh[m].deadline
                         \/ dh[m].proc = "dead"
                         \/ \E k \in DOMAIN c : HitsAt(dh, c, k, m)
    BY DEF StopsArrive
  <2>1. m \in Models
    BY <1>1
  <2>2. /\ i[m].status \in Running
        /\ \/ ch[m].deadline
           \/ ch[m].proc = "dead"
           \/ \E k \in DOMAIN c : HitsAt(ch, c, k, m)
    BY DEF StopsFit, StopsArrive
  <2> QED
    BY <1>3, <2>1, <2>2 DEF Drifts
<1>5. StopsMeant(dh, s, c)
  <2> SUFFICES ASSUME NEW m \in Models, m \notin s
               PROVE  /\ ~dh[m].asked /\ ~dh[m].deadline
                      /\ \A k \in DOMAIN c : ~HitsAt(dh, c, k, m)
    BY DEF StopsMeant
  <2>1. /\ ~ch[m].asked /\ ~ch[m].deadline
        /\ \A k \in DOMAIN c : ~HitsAt(ch, c, k, m)
    BY DEF StopsFit, StopsMeant
  <2> QED
    BY <1>3, <2>1 DEF Drifts
<1>6. NoRecord(dh)
  BY DEF NoRecord, Drifts
<1> QED
  BY <1>2, <1>4, <1>5, <1>6 DEF StopsFit

-----------------------------------------------------------------------------
(* Lemmas: the waiters.                                                    *)

\* The indices of the queue.
LEMMA QueueIndex ==
  ASSUME NEW q, NEW W, QueueFits(q, W)
  PROVE  /\ q \in Seq(Entry) /\ Len(q) \in Nat /\ DOMAIN q = 1..Len(q)
         /\ \A k \in DOMAIN q : q[k] \in Entry
BY LenProperties, ElementOfSeq DEF QueueFits

\* Whether an entry is being loaded does not matter to its count.
LEMMA RelabelFits ==
  ASSUME NEW q, NEW W, QueueFits(q, W), NEW r, DOMAIN r = DOMAIN q,
         r \in Seq(Entry),
         \A k \in DOMAIN q : r[k].model = q[k].model /\ r[k].waiters = q[k].waiters
  PROVE  QueueFits(r, W)
BY DEF QueueFits

\* The waiters of a model are finitely many.
LEMMA WaitersFinite ==
  ASSUME NEW W \in [Models -> SUBSET Threads], NEW m \in Models
  PROVE  IsFiniteSet(W[m]) /\ Cardinality(W[m]) \in Nat
BY RouterAssumption, FS_Subset, FS_CardinalityType

\* A request joins.
LEMMA JoinFits ==
  ASSUME NEW W \in [Models -> SUBSET Threads], NEW q, QueueFits(q, W),
         NEW m \in Models, NEW t \in Threads, t \notin W[m]
  PROVE  QueueFits(Join(q, m), [W EXCEPT ![m] = @ \cup {t}])
<1> DEFINE X == [W EXCEPT ![m] = @ \cup {t}]
           r == Join(q, m)
<1>1. /\ \A x \in Models : x # m => X[x] = W[x]
      /\ Cardinality(X[m]) = Cardinality(W[m]) + 1 /\ X[m] # {}
  <2>1. X[m] = W[m] \cup {t} /\ \A x \in Models : x # m => X[x] = W[x]
    OBVIOUS
  <2>2. Cardinality(W[m] \cup {t}) = Cardinality(W[m]) + 1
    BY WaitersFinite, FS_AddElement
  <2> QED
    BY <2>1, <2>2
<1> HIDE DEF X
<1>2. /\ q \in Seq(Entry) /\ Len(q) \in Nat /\ DOMAIN q = 1..Len(q)
      /\ \A k \in DOMAIN q : q[k] \in Entry /\ q[k].model \in Models
  BY QueueIndex DEF Entry
<1>3. CASE \E k \in DOMAIN q : q[k].model = m
  <2> DEFINE raised == [k \in DOMAIN q |->
                          IF q[k].model = m THEN [q[k] EXCEPT !.waiters = @ + 1]
                          ELSE q[k]]
  <2>1. r = raised
    BY <1>3 DEF Join
  <2> HIDE DEF r
  <2>2. \A k \in 1..Len(q) : IF q[k].model = m THEN [q[k] EXCEPT !.waiters = @ + 1] \in Entry
                             ELSE q[k] \in Entry
    BY <1>2 DEF Entry
  <2>3. r \in Seq(Entry) /\ DOMAIN r = DOMAIN q
    BY <1>2, <2>1, <2>2
  <2>4. \A k \in DOMAIN q :
          /\ r[k].model = q[k].model
          /\ r[k].waiters = IF q[k].model = m THEN q[k].waiters + 1 ELSE q[k].waiters
    BY <1>2, <2>1 DEF Entry
  <2>5. \A k \in DOMAIN r : r[k].waiters = Cardinality(X[r[k].model])
    BY <1>1, <1>2, <2>3, <2>4 DEF QueueFits
  <2>6. \A j, k \in DOMAIN r : r[j].model = r[k].model => j = k
    BY <2>3, <2>4 DEF QueueFits
  <2>7. \A x \in Models : X[x] # {} => \E k \in DOMAIN r : r[k].model = x
    BY <1>1, <1>3, <2>3, <2>4 DEF QueueFits
  <2>8. QueueFits(r, X)
    BY <2>3, <2>5, <2>6, <2>7 DEF QueueFits
  <2> QED
    BY <2>8 DEF r, X
<1>4. CASE ~\E k \in DOMAIN q : q[k].model = m
  <2> DEFINE e == [model |-> m, waiters |-> 1, loading |-> FALSE]
  <2>1. r = Append(q, e)
    BY <1>4 DEF Join
  <2> HIDE DEF r
  <2>2. e \in Entry /\ e.model = m /\ e.waiters = 1
    BY DEF Entry
  <2> HIDE DEF e
  <2>3. /\ r \in Seq(Entry) /\ Len(r) = Len(q) + 1 /\ r[Len(q) + 1] = e
        /\ \A k \in 1..Len(q) : r[k] = q[k]
    BY <1>2, <2>1, <2>2, AppendProperties
  <2>4. DOMAIN r = 1..(Len(q) + 1)
    BY <2>3, LenProperties
  <2>5. \A k \in DOMAIN r : IF k = Len(q) + 1 THEN r[k] = e
                            ELSE k \in DOMAIN q /\ r[k] = q[k]
    BY <1>2, <2>3, <2>4
  <2>6. Cardinality(X[m]) = 1
    <3>1. W[m] = {}
      BY <1>4 DEF QueueFits
    <3> QED
      BY <1>1, <3>1, FS_EmptySet
  <2>7. \A k \in DOMAIN r : r[k].waiters = Cardinality(X[r[k].model])
    BY <1>1, <1>2, <1>4, <2>2, <2>5, <2>6 DEF QueueFits
  <2>8. \A j, k \in DOMAIN r : r[j].model = r[k].model => j = k
    BY <1>4, <2>2, <2>5 DEF QueueFits
  <2>9. \A x \in Models : X[x] # {} => \E k \in DOMAIN r : r[k].model = x
    <3> SUFFICES ASSUME NEW x \in Models, X[x] # {}
                 PROVE  \E k \in DOMAIN r : r[k].model = x
      OBVIOUS
    <3>1. CASE x = m
      BY <1>2, <2>2, <2>3, <2>4, <3>1
    <3>2. CASE x # m
      <4>1. PICK k \in DOMAIN q : q[k].model = x
        BY <1>1, <3>2 DEF QueueFits
      <4>2. k \in DOMAIN r /\ r[k] = q[k]
        BY <1>2, <2>3, <2>4, <4>1
      <4> QED
        BY <4>1, <4>2
    <3> QED
      BY <3>1, <3>2
  <2>10. QueueFits(r, X)
    BY <2>3, <2>7, <2>8, <2>9 DEF QueueFits
  <2> QED
    BY <2>10 DEF r, X
<1> QED
  BY <1>3, <1>4

\* A request leaves, the last one with its entry.
LEMMA LeaveFits ==
  ASSUME NEW W \in [Models -> SUBSET Threads], NEW q, QueueFits(q, W),
         NEW m \in Models, NEW t \in W[m]
  PROVE  QueueFits(Leave(q, m), [W EXCEPT ![m] = @ \ {t}])
<1> DEFINE X == [W EXCEPT ![m] = @ \ {t}]
           r == Leave(q, m)
           at == {k \in DOMAIN q : q[k].model = m}
           p == CHOOSE k \in at : \A j \in at : k <= j
<1>1. /\ q \in Seq(Entry) /\ Len(q) \in Nat /\ DOMAIN q = 1..Len(q)
      /\ \A k \in DOMAIN q : /\ q[k] \in Entry /\ q[k].model \in Models
                             /\ q[k].waiters = Cardinality(W[q[k].model])
      /\ \A j, k \in DOMAIN q : q[j].model = q[k].model => j = k
  <2>1. \A k \in DOMAIN q : q[k].model \in Models
    BY QueueIndex DEF Entry
  <2> QED
    BY <2>1, QueueIndex DEF QueueFits
<1>2. p \in DOMAIN q /\ q[p].model = m /\ at # {}
  <2>1. PICK k \in DOMAIN q : q[k].model = m
    BY DEF QueueFits
  <2>2. k \in at /\ \A j \in at : k <= j
    BY <1>1, <2>1
  <2> QED
    BY <2>2
<1>3. \A k \in DOMAIN q : k # p => q[k].model # m
  BY <1>1, <1>2
<1>4. r = IF q[p].waiters <= 1 THEN RemoveAt(q, p) ELSE [q EXCEPT ![p].waiters = @ - 1]
  BY <1>2, Zenon DEF Leave
<1> HIDE DEF r, p, at
<1>5. /\ \A x \in Models : x # m => X[x] = W[x]
      /\ Cardinality(X[m]) = q[p].waiters - 1
      /\ q[p].waiters \in Nat
      /\ q[p].waiters <= 1 => X[m] = {}
  <2>1. X[m] = W[m] \ {t} /\ \A x \in Models : x # m => X[x] = W[x]
    OBVIOUS
  <2>2. /\ IsFiniteSet(W[m]) /\ Cardinality(W[m]) \in Nat
        /\ Cardinality(W[m] \ {t}) = Cardinality(W[m]) - 1
    BY WaitersFinite, FS_RemoveElement
  <2>3. q[p].waiters = Cardinality(W[m])
    BY <1>1, <1>2
  <2>4. IsFiniteSet(W[m] \ {t}) /\ Cardinality(W[m] \ {t}) \in Nat
    BY <2>2, FS_Subset, FS_CardinalityType
  <2>5. q[p].waiters <= 1 => Cardinality(W[m] \ {t}) = 0
    BY <2>2, <2>3, <2>4
  <2>6. q[p].waiters <= 1 => W[m] \ {t} = {}
    BY <2>4, <2>5, FS_EmptySet
  <2> QED
    BY <2>1, <2>2, <2>3, <2>6
<1> HIDE DEF X
<1>6. CASE q[p].waiters <= 1
  <2>1. r = RemoveAt(q, p)
    BY <1>4, <1>6
  <2>2. /\ r \in Seq(Entry) /\ Len(r) = Len(q) - 1
        /\ \A k \in 1..(Len(q) - 1) : r[k] = IF k < p THEN q[k] ELSE q[k + 1]
    <3>1. p \in 1..Len(q) /\ q \in Seq(Entry)
      BY <1>1, <1>2
    <3> QED
      BY <2>1, <3>1, RemoveAtFacts, Zenon
  <2>3. DOMAIN r = 1..(Len(q) - 1)
    BY <2>2, LenProperties
  <2> DEFINE from(k) == IF k < p THEN k ELSE k + 1
  <2>4. \A k \in DOMAIN r : /\ from(k) \in DOMAIN q /\ from(k) # p
                            /\ r[k] = q[from(k)]
    BY <1>1, <1>2, <2>2, <2>3
  <2>5. \A j, k \in DOMAIN r : from(j) = from(k) => j = k
    BY <1>1, <1>2, <2>3
  <2>6. \A k \in DOMAIN q : k # p => \E j \in DOMAIN r : from(j) = k
    <3> SUFFICES ASSUME NEW k \in DOMAIN q, k # p
                 PROVE  \E j \in DOMAIN r : from(j) = k
      OBVIOUS
    <3>1. CASE k < p
      BY <1>1, <1>2, <2>3, <3>1
    <3>2. CASE ~(k < p)
      <4>1. k - 1 \in DOMAIN r /\ ~(k - 1 < p) /\ (k - 1) + 1 = k
        BY <1>1, <1>2, <2>3, <3>2
      <4> QED
        BY <4>1
    <3> QED
      BY <3>1, <3>2
  <2> HIDE DEF from
  <2>7. \A k \in DOMAIN r : r[k].waiters = Cardinality(X[r[k].model])
    BY <1>1, <1>3, <1>5, <2>4
  <2>8. \A j, k \in DOMAIN r : r[j].model = r[k].model => j = k
    BY <1>1, <2>4, <2>5
  <2>9. \A x \in Models : X[x] # {} => \E k \in DOMAIN r : r[k].model = x
    <3> SUFFICES ASSUME NEW x \in Models, X[x] # {}
                 PROVE  \E k \in DOMAIN r : r[k].model = x
      OBVIOUS
    <3>1. x # m /\ W[x] # {}
      BY <1>5, <1>6
    <3>2. PICK k \in DOMAIN q : q[k].model = x
      BY <3>1 DEF QueueFits
    <3>3. k # p
      BY <1>2, <3>1, <3>2
    <3>4. PICK j \in DOMAIN r : from(j) = k
      BY <2>6, <3>3
    <3> QED
      BY <2>4, <3>2, <3>4
  <2>10. QueueFits(r, X)
    BY <2>2, <2>7, <2>8, <2>9 DEF QueueFits
  <2> QED
    BY <2>10 DEF r, X
<1>7. CASE ~(q[p].waiters <= 1)
  <2>1. r = [q EXCEPT ![p].waiters = @ - 1]
    BY <1>4, <1>7
  <2>2. [q[p] EXCEPT !.waiters = @ - 1] \in Entry
    <3>1. q[p] \in Entry /\ q[p].waiters - 1 \in Nat
      BY <1>1, <1>2, <1>5, <1>7
    <3> QED
      BY <3>1 DEF Entry
  <2>3. r \in Seq(Entry) /\ DOMAIN r = DOMAIN q
    BY <1>1, <1>2, <2>1, <2>2
  <2>4. \A k \in DOMAIN q :
          /\ r[k].model = q[k].model
          /\ r[k].waiters = IF k = p THEN q[k].waiters - 1 ELSE q[k].waiters
    BY <1>1, <1>2, <2>1 DEF Entry
  <2>5. \A k \in DOMAIN r : r[k].waiters = Cardinality(X[r[k].model])
    BY <1>1, <1>2, <1>3, <1>5, <2>3, <2>4
  <2>6. \A j, k \in DOMAIN r : r[j].model = r[k].model => j = k
    BY <1>1, <2>3, <2>4
  <2>7. \A x \in Models : X[x] # {} => \E k \in DOMAIN r : r[k].model = x
    BY <1>2, <1>5, <2>3, <2>4 DEF QueueFits
  <2>8. QueueFits(r, X)
    BY <2>3, <2>5, <2>6, <2>7 DEF QueueFits
  <2> QED
    BY <2>8 DEF r, X
<1> QED
  BY <1>6, <1>7

\* Claiming the first entry for its loading, and giving the claim back.
LEMMA ClaimFits ==
  ASSUME NEW q, NEW W, QueueFits(q, W)
  PROVE  /\ q # <<>> => QueueFits([q EXCEPT ![1].loading = TRUE], W)
         /\ \A m : \A ok \in BOOLEAN : QueueFits(ClaimDone(q, m, ok), W)
<1>1. /\ q \in Seq(Entry) /\ Len(q) \in Nat /\ DOMAIN q = 1..Len(q)
      /\ \A k \in DOMAIN q : q[k] \in Entry
  BY QueueIndex
<1>2. ASSUME q # <<>>
      PROVE  QueueFits([q EXCEPT ![1].loading = TRUE], W)
  <2> DEFINE r == [q EXCEPT ![1].loading = TRUE]
  <2>1. 1 \in DOMAIN q
    BY <1>1, <1>2, EmptySeq
  <2>2. [q[1] EXCEPT !.loading = TRUE] \in Entry
    BY <1>1, <2>1 DEF Entry
  <2>3. r \in Seq(Entry) /\ DOMAIN r = DOMAIN q
    BY <1>1, <2>1, <2>2
  <2>4. \A k \in DOMAIN q : r[k].model = q[k].model /\ r[k].waiters = q[k].waiters
    BY <1>1, <2>1 DEF Entry
  <2> HIDE DEF r
  <2>5. QueueFits(r, W)
    BY <2>3, <2>4, RelabelFits
  <2> QED
    BY <2>5 DEF r
<1>3. ASSUME NEW m, NEW ok \in BOOLEAN
      PROVE  QueueFits(ClaimDone(q, m, ok), W)
  <2> DEFINE r == ClaimDone(q, m, ok)
  <2>1. \A k \in 1..Len(q) :
          IF q[k].model = m /\ ~ok THEN [q[k] EXCEPT !.loading = FALSE] \in Entry
          ELSE q[k] \in Entry
    BY <1>1 DEF Entry
  <2>2. r \in Seq(Entry) /\ DOMAIN r = DOMAIN q
    BY <1>1, <2>1 DEF ClaimDone
  <2>3. \A k \in DOMAIN q : r[k].model = q[k].model /\ r[k].waiters = q[k].waiters
    BY <1>1 DEF Entry, ClaimDone
  <2> HIDE DEF r
  <2>4. QueueFits(r, W)
    BY <2>2, <2>3, RelabelFits
  <2> QED
    BY <2>4 DEF r
<1> QED
  BY <1>2, <1>3

\* The waiters before and after a worker's move.
LEMMA WaitsMove ==
  ASSUME th \in [Threads -> Worker], NEW t \in Threads, NEW w \in Worker,
         w.queued => w.model = th[t].model,
         NEW u, u = [th EXCEPT ![t] = w]
  PROVE  /\ Waits(th) \in [Models -> SUBSET Threads] /\ th[t].model \in Models
         /\ t \in Waits(th)[th[t].model] <=> th[t].queued
         /\ w.queued = th[t].queued => Waits(u) = Waits(th)
         /\ w.queued => Waits(u) = [Waits(th) EXCEPT ![th[t].model] = @ \cup {t}]
         /\ ~w.queued => Waits(u) = [Waits(th) EXCEPT ![th[t].model] = @ \ {t}]
<1> DEFINE W == Waits(th)
           m == th[t].model
           X(x) == {y \in Threads : u[y].queued /\ u[y].model = x}
<1>1. W \in [Models -> SUBSET Threads] /\ m \in Models
  BY DEF Waits, Worker
<1>2. \A x \in Threads : u[x] = IF x = t THEN w ELSE th[x]
  OBVIOUS
<1>3. \A x \in Models : W[x] = {y \in Threads : th[y].queued /\ th[y].model = x}
  BY DEF Waits
<1>4. Waits(u) = [x \in Models |-> X(x)]
  BY DEF Waits
<1>5. th[t].queued \in BOOLEAN /\ w.queued \in BOOLEAN
  BY DEF Worker
<1>6. ASSUME NEW x \in Models
      PROVE  /\ x # m => X(x) = W[x]
             /\ w.queued = th[t].queued => X(x) = W[x]
             /\ x = m /\ w.queued => X(x) = W[x] \cup {t}
             /\ x = m /\ ~w.queued => X(x) = W[x] \ {t}
  BY <1>2, <1>3
<1>7. t \in W[m] <=> th[t].queued
  BY <1>1, <1>3
<1> HIDE DEF W, X
<1>8. w.queued = th[t].queued => Waits(u) = W
  BY <1>1, <1>4, <1>6
<1>9. w.queued => Waits(u) = [W EXCEPT ![m] = @ \cup {t}]
  BY <1>1, <1>4, <1>6
<1>10. ~w.queued => Waits(u) = [W EXCEPT ![m] = @ \ {t}]
  BY <1>1, <1>4, <1>6
<1> QED
  BY <1>1, <1>7, <1>8, <1>9, <1>10 DEF W

\* A worker that goes on leaves the queue it was in.
LEMMA LeaveQueueFits ==
  ASSUME th \in [Threads -> Worker], NEW t \in Threads, NEW w \in Worker,
         ~w.queued, NEW u, u = [th EXCEPT ![t] = w],
         NEW q, QueueFits(q, Waits(th))
  PROVE  QueueFits(LeaveQueue(t, q), Waits(u))
<1> DEFINE W == Waits(th)
           m == th[t].model
<1>1. /\ W \in [Models -> SUBSET Threads] /\ m \in Models
      /\ t \in W[m] <=> th[t].queued
      /\ w.queued = th[t].queued => Waits(u) = W
      /\ Waits(u) = [W EXCEPT ![m] = @ \ {t}]
  BY WaitsMove
<1>2. th[t].queued \in BOOLEAN /\ w.queued = FALSE
  BY DEF Worker
<1> HIDE DEF W, m
<1>3. CASE th[t].queued
  <2>1. QueueFits(Leave(q, m), [W EXCEPT ![m] = @ \ {t}])
    BY <1>1, <1>3, LeaveFits DEF W
  <2> QED
    BY <1>1, <1>3, <2>1 DEF LeaveQueue, m
<1>4. CASE ~th[t].queued
  <2>1. Waits(u) = W
    BY <1>1, <1>2, <1>4
  <2> QED
    BY <1>4, <2>1 DEF LeaveQueue, W
<1> QED
  BY <1>3, <1>4

\* A worker that has found its model stopping joins the queue, if it is not
\* in it, and stays or leaves.
LEMMA StoppingFits ==
  ASSUME th \in [Threads -> Worker], NEW t \in Threads, NEW w \in Worker,
         ~th[t].queued, NEW u, u = [th EXCEPT ![t] = w],
         NEW q, QueueFits(q, Waits(th)), NEW m, m = th[t].model,
         w.queued => w.model = m
  PROVE  /\ w.queued => QueueFits(Join(q, m), Waits(u))
         /\ ~w.queued => QueueFits(Leave(Join(q, m), m), Waits(u))
<1> DEFINE W == Waits(th)
           X == [W EXCEPT ![m] = @ \cup {t}]
<1>1. /\ W \in [Models -> SUBSET Threads] /\ m \in Models /\ t \notin W[m]
      /\ w.queued = th[t].queued => Waits(u) = W
      /\ w.queued => Waits(u) = X
  BY WaitsMove
<1>2. th[t].queued = FALSE /\ w.queued \in BOOLEAN
  BY DEF Worker
<1> HIDE DEF W
<1>3. QueueFits(Join(q, m), X)
  BY <1>1, JoinFits DEF W
<1>4. CASE w.queued
  BY <1>1, <1>3, <1>4
<1>5. CASE ~w.queued
  <2>1. X \in [Models -> SUBSET Threads] /\ t \in X[m] /\ [X EXCEPT ![m] = @ \ {t}] = W
    <3>1. X \in [Models -> SUBSET Threads] /\ X[m] = W[m] \cup {t}
      BY <1>1
    <3>2. \A n \in Models \ {m} : X[n] = W[n]
      BY <1>1
    <3>3. X[m] \ {t} = W[m]
      BY <1>1, <3>1
    <3> HIDE DEF X
    <3>4. \A n \in Models : [X EXCEPT ![m] = @ \ {t}][n] = W[n]
      BY <3>1, <3>2, <3>3
    <3> QED
      BY <1>1, <3>1, <3>4
  <2>2. Waits(u) = W
    BY <1>1, <1>2, <1>5
  <2> HIDE DEF X
  <2>3. QueueFits(Leave(Join(q, m), m), [X EXCEPT ![m] = @ \ {t}])
    BY <1>1, <1>3, <2>1, LeaveFits
  <2> QED
    BY <1>5, <2>1, <2>2, <2>3
<1> QED
  BY <1>4, <1>5

\* A worker that moves on without joining or leaving.
Roams(v, w) ==
  /\ w.queued = v.queued
  /\ v.queued => /\ w.model = v.model /\ w.op = v.op
                 /\ w.pc \in {"loop", "lru", "unload", "gone", "spawn", "claimed"}
  /\ w.pc \in {"ensure", "join", "loop", "claimed"} => w.op = "request"

\* Such moves keep the queue and the places.
LEMMA RoamFits ==
  ASSUME th \in [Threads -> Worker], NEW u,
         \A t \in Threads : Roams(th[t], u[t]),
         QueuePlaces(th), NEW q, QueueFits(q, Waits(th))
  PROVE  QueuePlaces(u) /\ QueueFits(q, Waits(u))
<1>1. Waits(u) = Waits(th)
  BY DEF Waits, Roams
<1>2. QueuePlaces(u)
  BY DEF QueuePlaces, Roams
<1> QED
  BY <1>1, <1>2

\* The places after one worker has moved.
LEMMA PlacesMove ==
  ASSUME th \in [Threads -> Worker], NEW t \in Threads, NEW w,
         w.pc \in {"ensure", "join", "loop", "claimed"} => w.op = "request",
         w.queued => /\ w.op = "request"
                     /\ w.pc \in {"loop", "lru", "unload", "gone", "spawn",
                                  "claimed"},
         QueuePlaces(th), NEW u, u = [th EXCEPT ![t] = w]
  PROVE  QueuePlaces(u)
BY DEF QueuePlaces

-----------------------------------------------------------------------------
(* Steps: the loop of ensure_model_ready.                                  *)

\* A turn of the loop marks and stops what its ticks evict.
LEMMA TurnMarks ==
  ASSUME Recency(recency), RunsInProcess(inst, child), NEW t,
         NEW q, NEW s, NEW c, StopsFit(inst, child, s, c),
         NEW did, NEW drop, Turn(t, q, s, c, did, drop)
  PROVE  StopsFit(inst, child, stopping', cmds')
<1> DEFINE m == th[t].model
           joins == m \in s /\ ~th[t].queued
           q1 == IF joins THEN Join(q, m) ELSE q
           s1 == IF joins THEN Marked(s, Victims(q1, inst, s)) ELSE s
           c1 == IF joins THEN c \o Stops(Victims(q1, inst, s)) ELSE c
<1>1. StopsFit(inst, child, s1, c1)
  <2>1. StopsFit(inst, child, Marked(s, Victims(q1, inst, s)),
                 c \o Stops(Victims(q1, inst, s)))
    BY TickFits
  <2> QED
    BY <2>1
<1>2. \/ stopping' = s /\ cmds' = c
      \/ stopping' = s1 /\ cmds' = c1
      \/ Tick(queue', inst, s1, c1)
  <2> HIDE DEF joins
  <2> QED
    BY DEF Turn, m, joins
<1> HIDE DEF s1, c1
<1>3. CASE Tick(queue', inst, s1, c1)
  BY <1>1, <1>3, TickFits DEF Tick
<1> QED
  BY <1>1, <1>2, <1>3

\* A turn of the loop takes a waiter in or out where it counts it.
LEMMA TurnWaiters ==
  ASSUME Types, QueuePlaces(th), NEW t \in Threads,
         th[t].pc \in {"loop", "claimed"},
         NEW q, QueueFits(q, Waits(th)), NEW s, NEW c,
         NEW did \in BOOLEAN, NEW drop \in BOOLEAN, Turn(t, q, s, c, did, drop)
  PROVE  QueuePlaces(th') /\ QueueFits(queue', Waits(th'))
<1> DEFINE m == th[t].model
           joins == m \in s /\ ~th[t].queued
           q1 == IF joins THEN Join(q, m) ELSE q
           stays(pc, saw) ==
             th' = [th EXCEPT ![t].pc = pc, ![t].did_load = did,
                      ![t].saw_loading = saw, ![t].queued = @ \/ joins]
           gone == [Idle EXCEPT !.model = m, !.pc = "proxy"]
<1>1. /\ th \in [Threads -> Worker] /\ th[t] \in Worker /\ m \in Models
      /\ th[t].op = "request" /\ th[t].queued \in BOOLEAN
      /\ th[t].saw_loading \in BOOLEAN
      /\ (th[t].saw_loading \/ inst[m].status = "LOADING") \in BOOLEAN
      /\ joins \in BOOLEAN
  BY DEF Types, Worker, QueuePlaces
<1> HIDE DEF joins
<1>2. \/ /\ queue' = IF joins THEN Leave(q1, m) ELSE LeaveQueue(t, q1)
         /\ th' = [th EXCEPT ![t] = Idle]
      \/ /\ queue' = LeaveQueue(t, q)
         /\ th' = [th EXCEPT ![t] = gone]
      \/ /\ queue' = q1 /\ stays("loop", th[t].saw_loading)
      \/ /\ queue' = [q EXCEPT ![1].loading = TRUE] /\ q # <<>> /\ ~joins
         /\ stays("lru", th[t].saw_loading)
      \/ /\ queue' = q /\ ~joins
         /\ stays("loop", th[t].saw_loading \/ inst[m].status = "LOADING")
  BY Zenon DEF Turn, m, joins, CanClaim
<1>3. /\ Idle \in Worker /\ Idle.queued = FALSE /\ Idle.pc = "idle"
      /\ gone \in Worker /\ gone.queued = FALSE /\ gone.pc = "proxy"
  <2>1. Idle \in Worker
    BY IdleType
  <2>2. gone \in Worker
    BY <1>1, <2>1 DEF Worker
  <2> QED
    BY <2>1, <2>2 DEF Idle
<1>4. ASSUME NEW w \in {Idle, gone}, th' = [th EXCEPT ![t] = w],
             queue' = LeaveQueue(t, q)
      PROVE  QueuePlaces(th') /\ QueueFits(queue', Waits(th'))
  <2>1. w \in Worker /\ w.queued = FALSE
        /\ w.pc \notin {"ensure", "join", "loop", "claimed"}
    BY <1>3
  <2>2. QueueFits(LeaveQueue(t, q), Waits(th'))
    BY <1>1, <1>4, <2>1, LeaveQueueFits
  <2>3. QueuePlaces(th')
    BY <1>1, <1>4, <2>1, PlacesMove
  <2> QED
    BY <1>4, <2>2, <2>3
<1>5. ASSUME joins, th' = [th EXCEPT ![t] = Idle], queue' = Leave(Join(q, m), m)
      PROVE  QueuePlaces(th') /\ QueueFits(queue', Waits(th'))
  <2>1. ~th[t].queued
    BY <1>5 DEF joins
  <2>2. QueueFits(Leave(Join(q, m), m), Waits(th'))
    BY <1>1, <1>3, <1>5, <2>1, StoppingFits
  <2>3. QueuePlaces(th')
    BY <1>1, <1>3, <1>5, PlacesMove
  <2> QED
    BY <1>5, <2>2, <2>3
<1>6. ASSUME NEW pc \in {"loop", "lru"}, NEW saw \in BOOLEAN, stays(pc, saw),
             NEW r,
             IF joins THEN r = Join(q, m) ELSE QueueFits(r, Waits(th)),
             queue' = r
      PROVE  QueuePlaces(th') /\ QueueFits(queue', Waits(th'))
  <2> DEFINE w == [th[t] EXCEPT !.pc = pc, !.did_load = did,
                     !.saw_loading = saw, !.queued = @ \/ joins]
  <2>1. w \in Worker
    BY <1>1 DEF Worker
  <2>2. w.queued = (th[t].queued \/ joins) /\ w.pc = pc /\ w.op = "request" /\ w.model = m
    BY <1>1 DEF Worker
  <2>3. th' = [th EXCEPT ![t] = w]
    BY <1>1, <1>6
  <2> HIDE DEF w
  <2>4. QueuePlaces(th')
    BY <1>1, <2>2, <2>3, PlacesMove
  <2>5. CASE joins
    <3>1. ~th[t].queued /\ w.queued
      BY <2>2, <2>5 DEF joins
    <3>2. QueueFits(Join(q, m), Waits(th'))
      BY <1>1, <2>1, <2>2, <2>3, <3>1, StoppingFits
    <3> QED
      BY <1>6, <2>4, <2>5, <3>2
  <2>6. CASE ~joins
    <3>1. Waits(th') = Waits(th)
      <4>1. w.queued = th[t].queued
        BY <1>1, <2>2, <2>6
      <4>2. w.queued => w.model = th[t].model
        BY <2>2
      <4> QED
        BY <1>1, <2>1, <2>3, <4>1, <4>2, WaitsMove, Zenon
    <3> QED
      BY <1>6, <2>4, <2>6, <3>1
  <2> QED
    BY <2>5, <2>6
<1>7. CASE /\ queue' = IF joins THEN Leave(q1, m) ELSE LeaveQueue(t, q1)
           /\ th' = [th EXCEPT ![t] = Idle]
  BY <1>4, <1>5, <1>7
<1>8. CASE queue' = LeaveQueue(t, q) /\ th' = [th EXCEPT ![t] = gone]
  BY <1>4, <1>8
<1>9. CASE queue' = q1 /\ stays("loop", th[t].saw_loading)
  <2>1. IF joins THEN q1 = Join(q, m) ELSE QueueFits(q1, Waits(th))
    OBVIOUS
  <2> HIDE DEF q1, stays
  <2> QED
    BY <1>1, <1>6, <1>9, <2>1
<1>10. CASE /\ queue' = [q EXCEPT ![1].loading = TRUE] /\ q # <<>> /\ ~joins
            /\ stays("lru", th[t].saw_loading)
  <2>1. QueueFits([q EXCEPT ![1].loading = TRUE], Waits(th))
    BY <1>10, ClaimFits
  <2> HIDE DEF q1, stays
  <2> QED
    BY <1>1, <1>6, <1>10, <2>1
<1>11. CASE /\ queue' = q /\ ~joins
            /\ stays("loop", th[t].saw_loading \/ inst[m].status = "LOADING")
  <2> HIDE DEF q1, stays
  <2> QED
    BY <1>1, <1>6, <1>11
<1> HIDE DEF q1, stays, gone
<1> QED
  BY <1>2, <1>7, <1>8, <1>9, <1>10, <1>11

-----------------------------------------------------------------------------
(* Steps: marks and commands.                                              *)

\* What the steps keep of marks and commands.
MarksFit(i, ch, s, c) == NoRecord(ch) /\ StopsFit(i, ch, s, c)

\* A running model has its process, in one state and in the next.
LEMMA RunningProcess == IInv => RunsInProcess(inst, child)
BY DEF IInv, ChildInv, RunsInProcess

\* A step of a worker or of a child that queues no command.
LEMMA QuietMarks ==
  ASSUME QueuesInv, Drifts(inst, inst', child, child'),
         UNCHANGED <<stopping, cmds>>
  PROVE  MarksFit(inst', child', stopping', cmds')
<1>1. StopsFit(inst', child', stopping, cmds) /\ NoRecord(child')
  BY DriftFits DEF QueuesInv
<1> QED
  BY <1>1 DEF MarksFit

\* A step that ends with a tick.
LEMMA TickMarks ==
  ASSUME QueuesInv, IInv', Drifts(inst, inst', child, child'), NEW q,
         Tick(q, inst', stopping, cmds)
  PROVE  MarksFit(inst', child', stopping', cmds')
<1>1. StopsFit(inst', child', stopping, cmds) /\ NoRecord(child')
  BY DriftFits DEF QueuesInv
<1>2. RunsInProcess(inst', child')
  BY DEF IInv, ChildInv, RunsInProcess
<1>3. Recency(recency)
  BY DEF QueuesInv
<1>4. StopsFit(inst', child', Marked(stopping, Victims(q, inst', stopping)),
               cmds \o Stops(Victims(q, inst', stopping)))
  BY <1>1, <1>2, <1>3, TickFits
<1> QED
  BY <1>1, <1>4 DEF MarksFit, Tick

\* Nothing drifts where registry and processes are left alone.
LEMMA NoDrift ==
  ASSUME NEW i, NEW j, NEW ch,
         \A m \in Models : i[m].status = j[m].status
  PROVE  Drifts(i, j, ch, ch)
BY DEF Drifts

\* The steps of a worker that start or end no instance.
LEMMA WorkerMarks ==
  ASSUME QueuesInv, IInv', NEW t \in Threads,
         \/ Arrive(t) \/ CheckStopping(t) \/ JoinQueue(t) \/ UnloadLru(t)
         \/ VictimGone(t) \/ ProxyMeta(t) \/ SessionStopped(t)
         \/ Count(t) \/ Cleanup(t)
  PROVE  MarksFit(inst', child', stopping', cmds')
<1>1. /\ child' = child
      /\ \A m \in Models : inst'[m].status = inst[m].status
  <2>1. CASE Count(t)
    BY <2>1 DEF Count, QueuesInv, IInv, Types
  <2>2. CASE Cleanup(t)
    BY <2>2 DEF Cleanup, QueuesInv, IInv, Types
  <2>3. CASE \/ Arrive(t) \/ CheckStopping(t) \/ JoinQueue(t) \/ UnloadLru(t)
             \/ VictimGone(t) \/ ProxyMeta(t) \/ SessionStopped(t)
    BY <2>3 DEF Arrive, CheckStopping, JoinQueue, UnloadLru, VictimGone,
                ProxyMeta, SessionStopped
  <2> QED
    BY <2>1, <2>2, <2>3
<1>2. Drifts(inst, inst', child, child')
  <2>1. Drifts(inst, inst', child, child)
    BY <1>1, NoDrift
  <2> QED
    BY <1>1, <2>1
<1>3. UNCHANGED <<stopping, cmds>> \/ \E q : Tick(q, inst', stopping, cmds)
  <2>1. CASE JoinQueue(t)
    <3>1. \/ UNCHANGED <<stopping, cmds>>
          \/ Tick(queue', inst, stopping, cmds) /\ inst' = inst
      BY <2>1 DEF JoinQueue
    <3> QED
      BY <3>1
  <2>2. CASE Cleanup(t)
    <3>1. \/ UNCHANGED <<stopping, cmds>>
          \/ Tick(queue, inst', stopping, cmds)
      BY <2>2 DEF Cleanup
    <3> QED
      BY <3>1
  <2>3. CASE \/ Arrive(t) \/ CheckStopping(t) \/ UnloadLru(t) \/ Count(t)
             \/ VictimGone(t) \/ ProxyMeta(t) \/ SessionStopped(t)
    BY <2>3 DEF Arrive, CheckStopping, UnloadLru, VictimGone, Count,
                ProxyMeta, SessionStopped
  <2> QED
    BY <2>1, <2>2, <2>3
<1> QED
  BY <1>2, <1>3, QuietMarks, TickMarks

\* The turns of the loop.
LEMMA LoopMarks ==
  ASSUME QueuesInv, NEW t \in Threads, Loop(t) \/ Drop(t) \/ Claimed(t)
  PROVE  MarksFit(inst', child', stopping', cmds')
<1>1. /\ Recency(recency) /\ RunsInProcess(inst, child)
      /\ NoRecord(child) /\ StopsFit(inst, child, stopping, cmds)
  BY RunningProcess DEF QueuesInv
<1>2. inst' = inst /\ child' = child
  BY DEF Loop, Drop, Claimed
<1>3. CASE Loop(t) \/ Drop(t)
  <2>1. \E drop : Turn(t, queue, stopping, cmds, th[t].did_load, drop)
    BY <1>3 DEF Loop, Drop
  <2>2. StopsFit(inst, child, stopping', cmds')
    BY <1>1, <2>1, TurnMarks
  <2> QED
    BY <1>1, <1>2, <2>2 DEF MarksFit
<1>4. CASE Claimed(t)
  <2> DEFINE q == ClaimDone(queue, th[t].model, th[t].ok)
             v == Victims(q, inst, stopping)
             s == Marked(stopping, v)
             c == cmds \o Stops(v)
             did == th[t].did_load \/ th[t].ok
  <2>1. Turn(t, q, s, c, did, FALSE)
    BY <1>4 DEF Claimed
  <2>2. StopsFit(inst, child, s, c)
    BY <1>1, TickFits
  <2> HIDE DEF q, s, c, did
  <2>3. StopsFit(inst, child, stopping', cmds')
    BY <1>1, <2>1, <2>2, TurnMarks
  <2> QED
    BY <1>1, <1>2, <2>3 DEF MarksFit
<1> QED
  BY <1>3, <1>4

\* unload marks its victim and queues a stop, unless it is marked already.
LEMMA UnloadMarks ==
  ASSUME QueuesInv, IInv', NEW t \in Threads, Unload(t)
  PROVE  MarksFit(inst', child', stopping', cmds')
<1> DEFINE v == th[t].victim
           e == [type |-> "STOP", model |-> v,
                 send_exit |-> ~(inst[v].status = "LOADING")]
<1>1. /\ v \in Models /\ child \in [Models -> Process]
      /\ inst' = inst
  BY DEF QueuesInv, IInv, Types, Worker, Unload
<1>2. \/ child' = child
      \/ /\ child' = [child EXCEPT ![v].proc = "dead", ![v].failed = TRUE]
         /\ Alive(v)
  BY DEF Unload
<1>3. Drifts(inst, inst', child, child')
  <2>1. CASE child' = child
    BY <1>1, <2>1, NoDrift
  <2>2. CASE child' = [child EXCEPT ![v].proc = "dead", ![v].failed = TRUE] /\ Alive(v)
    BY <1>1, <2>2 DEF Drifts, Alive
  <2> QED
    BY <1>2, <2>1, <2>2
<1>4. CASE UNCHANGED <<stopping, cmds>>
  BY <1>3, <1>4, QuietMarks
<1>5. CASE /\ inst[v].status \in Running /\ stopping' = Marked(stopping, {v})
           /\ cmds' = IF v \in stopping THEN cmds ELSE Append(cmds, e)
  <2>1. StopsFit(inst', child', stopping, cmds) /\ NoRecord(child')
    BY <1>3, DriftFits DEF QueuesInv
  <2>2. CASE v \in stopping
    <3>1. stopping' = stopping /\ cmds' = cmds
      BY <1>5, <2>2 DEF Marked
    <3> QED
      BY <2>1, <3>1 DEF MarksFit
  <2>3. CASE v \notin stopping
    <3> DEFINE d == <<e>>
    <3>1. e \in Command /\ e.type = "STOP" /\ e.model = v
      BY <1>1 DEF Command
    <3> HIDE DEF e
    <3>2. d \in Seq(Command) /\ DOMAIN d = {1} /\ d[1] = e
      BY <3>1
    <3>3. cmds' = cmds \o d
      <4>1. cmds \in Seq(Command)
        BY DEF QueuesInv, StopsFit
      <4> QED
        BY <1>5, <2>3, <3>1, <4>1, AppendIsConcat DEF e
    <3>4. inst'[v].status \in Running /\ child'[v].proc # "none"
      BY <1>1, <1>5 DEF IInv, ChildInv
    <3> HIDE DEF d
    <3>5. StopsFit(inst', child', stopping \cup {v}, cmds \o d)
      <4>1. {v} \subseteq Models
        BY <1>1
      <4>2. \A m \in {v} : inst'[m].status \in Running /\ child'[m].proc # "none"
        BY <3>4
      <4>3. /\ \A k \in DOMAIN d : d[k].type = "STOP" /\ d[k].model \in {v}
            /\ \A m \in {v} : \E k \in DOMAIN d : d[k].model = m
        BY <3>1, <3>2
      <4> HIDE DEF v
      <4> QED
        BY <2>1, <3>2, <4>1, <4>2, <4>3, MoreStops
    <3> QED
      BY <1>5, <2>1, <3>3, <3>5 DEF MarksFit, Marked
  <2> QED
    BY <2>2, <2>3
<1> QED
  BY <1>4, <1>5, Zenon DEF Unload, v, e

\* load starts an instance: its WATCH is behind every stop of the last one.
LEMMA SpawnMarks ==
  ASSUME QueuesInv, NEW t \in Threads, Spawn(t)
  PROVE  MarksFit(inst', child', stopping', cmds')
<1> DEFINE m == th[t].model
           e == [type |-> "WATCH", model |-> m, send_exit |-> FALSE]
           fresh == [NoChild EXCEPT !.proc = "starting"]
<1>1. /\ m \in Models /\ child \in [Models -> Process]
      /\ inst \in [Models -> [status : Status, failed : BOOLEAN, req : Nat]]
  BY DEF QueuesInv, IInv, Types, Worker
<1>2. CASE UNCHANGED <<inst, child, stopping, cmds>>
  BY <1>2, NoDrift, QuietMarks
<1>3. CASE /\ inst[m].status = "UNLOADED" /\ inst' = NewInstance(inst, m)
           /\ child' = [child EXCEPT ![m] = fresh]
           /\ cmds' = Append(cmds, e) /\ stopping' = stopping
  <2> DEFINE c == cmds
             d == Append(cmds, e)
             n == Len(cmds)
  <2>1. e \in Command /\ e.type = "WATCH" /\ e.model = m
    BY <1>1 DEF Command
  <2> HIDE DEF e
  <2>2. /\ c \in Seq(Command) /\ n \in Nat /\ DOMAIN c = 1..n
        /\ stopping \subseteq Models
    BY LenProperties DEF QueuesInv, StopsFit
  <2>3. d \in Seq(Command) /\ DOMAIN d = 1..(n + 1) /\ d[n + 1] = e
        /\ \A k \in 1..n : d[k] = c[k]
    BY <2>1, <2>2, AppendProperties, LenProperties
  <2> HIDE DEF c, d, n
  <2>4. /\ child'[m].proc = "starting" /\ ~child'[m].watched
        /\ ~child'[m].asked /\ ~child'[m].deadline
        /\ \A x \in Models : x # m => child'[x] = child[x]
    BY <1>1, <1>3 DEF NoChild
  <2>5. \A x \in Models : x # m => inst'[x].status = inst[x].status
    BY <1>1, <1>3 DEF NewInstance
  <2>6. child[m].proc = "none" /\ m \notin stopping
    <3>1. inst[m].status \notin Running
      BY <1>3 DEF Running
    <3> QED
      BY <1>1, <3>1 DEF QueuesInv, IInv, ChildInv, StopsFit, StopsArrive
  <2>7. \A k \in DOMAIN c : ~WatchAt(c, k, m)
    BY <1>1, <2>6 DEF QueuesInv, StopsFit, WatchOnce, c
  <2>8. \A k \in DOMAIN d : \/ k \in DOMAIN c /\ d[k] = c[k]
                            \/ k = n + 1 /\ k \notin DOMAIN c
                               /\ \A j \in DOMAIN d : j <= k
    BY <2>2, <2>3
  <2>9. DOMAIN c \subseteq DOMAIN d /\ n + 1 \in DOMAIN d
        /\ \A k \in DOMAIN c : d[k] = c[k]
    BY <2>2, <2>3
  <2>10. \A k \in DOMAIN d, x \in Models :
           WatchAt(d, k, x) <=> IF x = m THEN k = n + 1
                                ELSE k \in DOMAIN c /\ WatchAt(c, k, x)
    BY <2>1, <2>3, <2>7, <2>8 DEF WatchAt
  <2>11. \A k \in DOMAIN d, x \in Models :
           HitsAt(child', d, k, x) <=>
             x # m /\ k \in DOMAIN c /\ HitsAt(child, c, k, x)
    <3> SUFFICES ASSUME NEW k \in DOMAIN d, NEW x \in Models
                 PROVE  HitsAt(child', d, k, x) <=>
                          x # m /\ k \in DOMAIN c /\ HitsAt(child, c, k, x)
      OBVIOUS
    <3>1. StopAt(d, k, x) <=> k \in DOMAIN c /\ StopAt(c, k, x)
      BY <2>1, <2>3, <2>8 DEF StopAt
    <3>2. CASE x = m
      <4>1. \A j \in DOMAIN d : WatchAt(d, j, x) => ~(j < k)
        <5> SUFFICES ASSUME NEW j \in DOMAIN d, WatchAt(d, j, x), j < k
                     PROVE  FALSE
          OBVIOUS
        <5>1. j = n + 1
          BY <2>10, <3>2
        <5> QED
          BY <2>2, <2>3, <5>1
      <4> QED
        BY <2>4, <3>2, <4>1 DEF HitsAt
    <3>3. CASE x # m
      <4>1. child'[x].watched = child[x].watched
        BY <2>4, <3>3
      <4>2. (\E j \in DOMAIN d : j < k /\ WatchAt(d, j, x))
              <=> \E j \in DOMAIN c : j < k /\ WatchAt(c, j, x)
        BY <2>9, <2>10, <3>3
      <4> QED
        BY <3>1, <3>3, <4>1, <4>2 DEF HitsAt
    <3> QED
      BY <3>2, <3>3
  <2>12. WatchOnce(child', d)
    <3> SUFFICES ASSUME NEW x \in Models
                 PROVE  /\ child'[x].proc # "none" /\ ~child'[x].watched =>
                             \E k \in DOMAIN d : WatchAt(d, k, x)
                        /\ \A k \in DOMAIN d : WatchAt(d, k, x) =>
                             /\ child'[x].proc # "none" /\ ~child'[x].watched
                             /\ \A j \in DOMAIN d : WatchAt(d, j, x) => j = k
      BY DEF WatchOnce
    <3>1. CASE x = m
      BY <2>4, <2>9, <2>10, <3>1
    <3>2. CASE x # m
      <4>1. /\ child[x].proc # "none" /\ ~child[x].watched =>
                 \E k \in DOMAIN c : WatchAt(c, k, x)
            /\ \A k \in DOMAIN c : WatchAt(c, k, x) =>
                 /\ child[x].proc # "none" /\ ~child[x].watched
                 /\ \A j \in DOMAIN c : WatchAt(c, j, x) => j = k
        BY DEF QueuesInv, StopsFit, WatchOnce, c
      <4>2. child'[x] = child[x]
        BY <2>4, <3>2
      <4> QED
        BY <2>9, <2>10, <3>2, <4>1, <4>2
    <3> QED
      BY <3>1, <3>2
  <2>13. StopsArrive(inst', child', stopping, d)
    <3> SUFFICES ASSUME NEW x \in stopping
                 PROVE  /\ inst'[x].status \in Running
                        /\ \/ child'[x].deadline
                           \/ child'[x].proc = "dead"
                           \/ \E k \in DOMAIN d : HitsAt(child', d, k, x)
      BY DEF StopsArrive
    <3>1. x \in Models /\ x # m
      BY <2>2, <2>6
    <3>2. /\ inst[x].status \in Running
          /\ \/ child[x].deadline
             \/ child[x].proc = "dead"
             \/ \E k \in DOMAIN c : HitsAt(child, c, k, x)
      BY DEF QueuesInv, StopsFit, StopsArrive, c
    <3> QED
      BY <2>4, <2>5, <2>9, <2>11, <3>1, <3>2
  <2>14. StopsMeant(child', stopping, d)
    <3> SUFFICES ASSUME NEW x \in Models, x \notin stopping
                 PROVE  /\ ~child'[x].asked /\ ~child'[x].deadline
                        /\ \A k \in DOMAIN d : ~HitsAt(child', d, k, x)
      BY DEF StopsMeant
    <3>1. /\ ~child[x].asked /\ ~child[x].deadline
          /\ \A k \in DOMAIN c : ~HitsAt(child, c, k, x)
      BY DEF QueuesInv, StopsFit, StopsMeant, c
    <3> QED
      BY <2>4, <2>11, <3>1
  <2>15. NoRecord(child')
    BY <2>4 DEF NoRecord, QueuesInv
  <2> QED
    BY <1>3, <2>2, <2>3, <2>12, <2>13, <2>14, <2>15 DEF MarksFit, StopsFit, d, e
<1> HIDE DEF fresh
<1> QED
  BY <1>2, <1>3, Zenon DEF Spawn, m, e, fresh

\* The first command leaves the queue.
LEMMA TailFacts ==
  ASSUME NEW c \in Seq(Command), c # <<>>
  PROVE  /\ c[1] \in Command /\ Head(c) = c[1] /\ 1 \in DOMAIN c
         /\ Tail(c) \in Seq(Command)
         /\ \A k \in DOMAIN Tail(c) : /\ k + 1 \in DOMAIN c
                                      /\ k + 1 # 1
                                      /\ Tail(c)[k] = c[k + 1]
         /\ \A k \in DOMAIN c : k # 1 => /\ k - 1 \in DOMAIN Tail(c)
                                         /\ Tail(c)[k - 1] = c[k]
         /\ \A k \in DOMAIN c : k \in Nat /\ k >= 1
         /\ \A k \in DOMAIN Tail(c) : k \in Nat
<1>1. /\ Len(c) \in Nat /\ Len(c) # 0 /\ DOMAIN c = 1..Len(c)
  BY LenProperties, EmptySeq
<1>2. /\ Tail(c) \in Seq(Command) /\ Len(Tail(c)) = Len(c) - 1
      /\ \A k \in 1..(Len(c) - 1) : Tail(c)[k] = c[k + 1]
  BY HeadTailProperties
<1>3. DOMAIN Tail(c) = 1..(Len(c) - 1)
  BY <1>2, LenProperties
<1>4. Head(c) = c[1] /\ c[1] \in Command
  BY <1>1, HeadTailProperties, ElementOfSeq
<1>5. \A k \in DOMAIN c : k # 1 => /\ k - 1 \in DOMAIN Tail(c)
                                   /\ Tail(c)[k - 1] = c[k]
  <2> SUFFICES ASSUME NEW k \in DOMAIN c, k # 1
               PROVE  k - 1 \in DOMAIN Tail(c) /\ Tail(c)[k - 1] = c[k]
    OBVIOUS
  <2>1. k - 1 \in 1..(Len(c) - 1) /\ (k - 1) + 1 = k
    BY <1>1
  <2> QED
    BY <1>2, <1>3, <2>1
<1> QED
  BY <1>1, <1>2, <1>3, <1>4, <1>5

\* The monitor takes a command: a WATCH starts its record, and a STOP sets a
\* deadline if it is effective and does nothing else.
LEMMA CommandMarks ==
  ASSUME QueuesInv, HandleCommand
  PROVE  MarksFit(inst', child', stopping', cmds')
<1> DEFINE c == cmds
           d == Tail(cmds)
           m == c[1].model
<1>1. c \in Seq(Command) /\ c # <<>>
  BY DEF QueuesInv, StopsFit, HandleCommand
<1>2. /\ c[1] \in Command /\ Head(c) = c[1] /\ 1 \in DOMAIN c
      /\ d \in Seq(Command)
      /\ \A k \in DOMAIN d : k + 1 \in DOMAIN c /\ k + 1 # 1 /\ d[k] = c[k + 1]
      /\ \A k \in DOMAIN c : k # 1 => k - 1 \in DOMAIN d /\ d[k - 1] = c[k]
      /\ \A k \in DOMAIN c : k \in Nat /\ k >= 1
      /\ \A k \in DOMAIN d : k \in Nat
  BY <1>1, TailFacts
<1>3. /\ child \in [Models -> Process] /\ m \in Models
      /\ c[1].type \in {"WATCH", "STOP"} /\ c[1].send_exit \in BOOLEAN
      /\ cmds' = d /\ UNCHANGED <<inst, stopping>>
  BY <1>2 DEF QueuesInv, IInv, Types, Command, HandleCommand
<1>4. child' = IF c[1].type = "WATCH" THEN [child EXCEPT ![m].watched = TRUE]
               ELSE IF child[m].watched
               THEN [child EXCEPT ![m].asked = IF c[1].send_exit THEN TRUE ELSE @,
                                  ![m].deadline = TRUE]
               ELSE child
  BY <1>2, <1>3 DEF HandleCommand
<1> HIDE DEF c, d, m
<1>5. \A x \in Models : ~(\E j \in DOMAIN c : j < 1 /\ WatchAt(c, j, x))
  BY <1>2
<1>6. \A x \in Models : HitsAt(child, c, 1, x) <=> StopAt(c, 1, x) /\ child[x].watched
  BY <1>5 DEF HitsAt
<1>7. \A x \in Models :
        /\ WatchAt(c, 1, x) <=> c[1].type = "WATCH" /\ x = m
        /\ HitsAt(child, c, 1, x) <=> c[1].type = "STOP" /\ x = m /\ child[m].watched
  BY <1>3, <1>6 DEF WatchAt, StopAt, m
<1>8. \A x \in Models :
        /\ child'[x].proc = child[x].proc
        /\ child'[x].watched <=> child[x].watched \/ WatchAt(c, 1, x)
        /\ HitsAt(child, c, 1, x) => child'[x].deadline
        /\ ~HitsAt(child, c, 1, x) => /\ child'[x].asked = child[x].asked
                                      /\ child'[x].deadline = child[x].deadline
  <2>1. CASE c[1].type = "WATCH"
    BY <1>3, <1>4, <1>7, <2>1
  <2>2. CASE c[1].type = "STOP" /\ child[m].watched
    <3> DEFINE v == IF c[1].send_exit THEN TRUE ELSE child[m].asked
    <3>1. child' = [child EXCEPT ![m].asked = v, ![m].deadline = TRUE]
      BY <1>4, <2>2
    <3> HIDE DEF v
    <3>2. /\ child'[m].proc = child[m].proc
          /\ child'[m].watched = child[m].watched
          /\ child'[m].deadline
          /\ \A x \in Models : x # m => child'[x] = child[x]
      BY <1>3, <3>1 DEF Process
    <3>3. \A x \in Models : ~WatchAt(c, 1, x)
      BY <1>7, <2>2
    <3> QED
      BY <1>7, <2>2, <3>2, <3>3
  <2>3. CASE c[1].type = "STOP" /\ ~child[m].watched
    BY <1>3, <1>4, <1>7, <2>3
  <2> QED
    BY <1>3, <2>1, <2>2, <2>3
<1>9. /\ \A k \in DOMAIN d, x \in Models : WatchAt(d, k, x) <=> WatchAt(c, k + 1, x)
      /\ \A k \in DOMAIN d, x \in Models : StopAt(d, k, x) <=> StopAt(c, k + 1, x)
  BY <1>2 DEF WatchAt, StopAt
<1>10. \A k \in DOMAIN d, x \in Models :
         HitsAt(child', d, k, x) <=> HitsAt(child, c, k + 1, x)
  <2> SUFFICES ASSUME NEW k \in DOMAIN d, NEW x \in Models
               PROVE  HitsAt(child', d, k, x) <=> HitsAt(child, c, k + 1, x)
    OBVIOUS
  <2>1. ASSUME NEW j \in DOMAIN d, j < k, WatchAt(d, j, x)
        PROVE  \E l \in DOMAIN c : l < k + 1 /\ WatchAt(c, l, x)
    <3>1. j + 1 \in DOMAIN c /\ j + 1 < k + 1
      BY <1>2, <2>1
    <3> QED
      BY <1>9, <2>1, <3>1
  <2>2. ASSUME NEW l \in DOMAIN c, l < k + 1, WatchAt(c, l, x), l # 1
        PROVE  \E j \in DOMAIN d : j < k /\ WatchAt(d, j, x)
    <3>1. l - 1 \in DOMAIN d /\ l - 1 < k /\ (l - 1) + 1 = l
      BY <1>2, <2>2
    <3>2. WatchAt(d, l - 1, x) <=> WatchAt(c, l, x)
      BY <1>9, <3>1
    <3> QED
      BY <2>2, <3>1, <3>2
  <2>3. 1 \in DOMAIN c /\ 1 < k + 1
    BY <1>2
  <2>4. (child'[x].watched \/ \E j \in DOMAIN d : j < k /\ WatchAt(d, j, x))
          <=> (child[x].watched \/ \E l \in DOMAIN c : l < k + 1 /\ WatchAt(c, l, x))
    BY <1>8, <2>1, <2>2, <2>3
  <2> QED
    BY <1>9, <2>4 DEF HitsAt
<1>11. \A x \in Models :
         /\ child[x].proc # "none" /\ ~child[x].watched =>
              \E k \in DOMAIN c : WatchAt(c, k, x)
         /\ \A k \in DOMAIN c : WatchAt(c, k, x) =>
              /\ child[x].proc # "none" /\ ~child[x].watched
              /\ \A j \in DOMAIN c : WatchAt(c, j, x) => j = k
  BY DEF QueuesInv, StopsFit, WatchOnce, c
<1>12. WatchOnce(child', d)
  <2> SUFFICES ASSUME NEW x \in Models
               PROVE  /\ child'[x].proc # "none" /\ ~child'[x].watched =>
                            \E k \in DOMAIN d : WatchAt(d, k, x)
                      /\ \A k \in DOMAIN d : WatchAt(d, k, x) =>
                           /\ child'[x].proc # "none" /\ ~child'[x].watched
                           /\ \A j \in DOMAIN d : WatchAt(d, j, x) => j = k
    BY DEF WatchOnce
  <2>1. ASSUME child'[x].proc # "none", ~child'[x].watched
        PROVE  \E k \in DOMAIN d : WatchAt(d, k, x)
    <3>1. ~child[x].watched /\ ~WatchAt(c, 1, x)
      BY <1>8, <2>1
    <3>2. PICK k \in DOMAIN c : WatchAt(c, k, x)
      BY <1>8, <1>11, <2>1, <3>1
    <3>3. k - 1 \in DOMAIN d /\ (k - 1) + 1 = k
      BY <1>2, <3>1, <3>2
    <3> QED
      BY <1>9, <3>2, <3>3
  <2>2. ASSUME NEW k \in DOMAIN d, WatchAt(d, k, x)
        PROVE  /\ child'[x].proc # "none" /\ ~child'[x].watched
               /\ \A j \in DOMAIN d : WatchAt(d, j, x) => j = k
    <3>1. WatchAt(c, k + 1, x) /\ k + 1 \in DOMAIN c /\ k + 1 # 1 /\ k \in Nat
      BY <1>2, <1>9, <2>2
    <3>2. /\ child[x].proc # "none" /\ ~child[x].watched
          /\ \A j \in DOMAIN c : WatchAt(c, j, x) => j = k + 1
      BY <1>11, <3>1
    <3>3. ~WatchAt(c, 1, x)
      BY <1>2, <3>1, <3>2
    <3>4. ASSUME NEW j \in DOMAIN d, WatchAt(d, j, x)
          PROVE  j = k
      <4>1. j + 1 \in DOMAIN c /\ WatchAt(c, j + 1, x) /\ j \in Nat
        BY <1>2, <1>9, <3>4
      <4>2. j + 1 = k + 1
        BY <3>2, <4>1
      <4> QED
        BY <3>1, <4>1, <4>2
    <3> QED
      BY <1>8, <3>2, <3>3, <3>4
  <2> QED
    BY <2>1, <2>2
<1>13. StopsArrive(inst', child', stopping, d)
  <2> SUFFICES ASSUME NEW x \in stopping
               PROVE  /\ inst'[x].status \in Running
                      /\ \/ child'[x].deadline
                         \/ child'[x].proc = "dead"
                         \/ \E k \in DOMAIN d : HitsAt(child', d, k, x)
    BY DEF StopsArrive
  <2>1. x \in Models
    BY DEF QueuesInv, StopsFit
  <2>2. /\ inst[x].status \in Running
        /\ \/ child[x].deadline
           \/ child[x].proc = "dead"
           \/ \E k \in DOMAIN c : HitsAt(child, c, k, x)
    BY DEF QueuesInv, StopsFit, StopsArrive, c
  <2>3. ASSUME NEW k \in DOMAIN c, HitsAt(child, c, k, x), ~HitsAt(child, c, 1, x)
        PROVE  \E l \in DOMAIN d : HitsAt(child', d, l, x)
    <3>1. k - 1 \in DOMAIN d /\ (k - 1) + 1 = k
      BY <1>2, <2>3
    <3> QED
      BY <1>10, <2>1, <2>3, <3>1
  <2> QED
    BY <1>3, <1>8, <2>1, <2>2, <2>3
<1>14. StopsMeant(child', stopping, d)
  <2> SUFFICES ASSUME NEW x \in Models, x \notin stopping
               PROVE  /\ ~child'[x].asked /\ ~child'[x].deadline
                      /\ \A k \in DOMAIN d : ~HitsAt(child', d, k, x)
    BY DEF StopsMeant
  <2>1. /\ ~child[x].asked /\ ~child[x].deadline
        /\ \A k \in DOMAIN c : ~HitsAt(child, c, k, x)
    BY DEF QueuesInv, StopsFit, StopsMeant, c
  <2>2. ~HitsAt(child, c, 1, x)
    BY <1>2, <2>1
  <2> QED
    BY <1>2, <1>8, <1>10, <2>1, <2>2
<1>15. NoRecord(child')
  <2> SUFFICES ASSUME NEW x \in Models, child'[x].proc = "none"
               PROVE  ~child'[x].watched /\ ~child'[x].asked /\ ~child'[x].deadline
    BY DEF NoRecord
  <2>1. ~child[x].watched /\ ~child[x].asked /\ ~child[x].deadline /\ ~WatchAt(c, 1, x)
    BY <1>2, <1>8, <1>11 DEF QueuesInv, NoRecord
  <2>2. ~HitsAt(child, c, 1, x)
    BY <1>6, <2>1
  <2> QED
    BY <1>8, <2>1, <2>2
<1> QED
  BY <1>2, <1>3, <1>12, <1>13, <1>14, <1>15 DEF MarksFit, StopsFit, QueuesInv

\* The monitor applies a line that a child has printed.
LEMMA ReportMarks ==
  ASSUME QueuesInv, IInv', NEW m \in Models, HandleChildState(m)
  PROVE  MarksFit(inst', child', stopping', cmds')
<1>1. /\ child \in [Models -> Process]
      /\ inst \in [Models -> [status : Status, failed : BOOLEAN, req : Nat]]
      /\ inst' \in [Models -> [status : Status, failed : BOOLEAN, req : Nat]]
      /\ child' = [child EXCEPT ![m].pipe = Tail(@)]
      /\ Tick(queue, inst', stopping, cmds)
  BY DEF QueuesInv, IInv, Types, HandleChildState
<1>2. \A x \in Models : x # m => inst'[x] = inst[x]
  BY <1>1, Zenon DEF HandleChildState
<1>3. \A x \in Models :
        /\ child'[x].proc = child[x].proc
        /\ child'[x].watched = child[x].watched
        /\ child'[x].asked = child[x].asked
        /\ child'[x].deadline = child[x].deadline
  BY <1>1
<1>4. inst'[m].status \in Running
  <2>1. child[m].proc # "none"
    BY DEF HandleChildState, QueuesInv, NoRecord
  <2> QED
    BY <1>3, <2>1 DEF IInv, ChildInv
<1>5. Drifts(inst, inst', child, child')
  BY <1>2, <1>3, <1>4 DEF Drifts
<1> QED
  BY <1>1, <1>5, TickMarks

\* The monitor reaps a child: the mark goes with the instance.
LEMMA ExitMarks ==
  ASSUME QueuesInv, IInv', NEW m \in Models, OnChildExit(m)
  PROVE  MarksFit(inst', child', stopping', cmds')
<1> DEFINE s == Unmarked(stopping, m)
           c == cmds
<1>1. /\ child \in [Models -> Process]
      /\ inst \in [Models -> [status : Status, failed : BOOLEAN, req : Nat]]
      /\ child' = [child EXCEPT ![m] = NoChild]
      /\ inst' = [inst EXCEPT ![m].status = "UNLOADED", ![m].failed = child[m].failed]
      /\ Tick(queue, inst', s, c)
      /\ child[m].watched
  BY DEF QueuesInv, IInv, Types, OnChildExit
<1>2. /\ child'[m].proc = "none" /\ ~child'[m].watched
      /\ ~child'[m].asked /\ ~child'[m].deadline
      /\ \A x \in Models : x # m => child'[x] = child[x] /\ inst'[x] = inst[x]
  BY <1>1 DEF NoChild
<1>3. \A x \in Models : x \in s <=> x \in stopping /\ x # m
  BY DEF Unmarked
<1>4. s \subseteq Models /\ c \in Seq(Command)
  BY DEF QueuesInv, StopsFit, Unmarked
<1> HIDE DEF s, c
<1>5. \A k \in DOMAIN c : ~WatchAt(c, k, m)
  BY <1>1 DEF QueuesInv, StopsFit, WatchOnce, c
<1>6. \A k \in DOMAIN c, x \in Models :
        HitsAt(child', c, k, x) <=> x # m /\ HitsAt(child, c, k, x)
  BY <1>2, <1>5 DEF HitsAt
<1>7. WatchOnce(child', c)
  <2>1. WatchOnce(child, c)
    BY DEF QueuesInv, StopsFit, c
  <2> QED
    BY <1>2, <1>5, <2>1 DEF WatchOnce
<1>8. StopsArrive(inst', child', s, c)
  <2>1. StopsArrive(inst, child, stopping, c)
    BY DEF QueuesInv, StopsFit, c
  <2> QED
    BY <1>2, <1>3, <1>4, <1>6, <2>1 DEF StopsArrive
<1>9. StopsMeant(child', s, c)
  <2>1. StopsMeant(child, stopping, c)
    BY DEF QueuesInv, StopsFit, c
  <2> QED
    BY <1>2, <1>3, <1>6, <2>1 DEF StopsMeant
<1>10. NoRecord(child')
  BY <1>2 DEF NoRecord, QueuesInv
<1>11. StopsFit(inst', child', s, c)
  BY <1>4, <1>7, <1>8, <1>9 DEF StopsFit
<1>12. RunsInProcess(inst', child') /\ Recency(recency)
  BY DEF IInv, ChildInv, RunsInProcess, QueuesInv
<1>13. StopsFit(inst', child', Marked(s, Victims(queue, inst', s)),
                c \o Stops(Victims(queue, inst', s)))
  BY <1>11, <1>12, TickFits
<1> QED
  BY <1>1, <1>10, <1>13 DEF MarksFit, Tick

\* A child goes on, dies or is killed.
LEMMA ProcessMarks ==
  ASSUME QueuesInv, NEW m \in Models,
         \/ ForceKill(m) \/ ChildProgress(m) \/ ChildSleeps(m) \/ ChildCrashes(m)
  PROVE  MarksFit(inst', child', stopping', cmds')
<1>1. child \in [Models -> Process] /\ UNCHANGED <<inst, stopping, cmds>>
  BY DEF QueuesInv, IInv, Types, ForceKill, ChildProgress, ChildReady, ChildWakes,
         ChildWoken, ChildSleeps, ChildStep, ChildExits, ChildCrashes
<1>2. Drifts(inst, inst', child, child')
  <2>1. CASE ForceKill(m)
    <3>1. /\ child[m].proc \notin {"none", "dead"}
          /\ child'[m].proc = "dead" /\ ~child'[m].deadline
          /\ child'[m].watched = child[m].watched
          /\ child'[m].asked = child[m].asked
          /\ \A x \in Models : x # m => child'[x] = child[x]
      BY <1>1, <2>1 DEF ForceKill, Alive, Process
    <3> QED
      BY <1>1, <3>1 DEF Drifts
  <2>2. CASE ChildExits(m)
    BY <1>1, <2>2 DEF ChildExits, Drifts
  <2>3. CASE ChildCrashes(m)
    BY <1>1, <2>3 DEF ChildCrashes, Alive, Drifts
  <2>4. ASSUME NEW from \in {"starting", "ready", "sleeping", "waking"},
               NEW to \in {"ready", "sleeping", "waking"}, NEW line,
               ChildStep(m, from, to, line)
        PROVE  Drifts(inst, inst', child, child')
    BY <1>1, <2>4 DEF ChildStep, Drifts
  <2> QED
    BY <2>1, <2>2, <2>3, <2>4
       DEF ChildProgress, ChildReady, ChildWakes, ChildWoken, ChildSleeps
<1> QED
  BY <1>1, <1>2, QuietMarks

-----------------------------------------------------------------------------
(* Steps: waiters.                                                         *)

\* A worker moves without joining or leaving.
LEMMA RoamStep ==
  ASSUME QueuesInv, NEW t \in Threads, NEW w, th' = [th EXCEPT ![t] = w],
         Roams(th[t], w), queue' = queue
  PROVE  QueuePlaces(th') /\ QueueFits(queue', Waits(th'))
<1>1. th \in [Threads -> Worker] /\ QueuePlaces(th) /\ QueueFits(queue, Waits(th))
  BY DEF QueuesInv, IInv, Types
<1>2. \A u \in Threads : Roams(th[u], th'[u])
  BY <1>1 DEF Roams, QueuePlaces
<1>3. QueuePlaces(th') /\ QueueFits(queue, Waits(th'))
  BY <1>1, <1>2, RoamFits
<1> QED
  BY <1>3

\* A worker without a place in the queue may be called or go idle.
LEMMA IdleRoams ==
  ASSUME QueuesInv, NEW t \in Threads,
         \/ th[t].pc \notin {"loop", "lru", "unload", "gone", "spawn", "claimed"}
         \/ th[t].op # "request"
  PROVE  Roams(th[t], Idle)
<1>1. th[t].queued = FALSE
  BY DEF QueuesInv, QueuePlaces, IInv, Types, Worker
<1> QED
  BY <1>1 DEF Roams, Idle

\* Steps of a worker outside the queue's critical sections.
LEMMA WalkWaiters ==
  ASSUME QueuesInv, NEW t \in Threads,
         \/ Arrive(t) \/ CheckStopping(t) \/ UnloadLru(t) \/ Unload(t)
         \/ VictimGone(t) \/ ProxyMeta(t) \/ SessionStopped(t)
         \/ Count(t) \/ Cleanup(t)
  PROVE  QueuePlaces(th') /\ QueueFits(queue', Waits(th'))
<1> DEFINE v == th[t]
<1>1. /\ th \in [Threads -> Worker] /\ v \in Worker
      /\ v.pc \in {"ensure", "join", "loop", "claimed"} => v.op = "request"
      /\ v.queued => /\ v.op = "request"
                     /\ v.pc \in {"loop", "lru", "unload", "gone", "spawn",
                                  "claimed"}
      /\ v.queued \in BOOLEAN
  BY DEF QueuesInv, IInv, Types, Worker, QueuePlaces
<1>2. queue' = queue
  BY DEF Arrive, CheckStopping, UnloadLru, Unload, VictimGone, ProxyMeta,
         SessionStopped, Count, Cleanup
<1>3. ASSUME th' = [th EXCEPT ![t] = Idle], Roams(v, Idle)
      PROVE  QueuePlaces(th') /\ QueueFits(queue', Waits(th'))
  BY <1>2, <1>3, RoamStep
<1>4. ASSUME NEW pc \in {"lru", "spawn", "gone", "count", "serving"},
             v.pc \in {"lru", "unload", "gone", "proxy", "count"},
             v.queued => pc \notin {"count", "serving"},
             th' = [th EXCEPT ![t].pc = pc]
      PROVE  QueuePlaces(th') /\ QueueFits(queue', Waits(th'))
  <2> DEFINE w == [v EXCEPT !.pc = pc]
  <2>1. th' = [th EXCEPT ![t] = w] /\ Roams(v, w)
    BY <1>1, <1>4 DEF Roams, Worker
  <2> QED
    BY <1>2, <2>1, RoamStep
<1>5. CASE Arrive(t)
  <2>1. PICK m \in Models, op \in {"request", "load", "unload"} :
          th' = [th EXCEPT ![t] =
             [Idle EXCEPT !.op = op, !.model = m, !.victim = m,
                !.meta = inst[m].status,
                !.pc = CASE op = "request" -> "ensure" [] op = "load" -> "lru"
                         [] op = "unload" -> "unload"]]
    BY <1>5, Zenon DEF Arrive
  <2> DEFINE w == [Idle EXCEPT !.op = op, !.model = m, !.victim = m,
                     !.meta = inst[m].status,
                     !.pc = CASE op = "request" -> "ensure" [] op = "load" -> "lru"
                              [] op = "unload" -> "unload"]
  <2>2. /\ w.queued = FALSE
        /\ w.pc \in {"ensure", "join", "loop", "claimed"} => w.op = "request"
    BY DEF Idle
  <2>3. v.queued = FALSE
    BY <1>1, <1>5 DEF Arrive, At
  <2> HIDE DEF w
  <2>4. Roams(v, w)
    BY <2>2, <2>3 DEF Roams
  <2> QED
    BY <1>2, <2>1, <2>4, RoamStep DEF w
<1>6. CASE CheckStopping(t)
  <2> DEFINE w == [v EXCEPT !.meta = "UNLOADED", !.pc =
                     IF v.model \notin stopping /\ v.meta \in ReadyOrSleep
                     THEN "proxy" ELSE "join"]
  <2>1. th' = [th EXCEPT ![t] = w] /\ v.pc = "ensure"
    BY <1>1, <1>6 DEF CheckStopping, At
  <2>2. w.queued = v.queued /\ w.op = v.op
    BY <1>1 DEF Worker
  <2> HIDE DEF w
  <2>3. Roams(v, w)
    BY <1>1, <2>1, <2>2 DEF Roams
  <2> QED
    BY <1>2, <2>1, <2>3, RoamStep
<1>7. CASE UnloadLru(t)
  <2>1. CASE th' = [th EXCEPT ![t].pc = "spawn"]
    BY <1>4, <1>7, <2>1 DEF UnloadLru, At
  <2>2. ASSUME NEW m, th' = [th EXCEPT ![t].pc = "unload", ![t].victim = m]
        PROVE  QueuePlaces(th') /\ QueueFits(queue', Waits(th'))
    <3> DEFINE w == [v EXCEPT !.pc = "unload", !.victim = m]
    <3>1. th' = [th EXCEPT ![t] = w] /\ Roams(v, w)
      BY <1>1, <2>2 DEF Roams, Worker
    <3> QED
      BY <1>2, <3>1, RoamStep
  <2> QED
    BY <1>7, <2>1, <2>2 DEF UnloadLru
<1>8. CASE Unload(t)
  <2>1. /\ v.pc = "unload"
        /\ th' = [th EXCEPT ![t] = IF v.op = "unload" THEN Idle
                                   ELSE [v EXCEPT !.pc = "gone"]]
    BY <1>1, <1>8 DEF Unload, At
  <2>2. CASE v.op = "unload"
    <3>1. Roams(v, Idle)
      BY <2>2, IdleRoams
    <3> QED
      BY <1>3, <2>1, <2>2, <3>1
  <2>3. CASE v.op # "unload"
    <3>1. th' = [th EXCEPT ![t].pc = "gone"]
      BY <2>1, <2>3
    <3> QED
      BY <1>4, <2>1, <3>1
  <2> QED
    BY <2>2, <2>3
<1>9. CASE VictimGone(t)
  BY <1>4, <1>9 DEF VictimGone, At
<1>10. CASE ProxyMeta(t)
  <2>1. v.pc = "proxy" /\ v.queued = FALSE
    BY <1>1, <1>10 DEF ProxyMeta, At
  <2>2. \/ th' = [th EXCEPT ![t].pc = "count"]
        \/ th' = [th EXCEPT ![t] = Idle]
    BY <1>10 DEF ProxyMeta
  <2>3. Roams(v, Idle)
    BY <2>1, IdleRoams
  <2> QED
    BY <1>3, <1>4, <2>1, <2>2, <2>3
<1>11. CASE SessionStopped(t)
  <2>1. v.pc = "proxy" /\ th' = [th EXCEPT ![t] = Idle]
    BY <1>11 DEF SessionStopped, At
  <2>2. Roams(v, Idle)
    BY <2>1, IdleRoams
  <2> QED
    BY <1>3, <2>1, <2>2
<1>12. CASE Count(t)
  <2>1. v.pc = "count" /\ v.queued = FALSE /\ th' = [th EXCEPT ![t].pc = "serving"]
    BY <1>1, <1>12 DEF Count, At
  <2> QED
    BY <1>4, <2>1
<1>13. CASE Cleanup(t)
  <2>1. v.pc = "serving" /\ th' = [th EXCEPT ![t] = Idle]
    BY <1>13 DEF Cleanup, At
  <2>2. Roams(v, Idle)
    BY <2>1, IdleRoams
  <2> QED
    BY <1>3, <2>1, <2>2
<1> QED
  BY <1>5, <1>6, <1>7, <1>8, <1>9, <1>10, <1>11, <1>12, <1>13

\* A request enters the queue when its model is down.
LEMMA JoinWaiters ==
  ASSUME QueuesInv, NEW t \in Threads, JoinQueue(t)
  PROVE  QueuePlaces(th') /\ QueueFits(queue', Waits(th'))
<1> DEFINE v == th[t]
           w == [v EXCEPT !.pc = "loop", !.queued = TRUE]
           x == [v EXCEPT !.pc = "loop"]
<1>1. /\ th \in [Threads -> Worker] /\ v \in Worker
      /\ v.pc = "join" /\ v.op = "request" /\ v.queued = FALSE
      /\ QueuePlaces(th) /\ QueueFits(queue, Waits(th))
  BY DEF QueuesInv, IInv, Types, Worker, QueuePlaces, JoinQueue, At
<1>2. /\ w \in Worker /\ w.queued /\ w.model = v.model /\ w.op = "request"
      /\ w.pc = "loop" /\ Roams(v, x)
  BY <1>1 DEF Worker, Roams
<1>3. CASE queue' = queue /\ th' = [th EXCEPT ![t].pc = "loop"]
  <2>1. th' = [th EXCEPT ![t] = x]
    BY <1>1, <1>3
  <2> HIDE DEF x
  <2> QED
    BY <1>2, <1>3, <2>1, RoamStep
<1>4. CASE /\ queue' = Join(queue, v.model)
           /\ th' = [th EXCEPT ![t].pc = "loop", ![t].queued = TRUE]
  <2>1. th' = [th EXCEPT ![t] = w]
    BY <1>1, <1>4
  <2> HIDE DEF w, x
  <2>2. QueueFits(Join(queue, v.model), Waits(th'))
    BY <1>1, <1>2, <2>1, StoppingFits
  <2>3. QueuePlaces(th')
    BY <1>1, <1>2, <2>1, PlacesMove
  <2> QED
    BY <1>4, <2>2, <2>3
<1> QED
  BY <1>3, <1>4 DEF JoinQueue

\* The turns of the loop.
LEMMA LoopWaiters ==
  ASSUME QueuesInv, NEW t \in Threads, Loop(t) \/ Drop(t) \/ Claimed(t)
  PROVE  QueuePlaces(th') /\ QueueFits(queue', Waits(th'))
<1>1. /\ Types /\ QueuePlaces(th) /\ QueueFits(queue, Waits(th))
      /\ th[t] \in Worker
      /\ th[t].did_load \in BOOLEAN /\ th[t].ok \in BOOLEAN
  BY DEF QueuesInv, IInv, Types, Worker
<1>2. CASE Loop(t) \/ Drop(t)
  <2>1. /\ th[t].pc = "loop"
        /\ \E drop \in BOOLEAN :
             Turn(t, queue, stopping, cmds, th[t].did_load, drop)
    BY <1>2 DEF Loop, Drop, At
  <2> QED
    BY <1>1, <2>1, TurnWaiters
<1>3. CASE Claimed(t)
  <2> DEFINE q == ClaimDone(queue, th[t].model, th[t].ok)
             s == Marked(stopping, Victims(q, inst, stopping))
             c == cmds \o Stops(Victims(q, inst, stopping))
             did == th[t].did_load \/ th[t].ok
  <2>1. th[t].pc = "claimed" /\ Turn(t, q, s, c, did, FALSE)
    BY <1>3 DEF Claimed, At
  <2>2. QueueFits(q, Waits(th)) /\ did \in BOOLEAN
    BY <1>1, ClaimFits
  <2> HIDE DEF q, s, c, did
  <2> QED
    BY <1>1, <2>1, <2>2, TurnWaiters
<1> QED
  BY <1>2, <1>3

\* load returns, to the loop or out, or starts an instance and then returns.
LEMMA SpawnWaiters ==
  ASSUME QueuesInv, NEW t \in Threads, Spawn(t)
  PROVE  QueuePlaces(th') /\ QueueFits(queue', Waits(th'))
<1> DEFINE v == th[t]
           m == v.model
           w(ok) == IF v.op = "request"
                    THEN [v EXCEPT !.pc = "claimed", !.ok = ok, !.victim = SomeModel]
                    ELSE Idle
<1>1. /\ th \in [Threads -> Worker] /\ v \in Worker /\ v.pc = "spawn"
      /\ v.queued \in BOOLEAN /\ queue' = queue
      /\ QueuePlaces(th) /\ QueueFits(queue, Waits(th))
  BY DEF QueuesInv, IInv, Types, Worker, Spawn, At
<1>2. ASSUME NEW ok PROVE Roams(v, w(ok))
  <2>1. CASE v.op = "request"
    BY <1>1, <2>1 DEF Roams, Worker
  <2>2. CASE v.op # "request"
    <3>1. Roams(v, Idle)
      BY <2>2, IdleRoams
    <3> QED
      BY <2>2, <3>1
  <2> QED
    BY <2>1, <2>2
<1>3. ASSUME NEW ok, Return(t, ok)
      PROVE  QueuePlaces(th') /\ QueueFits(queue', Waits(th'))
  <2>1. th' = [th EXCEPT ![t] = w(ok)]
    BY <1>3 DEF Return
  <2>2. Roams(v, w(ok))
    BY <1>2
  <2> HIDE DEF w
  <2> QED
    BY <1>1, <2>1, <2>2, RoamStep
<1>4. CASE th' = [u \in Threads |->
                    IF u \in Serving(m) THEN [th[u] EXCEPT !.stale = TRUE]
                    ELSE IF u # t THEN th[u]
                    ELSE IF v.op = "request"
                    THEN [v EXCEPT !.pc = "claimed", !.ok = TRUE,
                                   !.victim = SomeModel]
                    ELSE Idle]
  <2>1. t \notin Serving(m)
    BY <1>1 DEF Serving, At
  <2>2. Roams(v, w(TRUE))
    BY <1>2
  <2>3. th'[t] = w(TRUE)
    BY <1>4, <2>1
  <2> HIDE DEF w
  <2>4. ASSUME NEW u \in Threads PROVE Roams(th[u], th'[u])
    <3>1. CASE u = t
      BY <2>2, <2>3, <3>1
    <3>2. CASE u # t
      <4>1. th[u] \in Worker /\ th'[u] \in {th[u], [th[u] EXCEPT !.stale = TRUE]}
        BY <1>1, <1>4, <3>2
      <4>2. /\ th'[u].queued = th[u].queued /\ th'[u].model = th[u].model
            /\ th'[u].op = th[u].op /\ th'[u].pc = th[u].pc
        BY <4>1 DEF Worker
      <4> QED
        BY <1>1, <4>2 DEF Roams, QueuePlaces
    <3> QED
      BY <3>1, <3>2
  <2> QED
    BY <1>1, <2>4, RoamFits
<1> HIDE DEF w
<1> QED
  BY <1>3, <1>4, Zenon DEF Spawn, v, m

-----------------------------------------------------------------------------
(* The invariant.                                                          *)

\* Initially nothing runs, waits or is commanded.
LEMMA QueuesInit == Init => QueuesInv
<1> SUFFICES ASSUME Init PROVE QueuesInv
  OBVIOUS
<1>1. IInv
  BY InitInv
<1>2. Recency(recency)
  BY RouterAssumption, SetToSeqFacts DEF Init, Recency
<1>3. NoRecord(child)
  BY DEF Init, NoRecord, NoChild
<1>4. StopsFit(inst, child, stopping, cmds)
  <2>1. \A m \in Models : /\ child[m].proc = "none" /\ ~child[m].asked
                          /\ ~child[m].deadline
    BY DEF Init, NoChild
  <2>2. stopping = {} /\ cmds \in Seq(Command) /\ DOMAIN cmds = {}
    BY DEF Init
  <2> QED
    BY <2>1, <2>2 DEF StopsFit, WatchOnce, StopsArrive, StopsMeant
<1>5. QueuePlaces(th)
  BY DEF Init, QueuePlaces, Idle
<1>6. QueueFits(queue, Waits(th))
  <2>1. queue \in Seq(Entry) /\ DOMAIN queue = {}
    BY DEF Init
  <2>2. \A m \in Models : Waits(th)[m] = {}
    BY DEF Init, Waits, Idle
  <2> QED
    BY <2>1, <2>2 DEF QueueFits
<1>7. arrivals \in 0..MaxArrivals /\ faults \in 0..MaxFaults
  BY RouterAssumption DEF Init
<1> QED
  BY <1>1, <1>2, <1>3, <1>4, <1>5, <1>6, <1>7 DEF QueuesInv

\* Calls and faults stay within their bounds.
LEMMA BoundsStep ==
  ASSUME QueuesInv, Next
  PROVE  arrivals' \in 0..MaxArrivals /\ faults' \in 0..MaxFaults
<1>1. /\ arrivals \in 0..MaxArrivals /\ faults \in 0..MaxFaults
      /\ MaxArrivals \in Nat /\ MaxFaults \in Nat
  BY RouterAssumption DEF QueuesInv
<1> DEFINE counted ==
             /\ \/ arrivals' = arrivals
                \/ arrivals < MaxArrivals /\ arrivals' = arrivals + 1
             /\ \/ faults' = faults
                \/ faults < MaxFaults /\ faults' = faults + 1
<1>2. counted
  <2>1. ASSUME NEW t \in Threads,
               Arrive(t) \/ WorkerStep(t) \/ Drop(t) \/ SessionStopped(t)
        PROVE  counted
    BY <2>1, Zenon DEF Arrive, WorkerStep, Drop, SessionStopped, CheckStopping, JoinQueue,
       Loop, Claimed, UnloadLru, Unload, VictimGone, Spawn, ProxyMeta, Count, Cleanup
  <2>2. ASSUME MonitorStep PROVE counted
    BY <2>2, Zenon DEF MonitorStep, HandleCommand, HandleChildState, OnChildExit, ForceKill
  <2>3. ASSUME NEW m \in Models, ChildProgress(m) \/ ChildSleeps(m) \/ ChildCrashes(m)
        PROVE  counted
    BY <2>3, Zenon DEF ChildProgress, ChildReady, ChildWakes, ChildWoken, ChildExits,
       ChildSleeps, ChildStep, ChildCrashes
  <2> QED
    BY <2>1, <2>2, <2>3 DEF Next
<1> QED
  BY <1>1, <1>2

\* Models are used, and stay the models in some order.
LEMMA RecencyStep ==
  ASSUME QueuesInv, Next
  PROVE  Recency(recency')
<1>1. Recency(recency) /\ \A t \in Threads : th[t].model \in Models
  BY DEF QueuesInv, IInv, Types, Worker
<1> DEFINE ordered == recency' = recency \/ \E m \in Models : recency' = Touched(m)
<1>2. ordered
  <2>1. ASSUME NEW t \in Threads,
               Arrive(t) \/ WorkerStep(t) \/ Drop(t) \/ SessionStopped(t)
        PROVE  ordered
    <3>1. CASE Spawn(t)
      BY <1>1, <3>1, Zenon DEF Spawn
    <3>2. CASE Count(t)
      <4>1. recency' = recency \/ recency' = Touched(th[t].model)
        BY <3>2 DEF Count
      <4> QED
        BY <1>1, <4>1
    <3>3. CASE ~Spawn(t) /\ ~Count(t)
      <4>1. recency' = recency
        BY <2>1, <3>3, Zenon DEF Arrive, WorkerStep, Drop, SessionStopped,
           CheckStopping, JoinQueue, Loop, Claimed, UnloadLru, Unload, VictimGone,
           ProxyMeta, Cleanup
      <4> QED
        BY <4>1
    <3> QED
      BY <3>1, <3>2, <3>3
  <2>2. ASSUME MonitorStep PROVE ordered
    BY <2>2, Zenon DEF MonitorStep, HandleCommand, HandleChildState, OnChildExit, ForceKill
  <2>3. ASSUME NEW m \in Models, ChildProgress(m) \/ ChildSleeps(m) \/ ChildCrashes(m)
        PROVE  ordered
    BY <2>3, Zenon DEF ChildProgress, ChildReady, ChildWakes, ChildWoken, ChildExits,
       ChildSleeps, ChildStep, ChildCrashes
  <2> QED
    BY <2>1, <2>2, <2>3 DEF Next
<1> QED
  BY <1>1, <1>2, TouchedFacts

\* Every step keeps the invariant.
LEMMA QueuesStep == QueuesInv /\ [Next]_vars => QueuesInv'
<1> SUFFICES ASSUME QueuesInv, [Next]_vars PROVE QueuesInv'
  OBVIOUS
<1>1. IInv'
  BY NextInv DEF QueuesInv
<1>2. CASE UNCHANGED vars
  <2>1. /\ recency' = recency /\ th' = th /\ queue' = queue /\ inst' = inst
        /\ child' = child /\ stopping' = stopping /\ cmds' = cmds
        /\ arrivals' = arrivals /\ faults' = faults
    BY <1>2 DEF vars
  <2>2. /\ Recency(recency') /\ NoRecord(child')
        /\ StopsFit(inst', child', stopping', cmds')
        /\ QueuePlaces(th') /\ QueueFits(queue', Waits(th'))
        /\ arrivals' \in 0..MaxArrivals /\ faults' \in 0..MaxFaults
    BY <2>1 DEF QueuesInv
  <2> QED
    BY <1>1, <2>2 DEF QueuesInv
<1>3. CASE Next
  <2> DEFINE fits == /\ MarksFit(inst', child', stopping', cmds')
                     /\ QueuePlaces(th') /\ QueueFits(queue', Waits(th'))
  <2>1. fits
    <3>1. ASSUME NEW t \in Threads,
                 Arrive(t) \/ WorkerStep(t) \/ Drop(t) \/ SessionStopped(t)
          PROVE  fits
      <4>1. CASE \/ Arrive(t) \/ CheckStopping(t) \/ UnloadLru(t) \/ VictimGone(t)
                 \/ ProxyMeta(t) \/ SessionStopped(t) \/ Count(t) \/ Cleanup(t)
        BY <1>1, <4>1, WorkerMarks, WalkWaiters
      <4>2. CASE JoinQueue(t)
        BY <1>1, <4>2, WorkerMarks, JoinWaiters
      <4>3. CASE Loop(t) \/ Drop(t) \/ Claimed(t)
        BY <4>3, LoopMarks, LoopWaiters
      <4>4. CASE Unload(t)
        BY <1>1, <4>4, UnloadMarks, WalkWaiters
      <4>5. CASE Spawn(t)
        BY <4>5, SpawnMarks, SpawnWaiters
      <4> QED
        BY <3>1, <4>1, <4>2, <4>3, <4>4, <4>5 DEF WorkerStep
    <3>2. ASSUME th' = th, queue' = queue, MarksFit(inst', child', stopping', cmds')
          PROVE  fits
      BY <3>2 DEF QueuesInv
    <3>3. CASE HandleCommand
      <4>1. th' = th /\ queue' = queue
        BY <3>3 DEF HandleCommand
      <4> QED
        BY <3>2, <3>3, <4>1, CommandMarks
    <3>4. ASSUME NEW m \in Models,
                 \/ HandleChildState(m) \/ OnChildExit(m) \/ ForceKill(m)
                 \/ ChildProgress(m) \/ ChildSleeps(m) \/ ChildCrashes(m)
          PROVE  fits
      <4>1. th' = th /\ queue' = queue
        BY <3>4 DEF HandleChildState, OnChildExit, ForceKill, ChildProgress,
           ChildReady, ChildWakes, ChildWoken, ChildExits, ChildSleeps, ChildStep,
           ChildCrashes
      <4>2. MarksFit(inst', child', stopping', cmds')
        BY <1>1, <3>4, ReportMarks, ExitMarks, ProcessMarks
      <4> QED
        BY <3>2, <4>1, <4>2
    <3> QED
      BY <1>3, <3>1, <3>3, <3>4 DEF Next, MonitorStep
  <2>2. Recency(recency')
    BY <1>3, RecencyStep
  <2>3. arrivals' \in 0..MaxArrivals /\ faults' \in 0..MaxFaults
    BY <1>3, BoundsStep
  <2> QED
    BY <1>1, <2>1, <2>2, <2>3 DEF QueuesInv, MarksFit
<1> QED
  BY <1>2, <1>3

\* What marks, commands and waiters keep to holds in every state.
LEMMA QueuesInvariant == Spec => []QueuesInv
BY QueuesInit, QueuesStep, PTL DEF Spec

-----------------------------------------------------------------------------
(* Theorems.                                                               *)

\* Type correctness of the router: registry, order of last use, marks, queue,
\* workers, commands and processes.
THEOREM RouterTypeCorrect == Spec => []TypeOK
<1>1. QueuesInv => TypeOK
  BY DEF QueuesInv, IInv, Types, Recency, StopsFit, QueueFits, TypeOK
<1> QED
  BY <1>1, QueuesInvariant, PTL

\* server_lru_sched counts its waiters exactly: however a request leaves
\* ensure_model_ready, its n_waiters goes down by the one it raised.
THEOREM WaitersCountedExactly == Spec => []WaitersCounted
<1>1. ASSUME QueuesInv PROVE WaitersCounted
  <2>1. \A m \in Models : Waits(th)[m] = {t \in Threads : th[t].queued /\ th[t].model = m}
    BY DEF Waits
  <2>2. QueueFits(queue, Waits(th)) /\ \A k \in DOMAIN queue : queue[k].model \in Models
    BY <1>1, QueueIndex DEF QueuesInv, Entry
  <2>3. ASSUME NEW k \in DOMAIN queue
        PROVE  /\ queue[k].waiters =
                    Cardinality({t \in Threads : th[t].queued /\ th[t].model = queue[k].model})
               /\ \A j \in DOMAIN queue \ {k} : queue[j].model # queue[k].model
    <3>1. queue[k].waiters = Cardinality(Waits(th)[queue[k].model])
      BY <2>2 DEF QueueFits
    <3>2. Waits(th)[queue[k].model]
            = {t \in Threads : th[t].queued /\ th[t].model = queue[k].model}
      BY <2>1, <2>2
    <3>3. \A j \in DOMAIN queue \ {k} : queue[j].model # queue[k].model
      BY <2>2 DEF QueueFits
    <3> QED
      BY <3>1, <3>2, <3>3
  <2>4. ASSUME NEW t \in Threads, th[t].queued
        PROVE  \E k \in DOMAIN queue : queue[k].model = th[t].model
    <3>1. th[t].model \in Models /\ t \in Waits(th)[th[t].model]
      BY <1>1, <2>1, <2>4 DEF QueuesInv, IInv, Types, Worker
    <3> QED
      BY <2>2, <3>1 DEF QueueFits
  <2> QED
    BY <2>3, <2>4 DEF WaitersCounted
<1> QED
  BY <1>1, QueuesInvariant, PTL

\* A mark in stopping_models never stays behind: the stop that ends it is in
\* the queue, its deadline runs, or the process is dead and will be reaped.
THEOREM MarksEnd == Spec => []StoppingEnds
<1>1. ASSUME QueuesInv PROVE StoppingEnds
  <2> SUFFICES ASSUME NEW m \in stopping
               PROVE  /\ inst[m].status \in Running
                      /\ \/ \E k \in DOMAIN cmds : cmds[k].type = "STOP" /\ cmds[k].model = m
                         \/ child[m].deadline
                         \/ child[m].proc = "dead"
    BY DEF StoppingEnds
  <2> QED
    BY <1>1 DEF QueuesInv, StopsFit, StopsArrive, HitsAt, StopAt
<1> QED
  BY <1>1, QueuesInvariant, PTL

\* A STOP queued for one instance of a name never asks or kills the next one:
\* only a model the registry is stopping is told to exit or has a deadline.
THEOREM StopsHitTheirInstance == Spec => []StopHitsItsInstance
<1>1. QueuesInv => StopHitsItsInstance
  BY DEF QueuesInv, StopsFit, StopsMeant, StopHitsItsInstance
<1> QED
  BY <1>1, QueuesInvariant, PTL

=============================================================================

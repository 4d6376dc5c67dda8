------------------------- MODULE ServerModels_proof -------------------------
(***************************************************************************)
(* Proofs about the router, for any finite sets of models and workers, any *)
(* limit and any environment.                                              *)
(*                                                                         *)
(* The limit: the registry calls a model running exactly while it has a    *)
(* process (ChildInv), so that counting processes is counting statuses,    *)
(* and a status becomes running only where load has just seen room.        *)
(* The counts: a worker is counted exactly between req_count++ and its     *)
(* cleanup, and what a new instance resets are the counts of workers that  *)
(* become stale.  From the counts follows what tick may evict.             *)
(***************************************************************************)
EXTENDS ServerModels, FiniteSetTheorems, TLAPS

(* The inductive invariant.                                                *)

Types ==
    /\ inst \in [Models -> [status : Status, failed : BOOLEAN, req : Nat]]
    /\ th \in [Threads -> Worker]
    /\ child \in [Models -> Process]
    /\ robbed \subseteq Models

ChildInv ==
    \A m \in Models :
        /\ inst[m].status \in Running <=> child[m].proc # "none"
        /\ child[m].proc = "none" => child[m].pipe = <<>>

LimitInv == models_max > 0 => Cardinality(RunningSet(inst)) <= models_max

\* The workers that req_count of m stands for.
Counted(m) == {t \in Threads : /\ th[t].pc = "serving" /\ th[t].model = m
                               /\ ~th[t].stale}

CountInv ==
    /\ \A t \in Threads : th[t].stale => th[t].pc = "serving"
    /\ \A m \in Models \ robbed : inst[m].req = Cardinality(Counted(m))

IInv == Types /\ ChildInv /\ LimitInv /\ CountInv

\* A worker goes from one place to another without a request in flight.
Moved(t) ==
    /\ th[t].pc # "serving"
    /\ \E w \in Worker : /\ w.pc # "serving" /\ ~w.stale
                         /\ th' = [th EXCEPT ![t] = w]

\* Nothing that the counts depend on changes.
CountsKept ==
    /\ th' = th \/ \E t \in Threads : Moved(t)
    /\ robbed' = robbed
    /\ \A m \in Models : inst'[m].req = inst[m].req

-----------------------------------------------------------------------------
(* Lemmas about the operators                                              *)

\* A worker between calls is a worker; the model it names is any.
LEMMA IdleType == Idle \in Worker /\ SomeModel \in Models
<1>1. SomeModel \in Models
  BY RouterAssumption DEF SomeModel
<1> QED
  BY <1>1 DEF Idle, Worker, Status

\* The process record of a model without a process.
LEMMA NoChildType == NoChild \in Process
BY DEF NoChild, Process

\* The models that run are finitely many.
LEMMA RunningFinite ==
    ASSUME NEW i
    PROVE  IsFiniteSet(RunningSet(i)) /\ Cardinality(RunningSet(i)) \in Nat
BY RouterAssumption, FS_Subset, FS_CardinalityType DEF RunningSet

\* What tick evicts is idle: no request is counted against it.
LEMMA VictimsIdle ==
    ASSUME NEW q, NEW i, NEW s
    PROVE  Victims(q, i, s) \subseteq {m \in Models : i[m].req = 0}
BY DEF Victims, Evictable

\* A turn of ensure_model_ready moves one worker, and not into or out of a
\* proxied request.
LEMMA TurnMoves ==
    ASSUME Types, CountInv, NEW t \in Threads, th[t].pc # "serving",
           NEW q, NEW s, NEW c, NEW did \in BOOLEAN, NEW drop \in BOOLEAN,
           Turn(t, q, s, c, did, drop)
    PROVE  Moved(t)
<1> DEFINE m == th[t].model
           joins == m \in s /\ ~th[t].queued
<1>1. th[t] \in Worker /\ ~th[t].stale
  BY DEF Types, CountInv
<1>2. ASSUME th' = [th EXCEPT ![t] = Idle]
      PROVE  Moved(t)
  BY <1>2, IdleType DEF Moved, Idle
<1>3. ASSUME th' = [th EXCEPT ![t] = [Idle EXCEPT !.model = m, !.pc = "proxy"]]
      PROVE  Moved(t)
  <2>1. [Idle EXCEPT !.model = m, !.pc = "proxy"] \in Worker
    BY <1>1, IdleType DEF Worker
  <2>2. /\ [Idle EXCEPT !.model = m, !.pc = "proxy"].pc # "serving"
        /\ ~[Idle EXCEPT !.model = m, !.pc = "proxy"].stale
    BY IdleType DEF Idle
  <2> QED
    BY <1>3, <2>1, <2>2 DEF Moved
<1>4. ASSUME NEW pc \in {"loop", "lru"}, NEW saw \in BOOLEAN,
             th' = [th EXCEPT ![t].pc = pc, ![t].did_load = did,
                      ![t].saw_loading = saw, ![t].queued = @ \/ joins]
      PROVE  Moved(t)
  <2> DEFINE w == [th[t] EXCEPT !.pc = pc, !.did_load = did,
                     !.saw_loading = saw, !.queued = @ \/ joins]
  <2>1. w \in Worker /\ w.pc # "serving" /\ ~w.stale
    BY <1>1 DEF Worker
  <2>2. th' = [th EXCEPT ![t] = w]
    BY <1>4 DEF Types
  <2> QED
    BY <2>1, <2>2 DEF Moved
<1>5. th[t].saw_loading \in BOOLEAN
      /\ (th[t].saw_loading \/ inst[m].status = "LOADING") \in BOOLEAN
  BY <1>1 DEF Worker
<1> HIDE DEF joins
<1> QED
  BY <1>2, <1>3, <1>4, <1>5, Zenon DEF Turn, m, joins

\* A step that moves a worker outside of proxied requests keeps the counts.
LEMMA KeptCounts ==
    ASSUME Types, Types', CountInv, CountsKept
    PROVE  CountInv'
<1>1. CASE th' = th
  <2>1. \A m \in Models : Counted(m)' = Counted(m)
    BY <1>1 DEF Counted
  <2> QED
    BY <1>1, <2>1 DEF CountInv, CountsKept
<1>2. ASSUME NEW t \in Threads, Moved(t)
      PROVE  CountInv'
  <2>1. PICK w \in Worker : /\ w.pc # "serving" /\ ~w.stale
                            /\ th' = [th EXCEPT ![t] = w]
    BY <1>2 DEF Moved
  <2>2. \A u \in Threads : th'[u] = IF u = t THEN w ELSE th[u]
    BY <2>1 DEF Types
  <2>3. \A m \in Models : Counted(m)' = Counted(m)
    BY <1>2, <2>1, <2>2 DEF Counted, Moved
  <2>4. \A u \in Threads : th'[u].stale => th'[u].pc = "serving"
    BY <2>1, <2>2 DEF CountInv
  <2> QED
    BY <2>3, <2>4 DEF CountInv, CountsKept
<1> QED
  BY <1>1, <1>2 DEF CountsKept

\* The workers that are counted are finitely many.
LEMMA CountedFinite ==
    ASSUME NEW m
    PROVE  IsFiniteSet(Counted(m)) /\ Cardinality(Counted(m)) \in Nat
BY RouterAssumption, FS_Subset, FS_CardinalityType DEF Counted

\* Return moves a worker, back into the queue's loop or out.
LEMMA ReturnMoves ==
    ASSUME Types, CountInv, NEW t \in Threads, th[t].pc # "serving",
           NEW ok \in BOOLEAN, Return(t, ok)
    PROVE  Moved(t)
<1> DEFINE w == IF th[t].op = "request"
                THEN [th[t] EXCEPT !.pc = "claimed", !.ok = ok,
                                   !.victim = SomeModel]
                ELSE Idle
<1>1. th[t] \in Worker /\ ~th[t].stale
  BY DEF Types, CountInv
<1>2. w \in Worker /\ w.pc # "serving" /\ ~w.stale
  BY <1>1, IdleType DEF Worker, Idle
<1>3. th' = [th EXCEPT ![t] = w]
  BY DEF Return
<1> QED
  BY <1>2, <1>3 DEF Moved

\* Workers that move stay workers.
LEMMA MovedType ==
    ASSUME Types, NEW t \in Threads, Moved(t)
    PROVE  th' \in [Threads -> Worker]
BY DEF Types, Moved

-----------------------------------------------------------------------------
(* The initial state                                                       *)

\* The invariant holds initially: nothing runs and nobody is counted.
LEMMA InitInv == ASSUME Init PROVE IInv
<1>1. Types
  BY IdleType, NoChildType DEF Init, Types, Status
<1>2. ChildInv
  BY DEF Init, ChildInv, NoChild, Running
<1>3. LimitInv
  <2>1. RunningSet(inst) = {}
    BY DEF Init, RunningSet, Running
  <2> QED
    BY <2>1, FS_EmptySet, RouterAssumption DEF LimitInv
<1>4. CountInv
  <2>1. \A m \in Models : Counted(m) = {}
    BY DEF Init, Counted, Idle
  <2> QED
    BY <2>1, FS_EmptySet DEF Init, CountInv, Idle
<1> QED
  BY <1>1, <1>2, <1>3, <1>4 DEF IInv

-----------------------------------------------------------------------------
(* Steps                                                                   *)

\* A step that only moves a worker, and processes that stay processes.
Calm ==
    /\ UNCHANGED <<inst, robbed>>
    /\ th' = th \/ \E t \in Threads : Moved(t)
    /\ child' \in [Models -> Process]
    /\ \A m \in Models : /\ child'[m].proc = "none" <=> child[m].proc = "none"
                         /\ child[m].proc = "none" => child'[m].pipe = <<>>

\* Such a step keeps the invariant.
LEMMA CalmStep == ASSUME IInv, Calm PROVE IInv'
<1>1. Types'
  BY MovedType DEF IInv, Types, Calm
<1>2. ChildInv'
  BY DEF IInv, ChildInv, Calm
<1>3. LimitInv'
  BY DEF IInv, LimitInv, RunningSet, Calm
<1>4. CountInv'
  BY <1>1, KeptCounts DEF IInv, CountsKept, Calm
<1> QED
  BY <1>1, <1>2, <1>3, <1>4 DEF IInv

\* A call is accepted.
LEMMA ArriveStep == ASSUME IInv, NEW t \in Threads, Arrive(t) PROVE IInv'
<1>1. PICK m \in Models, op \in {"request", "load", "unload"} :
        th' = [th EXCEPT ![t] =
             [Idle EXCEPT !.op = op, !.model = m, !.victim = m,
                !.meta = inst[m].status,
                !.pc = CASE op = "request" -> "ensure" [] op = "load" -> "lru"
                         [] op = "unload" -> "unload"]]
  BY Zenon DEF Arrive
<1> DEFINE w == [Idle EXCEPT !.op = op, !.model = m, !.victim = m,
                   !.meta = inst[m].status,
                   !.pc = CASE op = "request" -> "ensure" [] op = "load" -> "lru"
                            [] op = "unload" -> "unload"]
<1>2. inst[m].status \in Status
  BY DEF IInv, Types
<1>3. w \in Worker /\ w.pc # "serving" /\ ~w.stale
  BY <1>2, IdleType DEF Worker, Idle
<1>4. Moved(t)
  BY <1>1, <1>3 DEF Moved, Arrive, At
<1> QED
  BY <1>4, CalmStep DEF Calm, Arrive, IInv, Types, ChildInv

\* The loop of ensure_model_ready, in its three forms.
LEMMA TurnStep ==
    ASSUME IInv, NEW t \in Threads, Loop(t) \/ Drop(t) \/ Claimed(t)
    PROVE  IInv'
<1>1. /\ th[t].pc # "serving" /\ th[t].did_load \in BOOLEAN
      /\ th[t].did_load \/ th[t].ok \in BOOLEAN
      /\ UNCHANGED <<inst, child, robbed>>
  BY DEF Loop, Drop, Claimed, At, IInv, Types, Worker
<1>2. Moved(t)
  <2>1. CASE Loop(t)
    BY <2>1, <1>1, TurnMoves DEF Loop, IInv
  <2>2. CASE Drop(t)
    BY <2>2, <1>1, TurnMoves DEF Drop, IInv
  <2>3. CASE Claimed(t)
    <3>1. (th[t].did_load \/ th[t].ok) \in BOOLEAN
      OBVIOUS
    <3> QED
      BY <2>3, <3>1, <1>1, TurnMoves DEF Claimed, IInv
  <2> QED
    BY <2>1, <2>2, <2>3
<1> QED
  BY <1>1, <1>2, CalmStep DEF Calm, IInv, Types, ChildInv

\* The steps of a worker that leave registry, counts and processes alone.
LEMMA WalkStep ==
    ASSUME IInv, NEW t \in Threads,
           \/ CheckStopping(t) \/ JoinQueue(t) \/ UnloadLru(t)
           \/ VictimGone(t) \/ ProxyMeta(t) \/ SessionStopped(t)
    PROVE  IInv'
<1>1. th[t] \in Worker /\ ~th[t].stale /\ th[t].pc # "serving"
  BY DEF IInv, Types, CountInv, CheckStopping, JoinQueue, UnloadLru,
         VictimGone, ProxyMeta, SessionStopped, At
<1>2. UNCHANGED <<inst, child, robbed>>
  BY DEF CheckStopping, JoinQueue, UnloadLru, VictimGone, ProxyMeta,
         SessionStopped
<1>3. \E w \in Worker : /\ w.pc # "serving" /\ ~w.stale
                        /\ th' = [th EXCEPT ![t] = w]
  <2>1. CASE CheckStopping(t)
    <3> DEFINE w == [th[t] EXCEPT !.meta = "UNLOADED", !.pc =
                       IF th[t].model \notin stopping
                          /\ th[t].meta \in ReadyOrSleep
                       THEN "proxy" ELSE "join"]
    <3>1. w \in Worker /\ w.pc # "serving" /\ ~w.stale
      BY <1>1 DEF Worker, Status
    <3>2. th' = [th EXCEPT ![t] = w]
      BY <2>1 DEF CheckStopping, IInv, Types
    <3> QED
      BY <3>1, <3>2
  <2>2. CASE JoinQueue(t)
    <3>1. \/ th' = [th EXCEPT ![t].pc = "loop", ![t].queued = TRUE]
          \/ th' = [th EXCEPT ![t].pc = "loop"]
      BY <2>2 DEF JoinQueue
    <3>2. /\ [th[t] EXCEPT !.pc = "loop", !.queued = TRUE] \in Worker
          /\ [th[t] EXCEPT !.pc = "loop"] \in Worker
      BY <1>1 DEF Worker
    <3>3. /\ ~[th[t] EXCEPT !.pc = "loop", !.queued = TRUE].stale
          /\ ~[th[t] EXCEPT !.pc = "loop"].stale
          /\ [th[t] EXCEPT !.pc = "loop", !.queued = TRUE].pc = "loop"
          /\ [th[t] EXCEPT !.pc = "loop"].pc = "loop"
      BY <1>1 DEF Worker
    <3>4. \/ th' = [th EXCEPT ![t] = [th[t] EXCEPT !.pc = "loop",
                                                   !.queued = TRUE]]
          \/ th' = [th EXCEPT ![t] = [th[t] EXCEPT !.pc = "loop"]]
      BY <3>1 DEF IInv, Types
    <3> QED
      BY <3>2, <3>3, <3>4
  <2>3. CASE UnloadLru(t)
    <3>1. \/ th' = [th EXCEPT ![t].pc = "spawn"]
          \/ \E v \in Models : th' = [th EXCEPT ![t].pc = "unload",
                                              ![t].victim = v]
      BY <2>3 DEF UnloadLru, Evictable
    <3>2. CASE th' = [th EXCEPT ![t].pc = "spawn"]
      <4>1. /\ [th[t] EXCEPT !.pc = "spawn"] \in Worker
            /\ ~[th[t] EXCEPT !.pc = "spawn"].stale
            /\ [th[t] EXCEPT !.pc = "spawn"].pc = "spawn"
            /\ th' = [th EXCEPT ![t] = [th[t] EXCEPT !.pc = "spawn"]]
        BY <1>1, <3>2 DEF Worker, IInv, Types
      <4> QED
        BY <4>1
    <3>3. ASSUME NEW v \in Models,
                 th' = [th EXCEPT ![t].pc = "unload", ![t].victim = v]
          PROVE  \E w \in Worker : /\ w.pc # "serving" /\ ~w.stale
                                   /\ th' = [th EXCEPT ![t] = w]
      <4> DEFINE w == [th[t] EXCEPT !.pc = "unload", !.victim = v]
      <4>1. w \in Worker /\ w.pc # "serving" /\ ~w.stale
        BY <1>1 DEF Worker
      <4>2. th' = [th EXCEPT ![t] = w]
        BY <3>3 DEF IInv, Types
      <4> QED
        BY <4>1, <4>2
    <3> QED
      BY <3>1, <3>2, <3>3
  <2>4. CASE VictimGone(t)
    <3> DEFINE w == [th[t] EXCEPT !.pc = "spawn"]
    <3>1. w \in Worker /\ w.pc # "serving" /\ ~w.stale
      BY <1>1 DEF Worker
    <3>2. th' = [th EXCEPT ![t] = w]
      BY <2>4 DEF VictimGone, IInv, Types
    <3> QED
      BY <3>1, <3>2
  <2>5. CASE ProxyMeta(t)
    <3> DEFINE w == IF inst[th[t].model].status \in Running
                    THEN [th[t] EXCEPT !.pc = "count"] ELSE Idle
    <3>1. w \in Worker /\ w.pc # "serving" /\ ~w.stale
      BY <1>1, IdleType DEF Worker, Idle
    <3>2. th' = [th EXCEPT ![t] = w]
      BY <2>5 DEF ProxyMeta
    <3> QED
      BY <3>1, <3>2
  <2>6. CASE SessionStopped(t)
    BY <2>6, IdleType DEF SessionStopped, Idle
  <2> QED
    BY <2>1, <2>2, <2>3, <2>4, <2>5, <2>6
<1> QED
  BY <1>1, <1>2, <1>3, CalmStep DEF Moved, Calm, IInv, Types, ChildInv

\* The monitor's commands and kills, and what processes do by themselves.
LEMMA ProcessStep ==
    ASSUME IInv,
           \/ HandleCommand
           \/ \E m \in Models : \/ ForceKill(m) \/ ChildProgress(m)
                                \/ ChildSleeps(m) \/ ChildCrashes(m)
    PROVE  IInv'
<1> USE DEF Calm, Process, Alive
<1>1. child \in [Models -> Process]
  BY DEF IInv, Types
<1>2. \A m \in Models : child[m].proc = "none" => child[m].pipe = <<>>
  BY DEF IInv, ChildInv
<1>3. CASE HandleCommand
  <2> DEFINE n == Head(cmds).model
             p == [child[n] EXCEPT !.watched = TRUE]
             r == [child[n] EXCEPT
                     !.asked = IF Head(cmds).send_exit THEN TRUE ELSE @,
                     !.deadline = TRUE]
  <2>1. \/ child' = child
        \/ child' = [child EXCEPT ![n] = p]
        \/ child' = [child EXCEPT ![n] = r]
    BY <1>3, <1>1 DEF HandleCommand
  <2>2. ASSUME NEW x \in Process
        PROVE  /\ [x EXCEPT !.watched = TRUE] \in Process
               /\ [x EXCEPT !.watched = TRUE].proc = x.proc
               /\ [x EXCEPT !.watched = TRUE].pipe = x.pipe
               /\ [x EXCEPT !.asked = TRUE, !.deadline = TRUE] \in Process
               /\ [x EXCEPT !.asked = TRUE, !.deadline = TRUE].proc = x.proc
               /\ [x EXCEPT !.asked = TRUE, !.deadline = TRUE].pipe = x.pipe
               /\ [x EXCEPT !.asked = x.asked, !.deadline = TRUE] \in Process
               /\ [x EXCEPT !.asked = x.asked, !.deadline = TRUE].proc = x.proc
               /\ [x EXCEPT !.asked = x.asked, !.deadline = TRUE].pipe = x.pipe
    OBVIOUS
  <2>3. \/ r = [child[n] EXCEPT !.asked = TRUE, !.deadline = TRUE]
        \/ r = [child[n] EXCEPT !.asked = child[n].asked, !.deadline = TRUE]
    OBVIOUS
  <2>6. ASSUME n \in Models
        PROVE  /\ p \in Process /\ p.proc = child[n].proc
               /\ p.pipe = child[n].pipe
               /\ r \in Process /\ r.proc = child[n].proc
               /\ r.pipe = child[n].pipe
    <3>1. child[n] \in Process
      BY <1>1, <2>6
    <3> HIDE DEF r, n, Process
    <3> QED
      BY <3>1, <2>2, <2>3
  <2> HIDE DEF n, p, r
  <2>4. child' \in [Models -> Process]
    BY <1>1, <2>1, <2>6
  <2>5. \A m \in Models : /\ child'[m].proc = child[m].proc
                          /\ child'[m].pipe = child[m].pipe
    BY <1>1, <2>1, <2>6
  <2>7. UNCHANGED <<inst, th, robbed>>
    BY <1>3 DEF HandleCommand
  <2>8. Calm
    BY <2>4, <2>5, <2>7, <1>2
  <2> QED
    BY <2>8, CalmStep
<1>4. ASSUME NEW m \in Models, NEW p \in Process,
             child[m].proc # "none", p.proc # "none",
             child' = [child EXCEPT ![m] = p],
             UNCHANGED <<inst, th, robbed>>
      PROVE  IInv'
  <2>1. child' \in [Models -> Process]
    BY <1>1, <1>4
  <2>2. \A n \in Models :
           /\ child'[n].proc = "none" <=> child[n].proc = "none"
           /\ child[n].proc = "none" => child'[n].pipe = <<>>
    BY <1>1, <1>2, <1>4
  <2> QED
    BY <1>4, <2>1, <2>2, CalmStep
<1>5. ASSUME NEW m \in Models, ForceKill(m)
      PROVE  IInv'
  <2> DEFINE p == [child[m] EXCEPT !.proc = "dead", !.failed = TRUE,
                     !.deadline = FALSE]
  <2>1. p \in Process /\ p.proc = "dead"
    BY <1>1
  <2>2. child' = [child EXCEPT ![m] = p]
    BY <1>1, <1>5 DEF ForceKill
  <2> QED
    BY <1>4, <1>5, <2>1, <2>2 DEF ForceKill
<1>6. ASSUME NEW m \in Models, NEW from, NEW to \in {"ready", "sleeping", "waking"},
             NEW line \in Seq({"loading", "ready", "sleeping"}),
             from # "none", ChildStep(m, from, to, line)
      PROVE  IInv'
  <2> DEFINE p == [child[m] EXCEPT !.proc = to, !.pipe = @ \o line]
  <2>1. p \in Process /\ p.proc # "none"
    <3>1. child[m] \in Process
      BY <1>1
    <3>2. child[m].pipe \o line \in Seq({"loading", "ready", "sleeping"})
      BY <3>1
    <3> QED
      BY <3>1, <3>2
  <2>2. child' = [child EXCEPT ![m] = p]
    BY <1>1, <1>6 DEF ChildStep
  <2> QED
    BY <1>4, <1>6, <2>1, <2>2 DEF ChildStep
<1>7. ASSUME NEW m \in Models, ChildProgress(m)
      PROVE  IInv'
  <2> DEFINE Lines == {"loading", "ready", "sleeping"}
  <2>4. <<"ready">> \in Seq(Lines) /\ <<"loading">> \in Seq(Lines)
    OBVIOUS
  <2>1. CASE ChildReady(m) \/ ChildWoken(m)
    BY <2>1, <2>4, <1>6 DEF ChildReady, ChildWoken
  <2>2. CASE ChildWakes(m)
    BY <2>2, <2>4, <1>6 DEF ChildWakes
  <2>3. CASE ChildExits(m)
    <3> DEFINE p == [child[m] EXCEPT !.proc = "dead"]
    <3>1. p \in Process /\ p.proc = "dead"
      BY <1>1
    <3>2. child' = [child EXCEPT ![m] = p]
      BY <1>1, <2>3 DEF ChildExits
    <3> QED
      BY <1>4, <2>3, <3>1, <3>2 DEF ChildExits
  <2> QED
    BY <1>7, <2>1, <2>2, <2>3 DEF ChildProgress
<1>8. ASSUME NEW m \in Models, ChildSleeps(m)
      PROVE  IInv'
  <2>1. <<"sleeping">> \in Seq({"loading", "ready", "sleeping"})
    OBVIOUS
  <2> QED
    BY <1>8, <1>6, <2>1 DEF ChildSleeps
<1>9. ASSUME NEW m \in Models, ChildCrashes(m)
      PROVE  IInv'
  <2> DEFINE p == [child[m] EXCEPT !.proc = "dead", !.failed = TRUE]
  <2>1. p \in Process /\ p.proc = "dead"
    BY <1>1
  <2>2. child' = [child EXCEPT ![m] = p]
    BY <1>1, <1>9 DEF ChildCrashes
  <2> QED
    BY <1>4, <1>9, <2>1, <2>2 DEF ChildCrashes
<1> QED
  BY <1>3, <1>5, <1>7, <1>8, <1>9

\* unload may kill a process, which the monitor has yet to reap.
LEMMA UnloadStep == ASSUME IInv, NEW t \in Threads, Unload(t) PROVE IInv'
<1>1. th[t] \in Worker /\ ~th[t].stale /\ th[t].pc # "serving"
  BY DEF IInv, Types, CountInv, Unload, At
<1>2. Moved(t)
  <2> DEFINE w == IF th[t].op = "unload" THEN Idle
                  ELSE [th[t] EXCEPT !.pc = "gone"]
  <2>1. w \in Worker /\ w.pc # "serving" /\ ~w.stale
    BY <1>1, IdleType DEF Worker, Idle
  <2>2. th' = [th EXCEPT ![t] = w]
    BY DEF Unload
  <2> QED
    BY <1>1, <2>1, <2>2 DEF Moved
<1>3. th[t].victim \in Models /\ child \in [Models -> Process]
  BY <1>1 DEF IInv, Types, Worker
<1> DEFINE v == th[t].victim
           p == [child[v] EXCEPT !.proc = "dead", !.failed = TRUE]
<1>4. \/ child' = child
      \/ Alive(v) /\ child' = [child EXCEPT ![v] = p]
  BY <1>3 DEF Unload
<1>5. p \in Process /\ p.proc = "dead"
  BY <1>3 DEF Process
<1> HIDE DEF p
<1>6. child' \in [Models -> Process]
  BY <1>3, <1>4, <1>5
<1>7. \A m \in Models :
         /\ child'[m].proc = "none" <=> child[m].proc = "none"
         /\ child[m].proc = "none" => child'[m].pipe = <<>>
  BY <1>3, <1>4, <1>5 DEF IInv, ChildInv, Alive
<1> QED
  BY <1>2, <1>6, <1>7, CalmStep DEF Calm, Unload

\* load's last critical section.  A new instance takes a slot that the same
\* section has seen free, and its predecessor's requests no longer count.
LEMMA SpawnStep == ASSUME IInv, NEW t \in Threads, Spawn(t) PROVE IInv'
<1>1. /\ th[t] \in Worker /\ ~th[t].stale /\ th[t].pc # "serving"
      /\ th[t].model \in Models
  BY DEF IInv, Types, CountInv, Spawn, At, Worker
<1>4. PICK m \in Models : m = th[t].model
  BY <1>1
<1>2. CASE UNCHANGED <<inst, child, robbed>> /\ (Return(t, TRUE) \/ Return(t, FALSE))
  <2>1. Moved(t)
    BY <1>1, <1>2, ReturnMoves DEF IInv
  <2> QED
    BY <1>2, <2>1, CalmStep DEF Calm, IInv, Types, ChildInv
<1>3. CASE /\ inst[m].status = "UNLOADED" /\ ~LimitReached(inst)
           /\ inst' = NewInstance(inst, m)
           /\ child' = [child EXCEPT ![m] = [NoChild EXCEPT !.proc = "starting"]]
           /\ th' = [u \in Threads |->
                       IF u \in Serving(m) THEN [th[u] EXCEPT !.stale = TRUE]
                       ELSE IF u # t THEN th[u]
                       ELSE IF th[t].op = "request"
                       THEN [th[t] EXCEPT !.pc = "claimed", !.ok = TRUE,
                                          !.victim = SomeModel]
                       ELSE Idle]
           /\ robbed' = robbed \ {m}
  <2> DEFINE w == IF th[t].op = "request"
                  THEN [th[t] EXCEPT !.pc = "claimed", !.ok = TRUE,
                                     !.victim = SomeModel]
                  ELSE Idle
             c == [NoChild EXCEPT !.proc = "starting"]
  <2>1. w \in Worker /\ w.pc # "serving" /\ ~w.stale
    BY <1>1, IdleType DEF Worker, Idle
  <2>2. \A u \in Threads :
          /\ th[u] \in Worker
          /\ [th[u] EXCEPT !.stale = TRUE] \in Worker
          /\ [th[u] EXCEPT !.stale = TRUE].stale
          /\ [th[u] EXCEPT !.stale = TRUE].pc = th[u].pc
    BY DEF IInv, Types, Worker
  <2>3. c \in Process /\ c.proc = "starting"
    BY NoChildType DEF Process
  <2>4. /\ child' = [child EXCEPT ![m] = c]
        /\ th' = [u \in Threads |->
                    IF u \in Serving(m) THEN [th[u] EXCEPT !.stale = TRUE]
                    ELSE IF u # t THEN th[u] ELSE w]
    BY <1>3
  <2> HIDE DEF w, c
  <2>5. inst' \in [Models -> [status : Status, failed : BOOLEAN, req : Nat]]
    BY <1>1, <1>3 DEF IInv, Types, NewInstance, Status
  <2>6. \A n \in Models : /\ n # m => inst'[n] = inst[n]
                          /\ inst'[m].status = "LOADING" /\ inst'[m].req = 0
    BY <1>1, <1>3 DEF IInv, Types, NewInstance
  <2>7. Types'
    <3>1. th' \in [Threads -> Worker]
      BY <2>1, <2>2, <2>4
    <3>2. child' \in [Models -> Process]
      BY <2>3, <2>4 DEF IInv, Types
    <3>3. robbed' \subseteq Models
      BY <1>3 DEF IInv, Types
    <3> QED
      BY <2>5, <3>1, <3>2, <3>3 DEF Types
  <2>8. ChildInv'
    BY <1>1, <2>3, <2>4, <2>6 DEF IInv, Types, ChildInv, Running
  <2>9. LimitInv'
    <3>1. RunningSet(inst') = RunningSet(inst) \cup {m}
      BY <1>1, <2>6 DEF RunningSet, Running
    <3>2. m \notin RunningSet(inst)
      BY <1>3 DEF RunningSet, Running
    <3>3. Cardinality(RunningSet(inst')) = Cardinality(RunningSet(inst)) + 1
      BY <3>1, <3>2, RunningFinite, FS_AddElement
    <3>4. LimitInv' <=> (models_max > 0 =>
                           Cardinality(RunningSet(inst')) <= models_max)
      BY DEF LimitInv, RunningSet
    <3> QED
      BY <1>3, <3>3, <3>4, RunningFinite, RouterAssumption DEF LimitReached
  <2>10. CountInv'
    <3>1. \A u \in Threads : th'[u].stale => th'[u].pc = "serving"
      BY <2>1, <2>2, <2>4 DEF IInv, CountInv, Serving, At
    <3>2. Counted(m)' = {}
      BY <1>1, <2>1, <2>2, <2>4 DEF Counted, Serving, At
    <3>3. \A n \in Models : n # m => Counted(n)' = Counted(n)
      BY <1>1, <2>1, <2>2, <2>4 DEF Counted, Serving, At
    <3>4. inst'[m].req = Cardinality(Counted(m)')
      BY <1>1, <2>6, <3>2, FS_EmptySet
    <3> QED
      BY <1>3, <2>6, <3>1, <3>3, <3>4 DEF IInv, CountInv
  <2> QED
    BY <2>7, <2>8, <2>9, <2>10 DEF IInv
<1> QED
  BY <1>2, <1>3, <1>4 DEF Spawn

\* req_count++ and the worker's request begin together.
LEMMA CountStep == ASSUME IInv, NEW t \in Threads, Count(t) PROVE IInv'
<1>0. PICK m \in Models : m = th[t].model
  BY DEF IInv, Types, Worker
<1>1. th[t] \in Worker /\ ~th[t].stale /\ th[t].pc = "count"
  BY DEF IInv, Types, CountInv, Count, At, Worker
<1>2. \A n \in Models : /\ n # m => inst'[n] = inst[n]
                        /\ inst'[n].status = inst[n].status
                        /\ inst'[m].req = inst[m].req + 1
  BY <1>0, <1>1 DEF Count, IInv, Types
<1>3. th' = [th EXCEPT ![t] = [th[t] EXCEPT !.pc = "serving"]]
  BY DEF Count, IInv, Types
<1>4. /\ [th[t] EXCEPT !.pc = "serving"] \in Worker
      /\ ~[th[t] EXCEPT !.pc = "serving"].stale
      /\ [th[t] EXCEPT !.pc = "serving"].pc = "serving"
      /\ [th[t] EXCEPT !.pc = "serving"].model = m
  BY <1>0, <1>1 DEF Worker
<1>5. Types'
  <2>1. th' \in [Threads -> Worker]
    BY <1>3, <1>4 DEF IInv, Types
  <2>2. inst' \in [Models -> [status : Status, failed : BOOLEAN, req : Nat]]
    <3>1. inst[m] \in [status : Status, failed : BOOLEAN, req : Nat]
      BY DEF IInv, Types
    <3>2. [inst[m] EXCEPT !.req = @ + 1]
             \in [status : Status, failed : BOOLEAN, req : Nat]
      BY <3>1
    <3>3. inst' = [inst EXCEPT ![m] = [inst[m] EXCEPT !.req = @ + 1]]
      BY <1>0 DEF IInv, Types, Count
    <3> QED
      BY <3>2, <3>3 DEF IInv, Types
  <2> QED
    BY <2>1, <2>2 DEF IInv, Types, Count
<1>6. ChildInv' /\ LimitInv'
  BY <1>2 DEF IInv, ChildInv, LimitInv, RunningSet, Count
<1>7. CountInv'
  <2>1. Counted(m)' = Counted(m) \cup {t} /\ t \notin Counted(m)
    BY <1>0, <1>1, <1>3, <1>4 DEF Counted, IInv, Types
  <2>2. Cardinality(Counted(m)') = Cardinality(Counted(m)) + 1
    BY <2>1, CountedFinite, FS_AddElement
  <2>3. \A n \in Models : n # m => Counted(n)' = Counted(n)
    BY <1>0, <1>1, <1>3, <1>4 DEF Counted, IInv, Types
  <2>4. \A u \in Threads : th'[u].stale => th'[u].pc = "serving"
    BY <1>3, <1>4 DEF IInv, CountInv, Types
  <2> QED
    BY <1>1, <1>2, <2>2, <2>3, <2>4 DEF IInv, CountInv, Count
<1> QED
  BY <1>5, <1>6, <1>7 DEF IInv

\* cleanup takes back the count of its own request, or robs the instance
\* that came after the one the request was sent to.
LEMMA CleanupStep == ASSUME IInv, NEW t \in Threads, Cleanup(t) PROVE IInv'
<1>0. PICK m \in Models : m = th[t].model
  BY DEF IInv, Types, Worker
<1>1. th[t] \in Worker /\ th[t].pc = "serving"
  BY DEF IInv, Types, Cleanup, At
<1>2. /\ inst[m] \in [status : Status, failed : BOOLEAN, req : Nat]
      /\ Decremented(inst[m].req) \in Nat
  BY DEF IInv, Types, Decremented
<1>3. inst' = [inst EXCEPT ![m] = [inst[m] EXCEPT
                                     !.req = Decremented(inst[m].req)]]
  BY <1>0 DEF Cleanup, IInv, Types
<1>4. [inst[m] EXCEPT !.req = Decremented(inst[m].req)]
         \in [status : Status, failed : BOOLEAN, req : Nat]
  BY <1>2
<1>5. \A n \in Models : /\ n # m => inst'[n] = inst[n]
                        /\ inst'[n].status = inst[n].status
                        /\ inst'[m].req = Decremented(inst[m].req)
  BY <1>2, <1>3 DEF IInv, Types
<1>6. /\ th' = [th EXCEPT ![t] = Idle]
      /\ robbed' = IF th[t].stale /\ inst[m].req > 0 THEN robbed \cup {m}
                   ELSE robbed
      /\ child' = child
  BY <1>0 DEF Cleanup
<1>7. Types'
  BY <1>3, <1>4, <1>6, IdleType DEF IInv, Types
<1>8. ChildInv' /\ LimitInv'
  BY <1>5, <1>6 DEF IInv, ChildInv, LimitInv, RunningSet
<1>9. CountInv'
  <2>1. Idle.pc = "idle" /\ ~Idle.stale
    BY DEF Idle
  <2>2. \A u \in Threads : th'[u].stale => th'[u].pc = "serving"
    BY <1>6, <2>1 DEF IInv, CountInv, Types
  <2>3. \A n \in Models : n # m => Counted(n)' = Counted(n)
    BY <1>0, <1>1, <1>6, <2>1 DEF Counted, IInv, Types
  <2>4. ASSUME m \notin robbed'
        PROVE  inst'[m].req = Cardinality(Counted(m)')
    <3>1. inst[m].req = Cardinality(Counted(m))
      BY <2>4, <1>6 DEF IInv, CountInv
    <3>2. CASE th[t].stale
      <4>1. Counted(m)' = Counted(m)
        BY <3>2, <1>6, <2>1 DEF Counted, IInv, Types
      <4>2. inst[m].req = 0
        BY <2>4, <3>2, <1>2, <1>6
      <4> QED
        BY <3>1, <4>1, <4>2, <1>5 DEF Decremented
    <3>3. CASE ~th[t].stale
      <4>1. Counted(m)' = Counted(m) \ {t} /\ t \in Counted(m)
        BY <3>3, <1>0, <1>1, <1>6, <2>1 DEF Counted, IInv, Types
      <4>2. Cardinality(Counted(m)') = Cardinality(Counted(m)) - 1
        BY <4>1, CountedFinite, FS_RemoveElement
      <4>3. Cardinality(Counted(m)) # 0
        BY <4>1, CountedFinite, FS_EmptySet
      <4> QED
        BY <3>1, <4>2, <4>3, <1>2, <1>5, CountedFinite DEF Decremented
    <3> QED
      BY <3>2, <3>3
  <2>5. robbed \subseteq robbed'
    BY <1>6
  <2> QED
    BY <1>5, <2>2, <2>3, <2>4, <2>5 DEF IInv, CountInv
<1> QED
  BY <1>7, <1>8, <1>9 DEF IInv

\* A child's line changes the status of a running model to a running one.
LEMMA ReportStep ==
    ASSUME IInv, NEW m \in Models, HandleChildState(m) PROVE IInv'
<1>1. child[m] \in Process /\ child[m].proc # "none" /\ child[m].pipe # <<>>
  BY DEF IInv, Types, ChildInv, HandleChildState
<1>2. Head(child[m].pipe) \in {"loading", "ready", "sleeping"}
      /\ Tail(child[m].pipe) \in Seq({"loading", "ready", "sleeping"})
  BY <1>1 DEF Process
<1>3. PICK s \in Running : inst' = [inst EXCEPT ![m].failed = FALSE,
                                               ![m].status = s]
  BY <1>2 DEF HandleChildState, Running
<1> DEFINE i == [inst[m] EXCEPT !.failed = FALSE, !.status = s]
           c == [child[m] EXCEPT !.pipe = Tail(@)]
<1>4. /\ i \in [status : Status, failed : BOOLEAN, req : Nat]
      /\ i.status = s /\ i.req = inst[m].req
  BY DEF IInv, Types, Status, Running
<1>5. c \in Process /\ c.proc = child[m].proc
  BY <1>1, <1>2 DEF Process
<1>6. inst' = [inst EXCEPT ![m] = i] /\ child' = [child EXCEPT ![m] = c]
  BY <1>3 DEF IInv, Types, HandleChildState
<1> HIDE DEF i, c
<1>7. Types'
  <2>1. UNCHANGED <<th, robbed>>
    BY DEF HandleChildState
  <2> QED
    BY <1>4, <1>5, <1>6, <2>1 DEF IInv, Types
<1>8. ChildInv'
  BY <1>1, <1>4, <1>5, <1>6 DEF IInv, Types, ChildInv
<1>9. LimitInv'
  <2>1. RunningSet(inst') = RunningSet(inst)
    BY <1>1, <1>4, <1>6 DEF RunningSet, IInv, Types, ChildInv
  <2> QED
    BY <2>1 DEF IInv, LimitInv, RunningSet
<1>10. CountInv'
  <2>1. CountsKept
    BY <1>4, <1>6 DEF CountsKept, HandleChildState, IInv, Types
  <2> QED
    BY <2>1, <1>7, KeptCounts DEF IInv
<1> QED
  BY <1>7, <1>8, <1>9, <1>10 DEF IInv

\* A reaped child gives its slot back.
LEMMA ExitStep == ASSUME IInv, NEW m \in Models, OnChildExit(m) PROVE IInv'
<1> DEFINE i == [inst[m] EXCEPT !.status = "UNLOADED",
                                !.failed = child[m].failed]
<1>1. child[m].failed \in BOOLEAN
  BY DEF IInv, Types, Process
<1>2. /\ i \in [status : Status, failed : BOOLEAN, req : Nat]
      /\ i.status = "UNLOADED" /\ i.req = inst[m].req
  BY <1>1 DEF IInv, Types, Status
<1>3. inst' = [inst EXCEPT ![m] = i] /\ child' = [child EXCEPT ![m] = NoChild]
  BY DEF IInv, Types, OnChildExit
<1> HIDE DEF i
<1>4. Types'
  BY <1>2, <1>3, NoChildType DEF IInv, Types, OnChildExit
<1>5. ChildInv'
  BY <1>2, <1>3 DEF IInv, Types, ChildInv, NoChild, Running
<1>6. LimitInv'
  <2>1. RunningSet(inst') \subseteq RunningSet(inst)
    BY <1>2, <1>3 DEF RunningSet, IInv, Types, Running
  <2>2. Cardinality(RunningSet(inst')) <= Cardinality(RunningSet(inst))
    BY <2>1, RunningFinite, FS_Subset
  <2>3. LimitInv' <=> (models_max > 0 =>
                         Cardinality(RunningSet(inst')) <= models_max)
    BY DEF LimitInv, RunningSet
  <2> QED
    BY <2>2, <2>3, RunningFinite, RouterAssumption DEF IInv, LimitInv
<1>7. CountInv'
  <2>1. CountsKept
    BY <1>2, <1>3 DEF CountsKept, OnChildExit, IInv, Types
  <2> QED
    BY <2>1, <1>4, KeptCounts DEF IInv
<1> QED
  BY <1>4, <1>5, <1>6, <1>7 DEF IInv

-----------------------------------------------------------------------------
(* Theorems                                                                *)

\* Every step of the router keeps the invariant.
LEMMA NextInv == ASSUME IInv, [Next]_vars PROVE IInv'
<1>1. ASSUME NEW t \in Threads, WorkerStep(t)
      PROVE  IInv'
  BY <1>1, TurnStep, WalkStep, UnloadStep, SpawnStep, CountStep, CleanupStep
     DEF WorkerStep
<1>2. ASSUME NEW t \in Threads, Arrive(t) \/ Drop(t) \/ SessionStopped(t)
      PROVE  IInv'
  BY <1>2, ArriveStep, TurnStep, WalkStep
<1>3. CASE MonitorStep
  BY <1>3, ProcessStep, ReportStep, ExitStep DEF MonitorStep
<1>4. ASSUME NEW m \in Models,
             ChildProgress(m) \/ ChildSleeps(m) \/ ChildCrashes(m)
      PROVE  IInv'
  BY <1>4, ProcessStep
<1>5. CASE UNCHANGED vars
  <2>1. UNCHANGED <<inst, th, child, robbed>>
    BY <1>5 DEF vars
  <2> QED
    BY <2>1 DEF IInv, Types, ChildInv, LimitInv, CountInv, Counted, RunningSet
<1> QED
  BY <1>1, <1>2, <1>3, <1>4, <1>5 DEF Next

\* The invariant holds throughout.
THEOREM RouterInvariant == Spec => []IInv
<1>1. Init => IInv
  BY InitInv
<1>2. IInv /\ [Next]_vars => IInv'
  BY NextInv
<1> QED
  BY <1>1, <1>2, PTL DEF Spec

\* However many workers race for a slot, with loads through the API beside
\* the queue, no more than models_max models run or have a process: a process
\* exists only under a running status, and load counts those statuses in the
\* critical section in which it adds one.
THEOREM SlotsWithinLimit == Spec => []WithinLimit
<1>1. IInv => WithinLimit
  <2> SUFFICES ASSUME IInv PROVE WithinLimit
    OBVIOUS
  <2>1. {m \in Models : inst[m].status \in Running \/ Alive(m)}
          = RunningSet(inst)
    BY DEF IInv, ChildInv, Alive, RunningSet
  <2> QED
    BY <2>1 DEF IInv, LimitInv, WithinLimit
<1> QED
  BY <1>1, RouterInvariant, PTL

\* req_count of an instance is the number of requests proxied to it, unless
\* a request to an earlier instance of the name ended after it started.
THEOREM CountsExact == Spec => []RequestsCounted
<1>1. IInv => RequestsCounted
  <2> SUFFICES ASSUME IInv, NEW m \in Models \ robbed
               PROVE  inst[m].req
                        = Cardinality({t \in Serving(m) : ~th[t].stale})
    BY DEF RequestsCounted
  <2>1. {t \in Serving(m) : ~th[t].stale} = Counted(m)
    BY DEF Serving, At, Counted
  <2> QED
    BY <2>1 DEF IInv, CountInv
<1> QED
  BY <1>1, RouterInvariant, PTL

\* What a turn of ensure_model_ready adds to stopping_models is idle.
LEMMA TurnEvictsIdle ==
    ASSUME NEW t, NEW q, NEW s, NEW c, NEW did, NEW drop,
           Turn(t, q, s, c, did, drop)
    PROVE  \A m \in stopping' \ s : inst[m].req = 0
<1> DEFINE Free == {m \in Models : inst[m].req = 0}
           joins == th[t].model \in s /\ ~th[t].queued
           q1 == IF joins THEN Join(q, th[t].model) ELSE q
           s1 == IF joins THEN Marked(s, Victims(q1, inst, s)) ELSE s
<1>1. s1 \subseteq s \cup Free
  BY VictimsIdle DEF Marked
<1>2. \/ stopping' = s
      \/ stopping' = s1
      \/ stopping' = Marked(s1, Victims(queue', inst, s1))
  BY Zenon DEF Turn, Tick, joins, q1, s1
<1> HIDE DEF s1
<1>3. stopping' \subseteq s \cup Free
  BY <1>1, <1>2, VictimsIdle DEF Marked
<1> QED
  BY <1>3

\* Where a step evicts a model that nobody counts on before or after it,
\* every request in flight to the model is stale or ends with the step.
LEMMA IdleSpares ==
    ASSUME IInv, IInv', NEW m \in Models, m \notin robbed',
           \/ /\ inst[m].req = 0 /\ robbed' = robbed
           \/ /\ inst'[m].req = 0
              /\ \A u \in Threads : th'[u] = th[u] \/ th'[u].pc = "idle"
    PROVE  \A t \in Serving(m) : th[t].stale \/ th'[t].pc = "idle"
<1>1. CASE inst[m].req = 0 /\ robbed' = robbed
  <2>1. Cardinality(Counted(m)) = 0
    BY <1>1 DEF IInv, CountInv
  <2>2. Counted(m) = {}
    BY <2>1, CountedFinite, FS_EmptySet
  <2> QED
    BY <2>2 DEF Counted, Serving, At
<1>2. CASE /\ inst'[m].req = 0
           /\ \A u \in Threads : th'[u] = th[u] \/ th'[u].pc = "idle"
  <2> DEFINE C == {t \in Threads : /\ th'[t].pc = "serving" /\ ~th'[t].stale
                                   /\ th'[t].model = m}
  <2>1. Cardinality(C) = 0
    BY <1>2 DEF IInv, CountInv, Counted
  <2>2. IsFiniteSet(C)
    BY RouterAssumption, FS_Subset
  <2>3. C = {}
    BY <2>1, <2>2, FS_EmptySet
  <2> QED
    BY <1>2, <2>3 DEF Serving, At
<1> QED
  BY <1>1, <1>2

\* tick evicts a model only when none of the requests it serves, other than
\* those of an earlier instance, is still in flight.
THEOREM EvictionSparesBusy == Spec => TickSparesBusy
<1> DEFINE Spared(m) ==
      \/ \E t \in Threads : At(t, "unload") /\ th'[t].pc # "unload"
      \/ m \in robbed'
      \/ \A t \in Serving(m) : th[t].stale \/ th'[t].pc = "idle"
<1>1. ASSUME IInv, IInv', [Next]_vars, NEW m \in Models,
             m \in stopping' \ stopping
      PROVE  Spared(m)
  <2> USE <1>1
  <2>1. ASSUME NEW t \in Threads, Loop(t) \/ Drop(t) \/ Claimed(t)
        PROVE  Spared(m)
    <3>1. inst[m].req = 0
      <4>1. CASE Loop(t) \/ Drop(t)
        BY <4>1, TurnEvictsIdle DEF Loop, Drop
      <4>2. CASE Claimed(t)
        <5> DEFINE q == ClaimDone(queue, th[t].model, th[t].ok)
                   v == Victims(q, inst, stopping)
        <5>1. Turn(t, q, Marked(stopping, v), cmds \o Stops(v),
                   th[t].did_load \/ th[t].ok, FALSE)
          BY <4>2 DEF Claimed
        <5>2. \A x \in v : inst[x].req = 0
          BY VictimsIdle
        <5> HIDE DEF v
        <5>3. \A x \in stopping' \ Marked(stopping, v) : inst[x].req = 0
          BY <5>1, TurnEvictsIdle
        <5> QED
          BY <5>2, <5>3 DEF Marked
      <4> QED
        BY <2>1, <4>1, <4>2
    <3> QED
      BY <2>1, <3>1, IdleSpares DEF Loop, Drop, Claimed
  <2>2. ASSUME NEW t \in Threads, JoinQueue(t)
        PROVE  Spared(m)
    <3>1. inst[m].req = 0
      BY <2>2, VictimsIdle DEF JoinQueue, Tick, Marked
    <3> QED
      BY <2>2, <3>1, IdleSpares DEF JoinQueue
  <2>3. ASSUME NEW t \in Threads, Cleanup(t)
        PROVE  Spared(m)
    <3>1. inst'[m].req = 0
      <4>1. stopping' = stopping \cup Victims(queue, inst', stopping)
        BY <2>3 DEF Cleanup, Tick, Marked
      <4> QED
        BY <4>1, VictimsIdle
    <3>2. \A u \in Threads : th'[u] = th[u] \/ th'[u].pc = "idle"
      BY <2>3 DEF Cleanup, IInv, Types, Idle
    <3> QED
      BY <3>1, <3>2, IdleSpares
  <2>4. ASSUME NEW n \in Models, HandleChildState(n) \/ OnChildExit(n)
        PROVE  Spared(m)
    <3>1. inst'[m].req = 0
      <4>1. PICK s : /\ s \subseteq stopping
                     /\ stopping' = s \cup Victims(queue, inst', s)
        <5>1. CASE HandleChildState(n)
          BY <5>1 DEF HandleChildState, Tick, Marked
        <5>2. CASE OnChildExit(n)
          BY <5>2 DEF OnChildExit, Tick, Marked, Unmarked
        <5> QED
          BY <2>4, <5>1, <5>2
      <4> QED
        BY <4>1, VictimsIdle
    <3>2. th' = th
      BY <2>4 DEF HandleChildState, OnChildExit
    <3> QED
      BY <3>1, <3>2, IdleSpares
  <2>5. ASSUME NEW t \in Threads, Unload(t)
        PROVE  Spared(m)
    <3>1. At(t, "unload") /\ th'[t].pc # "unload"
      BY <2>5 DEF Unload, IInv, Types, Worker, Idle
    <3> QED
      BY <3>1
  <2>6. CASE \/ \E t \in Threads :
                   \/ Arrive(t) \/ SessionStopped(t) \/ CheckStopping(t)
                   \/ UnloadLru(t) \/ VictimGone(t) \/ Spawn(t)
                   \/ ProxyMeta(t) \/ Count(t)
             \/ HandleCommand
             \/ \E n \in Models : \/ ForceKill(n) \/ ChildReady(n)
                                  \/ ChildWakes(n) \/ ChildWoken(n)
                                  \/ ChildExits(n) \/ ChildSleeps(n)
                                  \/ ChildCrashes(n)
             \/ UNCHANGED vars
    <3>1. stopping' = stopping
      BY <2>6 DEF Arrive, SessionStopped, CheckStopping, UnloadLru, VictimGone,
                  Spawn, ProxyMeta, Count, HandleCommand, ForceKill,
                  ChildReady, ChildWakes, ChildWoken, ChildExits, ChildSleeps,
                  ChildCrashes, ChildStep, vars
    <3> QED
      BY <3>1
  <2> QED
    BY <2>1, <2>2, <2>3, <2>4, <2>5, <2>6
       DEF Next, WorkerStep, MonitorStep, ChildProgress
<1>2. IInv /\ IInv' /\ [Next]_vars =>
        [\A m \in Models : m \in stopping' \ stopping => Spared(m)]_vars
  BY <1>1
<1> QED
  BY <1>2, RouterInvariant, PTL DEF Spec, TickSparesBusy
=============================================================================

------------------------- MODULE ServerQueue_proof -------------------------
(***************************************************************************)
(* What ServerQueue keeps for every set of clients and slots, every choice *)
(* of options and every bound: type correctness, the worker's quiescence   *)
(* outside of a yield, the conservation of tasks and their order, the      *)
(* wake-up of a generation, captures that yield, and deferred tasks that   *)
(* are not stranded.                                                       *)
(***************************************************************************)
EXTENDS ServerQueue, TLAPS

-----------------------------------------------------------------------------
(* Tasks and sequences of tasks.                                           *)

\* A client's task is told from every other task, and tells its client.
LEMMA ClientTaskFacts ==
  ASSUME NEW c \in Clients
  PROVE  /\ TaskOf(c) \in ClientTasks /\ TaskOf(c) # NoTask
         /\ TaskOf(c).id = c /\ TaskOf(c).type = Kind[c]
         /\ \A d \in Clients : TaskOf(c) = TaskOf(d) => c = d
         /\ Cancel(c) \in Task /\ Cancel(c) \notin ClientTasks
<1>1. Kind[c] \in {"work", "read"}
  BY QueueAssumption
<1>2. \A d \in Clients : Kind[d] # "cancel"
  BY QueueAssumption
<1>3. Cancel(c) \notin ClientTasks
  <2>1. \A t \in ClientTasks : t.type # "cancel"
    BY <1>2 DEF ClientTasks, TaskOf
  <2> QED
    BY <2>1 DEF Cancel
<1>4. Cancel(c) \in Task
  BY DEF Task
<1>5. TaskOf(c) # NoTask
  BY <1>1 DEF TaskOf, NoTask
<1> QED
  BY <1>3, <1>4, <1>5 DEF TaskOf, ClientTasks

\* The type of a task tells whether it is a client's.
LEMMA TaskFacts ==
  /\ NoTask \notin Task
  /\ NoTask.type = "none"
  /\ ClientTasks \subseteq Task
  /\ Next_response \in Task /\ Next_response \notin ClientTasks
  /\ \A t \in ClientTasks : t.id \in Clients /\ t = TaskOf(t.id)
  /\ \A t \in Task : t.type \in {"work", "read"} => t \in ClientTasks
  /\ \A t \in Task : t.type \in {"cancel", "next"} => t \notin ClientTasks
  /\ \A t \in Task : t.type = "cancel" => t.id \in Clients
<1>1. \A c \in Clients : Kind[c] \in {"work", "read"}
  BY QueueAssumption
<1>2. \A t \in ClientTasks : /\ t.id \in Clients /\ t = TaskOf(t.id)
                             /\ t.type \in {"work", "read"}
  BY <1>1 DEF ClientTasks, TaskOf
<1>3. \A c \in Clients : Cancel(c).type = "cancel" /\ Cancel(c).id = c
  BY DEF Cancel
<1>4. Next_response.type = "next" /\ NoTask.type = "none"
  BY DEF Next_response, NoTask
<1>5. \A t \in Task : \/ t \in ClientTasks
                      \/ t.type = "cancel" /\ t.id \in Clients
                      \/ t = Next_response
  BY <1>3 DEF Task
<1>6. ClientTasks \subseteq Task /\ Next_response \in Task
  BY DEF Task
<1>7. \A t \in Task : t.type # "none"
  BY <1>2, <1>4, <1>5
<1> QED
  BY <1>2, <1>4, <1>5, <1>6, <1>7

\* An empty queue holds nothing.
LEMMA HoldsEmpty == NoDuplicates(<<>>) /\ \A t : ~Holds(<<>>, t)
BY DEF NoDuplicates, Holds

\* What a queue holds after a task was appended to it.
LEMMA HoldsAppend ==
  ASSUME NEW T, NEW s \in Seq(T), NEW u \in T
  PROVE  /\ Append(s, u) \in Seq(T)
         /\ \A t : Holds(Append(s, u), t) <=> Holds(s, t) \/ t = u
         /\ NoDuplicates(s) /\ (u \in ClientTasks => ~Holds(s, u))
              => NoDuplicates(Append(s, u))
BY DEF Holds, NoDuplicates

\* What a queue holds after a task was put at its front.
LEMMA HoldsPush ==
  ASSUME NEW T, NEW s \in Seq(T), NEW u \in T
  PROVE  /\ <<u>> \o s \in Seq(T)
         /\ \A t : Holds(<<u>> \o s, t) <=> Holds(s, t) \/ t = u
         /\ NoDuplicates(s) /\ (u \in ClientTasks => ~Holds(s, u))
              => NoDuplicates(<<u>> \o s)
<1> DEFINE w == <<u>> \o s
<1>1. w \in Seq(T) /\ DOMAIN w = 1..(Len(s) + 1) /\ DOMAIN s = 1..Len(s)
      /\ Len(s) \in Nat
  OBVIOUS
<1>2. w[1] = u /\ \A i \in 1..Len(s) : w[i + 1] = s[i]
  OBVIOUS
<1>3. \A j \in DOMAIN w : j = 1 \/ (j - 1 \in DOMAIN s /\ w[j] = s[j - 1])
  BY <1>1, <1>2
<1> HIDE DEF w
<1>4. \A t : Holds(w, t) <=> Holds(s, t) \/ t = u
  <2> TAKE t
  <2>1. Holds(s, t) => Holds(w, t)
    <3> SUFFICES ASSUME NEW i \in DOMAIN s, s[i] = t PROVE Holds(w, t)
      BY DEF Holds
    <3>1. i + 1 \in DOMAIN w /\ w[i + 1] = t
      BY <1>1, <1>2
    <3> QED  BY <3>1 DEF Holds
  <2>2. t = u => Holds(w, t)
    BY <1>1, <1>2 DEF Holds
  <2>3. Holds(w, t) => Holds(s, t) \/ t = u
    BY <1>2, <1>3 DEF Holds
  <2> QED  BY <2>1, <2>2, <2>3
<1>5. ASSUME NoDuplicates(s), u \in ClientTasks => ~Holds(s, u)
      PROVE  NoDuplicates(w)
  <2> SUFFICES ASSUME NEW i \in DOMAIN w, NEW j \in DOMAIN w,
                      w[i] = w[j], w[i] \in ClientTasks
               PROVE  i = j
    BY DEF NoDuplicates
  <2>1. CASE i = 1 \/ j = 1
    BY <1>2, <1>3, <1>5, <2>1 DEF Holds
  <2>2. CASE i # 1 /\ j # 1
    <3>1. i - 1 \in DOMAIN s /\ j - 1 \in DOMAIN s /\ s[i - 1] = s[j - 1]
          /\ s[i - 1] \in ClientTasks
      BY <1>3, <2>2
    <3>2. i - 1 = j - 1
      BY <1>5, <3>1 DEF NoDuplicates
    <3> QED  BY <1>1, <3>2
  <2> QED  BY <2>1, <2>2
<1> QED
  BY <1>1, <1>4, <1>5 DEF w

\* What a queue holds after its first task was taken.
LEMMA HoldsTail ==
  ASSUME NEW T, NEW s \in Seq(T), s # <<>>
  PROVE  /\ Tail(s) \in Seq(T) /\ Head(s) \in T
         /\ \A t : Holds(s, t) <=> Holds(Tail(s), t) \/ t = Head(s)
         /\ NoDuplicates(s) => /\ NoDuplicates(Tail(s))
                               /\ Head(s) \in ClientTasks => ~Holds(Tail(s), Head(s))
<1> DEFINE w == Tail(s)
<1>1. /\ w \in Seq(T) /\ Head(s) \in T /\ Len(s) \in Nat \ {0}
      /\ DOMAIN w = 1..(Len(s) - 1) /\ DOMAIN s = 1..Len(s)
      /\ s[1] = Head(s)
  OBVIOUS
<1>2. \A i \in DOMAIN w : w[i] = s[i + 1] /\ i + 1 \in DOMAIN s
  BY <1>1
<1>3. \A j \in DOMAIN s : j = 1 \/ (j - 1 \in DOMAIN w /\ s[j] = w[j - 1])
  BY <1>1, <1>2
<1> HIDE DEF w
<1>4. \A t : Holds(s, t) <=> Holds(w, t) \/ t = Head(s)
  BY <1>1, <1>2, <1>3 DEF Holds
<1>5. ASSUME NoDuplicates(s)
      PROVE  NoDuplicates(w) /\ (Head(s) \in ClientTasks => ~Holds(w, Head(s)))
  <2>1. NoDuplicates(w)
    <3> SUFFICES ASSUME NEW i \in DOMAIN w, NEW j \in DOMAIN w,
                        w[i] = w[j], w[i] \in ClientTasks
                 PROVE  i = j
      BY DEF NoDuplicates
    <3>1. i + 1 = j + 1
      BY <1>2, <1>5 DEF NoDuplicates
    <3> QED  BY <1>1, <3>1
  <2>2. ASSUME Head(s) \in ClientTasks, NEW i \in DOMAIN w, w[i] = Head(s)
        PROVE  FALSE
    <3>1. i + 1 = 1
      BY <1>1, <1>2, <1>5, <2>2 DEF NoDuplicates
    <3> QED  BY <1>1, <3>1
  <2> QED  BY <2>1, <2>2 DEF Holds
<1> QED
  BY <1>1, <1>4, <1>5 DEF w

\* What a queue holds after the task at position k was erased.
LEMMA HoldsRemove ==
  ASSUME NEW T, NEW s \in Seq(T), NEW k \in DOMAIN s
  PROVE  /\ RemoveAt(s, k) \in Seq(T) /\ s[k] \in T
         /\ \A t : Holds(s, t) <=> Holds(RemoveAt(s, k), t) \/ t = s[k]
         /\ NoDuplicates(s) =>
              /\ NoDuplicates(RemoveAt(s, k))
              /\ s[k] \in ClientTasks => ~Holds(RemoveAt(s, k), s[k])
<1> DEFINE w == RemoveAt(s, k)
<1>1. /\ DOMAIN s = 1..Len(s) /\ Len(s) \in Nat /\ k \in 1..Len(s)
      /\ s[k] \in T
  OBVIOUS
<1>2. /\ w \in Seq(T) /\ DOMAIN w = 1..(Len(s) - 1)
      /\ \A i \in DOMAIN w : w[i] = s[IF i < k THEN i ELSE i + 1]
  <2> DEFINE a == SubSeq(s, 1, k - 1)
             b == SubSeq(s, k + 1, Len(s))
  <2>1. /\ a \in Seq(T) /\ Len(a) = k - 1
        /\ \A i \in 1..(k - 1) : a[i] = s[i]
    BY <1>1
  <2>2. /\ b \in Seq(T) /\ Len(b) = Len(s) - k
        /\ \A i \in 1..(Len(s) - k) : b[i] = s[k + i]
    BY <1>1
  <2> HIDE DEF a, b
  <2>3. /\ a \o b \in Seq(T) /\ Len(a \o b) = Len(s) - 1
        /\ \A i \in 1..(Len(s) - 1) :
             (a \o b)[i] = IF i < k THEN a[i] ELSE b[i - (k - 1)]
    <3>1. /\ a \o b \in Seq(T) /\ Len(a \o b) = Len(a) + Len(b)
          /\ \A i \in 1..(Len(a) + Len(b)) :
               (a \o b)[i] = IF i <= Len(a) THEN a[i] ELSE b[i - Len(a)]
      BY <2>1, <2>2
    <3>2. Len(a) + Len(b) = Len(s) - 1
      BY <1>1, <2>1, <2>2
    <3>3. \A i \in 1..(Len(s) - 1) : i <= Len(a) <=> i < k
      BY <1>1, <2>1
    <3> QED  BY <2>1, <3>1, <3>2, <3>3
  <2>4. ASSUME NEW i \in 1..(Len(s) - 1)
        PROVE  (a \o b)[i] = s[IF i < k THEN i ELSE i + 1]
    <3>1. CASE i < k
      BY <1>1, <2>1, <2>3, <3>1
    <3>2. CASE ~(i < k)
      <4>1. i - (k - 1) \in 1..(Len(s) - k) /\ k + (i - (k - 1)) = i + 1
        BY <1>1, <3>2
      <4> QED  BY <2>2, <2>3, <3>2, <4>1
    <3> QED  BY <3>1, <3>2
  <2>5. DOMAIN (a \o b) = 1..(Len(s) - 1)
    BY <2>3
  <2> QED  BY <2>3, <2>4, <2>5 DEF RemoveAt, a, b
<1> DEFINE f(i) == IF i < k THEN i ELSE i + 1
           g(j) == IF j < k THEN j ELSE j - 1
<1>3. \A i \in DOMAIN w : f(i) \in DOMAIN s /\ f(i) # k /\ w[i] = s[f(i)]
  BY <1>1, <1>2
<1>4. \A j \in DOMAIN s : j = k \/ (g(j) \in DOMAIN w /\ w[g(j)] = s[j])
  BY <1>1, <1>2
<1>5. \A i, j \in DOMAIN w : f(i) = f(j) => i = j
  BY <1>1, <1>2
<1> HIDE DEF w, f, g
<1>6. \A t : Holds(s, t) <=> Holds(w, t) \/ t = s[k]
  BY <1>3, <1>4 DEF Holds
<1>7. ASSUME NoDuplicates(s)
      PROVE  NoDuplicates(w) /\ (s[k] \in ClientTasks => ~Holds(w, s[k]))
  BY <1>3, <1>5, <1>7 DEF NoDuplicates, Holds
<1> QED
  BY <1>1, <1>2, <1>6, <1>7 DEF w

\* What two queues hold together, one put in front of the other.
LEMMA HoldsConcat ==
  ASSUME NEW T, NEW s \in Seq(T), NEW r \in Seq(T)
  PROVE  /\ s \o r \in Seq(T)
         /\ \A t : Holds(s \o r, t) <=> Holds(s, t) \/ Holds(r, t)
         /\ /\ NoDuplicates(s) /\ NoDuplicates(r)
            /\ \A t \in ClientTasks : ~(Holds(s, t) /\ Holds(r, t))
            => NoDuplicates(s \o r)
<1> DEFINE w == s \o r
           n == Len(s)
<1>1. /\ w \in Seq(T) /\ n \in Nat /\ Len(r) \in Nat
      /\ DOMAIN w = 1..(n + Len(r)) /\ DOMAIN s = 1..n /\ DOMAIN r = 1..Len(r)
  OBVIOUS
<1>2. /\ \A i \in DOMAIN s : i \in DOMAIN w /\ w[i] = s[i]
      /\ \A i \in DOMAIN r : n + i \in DOMAIN w /\ w[n + i] = r[i]
  BY <1>1
<1>3. \A j \in DOMAIN w : \/ j \in DOMAIN s /\ w[j] = s[j]
                          \/ j - n \in DOMAIN r /\ w[j] = r[j - n]
  BY <1>1
<1> HIDE DEF w, n
<1>4. \A t : Holds(w, t) <=> Holds(s, t) \/ Holds(r, t)
  BY <1>2, <1>3 DEF Holds
<1>5. ASSUME NoDuplicates(s), NoDuplicates(r),
             \A t \in ClientTasks : ~(Holds(s, t) /\ Holds(r, t))
      PROVE  NoDuplicates(w)
  <2> SUFFICES ASSUME NEW i \in DOMAIN w, NEW j \in DOMAIN w,
                      w[i] = w[j], w[i] \in ClientTasks
               PROVE  i = j
    BY DEF NoDuplicates
  <2>1. CASE i \in DOMAIN s /\ w[i] = s[i] /\ j \in DOMAIN s /\ w[j] = s[j]
    BY <1>5, <2>1 DEF NoDuplicates
  <2>2. CASE j - n \in DOMAIN r /\ w[j] = r[j - n] /\ i - n \in DOMAIN r /\ w[i] = r[i - n]
    <3>1. i - n = j - n
      BY <1>5, <2>2 DEF NoDuplicates
    <3> QED  BY <1>1, <3>1
  <2>3. CASE i \in DOMAIN s /\ w[i] = s[i] /\ j - n \in DOMAIN r /\ w[j] = r[j - n]
    BY <1>5, <2>3 DEF Holds
  <2>4. CASE j \in DOMAIN s /\ w[j] = s[j] /\ i - n \in DOMAIN r /\ w[i] = r[i - n]
    BY <1>5, <2>4 DEF Holds
  <2> QED  BY <1>3, <2>1, <2>2, <2>3, <2>4
<1> QED
  BY <1>1, <1>4, <1>5 DEF w

\* cleanup_pending_task takes the one task it is after, and no other.
LEMMA HoldsCleanup ==
  ASSUME NEW T, NEW s \in Seq(T), NEW u \in ClientTasks, NoDuplicates(s)
  PROVE  /\ Cleanup(s, u) \in Seq(T)
         /\ \A t : Holds(Cleanup(s, u), t) <=> Holds(s, t) /\ t # u
         /\ NoDuplicates(Cleanup(s, u))
<1>1. CASE Holds(s, u)
  <2> DEFINE k == CHOOSE i \in DOMAIN s : s[i] = u
  <2>1. k \in DOMAIN s /\ s[k] = u
    BY <1>1 DEF Holds
  <2>2. Cleanup(s, u) = RemoveAt(s, k)
    BY <1>1 DEF Cleanup
  <2> HIDE DEF k
  <2> QED  BY <2>1, <2>2, HoldsRemove
<1>2. CASE ~Holds(s, u)
  BY <1>2 DEF Cleanup
<1> QED
  BY <1>1, <1>2

-----------------------------------------------------------------------------
(* Type correctness.                                                       *)

\* Every value a condition variable's notify_one can leave is a set of waiters.
LEMMA NotifyFacts ==
  ASSUME NEW W, NEW V \in NotifyOne(W)
  PROVE  V \subseteq W
BY DEF NotifyOne


-----------------------------------------------------------------------------
(* Which actions can change what.                                          *)

\* A variable changes only in the steps named here, so that the proofs below
\* need a case per variable only for those.
LEMMA Frames ==
  ASSUME [Next]_vars
  PROVE  /\ \/ UNCHANGED queueVars
            \/ \E c \in Clients : ClientPost(c) \/ ClientCancel(c)
            \/ MainTake \/ MainDefer \/ MainCancel \/ MainUpdate \/ MainJoin
            \/ MainRelease \/ WorkerTake \/ WorkerHandle
         /\ \/ UNCHANGED capture
            \/ \E c \in Clients : ClientPost(c) \/ ClientCancel(c)
            \/ Terminate \/ MainDefer \/ MainUpdate \/ MainFallAsleep
            \/ MainBeginCapture \/ EndCapture \/ CaptureTransferred
         /\ \/ UNCHANGED waiters
            \/ waiters' = {}
            \/ \E t \in {"main", "worker"} : waiters' = waiters \cup {t}
            \/ \E c \in Clients : ClientArrive(c) \/ ClientWake(c) \/ ClientPost(c) \/ ClientCancel(c)
            \/ MainDefer \/ MainCancel \/ MainUpdate \/ MainEndWork
            \/ MainRelease \/ MainTimed \/ CaptureTransferred
         /\ \/ UNCHANGED mainTask /\ (mainPc' = "handle" <=> mainPc = "handle")
            \/ mainPc' # "handle" /\ mainTask' = NoTask
            \/ mainPc' # "handle" /\ mainPc # "handle" /\ UNCHANGED mainTask
            \/ MainTake
         /\ \/ UNCHANGED workTask /\ (workPc' = "handle" <=> workPc = "handle")
            \/ workPc' # "handle" /\ workTask' = NoTask
            \/ workPc' # "handle" /\ workPc # "handle" /\ UNCHANGED workTask
            \/ WorkerTake \/ MainStart
         /\ \/ UNCHANGED slots
            \/ \E s \in Slots : MainLaunch(s)
            \/ MainCancel \/ MainRelease
         /\ \/ UNCHANGED budget
            \/ \E s \in Slots : MainLaunch(s)
            \/ MainCancel \/ MainRelease \/ MainDecoded
         /\ \/ UNCHANGED <<chunks, thrown>>
            \/ MainUpdate \/ MainEndWork \/ MainJoin \/ MainDecoded
         /\ \/ UNCHANGED outcome
            \/ \E c \in Clients : ClientPost(c) \/ ClientCancel(c)
            \/ \E s \in Slots : MainLaunch(s)
            \/ MainReject \/ MainRead \/ MainCancel \/ MainRelease \/ WorkerHandle
         /\ \/ UNCHANGED releasing /\ (mainPc' = "release" <=> mainPc = "release")
            \/ UNCHANGED releasing /\ mainPc' # "release" /\ mainPc # "release"
            \/ MainUpdate \/ MainJoin \/ MainDecoded \/ MainRelease \/ MainReleased
<1> USE DEF Next, MainStep, WorkerStep, vars, queueVars, sleepVars, captureVars,
        mainVars, workVars, slotVars, clientVars, Handled, ClientArrive, ClientWake,
        ClientPost, ClientCancel, Terminate, MainStart, MainTake, MainLaunch,
        MainDefer, MainReject, MainRead, MainCancel, MainNext, MainUpdate, MainYield,
        MainEndWork, MainJoin, MainDecoded, MainRelease, MainReleased, MainWait,
        MainTimed, MainIdle, MainFallAsleep, MainSlept, MainWaking, MainStop,
        MainJoined, MainBeginCapture, MainEndCapture, WorkerEndCapture, EndCapture,
        CaptureTransferred, WorkerSleep, WorkerTake,
        WorkerHandle, WorkerCheck, WorkerWake, WorkerFinish
<1>1. \/ UNCHANGED queueVars
      \/ \E c \in Clients : ClientPost(c) \/ ClientCancel(c)
      \/ MainTake \/ MainDefer \/ MainCancel \/ MainUpdate \/ MainJoin
      \/ MainRelease \/ WorkerTake \/ WorkerHandle
  OBVIOUS
<1>2. \/ UNCHANGED capture
      \/ \E c \in Clients : ClientPost(c) \/ ClientCancel(c)
      \/ Terminate \/ MainDefer \/ MainUpdate \/ MainFallAsleep
      \/ MainBeginCapture \/ EndCapture \/ CaptureTransferred
  OBVIOUS
<1>3. \/ UNCHANGED waiters
      \/ waiters' = {}
      \/ \E t \in {"main", "worker"} : waiters' = waiters \cup {t}
      \/ \E c \in Clients : ClientArrive(c) \/ ClientWake(c) \/ ClientPost(c) \/ ClientCancel(c)
      \/ MainDefer \/ MainCancel \/ MainUpdate \/ MainEndWork
      \/ MainRelease \/ MainTimed \/ CaptureTransferred
  OBVIOUS
<1>4. \/ UNCHANGED mainTask /\ (mainPc' = "handle" <=> mainPc = "handle")
      \/ mainPc' # "handle" /\ mainTask' = NoTask
      \/ mainPc' # "handle" /\ mainPc # "handle" /\ UNCHANGED mainTask
      \/ MainTake
  OBVIOUS
<1>5. \/ UNCHANGED workTask /\ (workPc' = "handle" <=> workPc = "handle")
      \/ workPc' # "handle" /\ workTask' = NoTask
      \/ workPc' # "handle" /\ workPc # "handle" /\ UNCHANGED workTask
      \/ WorkerTake \/ MainStart
  OBVIOUS
<1>6. \/ UNCHANGED slots
      \/ \E s \in Slots : MainLaunch(s)
      \/ MainCancel \/ MainRelease
  OBVIOUS
<1>7. \/ UNCHANGED budget
      \/ \E s \in Slots : MainLaunch(s)
      \/ MainCancel \/ MainRelease \/ MainDecoded
  OBVIOUS
<1>8. \/ UNCHANGED <<chunks, thrown>>
      \/ MainUpdate \/ MainEndWork \/ MainJoin \/ MainDecoded
  OBVIOUS
<1>9. \/ UNCHANGED outcome
      \/ \E c \in Clients : ClientPost(c) \/ ClientCancel(c)
      \/ \E s \in Slots : MainLaunch(s)
      \/ MainReject \/ MainRead \/ MainCancel \/ MainRelease \/ WorkerHandle
  OBVIOUS
<1>10. \/ UNCHANGED releasing /\ (mainPc' = "release" <=> mainPc = "release")
       \/ UNCHANGED releasing /\ mainPc' # "release" /\ mainPc # "release"
       \/ MainUpdate \/ MainJoin \/ MainDecoded \/ MainRelease \/ MainReleased
  OBVIOUS
<1> HIDE DEF ClientPost, ClientCancel, ClientArrive, ClientWake, MainLaunch
<1> QED
  BY ONLY <1>1, <1>2, <1>3, <1>4, <1>5, <1>6, <1>7, <1>8, <1>9, <1>10

-----------------------------------------------------------------------------
(* Types and the worker's quiescence.                                      *)

\* The strengthening of WorkerQuiescent: the worker is in a callback only while
\* busy is set, and busy only from the start of a yield to the end of its join.
WorkerInv ==
  /\ worker.busy => mainPc \in {"work", "join"}
  /\ worker.yielding => mainPc = "work"
  /\ worker.exception => mainPc \in {"work", "join"}
  /\ workPc \in {"take", "handle", "check", "wait", "finish"} => worker.busy
  /\ queue_tasks_unhandled # <<>> => mainPc \in {"work", "join"}
  /\ mainPc = "start" => workPc = "none"

\* Every step leaves tasks in the queues, and client tasks in the deferred one.
LEMMA QueueTypesStep ==
  ASSUME TypeOK, [Next]_vars
  PROVE  QueueTypes'
<1> USE DEF TypeOK, QueueTypes
<1>1. CASE UNCHANGED queueVars
  BY <1>1 DEF queueVars
<1>2. ASSUME NEW c \in Clients, ClientPost(c) PROVE QueueTypes'
  <2>1. TaskOf(c) \in Task
    BY ClientTaskFacts, TaskFacts
  <2> QED  BY <1>2, <2>1, HoldsAppend, HoldsPush DEF ClientPost, Post
<1>3. ASSUME NEW c \in Clients, ClientCancel(c) PROVE QueueTypes'
  <2>1. \A T : \A s \in Seq(T) : \A t : Cleanup(s, t) \in Seq(T)
    <3> SUFFICES ASSUME NEW T, NEW s \in Seq(T), NEW t PROVE Cleanup(s, t) \in Seq(T)
      OBVIOUS
    <3>1. CASE Holds(s, t)
      <4>1. (CHOOSE i \in DOMAIN s : s[i] = t) \in DOMAIN s
        BY <3>1 DEF Holds
      <4> QED  BY <3>1, <4>1, HoldsRemove DEF Cleanup
    <3> QED  BY <3>1 DEF Cleanup
  <2>2. Cancel(c) \in Task
    BY ClientTaskFacts
  <2> QED  BY <1>3, <2>1, <2>2, HoldsPush DEF ClientCancel, PostCancel
<1>4. CASE MainTake \/ WorkerTake
  <2>1. /\ UNCHANGED <<queue_tasks_deferred, queue_tasks_unhandled>>
        /\ \/ UNCHANGED queue_tasks
           \/ queue_tasks # <<>> /\ queue_tasks' = Tail(queue_tasks)
    BY <1>4 DEF MainTake, WorkerTake
  <2>2. queue_tasks # <<>> => Tail(queue_tasks) \in Seq(Task)
    OBVIOUS
  <2> QED  BY <2>1, <2>2
<1>5. CASE MainDefer
  <2>1. mainTask \in ClientTasks
    BY <1>5, TaskFacts DEF MainDefer, Handled, ThreadTypes
  <2> QED  BY <1>5, <2>1, HoldsAppend DEF MainDefer, Defer, Handled
<1>6. CASE MainUpdate
  <2>1. /\ UNCHANGED <<queue_tasks_deferred, queue_tasks_unhandled>>
        /\ UNCHANGED queue_tasks \/ queue_tasks' = Append(queue_tasks, Next_response)
    BY <1>6 DEF MainUpdate, Post
  <2> QED  BY <2>1, TaskFacts
<1>7. CASE MainJoin
  <2>1. /\ UNCHANGED queue_tasks_deferred
        /\ \/ UNCHANGED <<queue_tasks, queue_tasks_unhandled>>
           \/ queue_tasks' = queue_tasks_unhandled \o queue_tasks /\ queue_tasks_unhandled' = <<>>
    BY <1>7 DEF MainJoin, Reclaimed
  <2>2. queue_tasks_unhandled \o queue_tasks \in Seq(Task) /\ <<>> \in Seq(Task)
    OBVIOUS
  <2> QED  BY <2>1, <2>2
<1>8. CASE MainCancel \/ MainRelease
  <2>1. UNCHANGED queue_tasks_unhandled
    BY <1>8 DEF MainCancel, MainRelease, Handled
  <2>2. UNCHANGED <<queue_tasks, queue_tasks_deferred>> \/ \E s \in Slots : PopDeferred(s)
    BY <1>8 DEF MainCancel, MainRelease, ReleaseSlot, BusySlots, CycleTypes
  <2>3. ASSUME NEW s \in Slots, PopDeferred(s)
        PROVE  queue_tasks' \in Seq(Task) /\ queue_tasks_deferred' \in Seq(ClientTasks)
    <3>1. ASSUME NEW i \in DOMAIN queue_tasks_deferred
          PROVE  /\ <<queue_tasks_deferred[i]>> \o queue_tasks \in Seq(Task)
                 /\ RemoveAt(queue_tasks_deferred, i) \in Seq(ClientTasks)
      <4>1. queue_tasks_deferred[i] \in Task
        BY TaskFacts
      <4> QED  BY <4>1, HoldsPush, HoldsRemove
    <3> QED  BY <2>3, <3>1 DEF PopDeferred
  <2> QED  BY <2>1, <2>2, <2>3
<1>9. CASE WorkerHandle
  <2>1. workTask \in Task
    BY <1>9 DEF WorkerHandle, ThreadTypes
  <2>2. /\ UNCHANGED <<queue_tasks, queue_tasks_deferred>>
        /\ \/ UNCHANGED queue_tasks_unhandled
           \/ queue_tasks_unhandled' = Append(queue_tasks_unhandled, workTask)
    BY <1>9 DEF WorkerHandle
  <2>3. Append(queue_tasks_unhandled, workTask) \in Seq(Task)
    BY <2>1
  <2> QED  BY <2>2, <2>3
<1> QED
  BY <1>1, <1>2, <1>3, <1>4, <1>5, <1>6, <1>7, <1>8, <1>9, Frames

\* Every step leaves the flags of the queue, the worker and a capture Boolean.
LEMMA FlagTypesStep ==
  ASSUME TypeOK, [Next]_vars
  PROVE  FlagTypes'
<1> USE DEF TypeOK, FlagTypes
<1> DEFINE Sessions == [live : BOOLEAN, cancelled : BOOLEAN, cancel_on_arrival : BOOLEAN,
                        transfer : {"none", "running", "complete"}]
<1>1. capture' \in Sessions
  <2>1. CASE UNCHANGED capture
    BY <2>1
  <2>2. \A f \in BOOLEAN : CancelIdleCapture(f) \in Sessions
    BY DEF CancelIdleCapture
  <2>3. CASE \E c \in Clients : ClientPost(c) \/ ClientCancel(c)
    BY <2>2, <2>3 DEF ClientPost, ClientCancel, Post, PostCancel
  <2>4. CASE MainDefer
    BY <2>2, <2>4 DEF MainDefer, Defer
  <2>5. CASE MainUpdate
    BY <2>2, <2>5 DEF MainUpdate, Post
  <2>6. CASE Terminate \/ MainFallAsleep \/ EndCapture \/ CaptureTransferred
    BY <2>6 DEF Terminate, MainFallAsleep, EndCapture, CaptureTransferred
  <2>7. CASE MainBeginCapture
    <3>1. ASSUME NEW b \in BOOLEAN, NEW t \in {"none", "running"}
          PROVE  [live |-> TRUE, cancelled |-> FALSE, cancel_on_arrival |-> b,
                  transfer |-> t] \in Sessions
      OBVIOUS
    <3>2. \E b \in BOOLEAN, t \in {"none", "running"} :
            capture' = [live |-> TRUE, cancelled |-> FALSE, cancel_on_arrival |-> b,
                        transfer |-> t]
      <4>1. PICK mode \in {"idle", "prompt_boundary", "displacement"}, g \in BOOLEAN :
               BeginCapture(mode, g)
        BY <2>7 DEF MainBeginCapture
      <4>2. (mode # "displacement") \in BOOLEAN
            /\ (IF g THEN "running" ELSE "none") \in {"none", "running"}
        OBVIOUS
      <4> QED  BY <4>1, <4>2, Zenon DEF BeginCapture
    <3> QED  BY <3>1, <3>2
  <2> QED  BY <2>1, <2>3, <2>4, <2>5, <2>6, <2>7, Frames
<1>2. /\ running' \in BOOLEAN
      /\ sleeping' \in BOOLEAN
      /\ req_stop_sleeping' \in BOOLEAN
      /\ idle_capture_stopped' \in BOOLEAN
      /\ idle_maintenance_requested' \in BOOLEAN
      /\ worker' \in [busy : BOOLEAN, yielding : BOOLEAN, stop : BOOLEAN, exception : BOOLEAN]
  <2> USE DEF Next, MainStep, WorkerStep, vars, queueVars, sleepVars, captureVars,
          mainVars, workVars, slotVars, clientVars, Handled, ClientArrive, ClientWake,
          ClientPost, ClientCancel, Terminate, MainStart, MainTake, MainLaunch,
          MainDefer, MainReject, MainRead, MainCancel, MainNext, MainUpdate, MainYield,
          MainEndWork, MainJoin, MainDecoded, MainRelease, MainReleased, MainWait,
          MainTimed, MainIdle, MainFallAsleep, MainSlept, MainWaking, MainStop,
          MainJoined, MainBeginCapture, MainEndCapture, WorkerEndCapture, EndCapture,
        CaptureTransferred, WorkerSleep, WorkerTake,
          WorkerHandle, WorkerCheck, WorkerWake, WorkerFinish, ReleaseSlot
  <2>1. running' \in BOOLEAN
    OBVIOUS
  <2>2. sleeping' \in BOOLEAN /\ req_stop_sleeping' \in BOOLEAN
    OBVIOUS
  <2>3. idle_capture_stopped' \in BOOLEAN /\ idle_maintenance_requested' \in BOOLEAN
    OBVIOUS
  <2>4. worker' \in [busy : BOOLEAN, yielding : BOOLEAN, stop : BOOLEAN, exception : BOOLEAN]
    OBVIOUS
  <2> QED  BY ONLY <2>1, <2>2, <2>3, <2>4
<1> QED
  BY <1>1, <1>2

\* Every step leaves each thread at a known place, holding a task exactly
\* while it is in a callback.
LEMMA ThreadTypesStep ==
  ASSUME TypeOK, WorkerInv, [Next]_vars
  PROVE  ThreadTypes'
<1> USE DEF TypeOK, ThreadTypes
<1>1. waiters' \subseteq Clients \cup {"main", "worker"}
  <2>1. CASE \E c \in Clients : ClientArrive(c) \/ ClientWake(c)
    BY <2>1, NotifyFacts DEF ClientArrive, ClientWake
  <2>2. CASE \E c \in Clients : ClientPost(c) \/ ClientCancel(c)
    BY <2>2, NotifyFacts DEF ClientPost, ClientCancel, Post, PostCancel
  <2>3. CASE MainDefer \/ MainUpdate
    BY <2>3, NotifyFacts DEF MainDefer, Defer, MainUpdate, Post
  <2>4. CASE MainCancel \/ MainRelease
    BY <2>4, NotifyFacts DEF MainCancel, MainRelease, ReleaseSlot, PopDeferred
  <2>5. CASE MainEndWork \/ MainTimed \/ CaptureTransferred
    BY <2>5, NotifyFacts DEF MainEndWork, MainTimed, CaptureTransferred
  <2> QED  BY <2>1, <2>2, <2>3, <2>4, <2>5, Frames
<1>2. mainTask' \in IF mainPc' = "handle" THEN Task ELSE {NoTask}
  <2>1. CASE MainTake
    BY <2>1, HoldsTail DEF MainTake, QueueTypes
  <2> QED  BY <2>1, Frames
<1>3. workTask' \in IF workPc' = "handle" THEN Task ELSE {NoTask}
  <2>1. CASE WorkerTake
    BY <2>1, HoldsTail DEF WorkerTake, QueueTypes
  <2>2. CASE MainStart
    BY <2>2 DEF MainStart, WorkerInv
  <2> QED  BY <2>1, <2>2, Frames
<1>4. /\ mainPc' \in MainPc /\ workPc' \in WorkPc
      /\ clientPc' \in [Clients -> ClientPc]
  <2> USE DEF Next, MainStep, WorkerStep, vars, mainVars, workVars, clientVars,
          Handled, ClientArrive, ClientWake, ClientPost, ClientCancel, Terminate,
          MainStart, MainTake, MainLaunch, MainDefer, MainReject, MainRead, MainCancel,
          MainNext, MainUpdate, MainYield, MainEndWork, MainJoin, MainDecoded,
          MainRelease, MainReleased, MainWait, MainTimed, MainIdle, MainFallAsleep,
          MainSlept, MainWaking, MainStop, MainJoined, MainBeginCapture,
          MainEndCapture, WorkerEndCapture, EndCapture, CaptureTransferred, WorkerSleep, WorkerTake, WorkerHandle, WorkerCheck,
          WorkerWake, WorkerFinish
  <2>1. mainPc' \in MainPc
    BY DEF MainPc
  <2>2. workPc' \in WorkPc
    BY DEF WorkPc
  <2>3. clientPc' \in [Clients -> ClientPc]
    BY DEF ClientPc
  <2> QED  BY ONLY <2>1, <2>2, <2>3
<1> QED
  BY <1>1, <1>2, <1>3, <1>4

\* Every step leaves the slots, their budgets and the history well typed, and
\* only processing slots are about to be released.
LEMMA CycleTypesStep ==
  ASSUME TypeOK, [Next]_vars
  PROVE  CycleTypes'
<1> USE DEF TypeOK, CycleTypes
<1>1. slots' \in [Slots -> Clients \cup {None}]
  <2>1. ASSUME NEW s \in Slots, MainLaunch(s) PROVE slots' \in [Slots -> Clients \cup {None}]
    BY <2>1, TaskFacts DEF MainLaunch, Handled, ThreadTypes
  <2>2. CASE MainCancel \/ MainRelease
    BY <2>2 DEF MainCancel, MainRelease, ReleaseSlot, slotVars
  <2> QED  BY <2>1, <2>2, Frames
<1>2. budget' \in [Slots -> 0..MaxCycles]
  <2>1. CASE \E s \in Slots : MainLaunch(s)
    BY <2>1, QueueAssumption DEF MainLaunch
  <2>2. CASE MainCancel \/ MainRelease
    BY <2>2, QueueAssumption DEF MainCancel, MainRelease, ReleaseSlot, slotVars
  <2>3. CASE MainDecoded
    <3>1. \A s \in BusySlots \ releasing' : budget[s] # 0
      BY <2>3 DEF MainDecoded, AbortedSlots
    <3> QED  BY <2>3, <3>1, QueueAssumption DEF MainDecoded
  <2> QED  BY <2>1, <2>2, <2>3, Frames
<1>3. chunks' \in 0..MaxChunks /\ thrown' \in BOOLEAN
  <2>1. CASE MainUpdate
    BY <2>1, QueueAssumption DEF MainUpdate
  <2>2. CASE MainEndWork
    BY <2>2 DEF MainEndWork
  <2>3. CASE MainJoin
    <3>1. thrown' \in BOOLEAN
      BY <2>3 DEF MainJoin
    <3>2. chunks' = 0 \/ UNCHANGED chunks
      BY <2>3 DEF MainJoin
    <3> QED  BY <3>1, <3>2, QueueAssumption
  <2>4. CASE MainDecoded
    BY <2>4, QueueAssumption DEF MainDecoded
  <2> QED  BY <2>1, <2>2, <2>3, <2>4, Frames
<1>4. outcome' \in [Clients -> Outcome]
  <2>1. CASE \E c \in Clients : ClientPost(c) \/ ClientCancel(c)
    BY <2>1 DEF ClientPost, ClientCancel, PostCancel, Outcome
  <2>2. CASE \E s \in Slots : MainLaunch(s)
    BY <2>2 DEF MainLaunch, Settled, Outcome
  <2>3. CASE MainReject \/ MainRead \/ WorkerHandle
    BY <2>3 DEF MainReject, MainRead, WorkerHandle, Settled, Outcome
  <2>4. CASE MainCancel \/ MainRelease
    BY <2>4 DEF MainCancel, MainRelease, ReleaseSlot, Outcome
  <2> QED  BY <2>1, <2>2, <2>3, <2>4, Frames
<1>5. releasing' \subseteq IF mainPc' = "release" THEN BusySlots' ELSE {}
  <2>1. CASE MainUpdate \/ MainJoin
    BY <2>1 DEF MainUpdate, MainJoin, AbortedSlots, BusySlots, slotVars
  <2>2. CASE MainDecoded
    BY <2>2 DEF MainDecoded, AbortedSlots, BusySlots
  <2>3. CASE MainRelease
    BY <2>3 DEF MainRelease, ReleaseSlot, BusySlots
  <2>4. CASE MainReleased
    BY <2>4 DEF MainReleased, BusySlots, slotVars
  <2>5. CASE UNCHANGED releasing /\ (mainPc' = "release" <=> mainPc = "release")
    <3>1. CASE mainPc # "release"
      BY <2>5, <3>1
    <3>2. CASE mainPc = "release"
      <4>1. UNCHANGED slots \/ MainRelease
        BY <3>2, Frames DEF MainLaunch, MainCancel, Handled
      <4> QED  BY <2>3, <2>5, <4>1 DEF BusySlots
    <3> QED  BY <3>1, <3>2
  <2> QED  BY <2>1, <2>2, <2>3, <2>4, <2>5, Frames
<1> QED
  BY <1>1, <1>2, <1>3, <1>4, <1>5

\* Every step keeps the worker inside the window of a yield.
LEMMA WorkerInvStep ==
  ASSUME TypeOK, WorkerInv, [Next]_vars
  PROVE  WorkerInv'
<1> USE DEF Next, MainStep, WorkerStep, vars, queueVars, sleepVars, captureVars,
        mainVars, workVars, slotVars, clientVars, Handled, ClientArrive, ClientWake,
        ClientPost, ClientCancel, Terminate, MainStart, MainTake, MainLaunch,
        MainDefer, MainReject, MainRead, MainCancel, MainNext, MainUpdate, MainYield,
        MainEndWork, MainJoin, MainDecoded, MainRelease, MainReleased, MainWait,
        MainTimed, MainIdle, MainFallAsleep, MainSlept, MainWaking, MainStop,
        MainJoined, MainBeginCapture, MainEndCapture, WorkerEndCapture, EndCapture,
        CaptureTransferred, WorkerSleep, WorkerTake,
        WorkerHandle, WorkerCheck, WorkerWake, WorkerFinish, WorkerActive, ReleaseSlot
<1>1. (worker.busy => mainPc \in {"work", "join"})'
  BY DEF TypeOK, FlagTypes, WorkerInv
<1>2. (worker.yielding => mainPc = "work")'
  BY DEF TypeOK, FlagTypes, WorkerInv
<1>3. (worker.exception => mainPc \in {"work", "join"})'
  BY DEF TypeOK, FlagTypes, WorkerInv
<1>4. (workPc \in {"take", "handle", "check", "wait", "finish"} => worker.busy)'
  BY DEF TypeOK, FlagTypes, WorkerInv
<1>5. (queue_tasks_unhandled # <<>> => mainPc \in {"work", "join"})'
  <2>1. \A t : Cleanup(<<>>, t) = <<>>
    BY DEF Cleanup, Holds
  <2> QED  BY <2>1 DEF TypeOK, ThreadTypes, WorkerInv, PostCancel
<1>6. (mainPc = "start" => workPc = "none")'
  BY DEF WorkerInv
<1> QED
  BY ONLY <1>1, <1>2, <1>3, <1>4, <1>5, <1>6 DEF WorkerInv

\* Every reachable state is well typed, and the worker is parked whenever the
\* main thread is not inside yield_to_queue().
THEOREM TypeCorrect == Spec => [](TypeOK /\ WorkerInv)
<1>1. Init => TypeOK /\ WorkerInv
  <2> SUFFICES ASSUME Init PROVE TypeOK /\ WorkerInv
    OBVIOUS
  <2> USE QueueAssumption DEF Init
  <2>1. QueueTypes
    BY DEF QueueTypes
  <2>2. FlagTypes
    <3>1. worker \in [busy : BOOLEAN, yielding : BOOLEAN, stop : BOOLEAN, exception : BOOLEAN]
      OBVIOUS
    <3>2. capture \in [live : BOOLEAN, cancelled : BOOLEAN, cancel_on_arrival : BOOLEAN,
                       transfer : {"none", "running", "complete"}]
      OBVIOUS
    <3> QED  BY <3>1, <3>2 DEF FlagTypes
  <2>4. ThreadTypes
    <3>1. clientPc \in [Clients -> ClientPc]
      BY DEF ClientPc
    <3>2. mainPc \in MainPc /\ workPc \in WorkPc
      BY DEF MainPc, WorkPc
    <3> QED  BY <3>1, <3>2 DEF ThreadTypes
  <2>5. CycleTypes
    <3>1. slots \in [Slots -> Clients \cup {None}] /\ budget \in [Slots -> 0..MaxCycles]
      OBVIOUS
    <3>2. outcome \in [Clients -> Outcome]
      BY DEF Outcome
    <3>3. chunks \in 0..MaxChunks
      OBVIOUS
    <3> QED  BY <3>1, <3>2, <3>3 DEF CycleTypes
  <2>3. WorkerInv
    BY DEF WorkerInv
  <2> QED  BY <2>1, <2>2, <2>3, <2>4, <2>5 DEF TypeOK
<1>2. TypeOK /\ WorkerInv /\ [Next]_vars => (TypeOK /\ WorkerInv)'
  BY QueueTypesStep, FlagTypesStep, ThreadTypesStep, CycleTypesStep, WorkerInvStep
     DEF TypeOK
<1> QED
  BY <1>1, <1>2, PTL DEF Spec

\* Outside of yield_to_queue() the worker is parked and has nothing left to
\* give back, for any number of clients and slots (WorkerQuiescent).
THEOREM WorkerIsQuiescent == Spec => []WorkerQuiescent
<1>1. TypeOK /\ WorkerInv => WorkerQuiescent
  BY DEF TypeOK, ThreadTypes, WorkPc, WorkerInv, WorkerQuiescent
<1> QED
  BY <1>1, TypeCorrect, PTL

-----------------------------------------------------------------------------
(* Conservation of tasks.                                                  *)

\* What TaskConservation says of one client.
Conserved(c) ==
  /\ outcome[c] = "pending" <=>
       InQueue(c) \/ InDeferred(c) \/ InUnhandled(c) \/ WithMain(c) \/ WithWorker(c)
  /\ InOnePlace(c)
  /\ outcome[c] = "running" <=> \E s \in Slots : slots[s] = c
  /\ \A s, t \in Slots : slots[s] = c /\ slots[t] = c => s = t

UniqueInQueues ==
  /\ NoDuplicates(queue_tasks)
  /\ NoDuplicates(queue_tasks_deferred)
  /\ NoDuplicates(queue_tasks_unhandled)

\* The strengthening: a request that has not posted yet has no task.
ClientInv ==
  \A c \in Clients : clientPc[c] \in {"new", "blocked", "ready"} => outcome[c] = "none"

\* Only these actions move a task from one place to another.
LEMMA Movers ==
  ASSUME [Next]_vars
  PROVE  \/ UNCHANGED <<queueVars, mainTask, workTask, slots, outcome>>
         \/ \E c \in Clients : ClientPost(c) \/ ClientCancel(c)
         \/ \E s \in Slots : MainLaunch(s)
         \/ MainTake \/ MainDefer \/ MainReject \/ MainRead \/ MainCancel \/ MainNext
         \/ MainUpdate \/ MainJoin \/ MainRelease \/ WorkerTake \/ WorkerHandle
BY DEF Next, MainStep, WorkerStep, vars, queueVars, sleepVars, captureVars,
       mainVars, workVars, slotVars, clientVars, ClientArrive, ClientWake,
       Terminate, MainStart, MainYield, MainEndWork, MainDecoded, MainReleased,
       MainWait, MainTimed, MainIdle, MainFallAsleep, MainSlept, MainWaking, MainStop,
       MainJoined, MainBeginCapture, MainEndCapture, WorkerEndCapture, EndCapture, CaptureTransferred, WorkerSleep, WorkerCheck,
       WorkerWake, WorkerFinish

\* A request posts its task after every step that left it without one.
LEMMA ClientInvStep ==
  ASSUME TypeOK, TaskConservation, ClientInv, [Next]_vars
  PROVE  ClientInv'
<1> USE DEF ClientInv, TypeOK, ThreadTypes, CycleTypes
<1>1. ASSUME NEW c \in Clients, ClientPost(c) \/ ClientCancel(c) PROVE ClientInv'
  BY <1>1 DEF ClientPost, ClientCancel, PostCancel
<1>2. ASSUME NEW c \in Clients, ClientArrive(c) \/ ClientWake(c) PROVE ClientInv'
  BY <1>2 DEF ClientArrive, ClientWake
<1>3. CASE UNCHANGED <<outcome, clientPc>>
  BY <1>3
<1>4. CASE \E s \in Slots : MainLaunch(s)
  <2>1. mainTask \in ClientTasks /\ UNCHANGED clientPc /\ outcome' = Settled(mainTask, "running")
    BY <1>4, TaskFacts DEF MainLaunch, Handled
  <2>2. mainTask.id \in Clients /\ WithMain(mainTask.id)
    BY <2>1, TaskFacts DEF WithMain
  <2>3. outcome[mainTask.id] = "pending"
    BY <2>2 DEF TaskConservation
  <2> QED  BY <2>1, <2>2, <2>3 DEF Settled
<1>5. CASE MainReject \/ MainRead
  <2>1. /\ mainTask \in ClientTasks /\ UNCHANGED clientPc
        /\ outcome' \in {Settled(mainTask, "rejected"), Settled(mainTask, "done")}
    BY <1>5, TaskFacts DEF MainReject, MainRead, Handled
  <2>2. mainTask.id \in Clients /\ WithMain(mainTask.id)
    BY <2>1, TaskFacts DEF WithMain
  <2>3. outcome[mainTask.id] = "pending"
    BY <2>2 DEF TaskConservation
  <2> QED  BY <2>1, <2>2, <2>3 DEF Settled
<1>6. CASE WorkerHandle
  <2>1. /\ workTask \in Task /\ UNCHANGED clientPc
        /\ \/ UNCHANGED outcome
           \/ /\ workTask.type = "read"
              /\ outcome' \in {Settled(workTask, "done"), Settled(workTask, "lost")}
    BY <1>6 DEF WorkerHandle, AcceptsWhileYielding
  <2>2. ASSUME workTask.type = "read"
        PROVE  workTask.id \in Clients /\ outcome[workTask.id] = "pending"
    <3>1. workTask.id \in Clients /\ WithWorker(workTask.id)
      BY <2>1, <2>2, TaskFacts DEF WithWorker
    <3> QED  BY <3>1 DEF TaskConservation
  <2> QED  BY <2>1, <2>2 DEF Settled
<1>7. CASE MainCancel \/ MainRelease
  <2>1. ASSUME NEW s \in BusySlots, NEW why, ReleaseSlot(s, why), UNCHANGED clientPc
        PROVE  ClientInv'
    <3>1. slots[s] \in Clients /\ outcome[slots[s]] = "running"
      BY <2>1 DEF TaskConservation, BusySlots
    <3> QED  BY <2>1, <3>1 DEF ReleaseSlot
  <2> QED  BY <1>7, <1>3, <2>1 DEF MainCancel, MainRelease, Handled, clientVars
<1> QED
  <2>1. \/ UNCHANGED <<outcome, clientPc>>
        \/ \E c \in Clients : ClientPost(c) \/ ClientCancel(c) \/ ClientArrive(c) \/ ClientWake(c)
        \/ \E s \in Slots : MainLaunch(s)
        \/ MainReject \/ MainRead \/ MainCancel \/ MainRelease \/ WorkerHandle
    BY DEF Next, MainStep, WorkerStep, vars, clientVars,
       Terminate, MainStart, MainTake, MainDefer, MainNext, MainUpdate, MainJoin,
       MainYield, MainEndWork, MainDecoded, MainReleased,
       MainWait, MainTimed, MainIdle, MainFallAsleep, MainSlept, MainWaking, MainStop,
       MainJoined, MainBeginCapture, MainEndCapture, WorkerEndCapture, EndCapture,
        CaptureTransferred, WorkerSleep, WorkerTake, WorkerCheck,
       WorkerWake, WorkerFinish
  <2> QED  BY <1>1, <1>2, <1>3, <1>4, <1>5, <1>6, <1>7, <2>1

\* Every step keeps each client's task in its one place.
LEMMA ConservationStep ==
  ASSUME TypeOK, WorkerInv, ClientInv, TaskConservation, [Next]_vars
  PROVE  TaskConservation'
<1>0. (\A c \in Clients : Conserved(c)) /\ UniqueInQueues
  BY DEF TaskConservation, Conserved, UniqueInQueues
<1>a. SUFFICES UniqueInQueues' /\ \A c \in Clients : Conserved(c)'
  BY DEF TaskConservation, Conserved, UniqueInQueues
<1>b. /\ queue_tasks \in Seq(Task) /\ queue_tasks_deferred \in Seq(ClientTasks)
      /\ queue_tasks_unhandled \in Seq(Task)
  BY DEF TypeOK, QueueTypes
<1>c. \A c \in Clients : /\ TaskOf(c) \in ClientTasks /\ TaskOf(c) # NoTask
                         /\ \A d \in Clients : TaskOf(c) = TaskOf(d) => c = d
                         /\ TaskOf(c).id = c /\ TaskOf(c) # Next_response
                         /\ \A d \in Clients : TaskOf(c) # Cancel(d)
  BY ClientTaskFacts, TaskFacts
<1>d. /\ mainPc = "handle" => mainTask \in Task
      /\ mainPc # "handle" => mainTask = NoTask
      /\ workPc = "handle" => workTask \in Task
      /\ workPc # "handle" => workTask = NoTask
      /\ slots \in [Slots -> Clients \cup {None}]
      /\ outcome \in [Clients -> Outcome]
      /\ None \notin Clients
  BY QueueAssumption DEF TypeOK, ThreadTypes, CycleTypes
<1> USE DEF Conserved, UniqueInQueues, InOnePlace, InQueue, InDeferred, InUnhandled,
            WithMain, WithWorker
<1>1. CASE UNCHANGED <<queueVars, mainTask, workTask, slots, outcome>>
  BY <1>0, <1>1 DEF queueVars, Holds, NoDuplicates
<1>2. ASSUME NEW c \in Clients, ClientPost(c)
      PROVE  UniqueInQueues' /\ \A d \in Clients : Conserved(d)'
  <2>1. outcome[c] = "none" /\ outcome' = [outcome EXCEPT ![c] = "pending"]
    BY <1>2 DEF ClientPost, ClientInv
  <2>2. UNCHANGED <<queue_tasks_deferred, queue_tasks_unhandled, mainTask, workTask, slots>>
    BY <1>2 DEF ClientPost, mainVars, workVars, slotVars
  <2>3. ~Holds(queue_tasks, TaskOf(c)) /\ TaskOf(c) \in Task
    BY <1>0, <1>c, <2>1, TaskFacts
  <2>4. /\ \A t : Holds(queue_tasks', t) <=> Holds(queue_tasks, t) \/ t = TaskOf(c)
        /\ NoDuplicates(queue_tasks')
    BY <1>0, <1>2, <1>b, <2>3, HoldsAppend, HoldsPush DEF ClientPost, Post
  <2> QED  BY <1>0, <1>c, <1>d, <2>1, <2>2, <2>4
<1>3. ASSUME NEW c \in Clients, ClientCancel(c)
      PROVE  UniqueInQueues' /\ \A d \in Clients : Conserved(d)'
  <2> DEFINE q == Cleanup(queue_tasks, TaskOf(c))
  <2>1. /\ UNCHANGED <<mainTask, workTask, slots>>
        /\ outcome' = IF \/ Holds(queue_tasks, TaskOf(c))
                         \/ Holds(queue_tasks_deferred, TaskOf(c))
                         \/ Holds(queue_tasks_unhandled, TaskOf(c))
                      THEN [outcome EXCEPT ![c] = "cancelled"] ELSE outcome
        /\ queue_tasks' = <<Cancel(c)>> \o q
        /\ queue_tasks_deferred' = Cleanup(queue_tasks_deferred, TaskOf(c))
        /\ queue_tasks_unhandled' = Cleanup(queue_tasks_unhandled, TaskOf(c))
    BY <1>3 DEF ClientCancel, PostCancel, mainVars, workVars, slotVars
  <2>2. /\ q \in Seq(Task) /\ NoDuplicates(q)
        /\ \A t : Holds(q, t) <=> Holds(queue_tasks, t) /\ t # TaskOf(c)
    BY <1>0, <1>b, <1>c, HoldsCleanup
  <2>3. /\ NoDuplicates(queue_tasks_deferred')
        /\ \A t : Holds(queue_tasks_deferred', t) <=>
                    Holds(queue_tasks_deferred, t) /\ t # TaskOf(c)
    BY <1>0, <1>b, <1>c, <2>1, HoldsCleanup
  <2>4. /\ NoDuplicates(queue_tasks_unhandled')
        /\ \A t : Holds(queue_tasks_unhandled', t) <=>
                    Holds(queue_tasks_unhandled, t) /\ t # TaskOf(c)
    BY <1>0, <1>b, <1>c, <2>1, HoldsCleanup
  <2> HIDE DEF q
  <2>5. Cancel(c) \in Task /\ Cancel(c) \notin ClientTasks
    BY ClientTaskFacts
  <2>6. /\ NoDuplicates(queue_tasks')
        /\ \A t : Holds(queue_tasks', t) <=> Holds(q, t) \/ t = Cancel(c)
    BY <2>1, <2>2, <2>5, HoldsPush
  <2> QED  BY <1>0, <1>c, <1>d, <2>1, <2>2, <2>3, <2>4, <2>6
<1>4. CASE MainTake
  <2>1. UNCHANGED <<queue_tasks_deferred, queue_tasks_unhandled, workTask, slots, outcome>>
    BY <1>4 DEF MainTake, workVars, slotVars, clientVars
  <2>2. CASE queue_tasks # <<>> /\ mainTask' = Head(queue_tasks) /\ queue_tasks' = Tail(queue_tasks)
    <3>1. /\ \A t : Holds(queue_tasks, t) <=> Holds(queue_tasks', t) \/ t = mainTask'
          /\ NoDuplicates(queue_tasks')
          /\ mainTask' \in ClientTasks => ~Holds(queue_tasks', mainTask')
      BY <1>0, <1>b, <2>2, HoldsTail
    <3>2. mainTask = NoTask
      BY <1>4, <1>d DEF MainTake
    <3> QED  BY <1>0, <1>c, <2>1, <3>1, <3>2
  <2> QED  BY <1>1, <1>4, <2>1, <2>2 DEF MainTake, queueVars
<1>5. CASE WorkerTake
  <2>1. UNCHANGED <<queue_tasks_deferred, queue_tasks_unhandled, mainTask, slots, outcome>>
    BY <1>5 DEF WorkerTake, mainVars, slotVars, clientVars
  <2>2. CASE queue_tasks # <<>> /\ workTask' = Head(queue_tasks) /\ queue_tasks' = Tail(queue_tasks)
    <3>1. /\ \A t : Holds(queue_tasks, t) <=> Holds(queue_tasks', t) \/ t = workTask'
          /\ NoDuplicates(queue_tasks')
          /\ workTask' \in ClientTasks => ~Holds(queue_tasks', workTask')
      BY <1>0, <1>b, <2>2, HoldsTail
    <3>2. workTask = NoTask
      BY <1>5, <1>d DEF WorkerTake
    <3> QED  BY <1>0, <1>c, <2>1, <3>1, <3>2
  <2> QED  BY <1>1, <1>5, <2>1, <2>2 DEF WorkerTake, queueVars
<1>6. ASSUME NEW s \in Slots, MainLaunch(s)
      PROVE  UniqueInQueues' /\ \A d \in Clients : Conserved(d)'
  <2>1. /\ UNCHANGED <<queue_tasks, queue_tasks_deferred, queue_tasks_unhandled, workTask>>
        /\ mainTask' = NoTask /\ slots[s] = None
        /\ slots' = [slots EXCEPT ![s] = mainTask.id]
        /\ outcome' = Settled(mainTask, "running")
    BY <1>6 DEF MainLaunch, Handled, BusySlots, workVars
  <2>2. PICK c \in Clients : mainTask = TaskOf(c) /\ mainTask.id = c
    BY <1>6, <1>d, TaskFacts DEF MainLaunch, Handled
  <2>3. outcome' = [outcome EXCEPT ![c] = "running"]
    BY <1>d, <2>1, <2>2 DEF Settled
  <2>4. outcome[c] = "pending" /\ \A t \in Slots : slots[t] # c
    BY <1>0, <2>2
  <2>5. \A t \in Slots : slots'[t] = IF t = s THEN c ELSE slots[t]
    BY <1>d, <2>1, <2>2
  <2>6. ASSUME NEW d \in Clients PROVE Conserved(d)'
    <3>1. CASE d = c
      BY <1>0, <1>c, <1>d, <2>1, <2>2, <2>3, <2>4, <2>5, <3>1
    <3>2. CASE d # c
      <4>1. outcome'[d] = outcome[d] /\ \A t \in Slots : slots'[t] = d <=> slots[t] = d
        BY <1>d, <2>1, <2>3, <2>5, <3>2
      <4>2. TaskOf(d) # mainTask /\ TaskOf(d) # NoTask
        BY <1>c, <2>2, <3>2
      <4> QED  BY <1>0, <2>1, <4>1, <4>2
    <3> QED  BY <3>1, <3>2
  <2> QED  BY <1>0, <2>1, <2>6
<1>7. CASE MainDefer
  <2>1. /\ mainPc = "handle" /\ mainTask' = NoTask /\ mainTask.type = "work"
        /\ UNCHANGED <<queue_tasks, queue_tasks_unhandled, workTask, slots, outcome>>
        /\ queue_tasks_deferred' = Append(queue_tasks_deferred, mainTask)
    BY <1>7 DEF MainDefer, Handled, Defer, slotVars, clientVars, workVars
  <2>2. PICK c \in Clients : mainTask = TaskOf(c)
    BY <1>d, <2>1, TaskFacts
  <2>3. /\ \A t : Holds(queue_tasks_deferred', t) <=> Holds(queue_tasks_deferred, t) \/ t = mainTask
        /\ NoDuplicates(queue_tasks_deferred')
    BY <1>0, <1>b, <1>c, <2>1, <2>2, HoldsAppend
  <2> QED  BY <1>0, <1>c, <2>1, <2>2, <2>3
<1>8. CASE MainReject \/ MainRead
  <2>1. /\ mainPc = "handle" /\ mainTask' = NoTask /\ mainTask.type \in {"work", "read"}
        /\ UNCHANGED <<queue_tasks, queue_tasks_deferred, queue_tasks_unhandled, workTask, slots>>
        /\ \E o \in {"rejected", "done"} : outcome' = Settled(mainTask, o)
    BY <1>8 DEF MainReject, MainRead, Handled, slotVars, workVars
  <2>2. PICK c \in Clients : mainTask = TaskOf(c) /\ mainTask.id = c
    BY <1>d, <2>1, TaskFacts
  <2>3. \E o \in {"rejected", "done"} : outcome' = [outcome EXCEPT ![c] = o]
    BY <1>d, <2>1, <2>2 DEF Settled
  <2> QED  BY <1>0, <1>c, <1>d, <2>1, <2>2, <2>3
<1>9. CASE MainNext
  <2>1. /\ mainTask' = NoTask /\ mainTask \notin ClientTasks
        /\ UNCHANGED <<queue_tasks, queue_tasks_deferred, queue_tasks_unhandled, workTask, slots, outcome>>
    BY <1>9, <1>d, TaskFacts DEF MainNext, Handled, slotVars, workVars, clientVars
  <2> QED  BY <1>0, <1>c, <2>1
<1>10. CASE MainUpdate
  <2>1. /\ UNCHANGED <<queue_tasks_deferred, queue_tasks_unhandled, mainTask, workTask, slots, outcome>>
        /\ UNCHANGED queue_tasks \/ queue_tasks' = Append(queue_tasks, Next_response)
    BY <1>10 DEF MainUpdate, Post, slotVars, workVars, clientVars
  <2> DEFINE q == Append(queue_tasks, Next_response)
  <2>2. NoDuplicates(q) /\ \A t : Holds(q, t) <=> Holds(queue_tasks, t) \/ t = Next_response
    BY <1>0, <1>b, TaskFacts, HoldsAppend
  <2> HIDE DEF q
  <2>3. \A c \in Clients : Holds(q, TaskOf(c)) <=> Holds(queue_tasks, TaskOf(c))
    BY <1>c, <2>2
  <2>4. CASE UNCHANGED queue_tasks
    BY <1>1, <2>1, <2>4 DEF queueVars
  <2>5. CASE queue_tasks' = q
    BY <1>0, <2>1, <2>2, <2>3, <2>5
  <2> QED  BY <2>1, <2>4, <2>5 DEF q
<1>11. CASE MainJoin
  <2>1. /\ UNCHANGED <<queue_tasks_deferred, mainTask, workTask, slots, outcome>>
        /\ \/ UNCHANGED <<queue_tasks, queue_tasks_unhandled>>
           \/ queue_tasks' = queue_tasks_unhandled \o queue_tasks /\ queue_tasks_unhandled' = <<>>
    BY <1>11 DEF MainJoin, Reclaimed, slotVars, workVars, clientVars
  <2>2. \A t \in ClientTasks : ~(Holds(queue_tasks_unhandled, t) /\ Holds(queue_tasks, t))
    BY <1>0, TaskFacts
  <2> DEFINE q == queue_tasks_unhandled \o queue_tasks
  <2>3. /\ NoDuplicates(q)
        /\ \A t : Holds(q, t) <=> Holds(queue_tasks_unhandled, t) \/ Holds(queue_tasks, t)
    BY <1>0, <1>b, <2>2, HoldsConcat
  <2>4. NoDuplicates(<<>>) /\ \A t : ~Holds(<<>>, t)
    BY HoldsEmpty
  <2> HIDE DEF q
  <2>5. CASE UNCHANGED <<queue_tasks, queue_tasks_unhandled>>
    BY <1>1, <2>1, <2>5 DEF queueVars
  <2>6. CASE queue_tasks' = q /\ queue_tasks_unhandled' = <<>>
    <3> DEFINE e == <<>>
    <3>1. queue_tasks_unhandled' = e /\ NoDuplicates(e) /\ \A t : ~Holds(e, t)
      BY <2>4, <2>6
    <3> HIDE DEF e
    <3> QED  BY <1>0, <2>1, <2>3, <2>6, <3>1
  <2> QED  BY <2>1, <2>5, <2>6 DEF q
<1>12. ASSUME NEW s \in BusySlots, NEW why \in {"done", "cancelled"}, ReleaseSlot(s, why),
              UNCHANGED <<queue_tasks_unhandled, workTask>>,
              \A c \in Clients : WithMain(c)' <=> WithMain(c)
       PROVE  UniqueInQueues' /\ \A d \in Clients : Conserved(d)'
  <2>1. PICK c \in Clients : slots[s] = c /\ s \in Slots
    BY <1>d, <1>12 DEF BusySlots
  <2>2. /\ outcome' = [outcome EXCEPT ![c] = why]
        /\ slots' = [slots EXCEPT ![s] = None]
        /\ PopDeferred(s)
    BY <1>12, <2>1 DEF ReleaseSlot
  <2>3. outcome[c] = "running" /\ \A t \in Slots \ {s} : slots[t] # c
    BY <1>0, <2>1
  <2>4. /\ NoDuplicates(queue_tasks') /\ NoDuplicates(queue_tasks_deferred')
        /\ \A d \in Clients :
             /\ InQueue(d)' \/ InDeferred(d)' <=> InQueue(d) \/ InDeferred(d)
             /\ InQueue(d)' => ~InDeferred(d)'
    <3>1. CASE UNCHANGED <<queue_tasks, queue_tasks_deferred>>
      BY <1>0, <3>1
    <3>2. ASSUME NEW i \in DOMAIN queue_tasks_deferred,
                 queue_tasks' = <<queue_tasks_deferred[i]>> \o queue_tasks,
                 queue_tasks_deferred' = RemoveAt(queue_tasks_deferred, i)
          PROVE  /\ NoDuplicates(queue_tasks') /\ NoDuplicates(queue_tasks_deferred')
                 /\ \A d \in Clients :
                      /\ InQueue(d)' \/ InDeferred(d)' <=> InQueue(d) \/ InDeferred(d)
                      /\ InQueue(d)' => ~InDeferred(d)'
      <4> DEFINE u == queue_tasks_deferred[i]
      <4>1. u \in ClientTasks /\ u \in Task /\ Holds(queue_tasks_deferred, u)
        BY <1>b, TaskFacts DEF Holds
      <4>2. /\ \A t : Holds(queue_tasks_deferred, t) <=> Holds(queue_tasks_deferred', t) \/ t = u
            /\ NoDuplicates(queue_tasks_deferred') /\ ~Holds(queue_tasks_deferred', u)
        BY <1>0, <1>b, <3>2, <4>1, HoldsRemove
      <4> HIDE DEF u
      <4>3. ~Holds(queue_tasks, u)
        BY <1>0, <4>1, TaskFacts
      <4>4. /\ \A t : Holds(queue_tasks', t) <=> Holds(queue_tasks, t) \/ t = u
            /\ NoDuplicates(queue_tasks')
        BY <1>0, <1>b, <3>2, <4>1, <4>3, HoldsPush DEF u
      <4> QED  BY <1>0, <4>1, <4>2, <4>3, <4>4
    <3> QED  BY <2>2, <3>1, <3>2 DEF PopDeferred
  <2>5. NoDuplicates(queue_tasks_unhandled')
    BY <1>0, <1>12
  <2>6. ASSUME NEW d \in Clients PROVE Conserved(d)'
    <3>1. CASE d = c
      BY <1>0, <1>12, <1>d, <2>1, <2>2, <2>3, <2>4, <3>1
    <3>2. CASE d # c
      BY <1>0, <1>12, <1>d, <2>1, <2>2, <2>4, <3>2
    <3> QED  BY <3>1, <3>2
  <2> QED  BY <2>4, <2>5, <2>6
<1>13. CASE MainRelease
  <2>1. PICK s \in releasing : ReleaseSlot(s, "done")
    BY <1>13 DEF MainRelease
  <2>2. s \in BusySlots /\ UNCHANGED <<queue_tasks_unhandled, workTask, mainTask>>
    BY <1>13, <2>1 DEF MainRelease, TypeOK, CycleTypes, workVars
  <2> QED  BY <1>12, <2>1, <2>2
<1>14. CASE MainCancel
  <2>1. /\ mainTask \notin ClientTasks /\ mainTask' = NoTask
        /\ UNCHANGED <<queue_tasks_unhandled, workTask>>
    BY <1>14, <1>d, TaskFacts DEF MainCancel, Handled, workVars
  <2>2. \A c \in Clients : WithMain(c)' <=> WithMain(c)
    BY <1>c, <2>1
  <2>3. CASE \E s \in BusySlots : ReleaseSlot(s, "cancelled")
    BY <1>12, <2>1, <2>2, <2>3
  <2>4. CASE UNCHANGED <<queue_tasks, queue_tasks_deferred, slots, outcome>>
    BY <1>0, <2>1, <2>2, <2>4
  <2> QED  BY <1>14, <2>3, <2>4 DEF MainCancel, slotVars
<1>15. CASE WorkerHandle
  <2>1. /\ workPc = "handle" /\ workTask' = NoTask /\ workTask \in Task
        /\ UNCHANGED <<queue_tasks, queue_tasks_deferred, mainTask, slots>>
    BY <1>15, <1>d DEF WorkerHandle, mainVars, slotVars
  <2>2. CASE UNCHANGED outcome /\ queue_tasks_unhandled' = Append(queue_tasks_unhandled, workTask)
    <3>1. workTask \in ClientTasks => ~Holds(queue_tasks_unhandled, workTask)
      BY <1>0, TaskFacts
    <3>2. /\ \A t : Holds(queue_tasks_unhandled', t) <=> Holds(queue_tasks_unhandled, t) \/ t = workTask
          /\ NoDuplicates(queue_tasks_unhandled')
      BY <1>0, <1>b, <2>1, <2>2, <3>1, HoldsAppend
    <3> QED  BY <1>0, <1>c, <2>1, <2>2, <3>2
  <2>3. CASE /\ workTask.type = "read" /\ UNCHANGED queue_tasks_unhandled
             /\ \E o \in {"done", "lost"} : outcome' = Settled(workTask, o)
    <3>1. PICK c \in Clients : workTask = TaskOf(c) /\ workTask.id = c
      BY <2>1, <2>3, TaskFacts
    <3>2. \E o \in {"done", "lost"} : outcome' = [outcome EXCEPT ![c] = o]
      BY <1>d, <2>3, <3>1 DEF Settled
    <3> QED  BY <1>0, <1>c, <1>d, <2>1, <2>3, <3>1, <3>2
  <2> QED  BY <1>15, <2>2, <2>3 DEF WorkerHandle, AcceptsWhileYielding
<1> QED
  BY <1>1, <1>2, <1>3, <1>4, <1>5, <1>6, <1>7, <1>8, <1>9, <1>10, <1>11, <1>13,
     <1>14, <1>15, Movers

\* The invariant the others rest on: types, the worker inside a yield, requests
\* without a task before they post, and the conservation of tasks.
BaseInv == TypeOK /\ WorkerInv /\ ClientInv /\ TaskConservation

\* It holds in every reachable state.
LEMMA BaseHolds == Spec => []BaseInv
<1>1. Init => ClientInv /\ TaskConservation
  <2> SUFFICES ASSUME Init PROVE ClientInv /\ TaskConservation
    OBVIOUS
  <2>1. \A c \in Clients : /\ outcome[c] = "none" /\ TaskOf(c) # NoTask
                           /\ \A s \in Slots : slots[s] # c
    BY ClientTaskFacts, QueueAssumption DEF Init
  <2>2. mainTask = NoTask /\ workTask = NoTask
    BY DEF Init
  <2>3. queue_tasks = <<>> /\ queue_tasks_deferred = <<>> /\ queue_tasks_unhandled = <<>>
    BY DEF Init
  <2>4. NoDuplicates(<<>>) /\ \A t : ~Holds(<<>>, t)
    BY HoldsEmpty
  <2> QED  BY <2>1, <2>2, <2>3, <2>4 DEF ClientInv, TaskConservation, InOnePlace,
              InQueue, InDeferred, InUnhandled, WithMain, WithWorker
<1>2. TypeOK /\ WorkerInv /\ ClientInv /\ TaskConservation /\ [Next]_vars
        => (ClientInv /\ TaskConservation)'
  BY ClientInvStep, ConservationStep
<1> QED
  BY <1>1, <1>2, TypeCorrect, PTL DEF Spec, BaseInv

\* No task is lost or handled twice, however many clients and slots there are
\* and whatever the threads do: every step of the queue, of the worker and of
\* the slots moves a task from one place to another (TaskConservation).
THEOREM TasksConserved == Spec => []TaskConservation
<1>1. BaseInv => TaskConservation
  BY DEF BaseInv
<1> QED
  BY <1>1, BaseHolds, PTL

-----------------------------------------------------------------------------
(* The wake-up of update_slots().                                          *)

\* Where the main thread is from the wake-up it posted to its next dequeue,
\* and where it is asleep.
Cycling == {"yield", "work", "join", "decoded", "release", "wait", "timed", "idle"}
Asleep  == {"fall_asleep", "slept", "waking"}

\* The wake-up is due: queued, set aside by the worker, or in its hands.
WakeUpDue ==
  \/ Holds(queue_tasks, Next_response) \/ Holds(queue_tasks_unhandled, Next_response)
  \/ workTask = Next_response

\* The strengthening of GenerationNeverStalls to the whole cycle.
CycleInv ==
  /\ mainPc \in Cycling /\ BusySlots # {} => WakeUpDue
  /\ mainPc \in Asleep => BusySlots = {}

\* Only update_slots() enters a cycle, only the loop that waits falls asleep,
\* and only a launch makes a slot busy.
LEMMA CycleEntries ==
  ASSUME TypeOK, [Next]_vars
  PROVE  /\ mainPc' \in Cycling => mainPc \in Cycling \/ MainUpdate
         /\ mainPc' \in Asleep => mainPc \in Asleep \/ (MainWait /\ queue_tasks = <<>>)
         /\ BusySlots' # {} => BusySlots # {} \/ mainPc' \notin Cycling \cup Asleep
<1> USE DEF Cycling, Asleep
<1>1. /\ mainPc' \in Cycling => mainPc \in Cycling \/ MainUpdate
      /\ mainPc' \in Asleep => mainPc \in Asleep \/ (MainWait /\ queue_tasks = <<>>)
  BY DEF Next, MainStep, WorkerStep, vars, mainVars, Handled, ClientArrive, ClientWake,
     ClientPost, ClientCancel, Terminate, MainStart, MainTake, MainLaunch,
     MainDefer, MainReject, MainRead, MainCancel, MainNext, MainUpdate, MainYield,
     MainEndWork, MainJoin, MainDecoded, MainRelease, MainReleased, MainWait,
     MainTimed, MainIdle, MainFallAsleep, MainSlept, MainWaking, MainStop,
     MainJoined, MainBeginCapture, MainEndCapture, WorkerEndCapture, EndCapture,
     CaptureTransferred, WorkerSleep, WorkerTake,
     WorkerHandle, WorkerCheck, WorkerWake, WorkerFinish
<1>2. CASE UNCHANGED slots
  BY <1>1, <1>2 DEF BusySlots
<1>3. CASE \E s \in Slots : MainLaunch(s)
  BY <1>3 DEF MainLaunch, Handled
<1>4. CASE MainCancel \/ MainRelease
  <2>1. CASE UNCHANGED slots
    BY <1>2, <2>1
  <2>2. CASE \E s \in Slots : slots' = [slots EXCEPT ![s] = None]
    BY <1>1, <2>2 DEF BusySlots, TypeOK, CycleTypes
  <2>3. releasing \subseteq Slots
    BY DEF TypeOK, CycleTypes, BusySlots
  <2> QED  BY <1>4, <2>1, <2>2, <2>3 DEF MainCancel, MainRelease, ReleaseSlot, BusySlots, slotVars
<1> QED
  BY <1>1, <1>2, <1>3, <1>4, Frames

\* The wake-up stays due until the main thread dequeues it itself: the worker
\* sets it aside, yield_to_queue() puts it back, a cancel does not touch it.
LEMMA WakeUpStaysDue ==
  ASSUME TypeOK, TaskConservation, [Next]_vars, WakeUpDue, mainPc \notin {"take", "handle"}
  PROVE  WakeUpDue'
<1> USE DEF WakeUpDue
<1>1. /\ queue_tasks \in Seq(Task) /\ queue_tasks_unhandled \in Seq(Task)
      /\ NoDuplicates(queue_tasks) /\ NoDuplicates(queue_tasks_unhandled)
  BY DEF TypeOK, QueueTypes, TaskConservation
<1>2. CASE UNCHANGED <<queueVars, workTask>>
  BY <1>2 DEF queueVars
<1>3. ASSUME NEW c \in Clients, ClientPost(c) PROVE WakeUpDue'
  <2>1. TaskOf(c) \in Task /\ UNCHANGED <<queue_tasks_unhandled, workTask>>
    BY <1>3, ClientTaskFacts, TaskFacts DEF ClientPost, workVars
  <2>2. Holds(queue_tasks, Next_response) => Holds(queue_tasks', Next_response)
    BY <1>1, <1>3, <2>1, HoldsAppend, HoldsPush DEF ClientPost, Post
  <2> QED  BY <2>1, <2>2
<1>4. ASSUME NEW c \in Clients, ClientCancel(c) PROVE WakeUpDue'
  <2>1. /\ queue_tasks' = <<Cancel(c)>> \o Cleanup(queue_tasks, TaskOf(c))
        /\ queue_tasks_unhandled' = Cleanup(queue_tasks_unhandled, TaskOf(c))
        /\ UNCHANGED workTask
    BY <1>4 DEF ClientCancel, PostCancel, workVars
  <2>2. TaskOf(c) \in ClientTasks /\ TaskOf(c) # Next_response /\ Cancel(c) \in Task
    BY ClientTaskFacts, TaskFacts
  <2>3. /\ Cleanup(queue_tasks, TaskOf(c)) \in Seq(Task)
        /\ Holds(queue_tasks, Next_response) =>
             Holds(Cleanup(queue_tasks, TaskOf(c)), Next_response)
        /\ Holds(queue_tasks_unhandled, Next_response) =>
             Holds(queue_tasks_unhandled', Next_response)
    BY <1>1, <2>1, <2>2, HoldsCleanup
  <2>4. Holds(queue_tasks, Next_response) => Holds(queue_tasks', Next_response)
    BY <2>1, <2>2, <2>3, HoldsPush
  <2> QED  BY <2>1, <2>3, <2>4
<1>5. CASE MainUpdate
  <2>1. /\ UNCHANGED <<queue_tasks_unhandled, workTask>>
        /\ UNCHANGED queue_tasks \/ queue_tasks' = Append(queue_tasks, Next_response)
    BY <1>5 DEF MainUpdate, Post, workVars
  <2> DEFINE q == Append(queue_tasks, Next_response)
  <2>2. Holds(q, Next_response)
    BY <1>1, TaskFacts, HoldsAppend
  <2> HIDE DEF q
  <2>3. UNCHANGED queue_tasks \/ queue_tasks' = q
    BY <2>1 DEF q
  <2> QED  BY <2>1, <2>2, <2>3
<1>6. CASE MainJoin
  <2>1. /\ UNCHANGED workTask
        /\ \/ UNCHANGED <<queue_tasks, queue_tasks_unhandled>>
           \/ queue_tasks' = queue_tasks_unhandled \o queue_tasks
    BY <1>6 DEF MainJoin, Reclaimed, workVars
  <2> DEFINE q == queue_tasks_unhandled \o queue_tasks
  <2>2. \A t : Holds(q, t) <=> Holds(queue_tasks_unhandled, t) \/ Holds(queue_tasks, t)
    BY <1>1, HoldsConcat
  <2> HIDE DEF q
  <2>3. UNCHANGED <<queue_tasks, queue_tasks_unhandled>> \/ queue_tasks' = q
    BY <2>1 DEF q
  <2> QED  BY <2>1, <2>2, <2>3
<1>7. CASE MainRelease
  <2>1. UNCHANGED <<queue_tasks_unhandled, workTask>>
    BY <1>7 DEF MainRelease, workVars
  <2>2. CASE UNCHANGED queue_tasks
    BY <2>1, <2>2
  <2>3. ASSUME NEW i \in DOMAIN queue_tasks_deferred,
               queue_tasks' = <<queue_tasks_deferred[i]>> \o queue_tasks
        PROVE  WakeUpDue'
    <3> DEFINE u == queue_tasks_deferred[i]
               q == <<u>> \o queue_tasks
    <3>1. u \in Task
      BY TaskFacts DEF TypeOK, QueueTypes
    <3> HIDE DEF u
    <3>2. \A t : Holds(q, t) <=> Holds(queue_tasks, t) \/ t = u
      BY <1>1, <3>1, HoldsPush
    <3>3. queue_tasks' = q
      BY <2>3 DEF u
    <3> HIDE DEF q
    <3> QED  BY <2>1, <3>2, <3>3
  <2>4. PICK s : ReleaseSlot(s, "done")
    BY <1>7 DEF MainRelease
  <2> QED  BY <2>2, <2>3, <2>4 DEF ReleaseSlot, PopDeferred
<1>8. CASE WorkerTake
  <2>1. /\ workTask # Next_response /\ UNCHANGED queue_tasks_unhandled
        /\ \/ UNCHANGED <<queue_tasks, workTask>>
           \/ /\ queue_tasks # <<>>
              /\ workTask' = Head(queue_tasks) /\ queue_tasks' = Tail(queue_tasks)
    BY <1>8, TaskFacts DEF WorkerTake, TypeOK, ThreadTypes
  <2>2. CASE UNCHANGED <<queue_tasks, workTask>>
    BY <2>1, <2>2
  <2>3. CASE /\ queue_tasks # <<>>
             /\ workTask' = Head(queue_tasks) /\ queue_tasks' = Tail(queue_tasks)
    <3>1. \A t : Holds(queue_tasks, t) <=> Holds(queue_tasks', t) \/ t = workTask'
      BY <1>1, <2>3, HoldsTail
    <3> QED  BY <2>1, <3>1
  <2> QED  BY <2>1, <2>2, <2>3
<1>9. CASE WorkerHandle
  <2>1. /\ workTask \in Task /\ UNCHANGED queue_tasks
        /\ \/ workTask.type = "read" /\ UNCHANGED queue_tasks_unhandled
           \/ queue_tasks_unhandled' = Append(queue_tasks_unhandled, workTask)
    BY <1>9 DEF WorkerHandle, AcceptsWhileYielding, TypeOK, ThreadTypes
  <2>2. workTask.type = "read" => workTask # Next_response
    BY <2>1, TaskFacts
  <2> DEFINE q == Append(queue_tasks_unhandled, workTask)
  <2>3. \A t : Holds(q, t) <=> Holds(queue_tasks_unhandled, t) \/ t = workTask
    BY <1>1, <2>1, HoldsAppend
  <2> HIDE DEF q
  <2>4. \/ workTask # Next_response /\ UNCHANGED queue_tasks_unhandled
        \/ queue_tasks_unhandled' = q
    BY <2>1, <2>2 DEF q
  <2> QED  BY <2>1, <2>3, <2>4
<1> QED
  <2>1. ~(MainDefer \/ MainReject \/ MainRead \/ MainCancel \/ MainNext \/ MainTake)
    BY DEF MainDefer, MainReject, MainRead, MainCancel, MainNext, MainTake, Handled
  <2>2. ~ \E s \in Slots : MainLaunch(s)
    BY DEF MainLaunch, Handled
  <2> QED  BY <1>2, <1>3, <1>4, <1>5, <1>6, <1>7, <1>8, <1>9, <2>1, <2>2, Movers

\* Every step keeps the wake-up due while a slot is processing.
LEMMA CycleInvStep ==
  ASSUME TypeOK, WorkerInv, TaskConservation, CycleInv, [Next]_vars
  PROVE  CycleInv'
<1>1. ASSUME mainPc' \in Cycling, BusySlots' # {} PROVE WakeUpDue'
  <2>1. BusySlots # {}
    BY <1>1, CycleEntries
  <2>2. CASE MainUpdate
    <3>1. queue_tasks' = Append(queue_tasks, Next_response) /\ queue_tasks \in Seq(Task)
      BY <2>1, <2>2 DEF MainUpdate, Post, TypeOK, QueueTypes
    <3> QED  BY <3>1, TaskFacts, HoldsAppend DEF WakeUpDue
  <2>3. CASE mainPc \in Cycling
    <3>1. WakeUpDue /\ mainPc \notin {"take", "handle"}
      BY <2>1, <2>3 DEF CycleInv, Cycling
    <3> QED  BY <3>1, WakeUpStaysDue
  <2> QED  BY <1>1, <2>2, <2>3, CycleEntries
<1>2. ASSUME mainPc' \in Asleep PROVE BusySlots' = {}
  <2>1. CASE mainPc \in Asleep
    BY <1>2, <2>1, CycleEntries DEF CycleInv
  <2>2. CASE MainWait /\ queue_tasks = <<>>
    <3>1. mainPc = "wait" /\ queue_tasks_unhandled = <<>> /\ workTask = NoTask
      BY <2>2 DEF MainWait, WorkerInv, TypeOK, ThreadTypes
    <3>2. ~WakeUpDue
      BY <2>2, <3>1, HoldsEmpty, TaskFacts DEF WakeUpDue
    <3> QED  BY <1>2, <3>1, <3>2, CycleEntries DEF CycleInv, Cycling
  <2> QED  BY <1>2, <2>1, <2>2, CycleEntries
<1> QED
  BY <1>1, <1>2 DEF CycleInv

\* For any number of clients and slots, a generation never stalls and never
\* loses its model: the loop does not wait, sleep or run callback_idle while a
\* slot is processing and no wake-up is queued (GenerationNeverStalls).
THEOREM GenerationsGoOn == Spec => []GenerationNeverStalls
<1>1. Init => CycleInv
  BY DEF Init, CycleInv, Cycling, Asleep, BusySlots
<1>2. TypeOK /\ WorkerInv /\ TaskConservation /\ CycleInv /\ [Next]_vars => CycleInv'
  BY CycleInvStep
<1>3. TypeOK /\ WorkerInv /\ CycleInv => GenerationNeverStalls
  <2> SUFFICES ASSUME TypeOK, WorkerInv, CycleInv PROVE GenerationNeverStalls
    OBVIOUS
  <2>1. ASSUME mainPc \in {"wait", "timed", "idle"}, WakeUpDue
        PROVE  Holds(queue_tasks, Next_response)
    <3>1. queue_tasks_unhandled = <<>> /\ workTask = NoTask
      BY <2>1 DEF WorkerInv, TypeOK, ThreadTypes
    <3> QED  BY <2>1, <3>1, HoldsEmpty, TaskFacts DEF WakeUpDue
  <2> QED  BY <2>1 DEF CycleInv, Cycling, Asleep, GenerationNeverStalls
<1> QED
  BY <1>1, <1>2, <1>3, TypeCorrect, TasksConserved, PTL DEF Spec

-----------------------------------------------------------------------------
(* Captures yield to requests.                                             *)

\* What a background capture leaves room for: the scheduler's own wake-up.
NothingElseQueued ==
  /\ \A i \in DOMAIN queue_tasks : queue_tasks[i] = Next_response
  /\ queue_tasks_deferred = <<>> /\ queue_tasks_unhandled = <<>>
  /\ mainTask.type \in {"none", "next"} /\ workTask.type \in {"none", "next"}

NoCancelQueued ==
  \A c \in Clients : /\ ~Holds(queue_tasks, Cancel(c))
                     /\ ~Holds(queue_tasks_unhandled, Cancel(c))

\* The strengthening of CaptureYields: no cancel waits among the declined
\* tasks, which yield_to_queue() puts back, either.
CaptureInv ==
  capture.live /\ ~capture.cancelled =>
    /\ ~idle_capture_stopped
    /\ capture.cancel_on_arrival => NothingElseQueued
    /\ ~capture.cancel_on_arrival => NoCancelQueued

\* A capture that goes on after a step went on before it, in the same mode,
\* or has just begun.
LEMMA CaptureGoesOn ==
  ASSUME TypeOK, [Next]_vars, capture'.live, ~capture'.cancelled
  PROVE  \/ MainBeginCapture
         \/ /\ capture.live /\ ~capture.cancelled
            /\ capture'.cancel_on_arrival = capture.cancel_on_arrival
            /\ UNCHANGED idle_capture_stopped
<1> USE DEF TypeOK, FlagTypes
<1>1. UNCHANGED idle_capture_stopped \/ Terminate
  BY DEF Next, MainStep, WorkerStep, vars, captureVars, Handled, ClientArrive,
     ClientWake, ClientPost, ClientCancel, MainStart, MainTake, MainLaunch,
     MainDefer, MainReject, MainRead, MainCancel, MainNext, MainUpdate, MainYield,
     MainEndWork, MainJoin, MainDecoded, MainRelease, MainReleased, MainWait,
     MainTimed, MainIdle, MainFallAsleep, MainSlept, MainWaking, MainStop,
     MainJoined, MainBeginCapture, MainEndCapture, WorkerEndCapture, EndCapture,
     CaptureTransferred, WorkerSleep, WorkerTake,
     WorkerHandle, WorkerCheck, WorkerWake, WorkerFinish
<1>2. ~Terminate
  BY DEF Terminate
<1>3. \A f \in BOOLEAN :
        \/ CancelIdleCapture(f) = capture
        \/ CancelIdleCapture(f).cancelled = TRUE
  BY DEF CancelIdleCapture
<1>4. CASE capture' \in {CancelIdleCapture(f) : f \in BOOLEAN}
  BY <1>1, <1>2, <1>3, <1>4
<1>5. CASE \E c \in Clients : ClientPost(c) \/ ClientCancel(c)
  BY <1>4, <1>5 DEF ClientPost, ClientCancel, Post, PostCancel
<1>6. CASE MainDefer
  BY <1>4, <1>6 DEF MainDefer, Defer
<1>7. CASE MainUpdate
  BY <1>1, <1>2, <1>4, <1>7 DEF MainUpdate, Post
<1>8. CASE MainFallAsleep \/ EndCapture
  BY <1>8 DEF MainFallAsleep, EndCapture
<1>9. CASE CaptureTransferred
  BY <1>1, <1>2, <1>9 DEF CaptureTransferred
<1>10. CASE UNCHANGED capture
  BY <1>1, <1>2, <1>10
<1> QED
  BY <1>2, <1>5, <1>6, <1>7, <1>8, <1>9, <1>10, Frames

\* A session begins where nothing is in its way.
LEMMA CaptureBegins ==
  ASSUME TypeOK, WorkerInv, MainBeginCapture
  PROVE  CaptureInv'
<1>1. UNCHANGED <<queueVars, idle_capture_stopped, mainTask, workTask>>
  BY DEF MainBeginCapture, mainVars, workVars
<1>2. workTask.type = "none"
  BY TaskFacts DEF MainBeginCapture, BeginCapture, CaptureAllowed, WorkerInv, TypeOK, ThreadTypes
<1>3. ASSUME NEW background \in BOOLEAN, BeginCapture("idle", background), mainPc = "idle"
      PROVE  CaptureInv'
  <2>1. /\ capture'.cancel_on_arrival /\ ~idle_capture_stopped
        /\ queue_tasks = <<>> /\ queue_tasks_deferred = <<>> /\ queue_tasks_unhandled = <<>>
    BY <1>3 DEF BeginCapture, CaptureAllowed
  <2>2. mainTask.type = "none"
    BY <1>3, TaskFacts DEF TypeOK, ThreadTypes
  <2> QED  BY <1>1, <1>2, <2>1, <2>2 DEF CaptureInv, NothingElseQueued, queueVars
<1>4. ASSUME NEW background \in BOOLEAN, BeginCapture("prompt_boundary", background),
             mainPc = "decoded"
      PROVE  CaptureInv'
  <2>1. /\ capture'.cancel_on_arrival /\ ~idle_capture_stopped
        /\ \A i \in DOMAIN queue_tasks : queue_tasks[i] = Next_response
        /\ queue_tasks_deferred = <<>> /\ queue_tasks_unhandled = <<>>
    BY <1>4 DEF BeginCapture, CaptureAllowed
  <2>2. mainTask.type = "none"
    BY <1>4, TaskFacts DEF TypeOK, ThreadTypes
  <2> QED  BY <1>1, <1>2, <2>1, <2>2 DEF CaptureInv, NothingElseQueued, queueVars
<1>5. ASSUME NEW background \in BOOLEAN, BeginCapture("displacement", background)
      PROVE  CaptureInv'
  <2>1. ~capture'.cancel_on_arrival /\ ~idle_capture_stopped /\ NoCancelQueued
    BY <1>5 DEF BeginCapture, CaptureAllowed, NoCancelQueued
  <2> QED  BY <1>1, <2>1 DEF CaptureInv, NoCancelQueued, queueVars
<1> QED
  BY <1>3, <1>4, <1>5 DEF MainBeginCapture

\* While a background capture goes on, a step leaves nothing in its way: every
\* arrival cancels it, and no thread works on a task with the session open.
LEMMA BackgroundYields ==
  ASSUME TypeOK, WorkerInv, [Next]_vars, NothingElseQueued,
         capture.live, capture.cancel_on_arrival, ~capture'.cancelled
  PROVE  NothingElseQueued'
<1> USE DEF NothingElseQueued
<1>1. \A f \in BOOLEAN : CancelIdleCapture(f).cancelled
  BY DEF CancelIdleCapture, TypeOK, FlagTypes
<1>2. ~ \E c \in Clients : ClientPost(c) \/ ClientCancel(c)
  BY <1>1 DEF ClientPost, ClientCancel, Post, PostCancel
<1>3. /\ ~(MainDefer \/ MainReject \/ MainRead \/ MainCancel \/ MainNext \/ WorkerHandle)
      /\ ~ \E s \in Slots : MainLaunch(s)
  BY DEF MainLaunch, MainDefer, MainReject, MainRead, MainCancel, MainNext,
         Handled, WorkerHandle
<1>4. CASE UNCHANGED <<queueVars, mainTask, workTask>>
  BY <1>4 DEF queueVars
<1>5. CASE MainTake
  <2>1. UNCHANGED <<queue_tasks_deferred, queue_tasks_unhandled, workTask>>
    BY <1>5 DEF MainTake, workVars
  <2>2. CASE queue_tasks # <<>> /\ mainTask' = Head(queue_tasks) /\ queue_tasks' = Tail(queue_tasks)
    <3>1. Head(queue_tasks) = Next_response
          /\ \A i \in DOMAIN Tail(queue_tasks) : Tail(queue_tasks)[i] = Next_response
      BY <2>2 DEF TypeOK, QueueTypes
    <3>2. Next_response.type = "next"
      BY DEF Next_response
    <3> QED  BY <2>1, <2>2, <3>1, <3>2
  <2> QED  BY <1>5, <2>1, <2>2 DEF MainTake
<1>6. CASE WorkerTake
  <2>1. UNCHANGED <<queue_tasks_deferred, queue_tasks_unhandled, mainTask>>
    BY <1>6 DEF WorkerTake, mainVars
  <2>2. CASE queue_tasks # <<>> /\ workTask' = Head(queue_tasks) /\ queue_tasks' = Tail(queue_tasks)
    <3>1. Head(queue_tasks) = Next_response
          /\ \A i \in DOMAIN Tail(queue_tasks) : Tail(queue_tasks)[i] = Next_response
      BY <2>2 DEF TypeOK, QueueTypes
    <3>2. Next_response.type = "next"
      BY DEF Next_response
    <3> QED  BY <2>1, <2>2, <3>1, <3>2
  <2> QED  BY <1>6, <2>1, <2>2 DEF WorkerTake
<1>7. CASE MainUpdate
  <2>1. UNCHANGED <<queueVars, mainTask, workTask>>
    BY <1>1, <1>7 DEF MainUpdate, Post, workVars, queueVars
  <2> QED  BY <1>4, <2>1
<1>8. CASE MainJoin
  <2>1. /\ UNCHANGED <<queue_tasks_deferred, mainTask, workTask>>
        /\ \/ UNCHANGED <<queue_tasks, queue_tasks_unhandled>>
           \/ queue_tasks' = queue_tasks_unhandled \o queue_tasks /\ queue_tasks_unhandled' = <<>>
    BY <1>8 DEF MainJoin, Reclaimed, workVars
  <2>2. <<>> \o queue_tasks = queue_tasks
    BY DEF TypeOK, QueueTypes
  <2> QED  BY <2>1, <2>2
<1>9. CASE MainRelease
  <2>1. UNCHANGED <<queue_tasks_unhandled, mainTask, workTask>>
    BY <1>9 DEF MainRelease, workVars
  <2>2. UNCHANGED <<queue_tasks, queue_tasks_deferred>>
    BY <1>9 DEF MainRelease, ReleaseSlot, PopDeferred
  <2> QED  BY <2>1, <2>2
<1> QED
  BY <1>2, <1>3, <1>4, <1>5, <1>6, <1>7, <1>8, <1>9, Movers

\* While a displacement capture goes on, a step queues no cancel.
LEMMA DisplacementYields ==
  ASSUME TypeOK, WorkerInv, [Next]_vars, NoCancelQueued, capture.live, ~capture'.cancelled
  PROVE  NoCancelQueued'
<1> USE DEF NoCancelQueued
<1>0. /\ queue_tasks \in Seq(Task) /\ queue_tasks_unhandled \in Seq(Task)
      /\ queue_tasks_deferred \in Seq(ClientTasks)
  BY DEF TypeOK, QueueTypes
<1>c. \A c \in Clients : /\ Cancel(c) \notin ClientTasks
                         /\ Cancel(c) # Next_response
  BY ClientTaskFacts DEF Cancel, Next_response
<1>1. CASE UNCHANGED queueVars
  BY <1>1 DEF queueVars
<1>2. ASSUME NEW t \in Task, \A c \in Clients : t # Cancel(c),
             \/ queue_tasks' = Append(queue_tasks, t)
             \/ queue_tasks' = <<t>> \o queue_tasks,
             UNCHANGED queue_tasks_unhandled
      PROVE  NoCancelQueued'
  <2>1. \A u : Holds(queue_tasks', u) <=> Holds(queue_tasks, u) \/ u = t
    <3>1. CASE queue_tasks' = Append(queue_tasks, t)
      BY <1>0, <3>1, HoldsAppend
    <3>2. CASE queue_tasks' = <<t>> \o queue_tasks
      BY <1>0, <3>2, HoldsPush
    <3> QED  BY <1>2, <3>1, <3>2
  <2> QED  BY <1>2, <2>1
<1>3. ASSUME NEW c \in Clients, ClientPost(c) PROVE NoCancelQueued'
  <2>1. TaskOf(c) \in Task /\ \A d \in Clients : TaskOf(c) # Cancel(d)
    BY <1>c, ClientTaskFacts, TaskFacts
  <2>2. /\ UNCHANGED queue_tasks_unhandled
        /\ \/ queue_tasks' = Append(queue_tasks, TaskOf(c))
           \/ queue_tasks' = <<TaskOf(c)>> \o queue_tasks
    BY <1>3 DEF ClientPost, Post
  <2> QED  BY <1>2, <2>1, <2>2
<1>4. ~ \E c \in Clients : ClientCancel(c)
  BY DEF ClientCancel, PostCancel, CancelIdleCapture, TypeOK, FlagTypes
<1>5. CASE MainTake \/ WorkerTake
  <2>1. /\ UNCHANGED queue_tasks_unhandled
        /\ \/ UNCHANGED queue_tasks
           \/ queue_tasks # <<>> /\ queue_tasks' = Tail(queue_tasks)
    BY <1>5 DEF MainTake, WorkerTake
  <2>2. CASE queue_tasks # <<>> /\ queue_tasks' = Tail(queue_tasks)
    <3>1. \A u : Holds(queue_tasks', u) => Holds(queue_tasks, u)
      BY <1>0, <2>2, HoldsTail
    <3> QED  BY <2>1, <3>1
  <2> QED  BY <2>1, <2>2
<1>6. ~MainDefer /\ ~MainCancel /\ ~WorkerHandle
  BY DEF MainDefer, MainCancel, Handled, WorkerHandle
<1>7. CASE MainUpdate
  <2>1. /\ UNCHANGED queue_tasks_unhandled
        /\ UNCHANGED queue_tasks \/ queue_tasks' = Append(queue_tasks, Next_response)
    BY <1>7 DEF MainUpdate, Post
  <2> QED  BY <1>2, <1>c, <2>1, TaskFacts
<1>8. CASE MainJoin
  <2>1. \/ UNCHANGED <<queue_tasks, queue_tasks_unhandled>>
        \/ queue_tasks' = queue_tasks_unhandled \o queue_tasks /\ queue_tasks_unhandled' = <<>>
    BY <1>8 DEF MainJoin, Reclaimed
  <2>2. CASE queue_tasks' = queue_tasks_unhandled \o queue_tasks /\ queue_tasks_unhandled' = <<>>
    <3>1. \A u : Holds(queue_tasks', u) <=> Holds(queue_tasks_unhandled, u) \/ Holds(queue_tasks, u)
      BY <1>0, <2>2, HoldsConcat
    <3>2. \A u : ~Holds(queue_tasks_unhandled', u)
      BY <2>2, HoldsEmpty
    <3> QED  BY <3>1, <3>2
  <2> QED  BY <2>1, <2>2
<1>9. CASE MainRelease
  <2>1. UNCHANGED queue_tasks_unhandled
    BY <1>9 DEF MainRelease
  <2>2. PICK s : PopDeferred(s)
    BY <1>9 DEF MainRelease, ReleaseSlot
  <2>3. CASE UNCHANGED queue_tasks
    BY <2>1, <2>3
  <2>4. ASSUME NEW i \in DOMAIN queue_tasks_deferred,
               queue_tasks' = <<queue_tasks_deferred[i]>> \o queue_tasks
        PROVE  NoCancelQueued'
    <3>1. queue_tasks_deferred[i] \in ClientTasks
      BY <1>0
    <3> QED  BY <1>2, <1>c, <2>1, <2>4, <3>1, TaskFacts
  <2> QED  BY <2>2, <2>3, <2>4 DEF PopDeferred
<1> QED
  BY <1>1, <1>3, <1>4, <1>5, <1>6, <1>7, <1>8, <1>9, Frames

\* A capture that goes on has no rival, for any number of requests and in every
\* interleaving of their posts with the threads: posts, deferrals and cancels
\* stop it, and a task is not worked on while it lasts (CaptureYields).
THEOREM CapturesYield == Spec => []CaptureYields
<1>1. Init => CaptureInv
  BY DEF Init, CaptureInv
<1>2. TypeOK /\ WorkerInv /\ CaptureInv /\ [Next]_vars => CaptureInv'
  <2> SUFFICES ASSUME TypeOK, WorkerInv, CaptureInv, [Next]_vars,
                      capture'.live, ~capture'.cancelled
               PROVE  CaptureInv'
    BY DEF CaptureInv
  <2>1. CASE MainBeginCapture
    BY <2>1, CaptureBegins
  <2>2. CASE /\ capture.live /\ ~capture.cancelled
             /\ capture'.cancel_on_arrival = capture.cancel_on_arrival
             /\ UNCHANGED idle_capture_stopped
    BY <2>2, BackgroundYields, DisplacementYields DEF CaptureInv
  <2> QED  BY <2>1, <2>2, CaptureGoesOn
<1>3. CaptureInv => CaptureYields
  BY DEF CaptureInv, CaptureYields, NothingElseQueued, NoCancelQueued
<1> QED
  BY <1>1, <1>2, <1>3, TypeCorrect, PTL DEF Spec

-----------------------------------------------------------------------------
(* Deferred tasks.                                                         *)

\* A completion that a thread or a queue will still bring to the main thread.
OnItsWay(c) ==
  Kind[c] = "work" /\ (InQueue(c) \/ InUnhandled(c) \/ WithMain(c) \/ WithWorker(c))

\* The strengthening of NoStrandedTask: only completions are deferred, and
\* while one is, a slot is busy or another completion is on its way, whose
\* launch makes one busy.
DeferredInv ==
  /\ \A i \in DOMAIN queue_tasks_deferred : queue_tasks_deferred[i].type = "work"
  /\ queue_tasks_deferred # <<>> => BusySlots # {} \/ \E c \in Clients : OnItsWay(c)

\* A release brings the next deferred completion on its way, and where nothing
\* gives up, fails or is sealed, nothing else leaves the deferred queue or the
\* way to the slots than by a launch.
LEMMA DeferredInvStep ==
  ASSUME TypeOK, WorkerInv, [Next]_vars, DeferredInv,
         Options \cap {"cancel", "reject", "lease"} = {}
  PROVE  DeferredInv'
<1> USE DEF DeferredInv
<1>0. /\ queue_tasks \in Seq(Task) /\ queue_tasks_unhandled \in Seq(Task)
      /\ queue_tasks_deferred \in Seq(ClientTasks)
  BY DEF TypeOK, QueueTypes
<1>d. /\ mainPc = "handle" => mainTask \in Task
      /\ mainPc # "handle" => mainTask = NoTask
      /\ workPc = "handle" => workTask \in Task
      /\ workPc # "handle" => workTask = NoTask
      /\ \A c \in Clients : /\ TaskOf(c) # NoTask /\ TaskOf(c) \in Task
                            /\ TaskOf(c).type = Kind[c] /\ TaskOf(c) # Next_response
  BY ClientTaskFacts, TaskFacts DEF TypeOK, ThreadTypes
<1>w. ASSUME \A c \in Clients : OnItsWay(c) => OnItsWay(c)',
             UNCHANGED <<queue_tasks_deferred, slots>>
      PROVE  DeferredInv'
  BY <1>w DEF BusySlots
<1> USE DEF OnItsWay, InQueue, InUnhandled, WithMain, WithWorker
<1>1. CASE UNCHANGED <<queueVars, mainTask, workTask, slots>>
  BY <1>w, <1>1 DEF queueVars
<1>2. ASSUME NEW c \in Clients, ClientPost(c) PROVE DeferredInv'
  <2>1. UNCHANGED <<queue_tasks_deferred, queue_tasks_unhandled, mainTask, workTask, slots>>
    BY <1>2 DEF ClientPost, mainVars, workVars, slotVars
  <2>2. \A t : Holds(queue_tasks, t) => Holds(queue_tasks', t)
    <3>1. CASE queue_tasks' = Append(queue_tasks, TaskOf(c))
      BY <1>0, <1>d, <3>1, HoldsAppend
    <3>2. CASE queue_tasks' = <<TaskOf(c)>> \o queue_tasks
      BY <1>0, <1>d, <3>2, HoldsPush
    <3> QED  BY <1>2, <3>1, <3>2 DEF ClientPost, Post
  <2> QED  BY <1>w, <2>1, <2>2
<1>3. ~(MainReject \/ \E c \in Clients : ClientCancel(c))
  BY DEF MainReject, ClientCancel
<1>4. ASSUME NEW s \in Slots, MainLaunch(s) PROVE DeferredInv'
  <2>1. /\ UNCHANGED queue_tasks_deferred /\ mainTask \in ClientTasks
        /\ slots' = [slots EXCEPT ![s] = mainTask.id]
    BY <1>4, <1>d, TaskFacts DEF MainLaunch, Handled
  <2>2. mainTask.id \in Clients /\ mainTask.id # None
    BY <2>1, TaskFacts, QueueAssumption
  <2>3. s \in BusySlots'
    BY <2>1, <2>2 DEF BusySlots, TypeOK, CycleTypes
  <2> QED  BY <2>1, <2>3
<1>5. CASE MainTake
  <2>1. UNCHANGED <<queue_tasks_deferred, queue_tasks_unhandled, workTask, slots>>
        /\ mainTask = NoTask
    BY <1>5, <1>d DEF MainTake, workVars, slotVars
  <2>2. CASE UNCHANGED <<queue_tasks, mainTask>>
    BY <1>w, <2>1, <2>2
  <2>3. CASE queue_tasks # <<>> /\ mainTask' = Head(queue_tasks) /\ queue_tasks' = Tail(queue_tasks)
    <3>1. \A t : Holds(queue_tasks, t) <=> Holds(queue_tasks', t) \/ t = mainTask'
      BY <1>0, <2>3, HoldsTail
    <3> QED  BY <1>w, <1>d, <2>1, <3>1
  <2> QED  BY <1>5, <2>2, <2>3 DEF MainTake
<1>6. CASE WorkerTake
  <2>1. UNCHANGED <<queue_tasks_deferred, queue_tasks_unhandled, mainTask, slots>>
        /\ workTask = NoTask
    BY <1>6, <1>d DEF WorkerTake, mainVars, slotVars
  <2>2. CASE UNCHANGED <<queue_tasks, workTask>>
    BY <1>w, <2>1, <2>2
  <2>3. CASE queue_tasks # <<>> /\ workTask' = Head(queue_tasks) /\ queue_tasks' = Tail(queue_tasks)
    <3>1. \A t : Holds(queue_tasks, t) <=> Holds(queue_tasks', t) \/ t = workTask'
      BY <1>0, <2>3, HoldsTail
    <3> QED  BY <1>w, <1>d, <2>1, <3>1
  <2> QED  BY <1>6, <2>2, <2>3 DEF WorkerTake
<1>7. CASE MainDefer
  <2>1. /\ mainTask \in ClientTasks /\ mainTask.type = "work"
        /\ BusySlots # {} /\ UNCHANGED slots
        /\ queue_tasks_deferred' = Append(queue_tasks_deferred, mainTask)
    BY <1>7, <1>d, TaskFacts DEF MainDefer, Defer, Handled, slotVars
  <2>2. \A i \in DOMAIN queue_tasks_deferred' : queue_tasks_deferred'[i].type = "work"
    BY <1>0, <2>1
  <2> QED  BY <2>1, <2>2 DEF BusySlots
<1>8. CASE MainRead \/ MainNext
  <2>1. /\ mainTask \in Task /\ mainTask.type \in {"read", "next"}
        /\ UNCHANGED <<queue_tasks, queue_tasks_deferred, queue_tasks_unhandled, workTask, slots>>
    BY <1>8, <1>d DEF MainRead, MainNext, Handled, slotVars, workVars
  <2> QED  BY <1>w, <1>d, <2>1
<1>9. CASE MainUpdate
  <2>1. /\ UNCHANGED <<queue_tasks_deferred, queue_tasks_unhandled, mainTask, workTask, slots>>
        /\ UNCHANGED queue_tasks \/ queue_tasks' = Append(queue_tasks, Next_response)
    BY <1>9 DEF MainUpdate, Post, workVars, slotVars
  <2>2. \A t : Holds(queue_tasks, t) => Holds(Append(queue_tasks, Next_response), t)
    BY <1>0, TaskFacts, HoldsAppend
  <2> QED  BY <1>w, <2>1, <2>2
<1>10. CASE MainJoin
  <2>1. /\ UNCHANGED <<queue_tasks_deferred, mainTask, workTask, slots>>
        /\ \/ UNCHANGED <<queue_tasks, queue_tasks_unhandled>>
           \/ queue_tasks' = queue_tasks_unhandled \o queue_tasks
    BY <1>10 DEF MainJoin, Reclaimed, workVars, slotVars
  <2>2. \A t : Holds(queue_tasks_unhandled \o queue_tasks, t) <=>
                 Holds(queue_tasks_unhandled, t) \/ Holds(queue_tasks, t)
    BY <1>0, HoldsConcat
  <2> QED  BY <1>w, <2>1, <2>2
<1>11. ASSUME NEW s, PopDeferred(s) PROVE DeferredInv'
  <2>1. CASE queue_tasks_deferred = <<>> /\ UNCHANGED queue_tasks_deferred
    BY <2>1
  <2>2. ASSUME NEW i \in DOMAIN queue_tasks_deferred,
               queue_tasks' = <<queue_tasks_deferred[i]>> \o queue_tasks,
               queue_tasks_deferred' = RemoveAt(queue_tasks_deferred, i)
        PROVE  DeferredInv'
    <3> DEFINE u == queue_tasks_deferred[i]
    <3>1. u \in ClientTasks /\ u \in Task /\ u.type = "work"
      BY <1>0, TaskFacts
    <3>2. /\ queue_tasks_deferred' \in Seq(ClientTasks)
          /\ \A t : Holds(queue_tasks_deferred', t) => Holds(queue_tasks_deferred, t)
      BY <1>0, <2>2, HoldsRemove
    <3>3. \A j \in DOMAIN queue_tasks_deferred' : queue_tasks_deferred'[j].type = "work"
      BY <3>2 DEF Holds
    <3> HIDE DEF u
    <3>4. Holds(<<u>> \o queue_tasks, u)
      BY <1>0, <3>1, HoldsPush
    <3>5. Holds(queue_tasks', u)
      BY <2>2, <3>4 DEF u
    <3>6. \E c \in Clients : OnItsWay(c)'
      <4>1. PICK c \in Clients : u = TaskOf(c)
        BY <3>1, TaskFacts
      <4> QED  BY <1>d, <3>1, <3>5, <4>1
    <3> QED  BY <3>3, <3>6
  <2> QED  BY <1>11, <2>1, <2>2 DEF PopDeferred
<1>12. CASE MainRelease
  BY <1>11, <1>12 DEF MainRelease, ReleaseSlot
<1>13. CASE MainCancel
  <2>1. /\ mainTask \in Task /\ mainTask.type = "cancel"
        /\ UNCHANGED <<queue_tasks_unhandled, workTask>>
    BY <1>13, <1>d DEF MainCancel, Handled, workVars
  <2>2. CASE \E s \in BusySlots : ReleaseSlot(s, "cancelled")
    BY <1>11, <2>2 DEF ReleaseSlot
  <2>3. CASE UNCHANGED <<queue_tasks, queue_tasks_deferred, slots>>
    BY <1>w, <1>d, <2>1, <2>3
  <2> QED  BY <1>13, <2>2, <2>3 DEF MainCancel, slotVars
<1>14. CASE WorkerHandle
  <2>1. /\ workTask \in Task
        /\ UNCHANGED <<queue_tasks, queue_tasks_deferred, mainTask, slots>>
        /\ \/ workTask.type = "read" /\ UNCHANGED queue_tasks_unhandled
           \/ queue_tasks_unhandled' = Append(queue_tasks_unhandled, workTask)
    BY <1>14, <1>d DEF WorkerHandle, AcceptsWhileYielding, mainVars, slotVars
  <2>2. \A t : Holds(Append(queue_tasks_unhandled, workTask), t) <=>
                 Holds(queue_tasks_unhandled, t) \/ t = workTask
    BY <1>0, <2>1, HoldsAppend
  <2> QED  BY <1>w, <1>d, <2>1, <2>2
<1> QED
  BY <1>1, <1>2, <1>3, <1>4, <1>5, <1>6, <1>7, <1>8, <1>9, <1>10, <1>12,
     <1>13, <1>14, Movers

\* Where no request gives up, no launch fails and no lease seals an idle slot,
\* a deferred task never waits in an idle server: any number of completions
\* share any number of slots, with any pins (NoStrandedTask).
THEOREM NobodyStranded ==
  ASSUME Options \cap {"cancel", "reject", "lease"} = {}
  PROVE  Spec => []NoStrandedTask
<1>1. Init => DeferredInv
  BY DEF Init, DeferredInv
<1>2. TypeOK /\ WorkerInv /\ DeferredInv /\ [Next]_vars => DeferredInv'
  BY DeferredInvStep
<1>3. TypeOK /\ WorkerInv /\ DeferredInv => NoStrandedTask
  <2> SUFFICES ASSUME TypeOK, WorkerInv, DeferredInv, mainPc \in {"wait", "timed", "idle"},
                      queue_tasks = <<>>, BusySlots = {}
               PROVE  queue_tasks_deferred = <<>>
    BY DEF NoStrandedTask
  <2>1. queue_tasks_unhandled = <<>> /\ workTask = NoTask /\ mainTask = NoTask
    BY DEF WorkerInv, TypeOK, ThreadTypes
  <2>2. ~ \E c \in Clients : OnItsWay(c)
    BY <2>1, ClientTaskFacts, HoldsEmpty
       DEF OnItsWay, InQueue, InUnhandled, WithMain, WithWorker
  <2> QED  BY <2>2 DEF DeferredInv
<1> QED
  BY <1>1, <1>2, <1>3, TypeCorrect, PTL DEF Spec

-----------------------------------------------------------------------------
(* The order of tasks that wait.                                           *)

\* The order in one queue put in front of another.
LEMMA BeforeConcat ==
  ASSUME NEW T, NEW s \in Seq(T), NEW r \in Seq(T)
  PROVE  \A t, u : Before(s \o r, t, u) <=>
                     Before(s, t, u) \/ Before(r, t, u) \/ (Holds(s, t) /\ Holds(r, u))
<1> DEFINE w == s \o r
           n == Len(s)
<1>1. /\ n \in Nat /\ Len(r) \in Nat
      /\ DOMAIN w = 1..(n + Len(r)) /\ DOMAIN s = 1..n /\ DOMAIN r = 1..Len(r)
  OBVIOUS
<1>2. /\ \A i \in DOMAIN s : i \in DOMAIN w /\ w[i] = s[i]
      /\ \A i \in DOMAIN r : n + i \in DOMAIN w /\ w[n + i] = r[i]
  BY <1>1
<1>3. \A j \in DOMAIN w : \/ j \in DOMAIN s /\ w[j] = s[j]
                          \/ j - n \in DOMAIN r /\ w[j] = r[j - n] /\ j \notin DOMAIN s
  BY <1>1
<1> HIDE DEF w, n
<1> TAKE t, u
<1>4. Before(s, t, u) => Before(w, t, u)
  BY <1>2 DEF Before
<1>5. ASSUME Before(r, t, u) PROVE Before(w, t, u)
  <2>1. PICK i \in DOMAIN r, j \in DOMAIN r : i < j /\ r[i] = t /\ r[j] = u
    BY <1>5 DEF Before
  <2>2. n + i < n + j
    BY <1>1, <2>1
  <2> QED  BY <1>2, <2>1, <2>2 DEF Before
<1>6. ASSUME Holds(s, t), Holds(r, u) PROVE Before(w, t, u)
  <2>1. PICK i \in DOMAIN s, j \in DOMAIN r : s[i] = t /\ r[j] = u
    BY <1>6 DEF Holds
  <2>2. i < n + j
    BY <1>1, <2>1
  <2> QED  BY <1>2, <2>1, <2>2 DEF Before
<1>7. ASSUME Before(w, t, u)
      PROVE  Before(s, t, u) \/ Before(r, t, u) \/ (Holds(s, t) /\ Holds(r, u))
  <2>1. PICK i \in DOMAIN w, j \in DOMAIN w : i < j /\ w[i] = t /\ w[j] = u
    BY <1>7 DEF Before
  <2>2. CASE j \in DOMAIN s
    <3>1. i \in DOMAIN s
      BY <1>1, <2>1, <2>2
    <3> QED  BY <1>2, <2>1, <2>2, <3>1 DEF Before
  <2>3. CASE j - n \in DOMAIN r /\ w[j] = r[j - n] /\ i \in DOMAIN s /\ w[i] = s[i]
    BY <2>1, <2>3 DEF Holds
  <2>4. CASE j - n \in DOMAIN r /\ w[j] = r[j - n] /\ i - n \in DOMAIN r /\ w[i] = r[i - n]
    <3>1. i - n < j - n
      BY <1>1, <2>1
    <3> QED  BY <2>1, <2>4, <3>1 DEF Before
  <2> QED  BY <1>3, <2>1, <2>2, <2>3, <2>4
<1> QED  BY <1>4, <1>5, <1>6, <1>7 DEF w

\* One task alone is in no order, and holds itself.
LEMMA BeforeOne ==
  ASSUME NEW t
  PROVE  /\ \A u, v : ~Before(<<t>>, u, v) /\ ~Before(<<>>, u, v)
         /\ \A u : Holds(<<t>>, u) <=> u = t
BY DEF Before, Holds

\* Taking the first task leaves the others in their order.
LEMMA BeforeTail ==
  ASSUME NEW T, NEW s \in Seq(T), s # <<>>
  PROVE  \A t, u : Before(Tail(s), t, u) => Before(s, t, u)
<1> DEFINE w == Tail(s)
<1>1. \A i \in DOMAIN w : i \in Int /\ w[i] = s[i + 1] /\ i + 1 \in DOMAIN s
  OBVIOUS
<1> HIDE DEF w
<1>2. \A i, j \in DOMAIN w : i < j => i + 1 < j + 1
  BY <1>1
<1> QED  BY <1>1, <1>2 DEF Before, w

\* So does erasing any of them.
LEMMA BeforeRemove ==
  ASSUME NEW T, NEW s \in Seq(T), NEW k \in DOMAIN s
  PROVE  \A t, u : Before(RemoveAt(s, k), t, u) => Before(s, t, u)
<1> DEFINE a == SubSeq(s, 1, k - 1)
           b == SubSeq(s, k + 1, Len(s))
           n == Len(s)
<1>1. /\ n \in Nat /\ k \in 1..n /\ DOMAIN s = 1..n
      /\ a \in Seq(T) /\ b \in Seq(T)
  OBVIOUS
<1>2. \A i \in DOMAIN a : i \in 1..(k - 1) /\ a[i] = s[i]
  OBVIOUS
<1>3. \A i \in DOMAIN b : i \in 1..(n - k) /\ b[i] = s[k + i]
  OBVIOUS
<1> HIDE DEF a, b, n
<1>4. \A t, u : Before(a, t, u) => Before(s, t, u)
  <2>1. \A i \in DOMAIN a : i \in DOMAIN s
    BY <1>1, <1>2
  <2> QED  BY <1>2, <2>1 DEF Before
<1>5. \A t, u : Before(b, t, u) => Before(s, t, u)
  <2>1. /\ \A i \in DOMAIN b : k + i \in DOMAIN s
        /\ \A i, j \in DOMAIN b : i < j => k + i < k + j
    BY <1>1, <1>3
  <2> QED  BY <1>3, <2>1 DEF Before
<1>6. \A t, u : Holds(a, t) /\ Holds(b, u) => Before(s, t, u)
  <2>1. \A i \in DOMAIN a, j \in DOMAIN b :
          i \in DOMAIN s /\ k + j \in DOMAIN s /\ i < k + j
    BY <1>1, <1>2, <1>3
  <2> QED  BY <1>2, <1>3, <2>1 DEF Before, Holds
<1>7. RemoveAt(s, k) = a \o b
  BY DEF RemoveAt, a, b
<1> QED  BY <1>1, <1>4, <1>5, <1>6, <1>7, BeforeConcat

\* And so does cleanup_pending_task.
LEMMA BeforeCleanup ==
  ASSUME NEW T, NEW s \in Seq(T), NEW v
  PROVE  \A t, u : Before(Cleanup(s, v), t, u) => Before(s, t, u)
<1>1. CASE Holds(s, v)
  <2> DEFINE k == CHOOSE i \in DOMAIN s : s[i] = v
  <2>1. k \in DOMAIN s /\ Cleanup(s, v) = RemoveAt(s, k)
    BY <1>1 DEF Holds, Cleanup
  <2> HIDE DEF k
  <2> QED  BY <2>1, BeforeRemove
<1>2. CASE ~Holds(s, v)
  BY <1>2 DEF Cleanup
<1> QED  BY <1>1, <1>2

\* In a queue without duplicates the order is one.
LEMMA BeforeOnce ==
  ASSUME NEW T, NEW s \in Seq(T), NoDuplicates(s), NEW t \in ClientTasks, NEW u \in ClientTasks,
         Before(s, t, u)
  PROVE  Holds(s, t) /\ Holds(s, u) /\ ~Before(s, u, t)
<1>1. PICK i \in DOMAIN s, j \in DOMAIN s : i < j /\ s[i] = t /\ s[j] = u
  BY DEF Before
<1>2. ASSUME NEW k \in DOMAIN s, NEW l \in DOMAIN s, k < l, s[k] = u, s[l] = t
      PROVE  FALSE
  <2>1. k = j /\ l = i
    BY <1>1, <1>2 DEF NoDuplicates
  <2>2. i \in Int /\ j \in Int
    OBVIOUS
  <2> QED  BY <1>1, <1>2, <2>1, <2>2
<1> QED  BY <1>1, <1>2 DEF Before, Holds

\* The line that tasks form in two queues with one in between.
LineOf(U, w, q) == U \o (IF w = NoTask THEN <<>> ELSE <<w>>) \o q

\* What it holds, and in which order.
LEMMA LineParts ==
  ASSUME NEW U \in Seq(Task), NEW w \in Task \cup {NoTask}, NEW q \in Seq(Task),
         NEW L, L = LineOf(U, w, q)
  PROVE  /\ L \in Seq(Task)
         /\ \A t \in ClientTasks : Holds(L, t) <=> Holds(U, t) \/ t = w \/ Holds(q, t)
         /\ \A t, u \in ClientTasks :
              Before(L, t, u) <=>
                \/ Before(U, t, u)
                \/ Holds(U, t) /\ (u = w \/ Holds(q, u))
                \/ t = w /\ Holds(q, u)
                \/ Before(q, t, u)
         /\ /\ NoDuplicates(U) /\ NoDuplicates(q)
            /\ \A t \in ClientTasks : ~(Holds(U, t) /\ (t = w \/ Holds(q, t)))
            /\ ~(w \in ClientTasks /\ Holds(q, w))
            => NoDuplicates(L)
<1> DEFINE h == IF w = NoTask THEN <<>> ELSE <<w>>
<1>1. /\ h \in Seq(Task) /\ NoDuplicates(h)
      /\ \A t \in ClientTasks : Holds(h, t) <=> t = w
      /\ \A t, u : ~Before(h, t, u)
  <2>1. NoTask \notin ClientTasks
    BY TaskFacts
  <2>2. CASE w = NoTask
    <3>1. h = <<>> /\ <<>> \in Seq(Task) /\ w \notin ClientTasks
      BY <2>1, <2>2
    <3> QED  BY <3>1, HoldsEmpty, BeforeOne
  <2>3. CASE w # NoTask
    <3>1. h = <<w>> /\ w \in Task
      BY <2>3
    <3>2. NoDuplicates(<<w>>)
      BY DEF NoDuplicates
    <3>3. <<w>> \in Seq(Task)
      BY <3>1
    <3> QED  BY <3>1, <3>2, <3>3, BeforeOne
  <2> QED  BY <2>2, <2>3
<1> HIDE DEF h
<1>2. /\ U \o h \in Seq(Task)
      /\ \A t : Holds(U \o h, t) <=> Holds(U, t) \/ Holds(h, t)
      /\ \A t, u : Before(U \o h, t, u) <=>
                     Before(U, t, u) \/ Before(h, t, u) \/ (Holds(U, t) /\ Holds(h, u))
      /\ NoDuplicates(U) /\ (\A t \in ClientTasks : ~(Holds(U, t) /\ Holds(h, t)))
           => NoDuplicates(U \o h)
  BY <1>1, HoldsConcat, BeforeConcat
<1> DEFINE g == U \o h
<1>3. L = g \o q
  BY DEF LineOf, h
<1> HIDE DEF g
<1>4. /\ L \in Seq(Task)
      /\ \A t : Holds(L, t) <=> Holds(g, t) \/ Holds(q, t)
      /\ \A t, u : Before(L, t, u) <=>
                     Before(g, t, u) \/ Before(q, t, u) \/ (Holds(g, t) /\ Holds(q, u))
      /\ NoDuplicates(g) /\ NoDuplicates(q) /\ (\A t \in ClientTasks : ~(Holds(g, t) /\ Holds(q, t)))
           => NoDuplicates(L)
  <2>1. g \in Seq(Task)
    BY <1>2 DEF g
  <2>2. /\ L \in Seq(Task)
        /\ \A t : Holds(L, t) <=> Holds(g, t) \/ Holds(q, t)
        /\ NoDuplicates(g) /\ NoDuplicates(q) /\ (\A t \in ClientTasks : ~(Holds(g, t) /\ Holds(q, t)))
             => NoDuplicates(L)
    BY <1>3, <2>1, HoldsConcat
  <2>3. \A t, u : Before(L, t, u) <=>
                   Before(g, t, u) \/ Before(q, t, u) \/ (Holds(g, t) /\ Holds(q, u))
    BY <1>3, <2>1, BeforeConcat
  <2> QED  BY <2>2, <2>3
<1>5. /\ \A t : Holds(g, t) <=> Holds(U, t) \/ Holds(h, t)
      /\ \A t, u : Before(g, t, u) <=>
                     Before(U, t, u) \/ Before(h, t, u) \/ (Holds(U, t) /\ Holds(h, u))
      /\ NoDuplicates(U) /\ (\A t \in ClientTasks : ~(Holds(U, t) /\ Holds(h, t)))
           => NoDuplicates(g)
  BY <1>2 DEF g
<1>6. \A t \in ClientTasks : Holds(L, t) <=> Holds(U, t) \/ t = w \/ Holds(q, t)
  BY <1>1, <1>4, <1>5
<1>7. ASSUME NEW t \in ClientTasks, NEW u \in ClientTasks
      PROVE  Before(L, t, u) <=>
                \/ Before(U, t, u)
                \/ Holds(U, t) /\ (u = w \/ Holds(q, u))
                \/ t = w /\ Holds(q, u)
                \/ Before(q, t, u)
  BY <1>1, <1>4, <1>5
<1>8. ASSUME NoDuplicates(U), NoDuplicates(q),
             \A t \in ClientTasks : ~(Holds(U, t) /\ (t = w \/ Holds(q, t))),
             ~(w \in ClientTasks /\ Holds(q, w))
      PROVE  NoDuplicates(L)
  BY <1>1, <1>4, <1>5, <1>8
<1> QED  BY <1>4, <1>6, <1>7, <1>8

\* The first task of a queue is before every other.
LEMMA BeforeHead ==
  ASSUME NEW T, NEW s \in Seq(T), s # <<>>, NEW u, Holds(Tail(s), u)
  PROVE  Before(s, Head(s), u)
<1>1. PICK i \in DOMAIN Tail(s) : Tail(s)[i] = u
  BY DEF Holds
<1>2. /\ 1 \in DOMAIN s /\ i + 1 \in DOMAIN s /\ 1 < i + 1
      /\ s[1] = Head(s) /\ s[i + 1] = u
  BY <1>1
<1> QED  BY <1>2 DEF Before

\* The line holds what the three parts hold, once.
LEMMA LineNow ==
  ASSUME TypeOK, TaskConservation
  PROVE  /\ queue_tasks \in Seq(Task) /\ queue_tasks_unhandled \in Seq(Task)
         /\ workTask \in Task \cup {NoTask}
         /\ Line \in Seq(Task) /\ NoDuplicates(Line)
<1>1. /\ queue_tasks \in Seq(Task) /\ queue_tasks_unhandled \in Seq(Task)
      /\ workTask \in Task \cup {NoTask}
  BY DEF TypeOK, QueueTypes, ThreadTypes
<1>2. \A t \in ClientTasks : \E c \in Clients : t = TaskOf(c)
  BY DEF ClientTasks
<1>3. /\ NoDuplicates(queue_tasks_unhandled) /\ NoDuplicates(queue_tasks)
      /\ \A t \in ClientTasks :
           ~(Holds(queue_tasks_unhandled, t) /\ (t = workTask \/ Holds(queue_tasks, t)))
      /\ ~(workTask \in ClientTasks /\ Holds(queue_tasks, workTask))
  BY <1>2 DEF TaskConservation, InOnePlace, InQueue, InUnhandled, WithWorker
<1>4. Line = LineOf(queue_tasks_unhandled, workTask, queue_tasks)
  BY DEF Line, LineOf
<1> QED  BY <1>1, <1>3, <1>4, LineParts

\* The line after a step, in its parts.
LEMMA LineThen ==
  ASSUME TypeOK'
  PROVE  \A t, u \in ClientTasks :
           Before(Line', t, u) <=>
             \/ Before(queue_tasks_unhandled', t, u)
             \/ Holds(queue_tasks_unhandled', t) /\ (u = workTask' \/ Holds(queue_tasks', u))
             \/ t = workTask' /\ Holds(queue_tasks', u)
             \/ Before(queue_tasks', t, u)
<1>1. /\ queue_tasks' \in Seq(Task) /\ queue_tasks_unhandled' \in Seq(Task)
      /\ workTask' \in Task \cup {NoTask}
  BY DEF TypeOK, QueueTypes, ThreadTypes
<1>2. Line' = LineOf(queue_tasks_unhandled', workTask', queue_tasks')
  BY DEF Line, LineOf
<1> QED  BY <1>1, <1>2, LineParts

\* A step puts no task before another it was not before: one that arrives was
\* not in the line, and one that changes hands keeps its place.
LEMMA OrderStep ==
  ASSUME TypeOK, TypeOK', WorkerInv, ClientInv, TaskConservation, [Next]_vars,
         NEW a \in ClientTasks, NEW b \in ClientTasks,
         Holds(Line, a), Holds(Line, b), Before(Line', a, b)
  PROVE  Before(Line, a, b)
<1> DEFINE U == queue_tasks_unhandled
           q == queue_tasks
<1>0. q \in Seq(Task) /\ U \in Seq(Task) /\ queue_tasks_deferred \in Seq(ClientTasks)
      /\ workTask \in Task \cup {NoTask}
  BY LineNow DEF TypeOK, QueueTypes
<1>h. /\ Holds(U, a) \/ a = workTask \/ Holds(q, a)
      /\ Holds(U, b) \/ b = workTask \/ Holds(q, b)
      /\ Before(Line, a, b) <=>
                \/ Before(U, a, b)
                \/ Holds(U, a) /\ (b = workTask \/ Holds(q, b))
                \/ a = workTask /\ Holds(q, b)
                \/ Before(q, a, b)
  <2>1. Line = LineOf(U, workTask, q)
    BY DEF Line, LineOf
  <2> HIDE DEF U, q
  <2> QED  BY <1>0, <2>1, LineParts
<1>p. \/ Before(U', a, b)
      \/ Holds(U', a) /\ (b = workTask' \/ Holds(q', b))
      \/ a = workTask' /\ Holds(q', b)
      \/ Before(q', a, b)
  BY LineThen
<1>n. /\ a # NoTask /\ b # NoTask /\ a # Next_response /\ b # Next_response
      /\ \A c \in Clients : a # Cancel(c) /\ b # Cancel(c)
  BY ClientTaskFacts, TaskFacts
<1>i. \A x, y \in Seq(Task) :
        /\ x \o y \in Seq(Task)
        /\ \A t, u : Before(x \o y, t, u) <=>
                       Before(x, t, u) \/ Before(y, t, u) \/ (Holds(x, t) /\ Holds(y, u))
        /\ \A t : Holds(x \o y, t) <=> Holds(x, t) \/ Holds(y, t)
  BY HoldsConcat, BeforeConcat
<1>e. \A t \in Task : <<t>> \in Seq(Task) /\ Append(q, t) = q \o <<t>> /\ Append(U, t) = U \o <<t>>
  BY <1>0
<1> HIDE DEF U, q
<1>1. CASE UNCHANGED <<U, q, workTask>>
  BY <1>1, <1>h, <1>p
<1>2. ASSUME NEW t \in Task, t # a, t # b,
             \/ q' = q \o <<t>>
             \/ q' = <<t>> \o q,
             UNCHANGED <<U, workTask>>
      PROVE  Before(Line, a, b)
  <2>1. <<t>> \in Seq(Task)
    BY <1>e
  <2>2. /\ Before(q', a, b) => Before(q, a, b)
        /\ Holds(q', a) => Holds(q, a)
        /\ Holds(q', b) => Holds(q, b)
    <3>1. CASE q' = q \o <<t>>
      BY <1>0, <1>2, <1>i, <2>1, <3>1, BeforeOne
    <3>2. CASE q' = <<t>> \o q
      BY <1>0, <1>2, <1>i, <2>1, <3>2, BeforeOne
    <3> QED  BY <1>2, <3>1, <3>2
  <2> QED  BY <1>2, <1>h, <1>p, <2>2
<1>3. ASSUME NEW c \in Clients, ClientPost(c) PROVE Before(Line, a, b)
  <2>1. TaskOf(c) \in Task /\ UNCHANGED <<U, workTask>>
        /\ (q' = q \o <<TaskOf(c)>> \/ q' = <<TaskOf(c)>> \o q)
    BY <1>3, <1>e, ClientTaskFacts, TaskFacts DEF ClientPost, Post, workVars, U, q
  <2>2. outcome[c] = "none"
    BY <1>3 DEF ClientPost, ClientInv
  <2>3. ~Holds(U, TaskOf(c)) /\ ~Holds(q, TaskOf(c)) /\ workTask # TaskOf(c)
    BY <2>2 DEF TaskConservation, InQueue, InUnhandled, WithWorker, U, q
  <2> QED  BY <1>2, <1>h, <2>1, <2>3
<1>4. ASSUME NEW c \in Clients, ClientCancel(c) PROVE Before(Line, a, b)
  <2> DEFINE r == Cleanup(q, TaskOf(c))
  <2>1. q' = <<Cancel(c)>> \o r /\ U' = Cleanup(U, TaskOf(c)) /\ UNCHANGED workTask
    BY <1>4 DEF ClientCancel, PostCancel, workVars, U, q
  <2>2. NoDuplicates(q) /\ NoDuplicates(U) /\ TaskOf(c) \in ClientTasks
    BY ClientTaskFacts DEF TaskConservation, U, q
  <2>3. /\ r \in Seq(Task)
        /\ \A t : Holds(r, t) => Holds(q, t)
        /\ \A t, u : Before(r, t, u) => Before(q, t, u)
    BY <1>0, <2>2, HoldsCleanup, BeforeCleanup
  <2>4. /\ \A t : Holds(U', t) => Holds(U, t)
        /\ \A t, u : Before(U', t, u) => Before(U, t, u)
    BY <1>0, <2>1, <2>2, HoldsCleanup, BeforeCleanup
  <2> HIDE DEF r
  <2>5. Cancel(c) \in Task /\ <<Cancel(c)>> \in Seq(Task)
    BY <1>e, ClientTaskFacts
  <2>6. /\ Before(q', a, b) => Before(q, a, b)
        /\ Holds(q', b) => Holds(q, b)
    <3> DEFINE o == <<Cancel(c)>>
    <3>1. /\ o \in Seq(Task) /\ q' = o \o r
          /\ \A u, v : ~Before(o, u, v)
          /\ \A u : Holds(o, u) <=> u = Cancel(c)
      BY <2>1, <2>5, BeforeOne
    <3> HIDE DEF o
    <3>2. /\ Before(q', a, b) => Before(o, a, b) \/ Before(r, a, b) \/ (Holds(o, a) /\ Holds(r, b))
          /\ Holds(q', b) => Holds(o, b) \/ Holds(r, b)
      BY <1>i, <2>3, <3>1
    <3> QED  BY <1>n, <2>3, <3>1, <3>2
  <2> QED  BY <1>h, <1>p, <2>1, <2>4, <2>6
<1>5. CASE MainTake
  <2>1. UNCHANGED <<U, workTask>> /\ (UNCHANGED q \/ (q # <<>> /\ q' = Tail(q)))
    BY <1>5 DEF MainTake, workVars, U, q
  <2>2. CASE q # <<>> /\ q' = Tail(q)
    <3>1. /\ Before(q', a, b) => Before(q, a, b)
          /\ Holds(q', b) => Holds(q, b)
      BY <1>0, <2>2, HoldsTail, BeforeTail
    <3> QED  BY <1>h, <1>p, <2>1, <3>1
  <2> QED  BY <1>1, <2>1, <2>2
<1>6. CASE WorkerTake
  <2>1. /\ UNCHANGED U
        /\ \/ UNCHANGED <<q, workTask>>
           \/ q # <<>> /\ workTask' = Head(q) /\ q' = Tail(q)
    BY <1>6 DEF WorkerTake, U, q
  <2>2. CASE q # <<>> /\ workTask' = Head(q) /\ q' = Tail(q)
    <3>1. /\ Before(q', a, b) => Before(q, a, b)
          /\ \A t : Holds(q, t) <=> Holds(q', t) \/ t = workTask'
      BY <1>0, <2>2, HoldsTail, BeforeTail
    <3>2. Holds(q', b) => Before(q, workTask', b)
      BY <1>0, <2>2, BeforeHead
    <3> QED  BY <1>h, <1>p, <2>1, <3>1, <3>2
  <2> QED  BY <1>1, <2>1, <2>2
<1>7. CASE WorkerHandle
  <2>1. /\ workTask \in Task /\ workTask' = NoTask /\ UNCHANGED q
        /\ UNCHANGED U \/ U' = U \o <<workTask>>
    BY <1>7, <1>e DEF WorkerHandle, TypeOK, ThreadTypes, U, q
  <2>2. CASE UNCHANGED U
    BY <1>h, <1>n, <1>p, <2>1, <2>2
  <2>3. CASE U' = U \o <<workTask>>
    <3>1. <<workTask>> \in Seq(Task)
      BY <1>e, <2>1
    <3>2. /\ Before(U', a, b) => Before(U, a, b) \/ (Holds(U, a) /\ b = workTask)
          /\ Holds(U', a) => Holds(U, a) \/ a = workTask
      <4> DEFINE o == <<workTask>>
      <4>1. /\ o \in Seq(Task) /\ U' = U \o o
            /\ \A u, v : ~Before(o, u, v)
            /\ \A u : Holds(o, u) <=> u = workTask
        BY <2>3, <3>1, BeforeOne
      <4> HIDE DEF o
      <4> QED  BY <1>0, <1>i, <4>1
    <3> QED  BY <1>h, <1>n, <1>p, <2>1, <3>2
  <2> QED  BY <2>1, <2>2, <2>3
<1>8. CASE MainUpdate
  <2>1. UNCHANGED <<U, workTask>> /\ (UNCHANGED q \/ q' = q \o <<Next_response>>)
    BY <1>8, <1>e, TaskFacts DEF MainUpdate, Post, workVars, U, q
  <2> QED  BY <1>1, <1>2, <1>n, <2>1, TaskFacts
<1>9. CASE MainJoin
  <2>1. UNCHANGED workTask /\ (UNCHANGED <<U, q>> \/ (~worker.busy /\ q' = U \o q /\ U' = <<>>))
    BY <1>9 DEF MainJoin, Reclaimed, WorkerActive, workVars, U, q
  <2>2. CASE ~worker.busy /\ q' = U \o q /\ U' = <<>>
    <3>1. workTask = NoTask
      BY <2>2 DEF WorkerInv, TypeOK, ThreadTypes
    <3>2. Before(q', a, b) => Before(U, a, b) \/ Before(q, a, b) \/ (Holds(U, a) /\ Holds(q, b))
      BY <1>0, <1>i, <2>2
    <3>3. ~Before(U', a, b) /\ ~Holds(U', a)
      BY <2>2, BeforeOne, HoldsEmpty
    <3> QED  BY <1>h, <1>n, <1>p, <2>1, <3>1, <3>2, <3>3
  <2> QED  BY <1>1, <2>1, <2>2
<1>10. ASSUME NEW s, PopDeferred(s), UNCHANGED <<U, workTask>> PROVE Before(Line, a, b)
  <2>1. CASE UNCHANGED q
    BY <1>1, <1>10, <2>1
  <2>2. ASSUME NEW i \in DOMAIN queue_tasks_deferred,
               q' = <<queue_tasks_deferred[i]>> \o q
        PROVE  Before(Line, a, b)
    <3> DEFINE d == queue_tasks_deferred[i]
    <3>1. d \in ClientTasks /\ d \in Task /\ Holds(queue_tasks_deferred, d)
      BY <1>0, TaskFacts DEF Holds
    <3> HIDE DEF d
    <3>2. ~Holds(U, d) /\ ~Holds(q, d) /\ workTask # d
      <4>1. PICK c \in Clients : d = TaskOf(c)
        BY <3>1, TaskFacts
      <4> QED  BY <3>1, <4>1 DEF TaskConservation, InOnePlace, InQueue, InDeferred,
                  InUnhandled, WithWorker, U, q
    <3>3. q' = <<d>> \o q
      BY <2>2 DEF d
    <3> QED  BY <1>2, <1>10, <1>h, <3>1, <3>2, <3>3
  <2> QED  BY <1>10, <2>1, <2>2 DEF PopDeferred, q
<1>11. CASE MainRelease
  BY <1>10, <1>11 DEF MainRelease, ReleaseSlot, workVars, U
<1>12. CASE MainCancel
  <2>1. UNCHANGED <<U, workTask>> /\ ((\E s : PopDeferred(s)) \/ UNCHANGED q)
    BY <1>12 DEF MainCancel, Handled, ReleaseSlot, workVars, U, q
  <2> QED  BY <1>1, <1>10, <2>1
<1>13. CASE \/ \E s \in Slots : MainLaunch(s)
            \/ MainDefer \/ MainReject \/ MainRead \/ MainNext
            \/ UNCHANGED <<queueVars, workTask>>
  BY <1>1, <1>13 DEF MainLaunch, MainDefer, Defer, MainReject, MainRead, MainNext, Handled,
     workVars, queueVars, U, q
<1> QED
  BY <1>3, <1>4, <1>5, <1>6, <1>7, <1>8, <1>9, <1>11, <1>12, <1>13, Movers

\* Two requests that wait never overtake each other on the way through the
\* worker's hands and back, for any number of requests (DeclinedKeepOrder).
THEOREM OrderKept == Spec => DeclinedKeepOrder
<1> DEFINE Kept == \A t, u \in ClientTasks : Before(Line, t, u) => ~Before(Line', u, t)
<1>1. ASSUME TypeOK, TypeOK', WorkerInv, ClientInv, TaskConservation, [Next]_vars
      PROVE  Kept
  <2> SUFFICES ASSUME NEW t \in ClientTasks, NEW u \in ClientTasks, Before(Line, t, u),
                      Before(Line', u, t)
               PROVE  FALSE
    OBVIOUS
  <2>1. Holds(Line, t) /\ Holds(Line, u) /\ ~Before(Line, u, t)
    BY <1>1, LineNow, BeforeOnce
  <2> QED  BY <1>1, <2>1, OrderStep
<1> QED
  BY <1>1, BaseHolds, PTL DEF Spec, BaseInv, DeclinedKeepOrder

=============================================================================

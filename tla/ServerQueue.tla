---------------------------- MODULE ServerQueue ----------------------------
(***************************************************************************)
(* server_queue of tools/server: the task queues shared by the HTTP        *)
(* threads, the main (inference) thread that runs start_loop(), and the    *)
(* worker thread that answers read-only tasks while the main thread is in  *)
(* an encode or a decode (yield_to_queue).  The slots are modelled as far  *)
(* as the queue's callbacks of server_context reach: launch, defer, decode *)
(* cycle, release.                                                         *)
(*                                                                         *)
(* One action is one critical section of mutex_tasks, together with the    *)
(* thread-local code around it.  Threads blocked on condition_tasks are    *)
(* the members of waiters: notify_one wakes any one of them, notify_all    *)
(* all.  Time is abstract: the idle timer may have run out whenever        *)
(* start_loop() looks at it.                                               *)
(***************************************************************************)
EXTENDS Integers, Sequences, FiniteSets, SequencesExt

CONSTANTS
  Clients,      \* HTTP requests; each posts one task, whose id it stands for
  Kind,         \* Kind[c]: "work" (completion, ...) or "read" (slot get)
  Slots,        \* the slots, numbered as in the code
  Pin,          \* Pin[c]: the id_slot of the task, or AnySlot (-1)
  AnySlot,
  None,         \* no task, no client
  Options,      \* what happens in this instance, see AllOptions
  MaxChunks,    \* bound: decode chunks (yields) of one update_slots()
  MaxCycles     \* bound: decode chunks a slot takes part in (n_predict)

\* "sleep": idle_sleep_ms >= 0;  "capture": vbr_prompt_cache;
\* "cancel": clients give up;  "reject": a launch may fail;
\* "throw": callbacks may throw;  "terminate": terminate() may be called;
\* "lease": hard leases may seal every idle slot against reuse.
AllOptions ==
  {"sleep", "capture", "cancel", "reject", "throw", "terminate", "lease"}

ASSUME QueueAssumption ==
  /\ Kind \in [Clients -> {"work", "read"}]
  /\ Slots \subseteq Nat /\ IsFiniteSet(Slots) /\ Slots # {}
  /\ AnySlot \notin Slots
  /\ Pin \in [Clients -> Slots \cup {AnySlot}]
  /\ None \notin Clients
  /\ "main" \notin Clients /\ "worker" \notin Clients
  /\ Options \subseteq AllOptions
  /\ MaxChunks \in Nat /\ MaxCycles \in Nat

VARIABLES
  queue_tasks, queue_tasks_deferred, queue_tasks_unhandled,
  running, sleeping, req_stop_sleeping,
  worker,                      \* busy, yielding, stop, exception
  capture,                     \* live, cancelled, cancel_on_arrival, transfer
  idle_capture_stopped, idle_maintenance_requested,
  waiters,                     \* threads blocked on condition_tasks
  mainPc, mainTask,            \* start_loop() thread and the task it holds
  workPc, workTask,            \* worker thread and the task it holds
  chunks, releasing, thrown,   \* locals of update_slots() and yield_to_queue()
  slots, budget,               \* slot -> its task's client; chunks it may take
  clientPc,                    \* where each HTTP thread is
  outcome                      \* history: what became of each client's task

queueVars   == <<queue_tasks, queue_tasks_deferred, queue_tasks_unhandled>>
sleepVars   == <<running, sleeping, req_stop_sleeping>>
captureVars == <<capture, idle_capture_stopped, idle_maintenance_requested>>
mainVars    == <<mainPc, mainTask, chunks, releasing, thrown>>
workVars    == <<workPc, workTask>>
slotVars    == <<slots, budget>>
clientVars  == <<clientPc, outcome>>
vars == <<queueVars, sleepVars, worker, captureVars, waiters, mainVars,
          workVars, slotVars, clientVars>>

-----------------------------------------------------------------------------
(* Tasks.  NEXT_RESPONSE and CANCEL get fresh ids that nothing refers to;  *)
(* the id of a CANCEL here is its id_target.                               *)

TaskOf(c) == [type |-> Kind[c], id |-> c]
Cancel(c) == [type |-> "cancel", id |-> c]
Next_response == [type |-> "next", id |-> None]

ClientTasks == {TaskOf(c) : c \in Clients}
Task == ClientTasks \cup {Cancel(c) : c \in Clients} \cup {Next_response}
NoTask == [type |-> "none", id |-> None]

BusySlots == {s \in Slots : slots[s] # None}
Holds(s, t) == \E i \in DOMAIN s : s[i] = t

\* A task whose slot was not released yet runs; a posted one is pending
\* until the main thread or the worker accepts it or a cancel removes it.
Outcome == {"none", "pending", "running", "done", "rejected", "cancelled", "lost"}

\* the history after a thread settled the task it holds
Settled(t, what) == [c \in Clients |-> IF t.id = c THEN what ELSE outcome[c]]

MainPc == {"start", "take", "handle", "update", "yield", "work", "join",
           "decoded", "release", "wait", "timed", "idle", "fall_asleep",
           "slept", "waking", "stop", "joining", "done"}
WorkPc == {"none", "sleep", "take", "handle", "check", "wait", "finish", "exited"}
ClientPc == {"new", "blocked", "ready", "posted", "gave_up"}

-----------------------------------------------------------------------------
(* The queue's operations, each under mutex_tasks.                         *)

NotifyOne(W) == IF W = {} THEN {W} ELSE {W \ {w} : w \in W}

\* Operators named Bug... are mutated forms of the definition after them, for
\* the checks that a property notices the bug; no specification uses them.

\* a cancel is treated like any other arrival
BugCancelIdleCapture(force) ==
  IF capture.cancel_on_arrival \/ idle_capture_stopped
  THEN [capture EXCEPT !.cancelled = TRUE]
  ELSE capture

\* cancel_idle_capture_locked
CancelIdleCapture(force) ==
  IF force \/ capture.cancel_on_arrival \/ idle_capture_stopped
  THEN [capture EXCEPT !.cancelled = TRUE]
  ELSE capture

\* the queue is not searched
BugCleanup(s, t) == s

\* cleanup_pending_task on one queue.  Ids are unique (TaskConservation), so
\* std::remove_if finds at most the one match that is removed here.
Cleanup(s, t) ==
  IF Holds(s, t) THEN RemoveAt(s, CHOOSE i \in DOMAIN s : s[i] = t) ELSE s

\* post() of a task other than CANCEL
Post(t, front) ==
  /\ queue_tasks' = IF front THEN <<t>> \o queue_tasks ELSE Append(queue_tasks, t)
  /\ capture' = CancelIdleCapture(FALSE)
  /\ waiters' \in NotifyOne(waiters)

\* post() of a CANCEL, at the front
PostCancel(c) ==
  /\ queue_tasks' = <<Cancel(c)>> \o Cleanup(queue_tasks, TaskOf(c))
  /\ queue_tasks_deferred' = Cleanup(queue_tasks_deferred, TaskOf(c))
  /\ queue_tasks_unhandled' = Cleanup(queue_tasks_unhandled, TaskOf(c))
  /\ outcome' = IF \/ Holds(queue_tasks, TaskOf(c))
                   \/ Holds(queue_tasks_deferred, TaskOf(c))
                   \/ Holds(queue_tasks_unhandled, TaskOf(c))
                THEN [outcome EXCEPT ![c] = "cancelled"] ELSE outcome
  /\ capture' = CancelIdleCapture(TRUE)
  /\ waiters' \in NotifyOne(waiters)

Defer(t) ==
  /\ queue_tasks_deferred' = Append(queue_tasks_deferred, t)
  /\ capture' = CancelIdleCapture(FALSE)
  /\ waiters' \in NotifyOne(waiters)

\* pop_deferred_task: the first deferred task pinned to the slot, else the first
PinnedTo(i, s) == Pin[queue_tasks_deferred[i].id] = s
PopsDeferred(i, s) ==
  IF \E j \in DOMAIN queue_tasks_deferred : PinnedTo(j, s)
  THEN PinnedTo(i, s) /\ \A j \in 1..(i - 1) : ~PinnedTo(j, s)
  ELSE i = 1

\* a release only looks for a task pinned to the slot
BugPopDeferred(s) ==
  /\ \/ /\ \A i \in DOMAIN queue_tasks_deferred : ~PinnedTo(i, s)
        /\ UNCHANGED <<queue_tasks, queue_tasks_deferred>>
     \/ \E i \in DOMAIN queue_tasks_deferred :
          /\ PinnedTo(i, s) /\ PopsDeferred(i, s)
          /\ queue_tasks' = <<queue_tasks_deferred[i]>> \o queue_tasks
          /\ queue_tasks_deferred' = RemoveAt(queue_tasks_deferred, i)
  /\ waiters' \in NotifyOne(waiters)

PopDeferred(s) ==
  /\ \/ /\ queue_tasks_deferred = <<>>
        /\ UNCHANGED <<queue_tasks, queue_tasks_deferred>>
     \/ \E i \in DOMAIN queue_tasks_deferred :
          /\ PopsDeferred(i, s)
          /\ queue_tasks' = <<queue_tasks_deferred[i]>> \o queue_tasks
          /\ queue_tasks_deferred' = RemoveAt(queue_tasks_deferred, i)
  /\ waiters' \in NotifyOne(waiters)

\* slot.release() of a processing slot and its callback_on_release
ReleaseSlot(s, why) ==
  /\ slots' = [slots EXCEPT ![s] = None]
  /\ budget' = [budget EXCEPT ![s] = 0]
  /\ outcome' = [outcome EXCEPT ![slots[s]] = why]
  /\ PopDeferred(s)
  /\ idle_maintenance_requested' =
        (idle_maintenance_requested \/ "capture" \in Options)

\* try_begin_capture in its three modes
CaptureAllowed(mode) ==
  /\ "capture" \in Options
  /\ ~idle_capture_stopped /\ ~worker.busy /\ ~capture.live
  /\ CASE mode = "displacement" ->
            \A c \in Clients : /\ ~Holds(queue_tasks, Cancel(c))
                               /\ ~Holds(queue_tasks_deferred, Cancel(c))
                               /\ ~Holds(queue_tasks_unhandled, Cancel(c))
       [] mode = "idle" ->
            /\ queue_tasks = <<>> /\ queue_tasks_deferred = <<>>
            /\ queue_tasks_unhandled = <<>>
       [] mode = "prompt_boundary" ->
            /\ \A i \in DOMAIN queue_tasks : queue_tasks[i] = Next_response
            /\ queue_tasks_deferred = <<>> /\ queue_tasks_unhandled = <<>>

\* background: the copy is left to a thread of its own
BeginCapture(mode, background) ==
  /\ CaptureAllowed(mode)
  /\ capture' = [live |-> TRUE, cancelled |-> FALSE,
                 cancel_on_arrival |-> mode # "displacement",
                 transfer |-> IF background THEN "running" ELSE "none"]

\* a session without a copy thread ends with the scope that began it
SessionsInScopeEnded == capture.live => capture.transfer # "none"

-----------------------------------------------------------------------------
Init ==
  /\ queue_tasks = <<>> /\ queue_tasks_deferred = <<>> /\ queue_tasks_unhandled = <<>>
  /\ running = FALSE /\ sleeping = FALSE /\ req_stop_sleeping = FALSE
  /\ worker = [busy |-> FALSE, yielding |-> FALSE, stop |-> FALSE, exception |-> FALSE]
  /\ capture = [live |-> FALSE, cancelled |-> FALSE, cancel_on_arrival |-> TRUE,
                transfer |-> "none"]
  /\ idle_capture_stopped = FALSE /\ idle_maintenance_requested = FALSE
  /\ waiters = {}
  /\ mainPc = "start" /\ mainTask = NoTask
  /\ workPc = "none" /\ workTask = NoTask
  /\ chunks = 0 /\ releasing = {} /\ thrown = FALSE
  /\ slots = [s \in Slots |-> None] /\ budget = [s \in Slots |-> 0]
  /\ clientPc = [c \in Clients |-> "new"]
  /\ outcome = [c \in Clients |-> "none"]

-----------------------------------------------------------------------------
(* HTTP threads.                                                           *)

\* wait_until_no_sleep(), called before the request's task is built
ClientArrive(c) ==
  /\ clientPc[c] = "new"
  /\ IF sleeping
     THEN /\ clientPc' = [clientPc EXCEPT ![c] = "blocked"]
          /\ req_stop_sleeping' = TRUE
          /\ \E W \in IF req_stop_sleeping THEN {waiters} ELSE NotifyOne(waiters) :
               waiters' = W \cup {c}
     ELSE /\ clientPc' = [clientPc EXCEPT ![c] = "ready"]
          /\ UNCHANGED <<req_stop_sleeping, waiters>>
  /\ UNCHANGED <<queueVars, running, sleeping, worker, captureVars, mainVars,
                 workVars, slotVars, outcome>>

\* the predicate of condition_tasks.wait in wait_until_no_sleep(), re-evaluated
ClientWake(c) ==
  /\ clientPc[c] = "blocked" /\ c \notin waiters
  /\ IF sleeping
     THEN waiters' = waiters \cup {c} /\ UNCHANGED clientPc
     ELSE clientPc' = [clientPc EXCEPT ![c] = "ready"] /\ UNCHANGED waiters
  /\ UNCHANGED <<queueVars, sleepVars, worker, captureVars, mainVars, workVars,
                 slotVars, outcome>>

\* server_response_reader::post_task(s); slot reads are posted at the front
ClientPost(c) ==
  /\ clientPc[c] = "ready"
  /\ Post(TaskOf(c), Kind[c] = "read")
  /\ clientPc' = [clientPc EXCEPT ![c] = "posted"]
  /\ outcome' = [outcome EXCEPT ![c] = "pending"]
  /\ UNCHANGED <<queue_tasks_deferred, queue_tasks_unhandled, sleepVars, worker,
                 idle_capture_stopped, idle_maintenance_requested, mainVars,
                 workVars, slotVars>>

\* server_response_reader::stop() before the final result was received
ClientCancel(c) ==
  /\ "cancel" \in Options
  /\ clientPc[c] = "posted"
  /\ PostCancel(c)
  /\ clientPc' = [clientPc EXCEPT ![c] = "gave_up"]
  /\ UNCHANGED <<sleepVars, worker, idle_capture_stopped,
                 idle_maintenance_requested, mainVars, workVars, slotVars>>

\* nobody is notified
BugTerminate ==
  /\ "terminate" \in Options
  /\ ~idle_capture_stopped
  /\ idle_capture_stopped' = TRUE
  /\ capture' = [capture EXCEPT !.cancelled = TRUE]
  /\ running' = FALSE
  /\ UNCHANGED <<queueVars, sleeping, req_stop_sleeping, worker, waiters,
                 idle_maintenance_requested, mainVars, workVars, slotVars, clientVars>>

\* terminate(), from the signal handler's clean-up
Terminate ==
  /\ "terminate" \in Options
  /\ ~idle_capture_stopped
  /\ idle_capture_stopped' = TRUE
  /\ capture' = [capture EXCEPT !.cancelled = TRUE]
  /\ running' = FALSE
  /\ waiters' = {}
  /\ UNCHANGED <<queueVars, sleeping, req_stop_sleeping, worker,
                 idle_maintenance_requested, mainVars, workVars, slotVars, clientVars>>

-----------------------------------------------------------------------------
(* The main thread: start_loop(), process_new_tasks(false) and the callbacks. *)

MainStart ==
  /\ mainPc = "start"
  /\ IF idle_capture_stopped
     THEN mainPc' = "done" /\ UNCHANGED <<running, worker, workPc>>
     ELSE /\ running' = TRUE
          /\ worker' = [worker EXCEPT !.stop = FALSE, !.busy = FALSE, !.yielding = FALSE]
          /\ workPc' = "sleep"
          /\ mainPc' = "take"
  /\ UNCHANGED <<queueVars, sleeping, req_stop_sleeping, captureVars, waiters,
                 mainTask, chunks, releasing, thrown, workTask, slotVars, clientVars>>

\* one dequeue of process_new_tasks
MainTake ==
  /\ mainPc = "take"
  /\ \/ /\ ~running
        /\ mainPc' = "stop" /\ UNCHANGED <<queue_tasks, mainTask>>
     \/ /\ running /\ queue_tasks = <<>>
        /\ mainPc' = "update" /\ UNCHANGED <<queue_tasks, mainTask>>
     \/ /\ running /\ queue_tasks # <<>>
        /\ mainTask' = Head(queue_tasks)
        /\ queue_tasks' = Tail(queue_tasks)
        /\ mainPc' = "handle"
  /\ UNCHANGED <<queue_tasks_deferred, queue_tasks_unhandled, sleepVars, worker,
                 captureVars, waiters, chunks, releasing, thrown, workVars, slotVars,
                 clientVars>>

\* process_single_task is done with the task: on_new_task drained an earlier
\* capture first, and a displacement session is synchronous
Handled ==
  /\ mainPc = "handle" /\ ~capture.live
  /\ mainPc' = "take" /\ mainTask' = NoTask
  /\ UNCHANGED <<queue_tasks_unhandled, sleepVars, worker, idle_capture_stopped,
                 chunks, releasing, thrown, workVars>>

MainLaunch(s) ==
  /\ Handled
  /\ mainTask.type = "work"
  /\ s \notin BusySlots
  /\ Pin[mainTask.id] \in {AnySlot, s}
  /\ slots' = [slots EXCEPT ![s] = mainTask.id]
  /\ budget' = [budget EXCEPT ![s] = MaxCycles]
  /\ outcome' = Settled(mainTask, "running")
  /\ UNCHANGED <<queue_tasks, queue_tasks_deferred, capture,
                 idle_maintenance_requested, waiters, clientPc>>

\* No usable slot: all or the requested one busy; too few for the children of
\* a parent, or too few free cells of a unified cache, both only while others
\* run; or every idle slot is sealed by a hard lease.
MainDefer ==
  /\ Handled
  /\ mainTask.type = "work"
  /\ BusySlots # {} \/ ("lease" \in Options /\ Pin[mainTask.id] = AnySlot)
  /\ Defer(mainTask)
  /\ UNCHANGED <<queue_tasks, idle_maintenance_requested, slotVars, clientVars>>

\* admission or launch failed: an error is sent and the task is dropped
MainReject ==
  /\ Handled
  /\ "reject" \in Options
  /\ mainTask.type = "work"
  /\ outcome' = Settled(mainTask, "rejected")
  /\ UNCHANGED <<queue_tasks, queue_tasks_deferred, capture,
                 idle_maintenance_requested, waiters, slotVars, clientPc>>

MainRead ==
  /\ Handled
  /\ mainTask.type = "read"
  /\ outcome' = Settled(mainTask, "done")
  /\ UNCHANGED <<queue_tasks, queue_tasks_deferred, capture,
                 idle_maintenance_requested, waiters, slotVars, clientPc>>

MainCancel ==
  /\ Handled
  /\ mainTask.type = "cancel"
  /\ UNCHANGED <<capture, clientPc>>
  /\ \/ \E s \in BusySlots : slots[s] = mainTask.id /\ ReleaseSlot(s, "cancelled")
     \/ /\ \A s \in BusySlots : slots[s] # mainTask.id
        /\ UNCHANGED <<queue_tasks, queue_tasks_deferred,
                       idle_maintenance_requested, waiters, slotVars, outcome>>

MainNext ==
  /\ Handled
  /\ mainTask.type = "next"
  /\ UNCHANGED <<queue_tasks, queue_tasks_deferred, capture,
                 idle_maintenance_requested, waiters, slotVars, clientVars>>

\* slots that are not processing are released too
BugAbortedSlots == Slots

\* abort_all_slots(), after an exception
AbortedSlots == BusySlots

\* update_slots(): nothing to do, or post NEXT_RESPONSE and run pre_decode(),
\* which leaves a batch of some chunks or throws
MainUpdate ==
  /\ mainPc = "update"
  /\ \/ /\ BusySlots = {}
        /\ mainPc' = "wait"
        /\ UNCHANGED <<queue_tasks, capture, waiters, chunks, releasing>>
     \/ /\ BusySlots # {}
        /\ Post(Next_response, FALSE)
        /\ \/ /\ chunks' \in 0..MaxChunks
              /\ mainPc' = IF chunks' = 0 THEN "decoded" ELSE "yield"
              /\ UNCHANGED releasing
           \/ /\ "throw" \in Options
              /\ releasing' = AbortedSlots
              /\ mainPc' = "release"
              /\ UNCHANGED chunks
  /\ UNCHANGED <<queue_tasks_deferred, queue_tasks_unhandled, sleepVars, worker,
                 idle_capture_stopped, idle_maintenance_requested, mainTask, thrown,
                 workVars, slotVars, clientVars>>

\* yield_to_queue(): hand the queue to the worker
MainYield ==
  /\ mainPc = "yield"
  /\ worker' = [worker EXCEPT !.busy = TRUE, !.yielding = TRUE]
  /\ mainPc' = "work"
  /\ UNCHANGED <<queueVars, sleepVars, captureVars, waiters, mainTask, chunks,
                 releasing, thrown, workVars, slotVars, clientVars>>

\* work() returned or threw: end the yield and wait for the worker
MainEndWork ==
  /\ mainPc = "work"
  /\ thrown' \in IF "throw" \in Options THEN BOOLEAN ELSE {FALSE}
  /\ worker' = [worker EXCEPT !.yielding = FALSE]
  /\ waiters' = IF worker.busy THEN {"main"} ELSE {}
  /\ mainPc' = "join"
  /\ UNCHANGED <<queueVars, sleepVars, captureVars, mainTask, chunks, releasing,
                 workVars, slotVars, clientVars>>

\* the exception is rethrown before the declined tasks are back; the declined
\* tasks are put back first to last
BugReclaimed == queue_tasks
BugReclaimedOrder == Reverse(queue_tasks_unhandled) \o queue_tasks

\* the declined tasks that yield_to_queue() puts back, in their order
Reclaimed == queue_tasks_unhandled \o queue_tasks

\* the end of the yield, not of the worker's last task, is waited for
BugWorkerActive == worker.yielding

\* what yield_to_queue() waits for to be over
WorkerActive == worker.busy

\* the worker is done: take the declined tasks back, rethrow what was thrown
MainJoin ==
  /\ mainPc = "join" /\ "main" \notin waiters
  /\ IF WorkerActive
     THEN /\ waiters' = waiters \cup {"main"}
          /\ UNCHANGED <<queue_tasks, queue_tasks_unhandled, worker, thrown,
                         chunks, releasing, mainPc>>
     ELSE /\ queue_tasks' = Reclaimed
          /\ queue_tasks_unhandled' = <<>>
          /\ worker' = [worker EXCEPT !.exception = FALSE]
          /\ thrown' = FALSE
          /\ IF thrown \/ worker.exception
             THEN chunks' = 0 /\ releasing' = AbortedSlots /\ mainPc' = "release"
             ELSE mainPc' = "decoded" /\ UNCHANGED <<chunks, releasing>>
          /\ UNCHANGED waiters
  /\ UNCHANGED <<queue_tasks_deferred, sleepVars, captureVars, mainTask, workVars,
                 slotVars, clientVars>>

\* post_decode() of a chunk: some slots finish, those out of budget must; or it
\* throws, and the other chunks are skipped
MainDecoded ==
  /\ mainPc = "decoded" /\ SessionsInScopeEnded
  /\ \/ /\ chunks' = IF chunks = 0 THEN 0 ELSE chunks - 1
        /\ releasing' \in {R \in SUBSET BusySlots : \A s \in BusySlots : budget[s] = 0 => s \in R}
     \/ /\ "throw" \in Options
        /\ chunks' = 0 /\ releasing' = AbortedSlots
  /\ budget' = [s \in Slots |-> IF s \in BusySlots \ releasing'
                                THEN budget[s] - 1 ELSE budget[s]]
  /\ mainPc' = "release"
  /\ UNCHANGED <<queueVars, sleepVars, worker, captureVars, waiters, mainTask,
                 thrown, workVars, slots, clientVars>>

\* the slots of the cycle are released one by one, in slot order
MainRelease ==
  /\ mainPc = "release"
  /\ \E s \in releasing :
       /\ \A t \in releasing : s <= t
       /\ releasing' = releasing \ {s}
       /\ ReleaseSlot(s, "done")
  /\ UNCHANGED <<queue_tasks_unhandled, sleepVars, worker, capture,
                 idle_capture_stopped, mainPc, mainTask, chunks, thrown, workVars,
                 clientPc>>

MainReleased ==
  /\ mainPc = "release" /\ releasing = {}
  /\ mainPc' = IF chunks = 0 THEN "wait" ELSE "yield"
  /\ UNCHANGED <<queueVars, sleepVars, worker, captureVars, waiters, mainTask,
                 chunks, releasing, thrown, workVars, slotVars, clientVars>>

\* Timing: idle_sleep_ms is at least a second and starts anew on every wake-up,
\* so a client woken by the last one has returned before the next sleep.
ShouldSleep ==
  /\ "sleep" \in Options
  /\ \A c \in Clients : clientPc[c] # "blocked"

\* the head of the waiting loop of start_loop()
MainWait ==
  /\ mainPc = "wait"
  /\ \/ /\ ~running \/ queue_tasks # <<>>
        /\ mainPc' = "take"
        /\ UNCHANGED <<sleeping, req_stop_sleeping, idle_maintenance_requested, waiters>>
     \/ /\ running /\ queue_tasks = <<>>
        /\ ShouldSleep
        /\ sleeping' = TRUE /\ req_stop_sleeping' = FALSE
        /\ mainPc' = "fall_asleep"
        /\ UNCHANGED <<idle_maintenance_requested, waiters>>
     \/ /\ running /\ queue_tasks = <<>>
        /\ idle_maintenance_requested' = FALSE
        /\ IF idle_maintenance_requested
           THEN mainPc' = "idle" /\ UNCHANGED waiters
           ELSE mainPc' = "timed" /\ waiters' = waiters \cup {"main"}
        /\ UNCHANGED <<sleeping, req_stop_sleeping>>
  /\ UNCHANGED <<queueVars, running, worker, capture, idle_capture_stopped, mainTask,
                 chunks, releasing, thrown, workVars, slotVars, clientVars>>

\* wait_for() ends by a notification or after max_wait_time
MainTimed ==
  /\ mainPc = "timed"
  /\ waiters' = waiters \ {"main"}
  /\ IF ~running \/ queue_tasks # <<>>
     THEN mainPc' = "take" /\ UNCHANGED idle_maintenance_requested
     ELSE mainPc' = "idle" /\ idle_maintenance_requested' = FALSE
  /\ UNCHANGED <<queueVars, sleepVars, worker, capture, idle_capture_stopped,
                 mainTask, chunks, releasing, thrown, workVars, slotVars, clientVars>>

\* callback_idle returns
MainIdle ==
  /\ mainPc = "idle" /\ SessionsInScopeEnded
  /\ mainPc' = "wait"
  /\ UNCHANGED <<queueVars, sleepVars, worker, captureVars, waiters, mainTask,
                 chunks, releasing, thrown, workVars, slotVars, clientVars>>

\* callback_sleeping_state(true): destroy() the model, draining a capture; then wait
MainFallAsleep ==
  /\ mainPc = "fall_asleep" /\ capture.transfer # "running"
  /\ capture' = [capture EXCEPT !.live = FALSE]
  /\ waiters' = IF ~running \/ req_stop_sleeping THEN waiters ELSE waiters \cup {"main"}
  /\ mainPc' = "slept"
  /\ UNCHANGED <<queueVars, sleepVars, worker, idle_capture_stopped,
                 idle_maintenance_requested, mainTask, chunks, releasing, thrown,
                 workVars, slotVars, clientVars>>

\* the wait of the sleeping state; on terminate, sleeping stays set
MainSlept ==
  /\ mainPc = "slept" /\ "main" \notin waiters
  /\ \/ /\ ~running
        /\ mainPc' = "take" /\ UNCHANGED <<req_stop_sleeping, waiters>>
     \/ /\ running /\ req_stop_sleeping
        /\ req_stop_sleeping' = FALSE
        /\ mainPc' = "waking" /\ UNCHANGED waiters
     \/ /\ running /\ ~req_stop_sleeping
        /\ waiters' = waiters \cup {"main"}
        /\ UNCHANGED <<req_stop_sleeping, mainPc>>
  /\ UNCHANGED <<queueVars, running, sleeping, worker, captureVars, mainTask, chunks,
                 releasing, thrown, workVars, slotVars, clientVars>>

\* wait_until_no_sleep() is not notified
BugMainWaking ==
  /\ mainPc = "waking"
  /\ sleeping' = FALSE
  /\ mainPc' = "take"
  /\ UNCHANGED <<queueVars, running, req_stop_sleeping, worker, captureVars, waiters,
                 mainTask, chunks, releasing, thrown, workVars, slotVars, clientVars>>

\* callback_sleeping_state(false) reloaded the model
MainWaking ==
  /\ mainPc = "waking"
  /\ sleeping' = FALSE
  /\ waiters' = {}
  /\ mainPc' = "take"
  /\ UNCHANGED <<queueVars, running, req_stop_sleeping, worker, captureVars, mainTask,
                 chunks, releasing, thrown, workVars, slotVars, clientVars>>

\* worker_stop()
MainStop ==
  /\ mainPc = "stop"
  /\ worker' = [worker EXCEPT !.stop = TRUE]
  /\ waiters' = {}
  /\ mainPc' = "joining"
  /\ UNCHANGED <<queueVars, sleepVars, captureVars, mainTask, chunks, releasing,
                 thrown, workVars, slotVars, clientVars>>

MainJoined ==
  /\ mainPc = "joining" /\ workPc = "exited"
  /\ mainPc' = "done"
  /\ UNCHANGED <<queueVars, sleepVars, worker, captureVars, waiters, mainTask, chunks,
                 releasing, thrown, workVars, slotVars, clientVars>>

\* capture sessions of the scheduler: in callback_idle, at the end of a prompt
\* (post_decode), and before an idle slot is displaced (process_single_task)
MainBeginCapture ==
  /\ \E background \in BOOLEAN :
       \/ mainPc = "idle" /\ BeginCapture("idle", background)
       \/ mainPc = "decoded" /\ BeginCapture("prompt_boundary", background)
       \/ /\ mainPc = "handle" /\ mainTask.type = "work"
          /\ BeginCapture("displacement", background)
  /\ UNCHANGED <<queueVars, sleepVars, worker, idle_capture_stopped,
                 idle_maintenance_requested, waiters, mainVars, workVars, slotVars,
                 clientVars>>

\* the copy is complete, or was refused once the session was cancelled
CaptureTransferred ==
  /\ capture.live /\ capture.transfer = "running"
  /\ capture' = [capture EXCEPT !.transfer = "complete"]
  /\ idle_maintenance_requested' = TRUE
  /\ waiters' \in NotifyOne(waiters)
  /\ UNCHANGED <<queueVars, sleepVars, worker, idle_capture_stopped, mainVars,
                 workVars, slotVars, clientVars>>

\* finish_idle_exact_vbr_capture: the capture thread is joined and the session
\* destroyed, in callback_idle, at the end of a prompt, and before a task of
\* either thread is handled
EndCapture ==
  /\ capture.live /\ capture.transfer # "running"
  /\ capture' = [capture EXCEPT !.live = FALSE]
  /\ UNCHANGED <<queueVars, sleepVars, worker, idle_capture_stopped,
                 idle_maintenance_requested, waiters, mainVars, workVars, slotVars,
                 clientVars>>

MainEndCapture == mainPc \in {"idle", "decoded", "handle"} /\ EndCapture

WorkerEndCapture == workPc = "handle" /\ EndCapture

-----------------------------------------------------------------------------
(* The worker thread: worker_loop() and process_new_tasks(true).           *)

\* worker.cv: waits for a yield or for worker_stop()
WorkerSleep ==
  /\ workPc = "sleep"
  /\ \/ worker.stop /\ workPc' = "exited"
     \/ ~worker.stop /\ worker.busy /\ workPc' = "take"
  /\ UNCHANGED <<queueVars, sleepVars, worker, captureVars, waiters, mainVars,
                 workTask, slotVars, clientVars>>

WorkerTake ==
  /\ workPc = "take"
  /\ \/ /\ ~running
        /\ workPc' = "finish" /\ UNCHANGED <<queue_tasks, workTask>>
     \/ /\ running /\ queue_tasks = <<>>
        /\ workPc' = "check" /\ UNCHANGED <<queue_tasks, workTask>>
     \/ /\ running /\ queue_tasks # <<>>
        /\ workTask' = Head(queue_tasks)
        /\ queue_tasks' = Tail(queue_tasks)
        /\ workPc' = "handle"
  /\ UNCHANGED <<queue_tasks_deferred, queue_tasks_unhandled, sleepVars, worker,
                 captureVars, waiters, mainVars, slotVars, clientVars>>

\* the wake-up of update_slots() is swallowed
BugAcceptsWhileYielding(t) == t.type \in {"read", "next"}

\* while yielding only tasks that read the server state are accepted
AcceptsWhileYielding(t) == t.type = "read"

\* the callback; a declined task is set aside, an exception is kept for the
\* main thread and the task gets no answer
WorkerHandle ==
  /\ workPc = "handle" /\ ~capture.live
  /\ workTask' = NoTask
  /\ \/ /\ AcceptsWhileYielding(workTask)
        /\ outcome' = Settled(workTask, "done")
        /\ workPc' = "take" /\ UNCHANGED <<queue_tasks_unhandled, worker>>
     \/ /\ AcceptsWhileYielding(workTask) /\ "throw" \in Options
        /\ outcome' = Settled(workTask, "lost")
        /\ worker' = [worker EXCEPT !.exception = TRUE]
        /\ workPc' = "finish" /\ UNCHANGED queue_tasks_unhandled
     \/ /\ ~AcceptsWhileYielding(workTask)
        /\ queue_tasks_unhandled' = Append(queue_tasks_unhandled, workTask)
        /\ workPc' = "take" /\ UNCHANGED <<outcome, worker>>
  /\ UNCHANGED <<queue_tasks, queue_tasks_deferred, sleepVars, captureVars, waiters,
                 mainVars, slotVars, clientPc>>

\* the queue was empty: the yield is over, a task came meanwhile, or wait
WorkerCheck ==
  /\ workPc = "check"
  /\ \/ /\ worker.stop \/ ~worker.yielding
        /\ workPc' = "finish" /\ UNCHANGED waiters
     \/ /\ ~worker.stop /\ worker.yielding /\ (queue_tasks # <<>> \/ ~running)
        /\ workPc' = "take" /\ UNCHANGED waiters
     \/ /\ ~worker.stop /\ worker.yielding /\ queue_tasks = <<>> /\ running
        /\ workPc' = "wait" /\ waiters' = waiters \cup {"worker"}
  /\ UNCHANGED <<queueVars, sleepVars, worker, captureVars, mainVars, workTask,
                 slotVars, clientVars>>

WorkerWake ==
  /\ workPc = "wait" /\ "worker" \notin waiters
  /\ IF worker.stop \/ ~running \/ ~worker.yielding \/ queue_tasks # <<>>
     THEN workPc' = "take" /\ UNCHANGED waiters
     ELSE waiters' = waiters \cup {"worker"} /\ UNCHANGED workPc
  /\ UNCHANGED <<queueVars, sleepVars, worker, captureVars, mainVars, workTask,
                 slotVars, clientVars>>

WorkerFinish ==
  /\ workPc = "finish"
  /\ worker' = [worker EXCEPT !.busy = FALSE]
  /\ waiters' = {}
  /\ workPc' = "sleep"
  /\ UNCHANGED <<queueVars, sleepVars, captureVars, mainVars, workTask, slotVars,
                 clientVars>>

-----------------------------------------------------------------------------
MainStep ==
  \/ MainStart \/ MainTake
  \/ \E s \in Slots : MainLaunch(s)
  \/ MainDefer \/ MainReject \/ MainRead \/ MainCancel \/ MainNext
  \/ MainUpdate \/ MainYield \/ MainEndWork \/ MainJoin \/ MainDecoded
  \/ MainRelease \/ MainReleased \/ MainWait \/ MainTimed \/ MainIdle
  \/ MainFallAsleep \/ MainSlept \/ MainWaking \/ MainStop \/ MainJoined
  \/ MainEndCapture

WorkerStep ==
  \/ WorkerSleep \/ WorkerTake \/ WorkerHandle \/ WorkerCheck \/ WorkerWake
  \/ WorkerFinish \/ WorkerEndCapture

Next ==
  \/ \E c \in Clients :
       ClientArrive(c) \/ ClientWake(c) \/ ClientPost(c) \/ ClientCancel(c)
  \/ Terminate
  \/ MainStep \/ MainBeginCapture \/ CaptureTransferred
  \/ WorkerStep

Spec == Init /\ [][Next]_vars

\* Threads that can run do run, the copy of a capture too.  Nothing obliges a
\* client to arrive, to give up, or anyone to terminate the queue.
FairSpec ==
  /\ Spec
  /\ WF_vars(MainStep) /\ WF_vars(WorkerStep) /\ WF_vars(CaptureTransferred)
  /\ \A c \in Clients : WF_vars(ClientWake(c)) /\ WF_vars(ClientPost(c))

-----------------------------------------------------------------------------
(* Properties.                                                             *)

QueueTypes ==
  /\ queue_tasks \in Seq(Task)
  /\ queue_tasks_deferred \in Seq(ClientTasks)
  /\ queue_tasks_unhandled \in Seq(Task)

FlagTypes ==
  /\ running \in BOOLEAN /\ sleeping \in BOOLEAN /\ req_stop_sleeping \in BOOLEAN
  /\ idle_capture_stopped \in BOOLEAN /\ idle_maintenance_requested \in BOOLEAN
  /\ worker \in [busy : BOOLEAN, yielding : BOOLEAN, stop : BOOLEAN, exception : BOOLEAN]
  /\ capture \in [live : BOOLEAN, cancelled : BOOLEAN, cancel_on_arrival : BOOLEAN,
                  transfer : {"none", "running", "complete"}]

ThreadTypes ==
  /\ waiters \subseteq Clients \cup {"main", "worker"}
  /\ mainPc \in MainPc /\ workPc \in WorkPc
  /\ clientPc \in [Clients -> ClientPc]
  /\ mainTask \in IF mainPc = "handle" THEN Task ELSE {NoTask}
  /\ workTask \in IF workPc = "handle" THEN Task ELSE {NoTask}

CycleTypes ==
  /\ slots \in [Slots -> Clients \cup {None}]
  /\ budget \in [Slots -> 0..MaxCycles]
  /\ chunks \in 0..MaxChunks /\ thrown \in BOOLEAN
  /\ releasing \subseteq IF mainPc = "release" THEN BusySlots ELSE {}
  /\ outcome \in [Clients -> Outcome]

\* The values of the variables; a thread holds a task exactly while it is in
\* the callback, and slots to release exactly at the end of a cycle.
TypeOK == QueueTypes /\ FlagTypes /\ ThreadTypes /\ CycleTypes

\* Where a client's task can be while nobody has settled it.
InQueue(c)     == Holds(queue_tasks, TaskOf(c))
InDeferred(c)  == Holds(queue_tasks_deferred, TaskOf(c))
InUnhandled(c) == Holds(queue_tasks_unhandled, TaskOf(c))
WithMain(c)    == mainTask = TaskOf(c)
WithWorker(c)  == workTask = TaskOf(c)

InOnePlace(c) ==
  /\ InQueue(c)     => ~InDeferred(c) /\ ~InUnhandled(c) /\ ~WithMain(c) /\ ~WithWorker(c)
  /\ InDeferred(c)  => ~InUnhandled(c) /\ ~WithMain(c) /\ ~WithWorker(c)
  /\ InUnhandled(c) => ~WithMain(c) /\ ~WithWorker(c)
  /\ WithMain(c)    => ~WithWorker(c)

NoDuplicates(s) ==
  \A i, j \in DOMAIN s : s[i] = s[j] /\ s[i] \in ClientTasks => i = j

\* No task is lost and none is handled twice: a pending task is in exactly one
\* of the three queues or in the hands of one thread, once; a task that is
\* not pending is in none of them; and exactly the running ones have a slot.
\* (post, process_new_tasks, the hand-over of declined tasks, defer,
\* pop_deferred_task, cleanup_pending_task.)
TaskConservation ==
  /\ \A c \in Clients :
       /\ outcome[c] = "pending" <=>
            InQueue(c) \/ InDeferred(c) \/ InUnhandled(c) \/ WithMain(c) \/ WithWorker(c)
       /\ InOnePlace(c)
       /\ outcome[c] = "running" <=> \E s \in Slots : slots[s] = c
       /\ \A s, t \in Slots : slots[s] = c /\ slots[t] = c => s = t
  /\ NoDuplicates(queue_tasks)
  /\ NoDuplicates(queue_tasks_deferred)
  /\ NoDuplicates(queue_tasks_unhandled)

\* Outside of a yield the worker is parked: it holds no task, is in no callback
\* and has left nothing behind in queue_tasks_unhandled, so the main thread's
\* callbacks own the server state (worker.busy, yield_to_queue).
WorkerQuiescent ==
  mainPc \notin {"work", "join"} =>
    /\ ~worker.busy /\ ~worker.yielding /\ ~worker.exception
    /\ workPc \in {"none", "sleep", "exited"}
    /\ workTask = NoTask
    /\ queue_tasks_unhandled = <<>>

\* While a slot is processing, the wake-up posted by update_slots() is still
\* due when the loop waits, falls asleep or runs callback_idle: a generation
\* never stalls, and the model is never destroyed under a processing slot.
GenerationNeverStalls ==
  /\ mainPc \in {"wait", "timed", "idle"} /\ BusySlots # {} =>
       Holds(queue_tasks, Next_response)
  /\ mainPc \in {"fall_asleep", "slept", "waking"} => BusySlots = {}

\* A background capture that was not told to stop has no rival: nothing but the
\* scheduler's own wake-up is queued.  A displacement capture goes on while
\* tasks arrive, but not once a cancel is queued; none outlives terminate().
CaptureYields ==
  capture.live /\ ~capture.cancelled =>
    /\ ~idle_capture_stopped
    /\ capture.cancel_on_arrival =>
         /\ \A i \in DOMAIN queue_tasks : queue_tasks[i] = Next_response
         /\ queue_tasks_deferred = <<>> /\ queue_tasks_unhandled = <<>>
         /\ mainTask.type \in {"none", "next"} /\ workTask.type \in {"none", "next"}
    /\ ~capture.cancel_on_arrival =>
         \A c \in Clients : ~Holds(queue_tasks, Cancel(c))

\* The order in which the tasks in s will be offered to the main thread.
Before(s, t, u) == \E i, j \in DOMAIN s : i < j /\ s[i] = t /\ s[j] = u

Line ==
  queue_tasks_unhandled \o (IF workTask = NoTask THEN <<>> ELSE <<workTask>>) \o queue_tasks

\* Two client tasks that wait keep their order through the worker's hands,
\* queue_tasks_unhandled and back (yield_to_queue: "keeping their order").
DeclinedKeepOrder ==
  [][\A t, u \in ClientTasks :
       Before(Line, t, u) => ~Before(Line', u, t)]_vars

\* Without cancels and failed launches, a task is deferred only as long as some
\* slot is busy: pop_deferred_task() on every release leaves nobody behind.
NoStrandedTask ==
  mainPc \in {"wait", "timed", "idle"} /\ queue_tasks = <<>> /\ BusySlots = {}
    => queue_tasks_deferred = <<>>

\* Once the main thread has worked off a CANCEL, its target is neither waiting
\* nor running.
CancelEffective ==
  \A c \in Clients :
    /\ clientPc[c] = "gave_up"
    /\ ~Holds(queue_tasks \o queue_tasks_unhandled, Cancel(c))
    /\ mainTask # Cancel(c) /\ workTask # Cancel(c)
    => outcome[c] \notin {"pending", "running"}

\* While the main thread is inside an encode or a decode, the worker only reads
\* the server state: it publishes no capture and re-arms no slot.
YieldOnlyReads == [][mainPc = "work" /\ capture.live => capture'.live]_vars

\* While the server is awake and not being stopped, every posted task is
\* settled, every launched one finishes, and nothing waits for ever on
\* condition_tasks, which the three threads share.
EveryTaskSettled ==
  \A c \in Clients :
    /\ outcome[c] = "pending" ~> outcome[c] # "pending" \/ sleeping \/ idle_capture_stopped
    /\ outcome[c] = "running" ~> outcome[c] # "running" \/ idle_capture_stopped

\* terminate() ends start_loop(), wherever the threads are.
TerminateEndsLoop == idle_capture_stopped ~> mainPc = "done"

\* A request that found the server asleep gets through, unless the server is
\* stopped.
WaiterReturns ==
  \A c \in Clients :
    clientPc[c] = "blocked" ~> clientPc[c] # "blocked" \/ idle_capture_stopped

\* A task in the queue of a sleeping server wakes it up.
TaskWakesServer == sleeping /\ queue_tasks # <<>> ~> ~sleeping

=============================================================================

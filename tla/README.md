# Verification of the llama-server core

TLA+ models of the concurrent core of the server in `tools/server` (how tasks
travel between HTTP threads, the inference thread and the worker thread, how
their answers come back, how the router starts and stops model processes) and of
the metadata of the KV cache in `src/` that every decode changes. Modules are translated from the C++ sources; each
definition's lines are in the `map` of `PROJECT.json`. Paths below are relative
to `src/`.

## 1. The system

### Components

| component | state | operations | who calls it |
|---|---|---|---|
| `server_queue` (`tools/server/server-queue.*`) | `queue_tasks`, `queue_tasks_deferred`, `queue_tasks_unhandled`, `running`, `sleeping`, `req_stop_sleeping`, worker flags, the capture session | `post`, `defer`, `pop_deferred_task`, `wait_until_no_sleep`, `terminate`, `start_loop`, `yield_to_queue`, `worker_loop`, `try_begin_*_capture` | HTTP threads, inference thread, its worker, capture threads |
| `server_response`, `server_response_reader` (same files) | `waiting_task_ids`, `queue_results`; per request `id_tasks`, `received_count`, `cancelled` | `send`, `recv_with_timeout`, `add/remove_waiting_task_id(s)`; `post_tasks`, `next`, `wait_for_all`, `stop` | inference thread and worker send; HTTP threads receive |
| `server_context` scheduling (`server-context.cpp`) | slots, NEXT_RESPONSE wake-up, batch chunks, VBR captures | `process_single_task`, `update_slots` (`pre_decode`, decode in `yield_to_queue`, `post_decode`), `abort_all_slots`, `handle_sleeping_state`, idle captures | callbacks of `server_queue` |
| stream sessions (`server-stream.*`) | per conversation a bounded replay buffer with `prefix_dropped`, `done`, `cancelled`; the manager's map and its GC thread | `append`, `finalize`, `cancel`, `read_from`; `create_or_replace`, `evict`, `evict_and_cancel`, `gc_loop`, `stop_gc`; `set_req`, tee in `next`, `on_complete`, producer destructor | HTTP thread of a generation, GET, DELETE and lookup handlers, GC thread, shutdown |
| cache leases (`server-cache-lease.*`, `server-cache-control.cpp`) | leases, holders, artifacts, replay table | acquire, renew, release, expire, seal | inference thread through control tasks |
| router (`server-models.cpp`) | `mapping` with the status and `req_count` of each model, `stopping_models`, the LRU queue with its waiters, the monitor's commands and children | `ensure_model_ready`, `proxy_request`, `load`, `unload`, `unload_lru`; `join`, `leave`, `try_claim`, `claim_done`, `tick`; the monitor's commands, child state lines, child exit, forced kill | HTTP threads, the monitor thread, child processes |
| resume store and retention sidecar | published generations on disk, their manifest | stage, publish, recover | inference thread, restart |
| cache yield, cache authority, disk cache | budgets and donors between caches | plan, commit, roll back | inference thread |
| KV cells and cache metadata (`src/llama-kv-cells.h`, `llama-kv-cache.cpp`, `llama-vbr-extent.cpp`) | positions, sequence sets and pending shift per cell, `used`, `seq_pos` index, search head, ownership views of a VBR cache | `seq_rm`, `seq_cp`, `seq_keep`, `seq_add`, `seq_div`, `clear`; `find_slot`, `plan_slots`, `apply_ubatch`, `update` | `llama_context::decode`, the server between decodes |
| recurrent and hybrid memory | a tail cell per sequence, rollback states | `find_slot`, `seq_rm`, `seq_cp` | decode |
| VBR pinned ring, VRAM ledger, cache budget (`src/`) | ring slots between host and device, reservations | acquire, publish, retire; reserve, commit, release | decode, captures |
| HTTP, MCP and tool endpoints; llama graphs; ggml; common; UI; converters | - | - | - |

### How they interact

An HTTP thread first calls `wait_until_no_sleep()`, registers the ids of its
tasks in `server_response`, posts them to `server_queue` and polls for results.
The inference thread loops in `start_loop()`: it works the queue off
(`process_single_task`: launch on a slot, defer, answer), runs one
`update_slots()`, and waits. `update_slots()` posts a NEXT_RESPONSE task to itself
before it decodes: this task is the only thing that brings it back for the next
token. Each chunk of the batch is decoded inside `yield_to_queue()`: meanwhile the
worker thread works the same queue off, answers read-only tasks and sets the
others aside. A released slot moves one deferred task back to the queue. After
some idle time the model is unloaded until a request asks for it. In between, VBR
captures copy a slot's state, some in a thread of their own, and give way to
arriving tasks.

In router mode the process has no model: a request waits in `ensure_model_ready()`
until a child server with its model is up, which may need the eviction of another,
and is then proxied to it. A monitor thread reads the children's state lines,
tells them to exit, kills them when they do not, and reaps them.

Below, each decode asks the KV cache for cells. The cache places all ubatches of
the batch on the real cells to see where they fit, takes them off again in reverse
order, and then places each one for good right before its graph is computed;
between decodes the server copies, trims and shifts sequences.

### What is hard here

Five kinds of thread share `condition_tasks`, notified with `notify_one` and
`notify_all`; tasks change hands between a queue, a worker and a set of deferred
tasks while cancels look for them; exceptions leave the decode in the middle;
sleep, terminate and captures race with arrivals. In the router every check and
the act it allows are in different critical sections, a name outlives the process
that has it, and children crash at any time. In the KV cache the same fact is kept
in up to four places, rows are shared by sequences, and a decode can fail after
any of its ubatches. `hazards` in `PROJECT.json`
lists each one at its line with the property that would catch it, or says why none does.

### What makes each component correct

* queue: no task is lost, run twice or overtaken; a generation keeps its wake-up;
  every posted task is settled; the worker touches server state only during a
  yield and only to read it; terminate ends the loop; sleepers get through.
* response: every result reaches its request once and in order, and nothing
  stays behind for a request that is gone.
* stream sessions: a reader gets the bytes of its session without gaps, a
  replaced session ends, and a session that is in use is not evicted.
* leases: no artifact is reused under a live lease; a replayed request has one
  effect.
* router: at most the configured number of models is loaded; counts of waiters
  and requests are exact; a stop reaches the instance it was meant for; a model
  that serves is not evicted; a waiter gets an answer when its child dies.
* KV cells: the redundant indexes agree with the cells; planning leaves no trace
  and its plan holds; a decode takes no row that can still be seen; every row
  has its key, rotated to the position of its cell, but for rows that a failed
  graph left to several sequences.
* ring, ledger: amounts are conserved.

## 2. Plan

In this order; the first five are done.

1. `ServerQueue`: task queues, main loop, worker, sleeping, captures, and the part
   of `server_context` that runs in the queue's callbacks. Theorems: all its
   safety properties.
2. `ServerResponse` against the abstract `ResultDelivery`. Theorems: all its safety
   properties, and the steps of the refinement.
3. `StreamSessions`. Theorems: types, exact buffer, exact replay, complete ends,
   reachability of what runs.
4. `ServerModels`: the router's model table, LRU queue, monitor and children that
   exit or crash while they are loaded, unloaded or waited for. Theorems: all its
   safety properties.
5. `KvCells`: the cells with their redundant indexes, edits, planning and placement
   of batches. Theorems: all its safety properties.
6. `ServerLoop`: `ServerQueue` and `ServerResponse` composed (the phases of a task
   in `ServerResponse` become the outcomes of `ServerQueue`) against an abstract
   `TaskLifecycle`: posted, running, answered once or cancelled.
7. `CacheLease`: acquire, renew, release, expiry, sealing, replay of idempotent
   control requests, against an abstract ledger of holders.
8. `PinnedRing`, `VramLedger`: hand-over of ring slots between copy and compute,
   conservation of reservations under failing steps.
9. `CacheYield`, `ResumeStore`: plan, commit and roll back; crash between staging
   and publishing.

Theorems next: every invariant and action property of the runs is proved, so the
next ones come with the modules of steps 6 to 9, first the refinement of
`TaskLifecycle`.

## 3. The modules

Operators whose names begin with `Bug` are mutated forms of the definition that
follows them. No specification uses them; they are there to show that a property
notices the bug.

### `ServerQueue`

State. The three deques, the flags of the class and of its worker, and the capture
session keep the names they have in the code. `waiters` is the set of threads
blocked on `condition_tasks`: `notify_one` removes any one member, `notify_all`
all of them, and a thread that is not in the set re-evaluates its predicate.
`mainPc` and `workPc` are the places of the inference thread and of the worker
between two critical sections; `mainTask` and `workTask` the tasks they hold, in
no queue, while they are in a callback. `slots` and `budget` are what the schedule
sees of `server_slot`: who it works for and how many more decode chunks it may
take. `outcome` is history.

| actions | code |
|---|---|
| `ClientArrive`, `ClientWake` | `wait_until_no_sleep` |
| `ClientPost`, `ClientCancel` | `post` from `server_response_reader::post_tasks` and `stop`, `cleanup_pending_task` |
| `Terminate` | `terminate` |
| `MainStart` ... `MainTake` | `start_loop`, `process_new_tasks(false)` |
| `MainLaunch`, `MainDefer`, `MainReject`, `MainRead`, `MainCancel`, `MainNext` | `process_single_task`, `defer`, `slot.release`, `pop_deferred_task` |
| `MainUpdate`, `MainYield`, `MainEndWork`, `MainJoin`, `MainDecoded`, `MainRelease`, `MainReleased` | `update_slots` with `pre_decode`, `yield_to_queue` per chunk, `post_decode`, `abort_all_slots` |
| `MainWait`, `MainTimed`, `MainIdle`, `MainFallAsleep`, `MainSlept`, `MainWaking` | the waiting loop of `start_loop`, `callback_idle`, `handle_sleeping_state` |
| `MainStop`, `MainJoined` | `worker_stop` |
| `MainBeginCapture`, `CaptureTransferred`, `MainEndCapture`, `WorkerEndCapture` | the three `try_begin_*_capture`, the copy thread, `finish_idle_exact_vbr_capture` |
| `WorkerSleep` ... `WorkerFinish` | `worker_loop`, `process_new_tasks(true)` |

Data left out: prompts, tokens, which slot is preferred (any free one may be
taken), the free cells of a unified cache (a task may be deferred whenever a slot
is busy), parent and child tasks, LoRA and slot save/restore tasks (they launch
nothing and defer like a pinned task).

### `ServerResponse` and `ResultDelivery`

`waiting_task_ids` and `queue_results` are those of `server_response`; each HTTP
request is a reader with its `received_count` and `cancelled`. A request in
`blocked` is inside `wait_for`, whose timer begins when it joins the set. The
inference side is reduced to what it may send: partial results, then a final one
or an error; after a cancel, possibly nothing. `ReaderRenew` is the next request of
a connection: fresh ids, for which the task names of the finished request are
used again, so that finite state holds unbounded traffic.

`ResultDelivery` is the promise: the k-th result received for a task is the k-th
one sent, from the registration of the ids until the request withdraws them.
`ServerResponse` implements it with a mapping that only forgets (`Delivery`), its
fairness included: a request with results to receive receives or withdraws.

### `StreamSessions`

A session is named after the request that created it; the k-th byte of a
generation is the number k, so that gaps and repetitions are visible in the
values. Sessions in `sessions` are those of the manager's map; a session that is
taken out lives on with its producer, its readers, and whoever is ending it, as
`shared_ptr`s keep it in the code.

| actions | code |
|---|---|
| `RequestInstall`, `RequestCancelPrevious`, `RequestFinalizePrevious` | `set_req`, `create_or_replace`: the map lock, then `cancel()`, then `finalize()` of the old session |
| `RequestStart` | the first result, then `set_next`; or the end of the request before it |
| `RequestNext`, `RequestChunk`, `RequestUnwind`, `RequestEnd` | `next` and the drain loop of `on_complete`, `append` |
| `RequestEvict`, `RequestFinalizeEvicted` | `on_complete` of a request that never streamed, `evict` |
| `RequestDestroy` | destructor of the producer |
| `DeleteTake`, `DeleteCancel`, `DeleteFinalize` | `evict_and_cancel` |
| `CollectGarbage`; `StopManager`, `StopFinalize` | `gc_loop`; `stop_gc` |
| `ReaderAttach`, `ReaderCheck`, `ReaderRead`, `ReaderLeave` | the GET handler, `read_from` |

`read_from` waits with a timeout of `STREAM_READ_WAKE_INTERVAL_MS`, so the
condition variable cannot lose a wake-up for longer than that and is not
modelled. There is one DELETE at a time; two of them meet only under the map lock,
where the second finds nothing.

### `ServerModels`

An action is one critical section of `server_models::mutex`. `inst` is the part of
`mapping` the schedule depends on, `recency` the order of `last_used`, `queue` that
of `server_lru_sched`, `cmds` the monitor's. A worker `th[t]` keeps its place
between two critical sections and the local variables it carries across them,
among them a status that may be old. `child[m]` is the process, what it has written
to its pipe, and what the monitor knows of it. History: `stale` marks a request
whose instance has been replaced, `robbed` a model whose count such a request took.

| actions | code |
|---|---|
| `Arrive`; `CheckStopping`, `JoinQueue`, `Turn`, `Loop`, `Drop`, `Claimed`, `Return` | the endpoints; `ensure_model_ready` from its first check to its exits, with the 200 ms polls as repetitions of `Loop` |
| `UnloadLru`, `Unload`, `VictimGone`, `Spawn` | `load` with `unload_lru`, in its four critical sections; `unload` |
| `ProxyMeta`, `SessionStopped`, `Count`, `Cleanup` | `proxy_request` and the clean-up of the proxied response |
| `HandleCommand`, `HandleChildState`, `OnChildExit`, `ForceKill` | the monitor thread |
| `ChildReady`, `ChildSleeps`, `ChildWakes`, `ChildWoken`, `ChildExits`, `ChildCrashes` | the child server: state lines, sleeping, the exit it is told to take, and a crash |

`Join`, `Leave`, `CanClaim`, `ClaimDone`, `Victims` and `Tick` are the operations of
`server_lru_sched`; every action that calls `tick()` in the code contains it.

### `KvCells`

`cells` has the five members of `llama_kv_cells`. `Drop`, `Share`, `Put`, `Move` and
`Restored` are its mutators, applied to a set of cells at a time, each with what
it does to every index, as the loops around them do. A view of
`vbr_ownership_index` is its mask and what the Fenwick tree counts at each position.
`before`, `rot`, `unwritten` and `divided` are history: what the planning found, to
which position the key in a cell is rotated, which token a cell has no key of, and
which cells `seq_div` changed. `Commit` changes metadata only and marks the cells of
its slot unwritten; their keys are there once `Computed` has written them, at the
positions of the ubatch. After `ComputeFails` a row that is left has no key one could
rely on, and stays unwritten until it is removed or its cell is taken again.

| actions | code |
|---|---|
| `EditRm`, `EditRmAll`, `EditCp`, `EditKeep`, `EditClear`, `EditAdd`, `EditDiv` | `seq_rm`, `seq_cp`, `seq_keep`, `clear`, `seq_add`, `seq_div` of `llama_kv_cache`, each with the search head and the ownership views |
| `Decode` | `memory_update` (`KShift`, or `KShiftFails`, which is only logged), the checks of `llama_batch_allocr`, `split_simple` |
| `PlanUbatch`, `PlanRestore` | one ubatch of the loop of `plan_slots`, and one step of its way back |
| `Abandon` | no memory between planning and the first ubatch |
| `Commit` | `apply_ubatch` with `commit` |
| `Computed`, `ComputeFails` | the graph of the ubatch, and the clean-up after a failed one |

`FindSlot` says which cells the circular search takes instead of walking: the first
reusable ones in the order of their distance from where it starts. A decode whose
plan fails may be repeated at once after `memory_update(true)`; this is a `Decode`
that follows. The ranges of `seq_add` and `seq_div` are open at the end, and
`seq_div` divides by two. A kind of cache (`Caches`) fixes what a context has at
construction, and which edits its user calls, so that one run covers several.

### The others

`MCServerQueue`, `MCServerResponse`, `MCStreamSessions`, `MCServerModels` and
`MCKvCells` give the constants values. The theorems are in modules of their own:

| module | about |
|---|---|
| `SeqLemmas` | no component: erasing from a queue, loops that copy some elements, the elements of a set in an order, induction |
| `ServerQueue_proof` | types, quiescence, conservation and order of tasks, wake-ups, captures, deferral |
| `ServerResponse_proof` | the result queue and the refinement of `ResultDelivery` |
| `StreamSessions_proof` | buffers, readers, reachability |
| `ServerModels_proof`, `RouterQueues_proof` | the registry and its counts; on top of it the queue of waiters and the commands to the monitor |
| `KvCells_proof`, `KvDecode_proof` | the cells, their indexes and keys; on top of it plans, the window, gaps and the ownership index |

## 4. The runs

| run | instance | checks |
|---|---|---|
| `queue_serve` | 3 completions (one pinned), a slot read; 2 slots, 2 chunks; callbacks throw | `TypeOK`, `TaskConservation`, `WorkerQuiescent`, `NoStrandedTask`, `DeclinedKeepOrder`; no deadlock |
| `queue_faults` | 2 completions, 1 slot, 2 chunks; cancels, rejects, leases, captures, sleep, terminate | `TaskConservation`, `GenerationNeverStalls`, `CaptureYields` |
| `queue_live` | 2 completions (one pinned), a slot read, 1 slot; sleep, terminate, exceptions; fair threads | `EveryTaskSettled`, `TerminateEndsLoop`, `WaiterReturns` |
| `response_serve` | a streaming request, one with 2 tasks; errors, disconnects, renewed requests; fair threads | `TypeOK`, `NoOrphans`, `AllAnswered`, `CancelReaches`, `DeliversInOrder`, `AnsweredReturns` |
| `stream_life` | 2 requests of one conversation, a failing one of another; DELETE, expiry, shutdown; fair threads | `TypeOK`, `LiveIsReachable`, `CancelUnwinds` |
| `stream_ring` | 1 request, 8 bytes in chunks of 1, 2 and 5 through a cap of 3; a reader from offset 0, 1 or 3; fair threads | `RingIsTail`, `ReaderExact`, `EndIsComplete`, `ReaderEnds` |
| `router_serve` | 2 models, 1 slot, 3 workers, 3 calls; loads, unloads, dropped clients, stopped sessions, sleeping children, one crash or failed spawn | `TypeOK`, `WithinLimit`, `WaitersCounted`, `RequestsCounted`, `StoppingEnds`, `StopHitsItsInstance`, `TickSparesBusy` |
| `router_live` | the same without faults and with requests only; fair workers, monitor, children | `RequestAnswered` |
| `kv_cells` | 3 cells, 2 sequences, ubatches of 2, batches of up to 3 tokens; six kinds of cache | `TypeOK`, `IndexesAgree`, `PlanHolds`, `RowsRotated`, `OwnershipExact`, `PlanRestores`, `DecodeSparesWindow`, `NoGap`; no deadlock |

Why the bounds are enough. Three completions on two slots are the smallest
instance in which a task is deferred while two others run and both releases race
for it; the slot read is what the worker accepts, the others what it declines;
two chunks make the worker start twice in a cycle. `MaxCycles` is one because a
slot's later chunks repeat the first. The faults are tried with two tasks on one
slot, where one is always deferred, running or held while the other is cancelled.
The stream buffer has a cap of three with chunks below it, overlapping it and
above it, and more bytes than twice the cap, so that a reader can be overtaken;
the theorems remove these bounds. Three calls for two models and one slot make an
eviction race with a request for the victim and with a second waiter; one fault
can hit a child at each of its stages. Three cells hold a full window of two and
one row outside of it, so that rows are reused and purged; a batch of three tokens
is two ubatches, so that the second sees the trial placement of the first and may
find no slot; two sequences share rows, diverge and outlive each other; positions
leave the domain of the ownership index. The six kinds divide the edits: all of them
together have too many states. Copies with removals, and shifts, are tried on
positions up to 2, where a row of 2 already hides a row of 0. Deadlock is not checked where the system
may stop: after `terminate()`, when all requests are over, or asleep with nobody
left to ask.

### Runs that show a disagreement

Each checks what a document, a comment or a test says; TLC finds a behaviour of
the code in which it is false. The quotes are in `findings`.

| run | what is said | what happens |
|---|---|---|
| `queue_v_cancel` | a cancel cleans up pending tasks | a task the main thread has dequeued and not yet deferred is missed, and runs later for nobody |
| `router_v_stranded` | all requests of an entry are unblocked by the single load it performs | the load succeeds, the child crashes before the second waiter looks, and the entry stays `loading` at the head of the queue: nobody loads any more |
| `kv_v_div` | the shift array accumulates the shifts applied to the positions | `pos_div` adds the difference with the opposite sign, and the K-shift rotates the key away from its position |

These configurations are kept beside them and are not part of the listed runs; TLC
finds a counterexample for each.

| configuration | what is said | what happens |
|---|---|---|
| `queue_v_sleep` | a new task reloads the model | a task posted by a request that found the server awake, just before it fell asleep, stays in the queue until another request comes |
| `queue_v_stranded` | deferred until one slot is available | the task popped on a release is cancelled; the others stay deferred although all slots are free |
| `queue_v_drain` | while yielding only reading is safe | in a cycle of two chunks the worker publishes a capture during the second |
| `response_v_polling` | `should_stop` is called each interval | every result of another request restarts the timer |
| `stream_v_evict` | a failed request evicts the session it installed | it evicts the session its conversation has now, a newer request's; DELETE finds nothing |
| `router_v_busy` | "the model serving a request survives" (`tests/unit/test_router.py:195`) | the end of a request to a crashed instance decrements the count of its successor, which is then evicted while it serves; `unload_lru` does the same to a victim that a request has reached since it was picked |
| `kv_v_failed` | "remove all positions of that ubatch" (`src/llama-context.cpp:5198`) | only the first sequence of each token is trimmed: a row that the failed graph did not write stays in the other sequences |
| `kv_v_shift` | planning restores "the exact original metadata" (`src/llama-kv-cache.cpp:3433`) | after a failed K-shift, which is only logged, rows of a sliding window keep a pending shift; the trial placement clears it, and `set` does not put it back |

### Fairness

`FairSpec` of each module assumes that a thread which can take a step takes one
(weak fairness per thread: the operating system schedules threads), that a timed
wait ends (`ReaderTimeout`), and that the copy of a capture completes or is
refused. It does not assume that clients come, stay or leave, that anybody calls
`terminate()` or DELETE, nor, in `ServerResponse` and `StreamSessions`, that a
generation makes progress: `AnsweredReturns` starts from tasks that are over, and
`CancelUnwinds` holds however long the generation would go on. In `ServerQueue` a
decode ends because `MaxCycles` stands for `n_predict` or the context size. Two
further assumptions: `ShouldSleep` leaves out that a client woken from one sleep
is still not scheduled when the next one begins, at least a second later; and the
first result of a streamed request, an answer or an error, comes. `LiveSpec` of
`ServerModels` adds that the monitor handles its commands and pipes, that a child
which loads, wakes or was told to exit gets there, and that the stop timeout fires;
it does not assume that requests come or that a proxied request ends.
`KvCells` is sequential and has no liveness property.

## 5. The proofs

All theorems are for any number of clients, slots, requests, readers, models,
workers, cells and sequences, any buffer, chunk and batch sizes, and rest on
`QueueAssumption`, `StreamAssumption`, `RouterAssumption` and `CellsAssumption`,
which say what kind of values the constants are; where a theorem needs more it says
so.

`ServerQueue_proof`. `TypeCorrect` proves the types together with `WorkerInv`: the
worker is busy only between `MainYield` and the end of `MainJoin`, which the types
need because a task in the hands of the worker must be back before the main
thread goes on. `WorkerIsQuiescent` follows. `TasksConserved` adds `ClientInv`: a
client that has not posted has no task anywhere, without which a post could put a
second copy into the queue. The proof goes over the moves of a task between the
five places; the lemmas at the beginning say what a queue holds after each
operation on sequences. Four more rest on `BaseInv`, the three together:

* `GenerationsGoOn`. `GenerationNeverStalls` speaks of the places where the loop
  waits or sleeps and is not inductive: a wake-up could be lost long before. `CycleInv` says
  it of the whole cycle: from `update_slots()` to the next time round, a busy slot
  has its wake-up in the queue, among the declined tasks or in the worker's hands.
* `CapturesYield`. `CaptureInv` adds to `CaptureYields` the declined tasks, which
  `yield_to_queue` puts back later, and that captures have not been stopped.
* `NobodyStranded`. `DeferredInv`: while a task is deferred, a slot is busy or another
  completion is on its way to one. It assumes what the run does, that no request
  gives up, no launch fails and no lease seals an idle slot (`Options`);
  `queue_v_stranded` shows that it is false otherwise.
* `OrderKept`. `Line` is the declined tasks, the task in the worker's hands and the
  queue, one after the other. Every step takes a task out of the line, adds one
  at an end, or moves one between neighbouring parts.

`ServerResponse_proof`. `ResponseInv` says where every result of a task is: sent and
not yet received means queued (`NothingLost`), in order, a final one last and only
of a task that has ended, and `received_count` is the number of tasks with a final
result received. `NothingLeftBehind` needs that ids are registered exactly while
their request is open; `EveryTaskAnswered` that the count reaches the number of
tasks only with all of them in `final`. The queue is purged by a loop over a
container, in the model a recursive function; `CopyTableCopies` of `SeqLemmas` says
what such a loop collects, by induction over the set of the numbers up to which it
holds (`NatSetInduction`). `ImplementsDelivery` is the safety part of `DeliversInOrder`:
`ResultDelivery` begins where `ServerResponse` does, and each step is one of it or a
stutter.

`StreamSessions_proof`. `ReplayInv` joins the types, the buffer, what readers
received and what they were told. `AppendKeepsTail` is its core: the three cases
of `append` leave the tail of the output. A reader's step then follows because
`read_from` copies a suffix of the tail that begins at its offset (`Suffix`,
`Consecutive`), and `EndComplete` because a finalized buffer never changes again
(`Frozen`). `LiveReachable` needs `FailingAlone`, that a request which fails before
it streams is the only one of its conversation; `stream_v_evict` shows that it is
false otherwise. Its invariant `LifeInv` says, besides reachability from the entry
into the map on, that the map is keyed by conversation, that whoever finalizes
somebody else's session has cancelled it before, and hence that the collector
never takes the session of a live generation out of the map.

`ServerModels_proof`. `IInv` joins the types that the counts need, `ChildInv` (the
registry calls a model running exactly while its process has not been reaped,
which is why counting entries bounds processes), `LimitInv` and `CountInv`. `SlotsWithinLimit` follows
because `load` checks the limit again in the critical section that spawns;
`CountsExact` because every path out of `serving` goes through one clean-up and a
new instance starts from a count of zero with all earlier requests stale. In
`EvictionSparesBusy` a step that marks a model is an unload, or the model's count
was zero: by `CountInv` then nobody serves on it, unless it was robbed.

`RouterQueues_proof`. `QueuesInv` adds the two queues. `QueueFits`: one entry per
wanted model whose `n_waiters` is the number of requests that think they are in
it, whatever way they leave `ensure_model_ready`. The commands are harder: a `STOP` may be
handled long after it was posted, when its model has another process. `StopsFit`
says which commands are effective: a `STOP` is if the child is watched or a `WATCH`
is in front of it. A marked model has an effective `STOP`, a deadline or a dead
process (`MarksEnd`); a model that is not marked has none, because a `STOP` left over
from an earlier instance is in front of the `WATCH` of the next
(`StopsHitTheirInstance`).

`KvCells_proof`. The first part is about one operation on any cells: `Good` (typed
and all indexes in agreement) is kept by `Drop`, `Share`, `Put`, `Move` and by
`Restored` if no restored empty cell waits for a rotation. Hence `JournalInv`, the
strengthening that `IndexesConsistent` and `TypeCorrect` need: every journalled
state is itself `Good`, and a cell that was empty in one of them has no shift now.
`UndoApply` is the core of `PlanLeavesNoTrace`: putting the journalled cells back
after `apply_ubatch` gives the cells before it, because `Touched` covers the purge
and because cells in order are determined by position, shift and sequences
(`GoodEqual`). `TraceInv` chains these equations along the journal. The theorem
assumes `ShiftsSafe`, that a sliding window and a failing K-shift do not come
together; `kv_v_shift` shows that it is false otherwise. `KeysRotated` needs
three things. During the planning it speaks of the cells that will be put back
(`RowsInv`). While a graph is computed, the slot still holds the tokens of its ubatch
at their positions (`GraphInv`), so that the keys the graph writes fit the metadata
that `apply_ubatch` wrote before it. And when the graph fails, the clean-up removes
every row whose token had one sequence (`FailsRows`): its position is not below
the first of its sequence in the ubatch. Rows of tokens with several sequences may
stay without a key, which `kv_v_failed` shows; the theorem promises them nothing.

`KvDecode_proof` needs no such assumption, because nothing the search or the
placement reads is lost with a rotation: `Same` is equality of cells up to their
shifts.

* `PlanStillHolds`. `PlanInv`: there is a chain of cells and heads, each what placing the next
  ubatch on the one before makes of it, and each slot of the plan is the only one
  `FindSlot` offers there (`OneSlot`). During planning the journal is the beginning
  of the chain and the cells are its end; putting a journalled state back is a step
  backwards along it (`UndoSame`), placing an ubatch for good a step forwards, so that
  the search finds the planned slot again. `PlanUndone` is the other end of the
  chain: the restored cells and head are those before the planning.
* `WindowSpared`. By `PlanHolds` the cells of a slot can be reused in the state in
  which they are overwritten; what the purge takes is not younger than a row
  that was overwritten, and hence masked too (`SlotSpares`).
* `DecodeLeavesNoGap`. `OrderInv`: the tokens of the waiting ubatches continue the
  positions of each sequence, one ubatch after the other. The tokens of a
  sequence in a batch are numbered by counting (`RunOfTokens`), `Split` cuts the
  numbers into runs (`SplitRuns`), and placing a run cuts a sequence from below
  and extends it above (`PlacedGapless`); a failed graph cuts it above
  (`CutGapless`).
* `GivesUpForWant`. `find_slot` fails only for want of cells: the nearest of the
  reusable cells, taken one after the other, are a slot (`NearestExists`), because cells
  at different places of the circle are at different distances (`FarIs`).
* `ViewsExact`. `ViewInv` says of every view that it is exact for its sequence, where
  exact includes that a view not in use belongs to a sequence without cells and
  that one marked unavailable promises nothing; during planning it speaks of the
  cells the planning began with, which `PlanEnds` brings back. The counts follow from
  the cardinality of disjoint unions (`RankedMore`, `RankedLess`). The order of
  `apply_ubatch` matters: the old owners leave with the old positions, the new join
  with the new ones, and what the purge takes leaves with the positions it has then.

Only model-checked: the liveness properties (`EveryTaskSettled`, `TerminateEndsLoop`,
`WaiterReturns`, `AnsweredReturns`, `CancelUnwinds`, `ReaderEnds`, `RequestAnswered`) and the
fairness part of `DeliversInOrder`, since the prover has no rules for fairness and
ENABLED. All other properties of the passing runs are theorems; of those,
`NoStrandedTask`, `LiveIsReachable`, `PlanRestores` and `RowsRotated` under the
assumptions named above.

## 6. Not modelled

* Tokens, sampling, graphs, kernels, chat templates, argument parsing: numeric or
  textual code inside one callback.
* HTTP, MCP and tool endpoints: I/O around the queue.
* `server_response::broadcast`, `recv` without timeout and `terminate`, which has
  no caller; the diagnostic counters of the queue.
* The lookup handler of the streams, which only reads.
* Router: downloads, removal and reload of the registry, models loaded at startup,
  `unload_all` at shutdown, SSE notifications. The conversation map is a choice of
  `SessionStopped`. Without downloads a name has at most one process.
* KV cache: several streams and copies between them, reading and writing states,
  imports, a K-shift graph that fails half-way, M-RoPE, chunked and symmetric windows, caches that share the cells of
  another one, the change log, generation stamps, the stash, and the physical
  storage of VBR caches. Recurrent and hybrid memory.
* The components of steps 6 to 9 of the plan.

Seen while reading, without a run of their own:

* A task that is deferred because hard leases seal every idle slot waits for a
  release although no slot is processing (`server-context.cpp:12605`, `:8929`); it
  is the option `lease` of `ServerQueue`, and the reason why `NoStrandedTask` is
  checked without it.
* `terminate()` during the sleep leaves `sleeping` set (`server-queue.cpp:586`), so
  a request in `wait_until_no_sleep()` stays there; `WaiterReturns` excludes it.
* The capture-readiness scan is gated by an empty queue (`server-context.cpp:22584`)
  that at this point holds the scheduler's own NEXT_RESPONSE.
* The GET handler of a stream ignores that `read_from` lost its offset
  (`server-stream.cpp:172`): the response of an overtaken reader ends as if it were
  complete. `README-dev.md:139` promises an error only for the offset asked for.
* `README-dev.md:135` says that while a session is attached only a DELETE stops the
  generation, but the first result is awaited with the request's own
  `should_stop`, so a disconnect before it stops the generation too.
* The comment in `evict_and_cancel` says that the generation is not interrupted;
  `README-dev.md:137` and the code say that the worker unwinds and cancels it.
* A request that leaves `ensure_model_ready()` normally takes its queue entry along
  without a `tick()` (`server-models.cpp:1599`): the next entry waits for the next
  poll of its own waiter.
* Between leaving the queue and `req_count++` a request is counted nowhere, so the
  model it waited for may be evicted in between (`server-models.cpp:1604`), although
  the comment on `claim_done` says it is "never picked as a victim before they use
  it"; the request is then refused.
* `on_child_exit` erases the stopping mark by name (`server-models.cpp:1250`), which
  matters only if an older process of the name still runs, after a download.
* `seq_add` moves the ownership view of its own sequence and not those of others
  that share a cell (`llama-kv-cache.cpp:2921`). It is not reached: a cache with
  views cannot shift.
* `seq_keep` and `seq_rm` of all sequences leave the emptied views in use
  (`llama-kv-cache.cpp:2829`, `:2517`); `OwnershipExact` holds of them.
* `pos_add` below zero empties a cell and leaves its `ext` (`llama-kv-cells.h:742`),
  unlike every other way to empty one.

---------------------------- MODULE ServerModels ----------------------------
(***************************************************************************)
(* The router of tools/server/server-models.cpp: one process that starts,  *)
(* stops and proxies to one child server per model, never more than        *)
(* models_max at a time.                                                   *)
(*                                                                         *)
(*   HTTP workers (Threads) run ensure_model_ready and proxy_request, and  *)
(*       the load and unload endpoints.  An action is one critical section *)
(*       of server_models::mutex: between two of them any other actor may  *)
(*       run.  A wait on the condition variable is a guard; the 200 ms     *)
(*       polls of ensure_model_ready are repetitions of Loop.              *)
(*   The monitor thread executes WATCH and STOP commands, applies the      *)
(*       state lines the children print, kills after the stop timeout and  *)
(*       reaps what has exited.                                            *)
(*   The children load, become ready, sleep, wake, exit when told to, and  *)
(*       crash.                                                            *)
(*                                                                         *)
(* Not here: downloads, removal and reload of the registry.  Without them  *)
(* a name is only spawned when UNLOADED, which is set after its previous   *)
(* process was reaped, so a name has at most one child; child[m] is it.    *)
(***************************************************************************)
EXTENDS Integers, Sequences, FiniteSets, SequencesExt

CONSTANTS
    Models,       \* the names in the registry
    Threads,      \* the HTTP workers
    models_max,   \* --models-max; 0 is no limit
    Environment,  \* what the world does: "load" and "unload" API calls,
                  \* "drop" of a client, "stop" of a session, "sleep"
    MaxArrivals,  \* bound: calls the workers accept
    MaxFaults     \* bound: crashes and failed spawns

ASSUME RouterAssumption ==
    /\ IsFiniteSet(Models) /\ Models # {}
    /\ IsFiniteSet(Threads)
    /\ models_max \in Nat
    /\ Environment \subseteq {"load", "unload", "drop", "stop", "sleep"}
    /\ MaxArrivals \in Nat
    /\ MaxFaults \in Nat

VARIABLES
    inst,      \* mapping: status, exit_code # 0, req_count of each model
    recency,   \* the models ordered by last_used, oldest first
    stopping,  \* stopping_models
    queue,     \* server_lru_sched::queue
    th,        \* the workers
    cmds,      \* server_monitor::cmds
    child,     \* each model's process and the monitor's record of it
    robbed,    \* history: models whose req_count was decremented by the end
               \* of a request to an earlier instance of the name
    arrivals,  \* calls accepted so far
    faults     \* faults so far

vars == <<inst, recency, stopping, queue, th, cmds, child, robbed, arrivals,
          faults>>

-----------------------------------------------------------------------------
(* Types                                                                   *)

Status == {"UNLOADED", "LOADING", "LOADED", "SLEEPING"}
Running == {"LOADING", "LOADED", "SLEEPING"}     \* meta.is_running()
ReadyOrSleep == {"LOADED", "SLEEPING"}           \* meta.is_ready_or_sleep()
Entry == [model : Models, waiters : Nat, loading : BOOLEAN]
Command == [type : {"WATCH"}, model : Models, send_exit : {FALSE}]
           \cup [type : {"STOP"}, model : Models, send_exit : BOOLEAN]

\* A worker: where it is, what it was called for, and its local variables.
\* meta is the status get_meta returned, victim the model an unload is about.
\* stale is history: the instance its request went to has been replaced.
Worker == [pc : {"idle", "ensure", "join", "loop", "lru", "unload", "gone",
                 "spawn", "claimed", "proxy", "count", "serving"},
           op : {"request", "load", "unload"}, model : Models,
           meta : Status, queued : BOOLEAN, did_load : BOOLEAN,
           saw_loading : BOOLEAN, ok : BOOLEAN, victim : Models,
           stale : BOOLEAN]

\* A process and its pipe, and the monitor's child_t for it.
Process == [proc : {"none", "starting", "ready", "sleeping", "waking", "dead"},
            pipe : Seq({"loading", "ready", "sleeping"}),
            asked : BOOLEAN, failed : BOOLEAN,
            watched : BOOLEAN, deadline : BOOLEAN]

TypeOK ==
    /\ inst \in [Models -> [status : Status, failed : BOOLEAN, req : Nat]]
    /\ recency \in Seq(Models) /\ ToSet(recency) = Models
    /\ stopping \subseteq Models
    /\ queue \in Seq(Entry)
    /\ th \in [Threads -> Worker]
    /\ cmds \in Seq(Command)
    /\ child \in [Models -> Process]
    /\ robbed \subseteq Models
    /\ arrivals \in 0..MaxArrivals
    /\ faults \in 0..MaxFaults

SomeModel == CHOOSE m \in Models : TRUE

\* A worker between calls.
Idle == [pc |-> "idle", op |-> "request", model |-> SomeModel,
         meta |-> "UNLOADED", queued |-> FALSE, did_load |-> FALSE,
         saw_loading |-> FALSE, ok |-> FALSE, victim |-> SomeModel,
         stale |-> FALSE]

NoChild == [proc |-> "none", pipe |-> <<>>, asked |-> FALSE, failed |-> FALSE,
            watched |-> FALSE, deadline |-> FALSE]

Alive(m) == child[m].proc \notin {"none", "dead"}

-----------------------------------------------------------------------------
(* server_lru_sched                                                        *)

RunningSet(i) == {m \in Models : i[m].status \in Running}

has_capacity(i) == models_max = 0 \/ Cardinality(RunningSet(i)) < models_max

\* Variant: load relies on what unload_lru saw.
BugLimitReached(i) == FALSE

\* load's own check, in the critical section that spawns.
LimitReached(i) ==
    models_max > 0 /\ Cardinality(RunningSet(i)) >= models_max

\* Variant: the count of the previous instance is carried over.
BugNewInstance(i, m) == [i EXCEPT ![m].status = "LOADING"]

\* mapping[name] = inst: the new instance has no requests yet.
NewInstance(i, m) == [i EXCEPT ![m].status = "LOADING", ![m].req = 0]

\* Variant: the mark is forgotten.
BugMarked(s, ms) == s

\* request_stop marks the model.
Marked(s, ms) == s \cup ms

\* Variant: the mark outlives the instance.
BugUnmarked(s, m) == s

\* update_status(UNLOADED) takes the mark away.
Unmarked(s, m) == s \ {m}

\* Variant: the guard against an instance that started anew is missing.
BugDecremented(n) == n - 1

\* The cleanup of a proxied request.
Decremented(n) == IF n > 0 THEN n - 1 ELSE 0

Position(m) == CHOOSE k \in DOMAIN recency : recency[k] = m

\* m is used now: last_used = now.
Touched(m) == Append(RemoveAt(recency, Position(m)), m)

\* x was used before y.
Older(x, y) == Position(x) < Position(y)

\* Variant: pick_victim does not look at req_count.
BugEvictable(q, i, s) ==
    {m \in Models : /\ i[m].status \in ReadyOrSleep
                    /\ m \notin s
                    /\ \A k \in DOMAIN q : q[k].model # m}

\* The models pick_victim may return: idle, up, not already on their way
\* out, and wanted by no queued request.
Evictable(q, i, s) ==
    {m \in Models : /\ i[m].req = 0
                    /\ i[m].status \in ReadyOrSleep
                    /\ m \notin s
                    /\ \A k \in DOMAIN q : q[k].model # m}

\* The queue after a request for m joined: the requests for one model share
\* one entry.
Join(q, m) ==
    IF \E k \in DOMAIN q : q[k].model = m
    THEN [k \in DOMAIN q |->
            IF q[k].model = m THEN [q[k] EXCEPT !.waiters = @ + 1] ELSE q[k]]
    ELSE Append(q, [model |-> m, waiters |-> 1, loading |-> FALSE])

\* Variant: the entry is kept until a waiter too many has left.
BugLeave(q, m) ==
    LET at == {k \in DOMAIN q : q[k].model = m}
        k  == CHOOSE k \in at : \A j \in at : k <= j
    IN  IF at = {} THEN q
        ELSE IF q[k].waiters < 1 THEN RemoveAt(q, k)
        ELSE [q EXCEPT ![k].waiters = @ - 1]

\* The queue after a request for m left: the last one takes the entry along.
Leave(q, m) ==
    LET at == {k \in DOMAIN q : q[k].model = m}
        k  == CHOOSE k \in at : \A j \in at : k <= j
    IN  IF at = {} THEN q
        ELSE IF q[k].waiters <= 1 THEN RemoveAt(q, k)
        ELSE [q EXCEPT ![k].waiters = @ - 1]

\* It is the turn of m to load and nobody is loading it yet.
CanClaim(q, i, m) ==
    /\ q # <<>> /\ Head(q).model = m /\ ~Head(q).loading
    /\ has_capacity(i)

\* The queue after the load that was claimed for m returned (ok) or threw.
ClaimDone(q, m, ok) ==
    [k \in DOMAIN q |->
       IF q[k].model = m /\ ~ok THEN [q[k] EXCEPT !.loading = FALSE] ELSE q[k]]

\* What tick evicts: the least recently used idle models, as many as the
\* queued requests outnumber the slots that are free or being freed.
Victims(q, i, s) ==
    LET running == RunningSet(i)
        needed  == Cardinality({k \in DOMAIN q : ~q[k].loading})
        claimed == Cardinality({k \in DOMAIN q :
                                  q[k].loading /\ q[k].model \notin running})
        free    == models_max - Cardinality(running)
                   + Cardinality(running \cap s) - claimed
        idle    == Evictable(q, i, s)
    IN  IF models_max = 0 \/ q = <<>> THEN {}
        ELSE {m \in idle :
                Cardinality({x \in idle : Older(x, m)}) < needed - free}

\* request_stop of each model of ms, in order of last use.
Stops(ms) ==
    LET upto[k \in 0..Len(recency)] ==
          IF k = 0 THEN <<>>
          ELSE IF recency[k] \notin ms THEN upto[k - 1]
          ELSE Append(upto[k - 1], [type |-> "STOP", model |-> recency[k],
                                    send_exit |-> TRUE])
    IN  upto[Len(recency)]

\* tick over the queue q, the registry i, the stopping set s and the pending
\* commands c that the critical section has computed so far.
Tick(q, i, s, c) ==
    /\ stopping' = Marked(s, Victims(q, i, s))
    /\ cmds' = c \o Stops(Victims(q, i, s))

-----------------------------------------------------------------------------
(* Calls                                                                   *)

At(t, pc) == th[t].pc = pc

\* Threads inside proxy_request's cleanup window for m.
Serving(m) == {t \in Threads : At(t, "serving") /\ th[t].model = m}

\* A call arrives: get_meta, in its own critical section.  The load endpoint
\* refuses a running model and the unload endpoint one that is not.
Arrive(t) ==
    /\ At(t, "idle") /\ arrivals < MaxArrivals
    /\ \E m \in Models, op \in {"request", "load", "unload"} :
        /\ op \in Environment \cup {"request"}
        /\ op = "load" => inst[m].status \notin Running
        /\ op = "unload" => inst[m].status \in Running
        /\ th' = [th EXCEPT ![t] =
             [Idle EXCEPT !.op = op, !.model = m, !.victim = m,
                !.meta = inst[m].status,
                !.pc = CASE op = "request" -> "ensure" [] op = "load" -> "lru"
                         [] op = "unload" -> "unload"]]
    /\ arrivals' = arrivals + 1
    /\ UNCHANGED <<inst, recency, stopping, queue, cmds, child, robbed,
                   faults>>

\* ensure_model_ready looks at stopping_models and trusts the status it read
\* in the critical section before.
CheckStopping(t) ==
    /\ At(t, "ensure")
    /\ th' = [th EXCEPT ![t].meta = "UNLOADED", ![t].pc =
                IF th[t].model \notin stopping /\ th[t].meta \in ReadyOrSleep
                THEN "proxy" ELSE "join"]
    /\ UNCHANGED <<inst, recency, stopping, queue, cmds, child, robbed,
                   arrivals, faults>>

\* ensure_model_ready enters the queue when the model is down.
JoinQueue(t) ==
    LET m == th[t].model IN
    /\ At(t, "join")
    /\ \/ /\ inst[m].status = "UNLOADED"
          /\ queue' = Join(queue, m)
          /\ Tick(queue', inst, stopping, cmds)
          /\ th' = [th EXCEPT ![t].pc = "loop", ![t].queued = TRUE]
       \/ /\ inst[m].status # "UNLOADED"
          /\ th' = [th EXCEPT ![t].pc = "loop"]
          /\ UNCHANGED <<queue, stopping, cmds>>
    /\ UNCHANGED <<inst, recency, child, robbed, arrivals, faults>>

\* Variant: a worker forgets to leave.
BugLeaveQueue(t, q) == q

\* leave_queue.
LeaveQueue(t, q) == IF th[t].queued THEN Leave(q, th[t].model) ELSE q

\* One turn of ensure_model_ready's loop, up to the point where it gives the
\* mutex back, from the queue q, stopping set s and commands c at its start.
\* drop is what should_stop() says.
Turn(t, q, s, c, did, drop) ==
    LET m      == th[t].model
        status == inst[m].status
        \* a stopping instance takes no new request: the next one serves it
        joins  == m \in s /\ ~th[t].queued
        q1     == IF joins THEN Join(q, m) ELSE q
        s1     == IF joins THEN Marked(s, Victims(q1, inst, s)) ELSE s
        c1     == IF joins THEN c \o Stops(Victims(q1, inst, s)) ELSE c
        throws == /\ queue' = IF joins THEN Leave(q1, m) ELSE LeaveQueue(t, q1)
                  /\ Tick(queue', inst, s1, c1)
                  /\ th' = [th EXCEPT ![t] = Idle]
        breaks == /\ queue' = LeaveQueue(t, q)
                  /\ stopping' = s /\ cmds' = c
                  /\ th' = [th EXCEPT ![t] = [Idle EXCEPT !.model = m,
                                                !.pc = "proxy"]]
        stays(pc, saw) ==
            th' = [th EXCEPT ![t].pc = pc, ![t].did_load = did,
                     ![t].saw_loading = saw, ![t].queued = @ \/ joins]
        fell   == did \/ th[t].saw_loading
        waits  == \/ status = "LOADING"
                  \/ status = "UNLOADED" /\ ~fell /\ th[t].queued
    IN  \/ m \in s /\ drop /\ throws
        \/ /\ m \in s /\ ~drop
           /\ queue' = q1 /\ stopping' = s1 /\ cmds' = c1
           /\ stays("loop", th[t].saw_loading)
        \/ m \notin s /\ status \in ReadyOrSleep /\ breaks
        \/ /\ m \notin s /\ status = "UNLOADED" /\ fell
           /\ \/ inst[m].failed /\ throws
              \/ ~inst[m].failed /\ breaks
        \/ /\ m \notin s /\ status = "UNLOADED" /\ ~fell /\ ~th[t].queued
           /\ breaks
        \/ m \notin s /\ waits /\ drop /\ throws
        \/ /\ m \notin s /\ waits /\ ~drop
           /\ status = "UNLOADED" /\ CanClaim(q, inst, m)
           /\ queue' = [q EXCEPT ![1].loading = TRUE]
           /\ stopping' = s /\ cmds' = c
           /\ stays("lru", th[t].saw_loading)
        \/ /\ m \notin s /\ waits /\ ~drop
           /\ ~(status = "UNLOADED" /\ CanClaim(q, inst, m))
           /\ queue' = q /\ stopping' = s /\ cmds' = c
           /\ stays("loop", th[t].saw_loading \/ status = "LOADING")

\* The worker takes the mutex, at first or after 200 ms or a notification.
Loop(t) ==
    /\ At(t, "loop")
    /\ Turn(t, queue, stopping, cmds, th[t].did_load, FALSE)
    /\ UNCHANGED <<inst, recency, child, robbed, arrivals, faults>>

\* The same turn when the client has gone.
Drop(t) ==
    /\ At(t, "loop") /\ "drop" \in Environment
    /\ Turn(t, queue, stopping, cmds, th[t].did_load, TRUE)
    /\ UNCHANGED <<inst, recency, child, robbed, arrivals, faults>>

\* The claimed load has returned or thrown: claim_done, tick, and the next
\* turn without releasing the mutex.
Claimed(t) ==
    LET q == ClaimDone(queue, th[t].model, th[t].ok)
        v == Victims(q, inst, stopping)
    IN  /\ At(t, "claimed")
        /\ Turn(t, q, Marked(stopping, v), cmds \o Stops(v),
                th[t].did_load \/ th[t].ok, FALSE)
        /\ UNCHANGED <<inst, recency, child, robbed, arrivals, faults>>

-----------------------------------------------------------------------------
(* load                                                                    *)

\* load's return to its caller: the queue's loop or the endpoint.
Return(t, ok) ==
    th' = [th EXCEPT ![t] = IF @.op = "request"
                            THEN [@ EXCEPT !.pc = "claimed", !.ok = ok,
                                           !.victim = SomeModel]
                            ELSE Idle]

\* unload_lru, first part: capacity, or the model to give up.
UnloadLru(t) ==
    LET idle == Evictable(queue, inst, stopping) IN
    /\ At(t, "lru")
    /\ \/ /\ has_capacity(inst) \/ idle = {}
          /\ th' = [th EXCEPT ![t].pc = "spawn"]
       \/ /\ ~has_capacity(inst)
          /\ \E v \in idle :
               /\ \A x \in idle \ {v} : Older(v, x)
               /\ th' = [th EXCEPT ![t].pc = "unload", ![t].victim = v]
    /\ UNCHANGED <<inst, recency, stopping, queue, cmds, child, robbed,
                   arrivals, faults>>

\* unload: a running model is asked to stop, one that is loading is killed.
Unload(t) ==
    LET v == th[t].victim
        loading == inst[v].status = "LOADING"
    IN
    /\ At(t, "unload")
    /\ \/ /\ inst[v].status \in Running
          /\ child' = IF loading /\ Alive(v)
                      THEN [child EXCEPT ![v].proc = "dead",
                                         ![v].failed = TRUE]
                      ELSE child
          /\ stopping' = Marked(stopping, {v})
          /\ cmds' = IF v \in stopping THEN cmds
                     ELSE Append(cmds, [type |-> "STOP", model |-> v,
                                        send_exit |-> ~loading])
       \/ /\ inst[v].status \notin Running
          /\ UNCHANGED <<child, stopping, cmds>>
    /\ th' = [th EXCEPT ![t] = IF @.op = "unload" THEN Idle
                               ELSE [@ EXCEPT !.pc = "gone"]]
    /\ UNCHANGED <<inst, recency, queue, robbed, arrivals, faults>>

\* unload_lru, last part: wait until the victim is down.
VictimGone(t) ==
    /\ At(t, "gone") /\ inst[th[t].victim].status = "UNLOADED"
    /\ th' = [th EXCEPT ![t].pc = "spawn"]
    /\ UNCHANGED <<inst, recency, stopping, queue, cmds, child, robbed,
                   arrivals, faults>>

\* The last critical section of load: nothing to do when the model is not
\* down, an exception when the slot was lost or the spawn failed, else a new
\* instance, whose req_count is 0, and a WATCH for the monitor.
Spawn(t) ==
    LET m == th[t].model
        full == LimitReached(inst)
    IN
    /\ At(t, "spawn")
    /\ \/ /\ inst[m].status # "UNLOADED"
          /\ Return(t, TRUE)
          /\ UNCHANGED <<inst, recency, cmds, child, robbed, faults>>
       \/ /\ inst[m].status = "UNLOADED" /\ full
          /\ Return(t, FALSE)
          /\ UNCHANGED <<inst, recency, cmds, child, robbed, faults>>
       \/ /\ inst[m].status = "UNLOADED" /\ ~full /\ faults < MaxFaults
          /\ faults' = faults + 1
          /\ Return(t, FALSE)
          /\ UNCHANGED <<inst, recency, cmds, child, robbed>>
       \/ /\ inst[m].status = "UNLOADED" /\ ~full
          /\ inst' = NewInstance(inst, m)
          /\ recency' = Touched(m)
          /\ child' = [child EXCEPT ![m] =
                         [NoChild EXCEPT !.proc = "starting"]]
          /\ cmds' = Append(cmds, [type |-> "WATCH", model |-> m,
                                   send_exit |-> FALSE])
          /\ th' = [u \in Threads |->
                      IF u \in Serving(m) THEN [th[u] EXCEPT !.stale = TRUE]
                      ELSE IF u # t THEN th[u]
                      ELSE IF th[t].op = "request"
                      THEN [th[t] EXCEPT !.pc = "claimed", !.ok = TRUE,
                                         !.victim = SomeModel]
                      ELSE Idle]
          /\ robbed' = robbed \ {m}
          /\ UNCHANGED faults
    /\ UNCHANGED <<stopping, queue, arrivals>>

-----------------------------------------------------------------------------
(* proxy_request                                                           *)

\* get_meta again: a model that is not running is an error to the client.
ProxyMeta(t) ==
    /\ At(t, "proxy")
    /\ th' = [th EXCEPT ![t] =
                IF inst[@.model].status \in Running
                THEN [@ EXCEPT !.pc = "count"] ELSE Idle]
    /\ UNCHANGED <<inst, recency, stopping, queue, cmds, child, robbed,
                   arrivals, faults>>

\* proxy_post finds that a stop has taken the session of the request while
\* it waited for the model, and answers without proxying.
SessionStopped(t) ==
    /\ At(t, "proxy") /\ "stop" \in Environment
    /\ th' = [th EXCEPT ![t] = Idle]
    /\ UNCHANGED <<inst, recency, stopping, queue, cmds, child, robbed,
                   arrivals, faults>>

\* req_count++, and last_used for a POST.
Count(t) ==
    LET m == th[t].model IN
    /\ At(t, "count")
    /\ inst' = [inst EXCEPT ![m].req = @ + 1]
    /\ recency' \in {recency, Touched(m)}
    /\ th' = [th EXCEPT ![t].pc = "serving"]
    /\ UNCHANGED <<stopping, queue, cmds, child, robbed, arrivals, faults>>

\* The response is over (a child that sleeps or wakes answers only then, a
\* connection to a dead or an unready one fails at once): proxy->cleanup.
Cleanup(t) ==
    LET m == th[t].model
        n == inst[m].req
    IN
    /\ At(t, "serving")
    /\ \/ th[t].stale \/ "drop" \in Environment
       \/ child[m].proc \notin {"sleeping", "waking"}
    /\ inst' = [inst EXCEPT ![m].req = Decremented(n)]
    /\ IF n = 1 THEN Tick(queue, inst', stopping, cmds)
       ELSE UNCHANGED <<stopping, cmds>>
    /\ th' = [th EXCEPT ![t] = Idle]
    /\ robbed' = IF th[t].stale /\ n > 0 THEN robbed \cup {m} ELSE robbed
    /\ UNCHANGED <<recency, queue, child, arrivals, faults>>

-----------------------------------------------------------------------------
(* server_monitor                                                          *)

\* handle_commands: a STOP is for the newest child of its name, if any.
HandleCommand ==
    LET cmd == Head(cmds) IN
    /\ cmds # <<>>
    /\ cmds' = Tail(cmds)
    /\ child' = CASE cmd.type = "WATCH" ->
                       [child EXCEPT ![cmd.model].watched = TRUE]
                  [] cmd.type = "STOP" /\ child[cmd.model].watched ->
                       [child EXCEPT
                          ![cmd.model].asked =
                              IF cmd.send_exit THEN TRUE ELSE @,
                          ![cmd.model].deadline = TRUE]
                  [] OTHER -> child
    /\ UNCHANGED <<inst, recency, stopping, queue, th, robbed, arrivals,
                   faults>>

\* A line of the child's output: handle_child_state, which knows the name
\* only, and update_status.
HandleChildState(m) ==
    /\ child[m].watched /\ child[m].pipe # <<>>
    /\ inst' = [inst EXCEPT ![m].failed = FALSE, ![m].status =
                  CASE Head(child[m].pipe) = "loading"  -> "LOADING"
                    [] Head(child[m].pipe) = "ready"    -> "LOADED"
                    [] Head(child[m].pipe) = "sleeping" -> "SLEEPING"]
    /\ child' = [child EXCEPT ![m].pipe = Tail(@)]
    /\ Tick(queue, inst', stopping, cmds)
    /\ UNCHANGED <<recency, queue, th, robbed, arrivals, faults>>

\* The output is closed and the process is gone: on_child_exit.
OnChildExit(m) ==
    /\ child[m].watched /\ child[m].pipe = <<>> /\ child[m].proc = "dead"
    /\ inst' = [inst EXCEPT ![m].status = "UNLOADED",
                            ![m].failed = child[m].failed]
    /\ child' = [child EXCEPT ![m] = NoChild]
    /\ Tick(queue, inst', Unmarked(stopping, m), cmds)
    /\ UNCHANGED <<recency, queue, th, robbed, arrivals, faults>>

\* The stop timeout is over: the child is killed.
ForceKill(m) ==
    /\ child[m].deadline /\ Alive(m)
    /\ child' = [child EXCEPT ![m].proc = "dead", ![m].failed = TRUE,
                              ![m].deadline = FALSE]
    /\ UNCHANGED <<inst, recency, stopping, queue, th, cmds, robbed, arrivals,
                   faults>>

-----------------------------------------------------------------------------
(* Children                                                                *)

\* The process of m goes from one state to another and prints a line.  The
\* progress lines of a first load repeat the status LOADING and are left out.
ChildStep(m, from, to, line) ==
    /\ child[m].proc = from
    /\ child' = [child EXCEPT ![m].proc = to, ![m].pipe = @ \o line]
    /\ UNCHANGED <<inst, recency, stopping, queue, th, cmds, robbed, arrivals,
                   faults>>

ChildReady(m) == ChildStep(m, "starting", "ready", <<"ready">>)

\* An idle child frees its model.
ChildSleeps(m) ==
    /\ "sleep" \in Environment
    /\ \A t \in Serving(m) : th[t].stale
    /\ ChildStep(m, "ready", "sleeping", <<"sleeping">>)

\* A request wakes it: the model is loaded again.
ChildWakes(m) ==
    /\ \E t \in Serving(m) : ~th[t].stale
    /\ ChildStep(m, "sleeping", "waking", <<"loading">>)

ChildWoken(m) == ChildStep(m, "waking", "ready", <<"ready">>)

\* The exit command is read by a thread that starts once the model is loaded.
ChildExits(m) ==
    /\ child[m].asked /\ child[m].proc \in {"ready", "sleeping", "waking"}
    /\ child' = [child EXCEPT ![m].proc = "dead"]
    /\ UNCHANGED <<inst, recency, stopping, queue, th, cmds, robbed, arrivals,
                   faults>>

ChildCrashes(m) ==
    /\ Alive(m) /\ faults < MaxFaults
    /\ child' = [child EXCEPT ![m].proc = "dead", ![m].failed = TRUE]
    /\ faults' = faults + 1
    /\ UNCHANGED <<inst, recency, stopping, queue, th, cmds, robbed, arrivals>>

-----------------------------------------------------------------------------
(* Specification                                                           *)

Init ==
    /\ inst = [m \in Models |->
                 [status |-> "UNLOADED", failed |-> FALSE, req |-> 0]]
    /\ recency = SetToSeq(Models)
    /\ stopping = {} /\ queue = <<>> /\ cmds = <<>>
    /\ th = [t \in Threads |-> Idle]
    /\ child = [m \in Models |-> NoChild]
    /\ robbed = {} /\ arrivals = 0 /\ faults = 0

\* What a worker does once it has been called.
WorkerStep(t) ==
    \/ CheckStopping(t) \/ JoinQueue(t) \/ Loop(t) \/ Claimed(t)
    \/ UnloadLru(t) \/ Unload(t) \/ VictimGone(t) \/ Spawn(t)
    \/ ProxyMeta(t) \/ Count(t) \/ Cleanup(t)

MonitorStep ==
    \/ HandleCommand
    \/ \E m \in Models : \/ HandleChildState(m) \/ OnChildExit(m)
                         \/ ForceKill(m)

ChildProgress(m) ==
    ChildReady(m) \/ ChildWakes(m) \/ ChildWoken(m) \/ ChildExits(m)

Next ==
    \/ \E t \in Threads : \/ Arrive(t) \/ WorkerStep(t)
                          \/ Drop(t) \/ SessionStopped(t)
    \/ MonitorStep
    \/ \E m \in Models : \/ ChildProgress(m) \/ ChildSleeps(m)
                         \/ ChildCrashes(m)

Spec == Init /\ [][Next]_vars

\* Workers, the monitor and live children keep running; nothing makes a call
\* arrive, a client drop, a session stop, or a child sleep or crash.
Fairness ==
    /\ \A t \in Threads : WF_vars(WorkerStep(t))
    /\ WF_vars(HandleCommand)
    /\ \A m \in Models : /\ WF_vars(HandleChildState(m) \/ OnChildExit(m))
                         /\ WF_vars(ForceKill(m))
                         /\ WF_vars(ChildProgress(m))

LiveSpec == Spec /\ Fairness

-----------------------------------------------------------------------------
(* Properties                                                              *)

\* At most models_max models hold a slot, counting as holders both the models
\* the registry calls running and the processes that are really there: the
\* capacity that try_claim and unload_lru saw may be gone when load spawns.
WithinLimit ==
    models_max > 0 =>
        Cardinality({m \in Models : \/ inst[m].status \in Running
                                    \/ Alive(m)}) <= models_max

\* The queue is exactly what the workers think it is: an entry per wanted
\* model, whose n_waiters are the requests that joined and have not left.
\* Every break, exception and cancellation must take its own waiter along.
WaitersCounted ==
    LET waiting(m) == {t \in Threads : th[t].queued /\ th[t].model = m}
    IN  /\ \A k \in DOMAIN queue :
             /\ queue[k].waiters = Cardinality(waiting(queue[k].model))
             /\ \A j \in DOMAIN queue \ {k} :
                    queue[j].model # queue[k].model
        /\ \A t \in Threads : th[t].queued =>
             \E k \in DOMAIN queue : queue[k].model = th[t].model

\* req_count counts the requests proxied to the present instance, unless the
\* cleanup of a request to an earlier instance has decremented it.
RequestsCounted ==
    \A m \in Models \ robbed :
        inst[m].req = Cardinality({t \in Serving(m) : ~th[t].stale})

\* A model in stopping_models really is being stopped: the command is on its
\* way, or its timeout runs, or the process is gone and will be reaped.  A
\* mark left behind would keep the name from ever serving again.
StoppingEnds ==
    \A m \in stopping :
        /\ inst[m].status \in Running
        /\ \/ \E k \in DOMAIN cmds : cmds[k].type = "STOP" /\ cmds[k].model = m
           \/ child[m].deadline
           \/ child[m].proc = "dead"

\* A stop never hits an instance it was not meant for: a process that was
\* told to exit, or whose timeout runs, is one the registry is stopping.
StopHitsItsInstance ==
    \A m \in Models : child[m].asked \/ child[m].deadline => m \in stopping

\* The scheduler gives up a model only when it serves nobody.  (unload, which
\* the API and unload_lru call, is another matter; and so is an instance that
\* was robbed of a count.)
TickSparesBusy ==
    [][\A m \in Models : m \in stopping' \ stopping =>
          \/ \E t \in Threads : At(t, "unload") /\ th'[t].pc # "unload"
          \/ m \in robbed'
          \/ \A t \in Serving(m) : th[t].stale \/ th'[t].pc = "idle"]_vars

\* "The model serving a request survives": no model is evicted to make room
\* while a request of its present instance is in flight.
BusySurvives ==
    [][\A m \in Models : m \in stopping' \ stopping =>
          \A t \in Serving(m) : th[t].stale \/ th'[t].pc = "idle"]_vars

\* A request that waits for a model does not wait for ever: it is proxied or
\* answered with an error.
RequestAnswered ==
    \A t \in Threads : At(t, "loop") ~> th[t].pc \in {"idle", "serving"}

=============================================================================

--------------------------- MODULE ServerResponse ---------------------------
(***************************************************************************)
(* server_response and server_response_reader of tools/server: how the     *)
(* results of tasks travel from the inference thread (or its worker) to    *)
(* the HTTP threads.  Each request has one reader, which registers its     *)
(* task ids, posts the tasks and polls for their results until it has one  *)
(* final result of each, receives an error, or notices that its client is  *)
(* gone; then it withdraws and cancels what is left.                       *)
(*                                                                         *)
(* One action is one critical section of mutex_results.  The requests      *)
(* blocked in condition_results.wait_for are the members of blocked; its   *)
(* timer starts when a request joins the set and is forgotten when it      *)
(* leaves.  The server side is what ServerQueue does to a posted task: any *)
(* number of partial results, then a final one or an error, or nothing     *)
(* once a cancel reaches it.                                               *)
(***************************************************************************)
EXTENDS Integers, Sequences, FiniteSets, SequencesExt

CONSTANTS
  Readers,      \* the HTTP requests
  Tasks,        \* task ids
  Owner,        \* Owner[t]: the request that posts t
  Streams,      \* the requests that stream: their tasks send partial results
  MaxPartials,  \* bound: partial results of a task
  Options       \* "error", "disconnect", "traffic": requests keep coming

ASSUME ResponseAssumption ==
  /\ Owner \in [Tasks -> Readers]
  /\ Streams \subseteq Readers
  /\ MaxPartials \in Nat
  /\ IsFiniteSet(Tasks)
  /\ Options \subseteq {"error", "disconnect", "traffic"}

VARIABLES
  waiting_task_ids, queue_results,   \* server_response
  blocked,                           \* requests in condition_results.wait_for
  readerPc, received_count, cancelled,
  cleaning,                          \* ids stop() has yet to clean up
  closed,                            \* should_stop(): the client is gone
  phase,                             \* what the server does with a task
  sent, got, final                   \* history: results accepted, received;
                                     \* tasks whose final result was received

responseVars == <<waiting_task_ids, queue_results, blocked>>
readerVars   == <<readerPc, received_count, cancelled, cleaning>>
serverVars   == <<phase, sent>>
historyVars  == <<got, final>>
vars == <<responseVars, readerVars, closed, serverVars, historyVars>>

IdTasks(r) == {t \in Tasks : Owner[t] = r}

Result == [id : Tasks, n : Nat \ {0}, kind : {"partial", "stop", "error"}]

ReaderPc == {"new", "registered", "next", "recv", "timeout", "stop", "clean", "done"}
Phase == {"none", "posted", "cancelling", "ended"}

-----------------------------------------------------------------------------
Init ==
  /\ waiting_task_ids = {} /\ queue_results = <<>> /\ blocked = {}
  /\ readerPc = [r \in Readers |-> "new"]
  /\ received_count = [r \in Readers |-> 0]
  /\ cancelled = [r \in Readers |-> FALSE]
  /\ cleaning = [r \in Readers |-> {}]
  /\ closed = [r \in Readers |-> FALSE]
  /\ phase = [t \in Tasks |-> "none"]
  /\ sent = [t \in Tasks |-> 0]
  /\ got = [t \in Tasks |-> 0] /\ final = {}

GoTo(r, pc) == readerPc' = [readerPc EXCEPT ![r] = pc]

-----------------------------------------------------------------------------
(* server_response_reader.                                                 *)

\* the ids are not registered
BugReaderRegister(r) ==
  /\ readerPc[r] = "new"
  /\ GoTo(r, "registered")
  /\ UNCHANGED <<responseVars, received_count, cancelled, cleaning, closed,
                 serverVars, historyVars>>

\* post_tasks(): first add_waiting_task_ids ...
ReaderRegister(r) ==
  /\ readerPc[r] = "new"
  /\ waiting_task_ids' = waiting_task_ids \cup IdTasks(r)
  /\ GoTo(r, "registered")
  /\ UNCHANGED <<queue_results, blocked, received_count, cancelled, cleaning,
                 closed, serverVars, historyVars>>

\* ... then post to the task queue
ReaderPost(r) ==
  /\ readerPc[r] = "registered"
  /\ phase' = [t \in Tasks |-> IF t \in IdTasks(r) THEN "posted" ELSE phase[t]]
  /\ GoTo(r, "next")
  /\ UNCHANGED <<responseVars, received_count, cancelled, cleaning, closed, sent,
                 historyVars>>

\* a request of which something was received is taken to be over
BugHasNext(r) == ~cancelled[r] /\ received_count[r] = 0

HasNext(r) == ~cancelled[r] /\ received_count[r] < Cardinality(IdTasks(r))

\* the loops over next(): wait_for_all() asks has_next(); the streaming loop
\* asks should_stop() before, from the second result on
Started(r) == \E t \in IdTasks(r) : got[t] > 0

ReaderNext(r) ==
  /\ readerPc[r] = "next"
  /\ IF HasNext(r) /\ ~(r \in Streams /\ Started(r) /\ closed[r])
     THEN GoTo(r, "recv") ELSE GoTo(r, "stop")
  /\ UNCHANGED <<responseVars, received_count, cancelled, cleaning, closed,
                 serverVars, historyVars>>

\* the last match is taken
BugFirstFor(r, i) ==
  /\ Owner[queue_results[i].id] = r
  /\ \A j \in (i + 1)..Len(queue_results) : Owner[queue_results[j].id] # r

\* the scan of recv_with_timeout() ends at i
FirstFor(r, i) ==
  /\ Owner[queue_results[i].id] = r
  /\ \A j \in 1..(i - 1) : Owner[queue_results[j].id] # r

\* every result ends its task
BugIsStop(x) == TRUE

IsStop(x) == x.kind = "stop"

\* recv_with_timeout() finds a result, and what next() does with it
ReaderReceive(r) ==
  /\ readerPc[r] = "recv" /\ r \notin blocked
  /\ \E i \in DOMAIN queue_results :
       LET x == queue_results[i] IN
       /\ FirstFor(r, i)
       /\ queue_results' = RemoveAt(queue_results, i)
       /\ got' = [got EXCEPT ![x.id] = x.n]
       /\ IF x.kind = "error"
          THEN GoTo(r, "stop") /\ UNCHANGED <<received_count, final>>
          ELSE /\ GoTo(r, "next")
               /\ received_count' = [received_count EXCEPT ![r] =
                                       IF IsStop(x) THEN @ + 1 ELSE @]
               /\ final' = IF x.kind = "stop" THEN final \cup {x.id} ELSE final
  /\ UNCHANGED <<waiting_task_ids, blocked, cancelled, cleaning, closed, serverVars>>

\* recv_with_timeout() finds none and waits
ReaderBlock(r) ==
  /\ readerPc[r] = "recv" /\ r \notin blocked
  /\ \A i \in DOMAIN queue_results : Owner[queue_results[i].id] # r
  /\ blocked' = blocked \cup {r}
  /\ UNCHANGED <<waiting_task_ids, queue_results, readerVars, closed, serverVars,
                 historyVars>>

\* wait_for() ran its whole time; a result may come before the lock is back
ReaderTimeout(r) ==
  /\ r \in blocked
  /\ blocked' = blocked \ {r}
  /\ GoTo(r, "timeout")
  /\ UNCHANGED <<waiting_task_ids, queue_results, received_count, cancelled,
                 cleaning, closed, serverVars, historyVars>>

\* next() after a timeout
ReaderPoll(r) ==
  /\ readerPc[r] = "timeout"
  /\ GoTo(r, IF closed[r] THEN "stop" ELSE "recv")
  /\ UNCHANGED <<responseVars, received_count, cancelled, cleaning, closed,
                 serverVars, historyVars>>

\* stop(): no further results are accepted; tasks that are not finished are
\* cancelled
ReaderStop(r) ==
  /\ readerPc[r] = "stop"
  /\ waiting_task_ids' = waiting_task_ids \ IdTasks(r)
  /\ IF HasNext(r)
     THEN /\ cancelled' = [cancelled EXCEPT ![r] = TRUE]
          /\ cleaning' = [cleaning EXCEPT ![r] = IdTasks(r)]
          /\ GoTo(r, "clean")
     ELSE GoTo(r, "done") /\ UNCHANGED <<cancelled, cleaning>>
  /\ UNCHANGED <<queue_results, blocked, received_count, closed, serverVars,
                 historyVars>>

\* results that were accepted already stay in the queue
BugPurged(t) == queue_results

\* remove_waiting_task_id()
Purged(t) ==
  LET kept[i \in 0..Len(queue_results)] ==
        IF i = 0 THEN <<>>
        ELSE IF queue_results[i].id = t THEN kept[i - 1]
        ELSE Append(kept[i - 1], queue_results[i])
  IN kept[Len(queue_results)]

ReaderClean(r) ==
  /\ readerPc[r] = "clean"
  /\ \E t \in cleaning[r] :
       /\ waiting_task_ids' = waiting_task_ids \ {t}
       /\ queue_results' = Purged(t)
       /\ cleaning' = [cleaning EXCEPT ![r] = @ \ {t}]
  /\ UNCHANGED <<blocked, readerPc, received_count, cancelled, closed, serverVars,
                 historyVars>>

\* the CANCEL tasks are posted before the ids are cleaned up
BugReaderCancel(r) ==
  /\ readerPc[r] = "clean"
  /\ phase' = [t \in Tasks |-> IF t \in IdTasks(r) /\ phase[t] = "posted"
                               THEN "cancelling" ELSE phase[t]]
  /\ GoTo(r, "done")
  /\ UNCHANGED <<responseVars, received_count, cancelled, cleaning, closed, sent,
                 historyVars>>

\* the CANCEL tasks are posted
ReaderCancel(r) ==
  /\ readerPc[r] = "clean" /\ cleaning[r] = {}
  /\ phase' = [t \in Tasks |-> IF t \in IdTasks(r) /\ phase[t] = "posted"
                               THEN "cancelling" ELSE phase[t]]
  /\ GoTo(r, "done")
  /\ UNCHANGED <<responseVars, received_count, cancelled, cleaning, closed, sent,
                 historyVars>>

\* the thread's next request, with fresh ids that r's tasks now stand for
ReaderRenew(r) ==
  /\ "traffic" \in Options
  /\ readerPc[r] = "done"
  /\ \A t \in IdTasks(r) : phase[t] = "ended"
  /\ GoTo(r, "new")
  /\ received_count' = [received_count EXCEPT ![r] = 0]
  /\ cancelled' = [cancelled EXCEPT ![r] = FALSE]
  /\ closed' = [closed EXCEPT ![r] = FALSE]
  /\ phase' = [t \in Tasks |-> IF t \in IdTasks(r) THEN "none" ELSE phase[t]]
  /\ sent' = [t \in Tasks |-> IF t \in IdTasks(r) THEN 0 ELSE sent[t]]
  /\ got' = [t \in Tasks |-> IF t \in IdTasks(r) THEN 0 ELSE got[t]]
  /\ final' = final \ IdTasks(r)
  /\ UNCHANGED <<responseVars, cleaning>>

\* the client closes its connection, or the HTTP server is stopping
ClientGone(r) ==
  /\ "disconnect" \in Options
  /\ ~closed[r]
  /\ closed' = [closed EXCEPT ![r] = TRUE]
  /\ UNCHANGED <<responseVars, readerVars, serverVars, historyVars>>

-----------------------------------------------------------------------------
(* The server.                                                             *)

\* send(): to a registered id only, and everybody is woken up
Send(t, kind) ==
  IF t \in waiting_task_ids
  THEN /\ queue_results' = Append(queue_results, [id |-> t, n |-> sent[t] + 1, kind |-> kind])
       /\ sent' = [sent EXCEPT ![t] = @ + 1]
       /\ blocked' = {}
  ELSE UNCHANGED <<queue_results, sent, blocked>>

\* send_partial_response()
ServerSendPartial(t) ==
  /\ phase[t] \in {"posted", "cancelling"}
  /\ Owner[t] \in Streams /\ sent[t] < MaxPartials
  /\ Send(t, "partial")
  /\ UNCHANGED <<waiting_task_ids, readerVars, closed, phase, historyVars>>

\* send_final_response() and the like, or send_error(); the task is over
ServerSendFinal(t) ==
  /\ phase[t] \in {"posted", "cancelling"}
  /\ \E kind \in {"stop"} \cup (Options \cap {"error"}) : Send(t, kind)
  /\ phase' = [phase EXCEPT ![t] = "ended"]
  /\ UNCHANGED <<waiting_task_ids, readerVars, closed, historyVars>>

\* the CANCEL is carried out
ServerCancel(t) ==
  /\ phase[t] = "cancelling"
  /\ phase' = [phase EXCEPT ![t] = "ended"]
  /\ UNCHANGED <<responseVars, readerVars, closed, sent, historyVars>>

-----------------------------------------------------------------------------
ReaderStep(r) ==
  \/ ReaderRegister(r) \/ ReaderPost(r) \/ ReaderNext(r) \/ ReaderReceive(r)
  \/ ReaderBlock(r) \/ ReaderPoll(r) \/ ReaderStop(r) \/ ReaderClean(r)
  \/ ReaderCancel(r)

ServerStep(t) == ServerSendPartial(t) \/ ServerSendFinal(t) \/ ServerCancel(t)

Next ==
  \/ \E r \in Readers :
       ReaderStep(r) \/ ReaderTimeout(r) \/ ReaderRenew(r) \/ ClientGone(r)
  \/ \E t \in Tasks : ServerStep(t)

Spec == Init /\ [][Next]_vars

\* Threads run and timers expire.  A generation may be arbitrarily long, so
\* nothing is assumed about when the server answers.
FairSpec ==
  /\ Spec
  /\ \A r \in Readers : WF_vars(ReaderStep(r)) /\ WF_vars(ReaderTimeout(r))

-----------------------------------------------------------------------------
(* Properties.                                                             *)

ResponseTypes ==
  /\ waiting_task_ids \subseteq Tasks
  /\ queue_results \in Seq(Result)
  /\ blocked \subseteq {r \in Readers : readerPc[r] = "recv"}

ReaderTypes ==
  /\ readerPc \in [Readers -> ReaderPc]
  /\ received_count \in [Readers -> Nat]
  /\ cancelled \in [Readers -> BOOLEAN]
  /\ closed \in [Readers -> BOOLEAN]
  /\ cleaning \in [Readers -> SUBSET Tasks]
  /\ \A r \in Readers : cleaning[r] \subseteq IF readerPc[r] = "clean" THEN IdTasks(r) ELSE {}

ServerTypes ==
  /\ phase \in [Tasks -> Phase]
  /\ sent \in [Tasks -> Nat] /\ got \in [Tasks -> Nat]
  /\ final \subseteq Tasks

\* The values of the variables; only a request inside recv_with_timeout() is
\* blocked, and only one inside stop() has ids to clean up.
TypeOK == ResponseTypes /\ ReaderTypes /\ ServerTypes

\* A request that is over has left nothing behind: none of its ids is
\* registered and none of its results is in the queue, where nobody would ever
\* take it out (stop, remove_waiting_task_id(s) against send).
NoOrphans ==
  \A r \in Readers : readerPc[r] = "done" =>
    /\ IdTasks(r) \cap waiting_task_ids = {}
    /\ \A i \in DOMAIN queue_results : Owner[queue_results[i].id] # r

\* A request that ended without cancelling anything received the final result
\* of every one of its tasks (has_next, received_count).
AllAnswered ==
  \A r \in Readers :
    readerPc[r] = "done" /\ ~cancelled[r] => IdTasks(r) \subseteq final

\* No task goes on for a request that is over: it has ended or a CANCEL for it
\* was posted (stop).
CancelReaches ==
  \A r \in Readers : readerPc[r] = "done" =>
    \A t \in IdTasks(r) : phase[t] \in {"cancelling", "ended"}

\* The results of a task reach its request in the order in which they were
\* sent, none twice and none left out, until the request withdraws.
Delivery == INSTANCE ResultDelivery WITH
  state <- [r \in Readers |->
              CASE readerPc[r] = "new" -> "new"
                [] readerPc[r] \in {"clean", "done"} -> "closed"
                [] OTHER -> "open"],
  put <- sent

\* send and recv_with_timeout implement ResultDelivery, the fairness of a
\* request with results to receive included.
DeliversInOrder == Delivery!FairSpec

\* A request all of whose tasks are over returns.
AnsweredReturns ==
  \A r \in Readers :
    readerPc[r] = "next" /\ (\A t \in IdTasks(r) : phase[t] = "ended") ~> readerPc[r] = "done"

\* A request whose client is gone returns, however long its tasks take: the
\* timeout of recv_with_timeout() makes next() ask should_stop() once in a while.
GoneNoticed ==
  \A r \in Readers : closed[r] /\ readerPc[r] # "new" ~> readerPc[r] = "done"

=============================================================================

----------------------- MODULE ServerResponse_proof -----------------------
(***************************************************************************)
(* What the result queue keeps for every set of requests and tasks: type   *)
(* correctness, nothing left behind by a request that is over, what its    *)
(* end says of its tasks, and delivery in order (the safety part of the    *)
(* refinement of ResultDelivery).                                          *)
(***************************************************************************)
EXTENDS ServerResponse, SeqLemmas

-----------------------------------------------------------------------------
(* What removing results leaves of the queue.                              *)

\* u is made of the members of the first m results of s that are not of task
\* t, in their order: g tells where each one was.
KeptAt(u, g, s, t, m) ==
  /\ u \in Seq(Result)
  /\ g \in [1..Len(u) -> 1..m]
  /\ \A k \in 1..Len(u) : u[k] = s[g[k]] /\ u[k].id # t
  /\ \A k, l \in 1..Len(u) : k < l => g[k] < g[l]
  /\ \A j \in 1..m : s[j].id # t => \E k \in 1..Len(u) : g[k] = j

\* What remove_waiting_task_id(t) leaves are the results of other tasks, in
\* their order.
LEMMA PurgedKeeps ==
  ASSUME NEW t, queue_results \in Seq(Result)
  PROVE  \E g : KeptAt(Purged(t), g, queue_results, t, Len(queue_results))
<1> DEFINE s == queue_results
           K == {i \in 1..Len(s) : s[i].id # t}
           Solves(f) == f = [i \in 0..Len(s) |->
                               IF i = 0 THEN <<>>
                               ELSE IF s[i].id = t THEN f[i - 1]
                               ELSE Append(f[i - 1], s[i])]
           f == CHOOSE kept : Solves(kept)
<1>1. Purged(t) = f[Len(s)]
  BY Zenon DEF Purged
<1>2. Len(s) \in Nat
  BY LenProperties
<1>3. ASSUME NEW h
      PROVE  Solves(h) <=> CopyTable(h, s, K, Len(s))
  <2>1. \A i \in 0..Len(s) : i # 0 => (i \in K <=> s[i].id # t)
    BY <1>2
  <2>2. [i \in 0..Len(s) |-> IF i = 0 THEN <<>>
                             ELSE IF s[i].id = t THEN h[i - 1]
                             ELSE Append(h[i - 1], s[i])]
        = [i \in 0..Len(s) |-> IF i = 0 THEN <<>>
                               ELSE IF i \in K THEN Append(h[i - 1], s[i])
                               ELSE h[i - 1]]
    <3> HIDE DEF K
    <3> QED
      BY <2>1
  <2> QED
    BY <2>2, Zenon DEF CopyTable
<1>4. Solves(f)
  <2>1. \E h : Solves(h)
    BY <1>2, <1>3, CopyTableExists
  <2> HIDE DEF Solves
  <2> QED
    BY <2>1, Zenon
<1> HIDE DEF f, Solves
<1>5. PICK g : CopyOf(f[Len(s)], g, s, K, Len(s), Result)
  BY <1>3, <1>4, CopyTableCopies
<1>6. KeptAt(f[Len(s)], g, s, t, Len(s))
  <2>1. \A k \in DOMAIN g : g[k] \in K
    BY <1>5 DEF CopyOf
  <2> QED
    BY <1>2, <1>5, <2>1 DEF CopyOf, KeptAt
<1> QED
  BY <1>1, <1>6

-----------------------------------------------------------------------------
(* The inductive invariant.                                                *)

OpenPc == {"registered", "next", "recv", "timeout", "stop"}

\* An id is registered from add_waiting_task_ids to stop().
WaitingWhileOpen ==
  waiting_task_ids = {t \in Tasks : readerPc[Owner[t]] \in OpenPc}

\* A queued result belongs to a request that still receives, or to one that
\* is about to clean up its id.
QueuedOwned ==
  \A i \in DOMAIN queue_results :
    LET t == queue_results[i].id IN
    \/ readerPc[Owner[t]] \in OpenPc
    \/ readerPc[Owner[t]] = "clean" /\ t \in cleaning[Owner[t]]

\* The queued results of a task are numbered upwards, between the last one
\* received and the last one sent.
QueuedInOrder ==
  /\ \A i \in DOMAIN queue_results :
       /\ got[queue_results[i].id] < queue_results[i].n
       /\ queue_results[i].n <= sent[queue_results[i].id]
  /\ \A i, j \in DOMAIN queue_results :
       i < j /\ queue_results[i].id = queue_results[j].id
         => queue_results[i].n < queue_results[j].n

\* Until the request withdraws, every result sent was received or is queued.
NothingLost ==
  \A t \in Tasks : readerPc[Owner[t]] \in OpenPc \cup {"new"} =>
    /\ got[t] <= sent[t]
    /\ \A n \in (got[t] + 1)..sent[t] : \E i \in DOMAIN queue_results :
         queue_results[i].id = t /\ queue_results[i].n = n

\* A final result is the last one of a task that has ended.
FinalIsLast ==
  \A i \in DOMAIN queue_results : queue_results[i].kind # "partial" =>
    /\ phase[queue_results[i].id] = "ended"
    /\ queue_results[i].n = sent[queue_results[i].id]

\* Nothing comes after a final result that was received.
FinalIsOver ==
  \A t \in final :
    /\ phase[t] = "ended"
    /\ \A i \in DOMAIN queue_results : queue_results[i].id # t

\* received_count counts the tasks whose final result was received.
Counted ==
  \A r \in Readers : received_count[r] = Cardinality(final \cap IdTasks(r))

\* How far a request got tells how far its tasks are.
Stages ==
  /\ \A t \in Tasks :
       /\ readerPc[Owner[t]] \in {"new", "registered"} <=> phase[t] = "none"
       /\ readerPc[Owner[t]] = "new" => sent[t] = 0 /\ got[t] = 0
       /\ readerPc[Owner[t]] = "done" => phase[t] \in {"cancelling", "ended"}
  /\ \A r \in Readers :
       /\ cancelled[r] => readerPc[r] \in {"clean", "done"}
       /\ readerPc[r] = "clean" => cancelled[r]
       /\ readerPc[r] = "done" /\ ~cancelled[r] => IdTasks(r) \subseteq final

ResponseInv ==
  /\ TypeOK
  /\ WaitingWhileOpen /\ QueuedOwned /\ QueuedInOrder /\ NothingLost
  /\ FinalIsLast /\ FinalIsOver /\ Counted /\ Stages

-----------------------------------------------------------------------------
(* Types.                                                                  *)

\* Reading and writing the queue keeps its type.
LEMMA QueueTypes ==
  ASSUME TypeOK
  PROVE  /\ Len(queue_results) \in Nat /\ DOMAIN queue_results = 1..Len(queue_results)
         /\ \A i \in DOMAIN queue_results :
              /\ queue_results[i] \in Result /\ queue_results[i].id \in Tasks
              /\ queue_results[i].n \in Nat /\ Owner[queue_results[i].id] \in Readers
<1>1. queue_results \in Seq(Result) /\ Owner \in [Tasks -> Readers]
  BY ResponseAssumption DEF TypeOK, ResponseTypes
<1>2. Len(queue_results) \in Nat /\ DOMAIN queue_results = 1..Len(queue_results)
  BY <1>1, LenProperties
<1>3. \A i \in DOMAIN queue_results : queue_results[i] \in Result
  BY <1>1, ElementOfSeq, <1>2
<1> QED
  BY <1>1, <1>2, <1>3 DEF Result

\* The initial state has the types.
LEMMA TypesInit == Init => TypeOK
BY DEF Init, TypeOK, ResponseTypes, ReaderTypes, ServerTypes, ReaderPc, Phase

\* Every operation of a request keeps the types.
LEMMA TypesReader ==
  ASSUME TypeOK, NEW r \in Readers,
         ReaderStep(r) \/ ReaderTimeout(r) \/ ReaderRenew(r) \/ ClientGone(r)
  PROVE  TypeOK'
<1> USE DEF TypeOK, ResponseTypes, ReaderTypes, ServerTypes, ReaderPc, Phase, IdTasks,
            GoTo, vars, responseVars, readerVars, serverVars, historyVars
<1>1. CASE ReaderRegister(r)
  BY <1>1 DEF ReaderRegister
<1>2. CASE ReaderPost(r)
  BY <1>2 DEF ReaderPost
<1>3. CASE ReaderNext(r)
  BY <1>3 DEF ReaderNext
<1>4. CASE ReaderReceive(r)
  <2>1. PICK i \in DOMAIN queue_results :
          LET x == queue_results[i] IN
          /\ queue_results' = RemoveAt(queue_results, i)
          /\ got' = [got EXCEPT ![x.id] = x.n]
          /\ \/ GoTo(r, "stop") /\ UNCHANGED <<received_count, final>>
             \/ /\ GoTo(r, "next")
                /\ received_count' = [received_count EXCEPT ![r] =
                                        IF IsStop(x) THEN @ + 1 ELSE @]
                /\ final' = IF x.kind = "stop" THEN final \cup {x.id} ELSE final
    BY <1>4 DEF ReaderReceive
  <2>2. /\ i \in 1..Len(queue_results) /\ queue_results[i].id \in Tasks
        /\ queue_results[i].n \in Nat
    BY QueueTypes
  <2>3. queue_results' \in Seq(Result)
    BY <2>1, <2>2, RemoveAtFacts
  <2>4. /\ readerPc[r] = "recv" /\ r \notin blocked
        /\ UNCHANGED <<waiting_task_ids, blocked, cancelled, cleaning, closed, serverVars>>
    BY <1>4 DEF ReaderReceive
  <2>5. got' \in [Tasks -> Nat]
    BY <2>1, <2>2
  <2>6. final' \subseteq Tasks
    BY <2>1, <2>2
  <2>7. received_count' \in [Readers -> Nat]
    BY <2>1
  <2>8. PICK pc \in {"stop", "next"} : readerPc' = [readerPc EXCEPT ![r] = pc]
    BY <2>1
  <2>9. ResponseTypes'
    BY <2>3, <2>4, <2>8
  <2>10. ReaderTypes'
    BY <2>4, <2>7, <2>8
  <2>11. ServerTypes'
    BY <2>4, <2>5, <2>6
  <2> QED
    BY <2>9, <2>10, <2>11
<1>5. CASE ReaderBlock(r)
  BY <1>5 DEF ReaderBlock
<1>6. CASE ReaderPoll(r)
  BY <1>6 DEF ReaderPoll
<1>7. CASE ReaderStop(r)
  <2>1. PICK pc \in {"clean", "done"} :
          /\ readerPc' = [readerPc EXCEPT ![r] = pc]
          /\ \/ pc = "clean" /\ cleaning' = [cleaning EXCEPT ![r] = IdTasks(r)]
             \/ cleaning' = cleaning
          /\ cancelled' \in [Readers -> BOOLEAN]
    <3>1. CASE HasNext(r)
      BY <1>7, <3>1 DEF ReaderStop
    <3>2. CASE ~HasNext(r)
      BY <1>7, <3>2 DEF ReaderStop
    <3> QED
      BY <3>1, <3>2
  <2>2. /\ readerPc[r] = "stop"
        /\ waiting_task_ids' = waiting_task_ids \ IdTasks(r)
        /\ UNCHANGED <<queue_results, blocked, received_count, closed, serverVars,
                       historyVars>>
    BY <1>7 DEF ReaderStop
  <2>3. \A q \in Readers :
          /\ readerPc'[q] = IF q = r THEN pc ELSE readerPc[q]
          /\ q # r => cleaning'[q] = cleaning[q]
          /\ pc = "done" => cleaning'[r] = {}
          /\ cleaning'[r] \subseteq IdTasks(r)
    BY <2>1, <2>2
  <2>4. cleaning' \in [Readers -> SUBSET Tasks] /\ readerPc' \in [Readers -> ReaderPc]
    <3>1. cleaning \in [Readers -> SUBSET Tasks] /\ IdTasks(r) \in SUBSET Tasks
      OBVIOUS
    <3>2. \/ cleaning' = [cleaning EXCEPT ![r] = IdTasks(r)]
          \/ cleaning' = cleaning
      BY <2>1
    <3>3. cleaning' \in [Readers -> SUBSET Tasks]
      BY <3>1, <3>2, Zenon
    <3>4. readerPc' \in [Readers -> ReaderPc]
      BY <2>1
    <3> QED
      BY <3>3, <3>4
  <2>5. ReaderTypes'
    BY <2>1, <2>2, <2>3, <2>4
  <2> QED
    BY <2>1, <2>2, <2>5
<1>8. CASE ReaderClean(r)
  <2>1. PICK t \in cleaning[r] :
          /\ waiting_task_ids' = waiting_task_ids \ {t}
          /\ queue_results' = Purged(t)
          /\ cleaning' = [cleaning EXCEPT ![r] = @ \ {t}]
    BY <1>8 DEF ReaderClean
  <2>2. queue_results' \in Seq(Result)
    BY <2>1, PurgedKeeps DEF KeptAt
  <2> QED
    BY <1>8, <2>1, <2>2 DEF ReaderClean
<1>9. CASE ReaderCancel(r)
  BY <1>9 DEF ReaderCancel
<1>10. CASE ReaderTimeout(r)
  BY <1>10 DEF ReaderTimeout
<1>11. CASE ReaderRenew(r)
  BY <1>11 DEF ReaderRenew
<1>12. CASE ClientGone(r)
  BY <1>12 DEF ClientGone
<1> QED
  BY <1>1, <1>2, <1>3, <1>4, <1>5, <1>6, <1>7, <1>8, <1>9, <1>10, <1>11, <1>12 DEF ReaderStep

\* What send() does: the result of a registered id is appended with the next
\* number, and nobody stays blocked; another result vanishes.
LEMMA SendFacts ==
  ASSUME TypeOK, NEW t \in Tasks, NEW kind \in {"partial", "stop", "error"}, Send(t, kind)
  PROVE  /\ queue_results' \in Seq(Result) /\ sent' \in [Tasks -> Nat]
         /\ blocked' \subseteq blocked
         /\ t \notin waiting_task_ids => UNCHANGED <<queue_results, sent, blocked>>
         /\ t \in waiting_task_ids =>
              /\ sent' = [sent EXCEPT ![t] = @ + 1]
              /\ Len(queue_results') = Len(queue_results) + 1
              /\ \A i \in 1..Len(queue_results) : queue_results'[i] = queue_results[i]
              /\ queue_results'[Len(queue_results) + 1]
                   = [id |-> t, n |-> sent[t] + 1, kind |-> kind]
<1>1. queue_results \in Seq(Result) /\ sent \in [Tasks -> Nat]
  BY DEF TypeOK, ResponseTypes, ServerTypes
<1> DEFINE x == [id |-> t, n |-> sent[t] + 1, kind |-> kind]
<1>2. x \in Result
  BY <1>1 DEF Result
<1>3. CASE t \in waiting_task_ids
  <2>1. /\ queue_results' = Append(queue_results, x)
        /\ sent' = [sent EXCEPT ![t] = @ + 1] /\ blocked' = {}
    BY <1>3 DEF Send
  <2> HIDE DEF x
  <2>2. /\ queue_results' \in Seq(Result)
        /\ Len(queue_results') = Len(queue_results) + 1
        /\ \A i \in 1..Len(queue_results) : queue_results'[i] = queue_results[i]
        /\ queue_results'[Len(queue_results) + 1] = x
    BY <1>1, <1>2, <2>1, AppendProperties
  <2> QED
    BY <1>1, <1>3, <2>1, <2>2 DEF x
<1>4. CASE t \notin waiting_task_ids
  BY <1>1, <1>4 DEF Send
<1> QED
  BY <1>3, <1>4

\* Every step of the server keeps the types.
LEMMA TypesServer ==
  ASSUME TypeOK, NEW t \in Tasks, ServerStep(t)
  PROVE  TypeOK'
<1> USE DEF TypeOK, ResponseTypes, ReaderTypes, ServerTypes, Phase
<1>1. CASE ServerSendPartial(t)
  <2>1. Send(t, "partial") /\ UNCHANGED <<waiting_task_ids, readerVars, closed, phase, historyVars>>
    BY <1>1 DEF ServerSendPartial
  <2>2. queue_results' \in Seq(Result) /\ sent' \in [Tasks -> Nat] /\ blocked' \subseteq blocked
    BY <2>1, SendFacts
  <2> QED
    BY <2>1, <2>2 DEF readerVars, historyVars, IdTasks
<1>2. CASE ServerSendFinal(t)
  <2>1. PICK kind \in {"stop"} \cup (Options \cap {"error"}) : Send(t, kind)
    BY <1>2 DEF ServerSendFinal
  <2>2. kind \in {"partial", "stop", "error"}
    OBVIOUS
  <2>3. queue_results' \in Seq(Result) /\ sent' \in [Tasks -> Nat] /\ blocked' \subseteq blocked
    BY <2>1, <2>2, SendFacts
  <2>4. phase' = [phase EXCEPT ![t] = "ended"]
        /\ UNCHANGED <<waiting_task_ids, readerVars, closed, historyVars>>
    BY <1>2 DEF ServerSendFinal
  <2> QED
    BY <2>3, <2>4 DEF readerVars, historyVars, IdTasks
<1>3. CASE ServerCancel(t)
  BY <1>3 DEF ServerCancel, responseVars, readerVars, historyVars, IdTasks
<1> QED
  BY <1>1, <1>2, <1>3 DEF ServerStep

\* A stuttering step keeps the types.
LEMMA TypesStutter == TypeOK /\ UNCHANGED vars => TypeOK'
BY DEF TypeOK, ResponseTypes, ReaderTypes, ServerTypes, IdTasks, vars, responseVars,
       readerVars, serverVars, historyVars

\* The variables of server_response, its readers and the server keep their
\* types; only a request inside recv_with_timeout() is blocked and only one
\* inside stop() has ids to clean up.
THEOREM ResponseTypeCorrect == Spec => []TypeOK
<1>1. TypeOK /\ [Next]_vars => TypeOK'
  BY TypesReader, TypesServer, TypesStutter DEF Next
<1> QED
  BY <1>1, TypesInit, PTL DEF Spec

-----------------------------------------------------------------------------
(* The invariant, operation by operation.                                  *)

\* A request that only moves within its polling loop, or whose client leaves,
\* changes nothing that the invariant relates.
LEMMA KeptPolling ==
  ASSUME ResponseInv, TypeOK', NEW r \in Readers,
         \/ readerPc' = readerPc
         \/ \E pc \in {"next", "recv", "timeout", "stop"} :
              /\ readerPc[r] \in {"next", "recv", "timeout", "stop"}
              /\ readerPc' = [readerPc EXCEPT ![r] = pc],
         UNCHANGED <<waiting_task_ids, queue_results, received_count, cancelled,
                     cleaning, serverVars, historyVars>>
  PROVE  ResponseInv'
<1> USE DEF OpenPc
<1>0. TypeOK
  BY DEF ResponseInv
<1>1. /\ \A t \in Tasks : Owner[t] \in Readers
      /\ \A i \in DOMAIN queue_results : queue_results[i].id \in Tasks
  BY <1>0, QueueTypes, ResponseAssumption
<1>2. /\ \A q \in Readers : \/ readerPc'[q] = readerPc[q]
                            \/ /\ readerPc[q] \in {"next", "recv", "timeout", "stop"}
                               /\ readerPc'[q] \in {"next", "recv", "timeout", "stop"}
  BY <1>0 DEF TypeOK, ReaderTypes
<1>3. WaitingWhileOpen'
  BY <1>1, <1>2 DEF ResponseInv, WaitingWhileOpen
<1>4. QueuedOwned'
  BY <1>1, <1>2 DEF ResponseInv, QueuedOwned
<1>5. QueuedInOrder'
  BY DEF ResponseInv, QueuedInOrder, serverVars, historyVars
<1>6. NothingLost'
  BY <1>1, <1>2 DEF ResponseInv, NothingLost, serverVars, historyVars
<1>7. FinalIsLast' /\ FinalIsOver' /\ Counted'
  BY DEF ResponseInv, FinalIsLast, FinalIsOver, Counted, IdTasks, serverVars, historyVars
<1>8. Stages'
  BY <1>1, <1>2 DEF ResponseInv, Stages, IdTasks, serverVars, historyVars
<1> QED
  BY <1>3, <1>4, <1>5, <1>6, <1>7, <1>8 DEF ResponseInv

\* add_waiting_task_ids: the ids are registered, and nothing was sent yet.
LEMMA KeptRegister ==
  ASSUME ResponseInv, TypeOK', NEW r \in Readers, ReaderRegister(r)
  PROVE  ResponseInv'
<1> USE DEF OpenPc
<1>0. TypeOK
  BY DEF ResponseInv
<1>1. /\ \A t \in Tasks : Owner[t] \in Readers
      /\ \A i \in DOMAIN queue_results : queue_results[i].id \in Tasks
  BY <1>0, QueueTypes, ResponseAssumption
<1>2. /\ readerPc[r] = "new" /\ readerPc' = [readerPc EXCEPT ![r] = "registered"]
      /\ readerPc'[r] = "registered" /\ \A q \in Readers : q # r => readerPc'[q] = readerPc[q]
      /\ waiting_task_ids' = waiting_task_ids \cup IdTasks(r)
      /\ UNCHANGED <<queue_results, received_count, cancelled, cleaning, phase, sent,
                     got, final>>
  BY <1>0 DEF ReaderRegister, GoTo, TypeOK, ReaderTypes, serverVars, historyVars
<1>3. WaitingWhileOpen'
  BY <1>1, <1>2 DEF ResponseInv, WaitingWhileOpen, IdTasks
<1>4. QueuedOwned'
  BY <1>1, <1>2 DEF ResponseInv, QueuedOwned
<1>5. QueuedInOrder'
  BY <1>2 DEF ResponseInv, QueuedInOrder
<1>6. NothingLost'
  BY <1>1, <1>2 DEF ResponseInv, NothingLost
<1>7. FinalIsLast' /\ FinalIsOver' /\ Counted'
  BY <1>2 DEF ResponseInv, FinalIsLast, FinalIsOver, Counted, IdTasks
<1>8. Stages'
  BY <1>1, <1>2 DEF ResponseInv, Stages, IdTasks
<1> QED
  BY <1>3, <1>4, <1>5, <1>6, <1>7, <1>8 DEF ResponseInv

\* post_tasks: the tasks are at the server.
LEMMA KeptPost ==
  ASSUME ResponseInv, TypeOK', NEW r \in Readers, ReaderPost(r)
  PROVE  ResponseInv'
<1> USE DEF OpenPc
<1>0. TypeOK
  BY DEF ResponseInv
<1>1. /\ \A t \in Tasks : Owner[t] \in Readers
      /\ \A i \in DOMAIN queue_results : queue_results[i].id \in Tasks
  BY <1>0, QueueTypes, ResponseAssumption
<1>2. /\ readerPc[r] = "registered" /\ readerPc' = [readerPc EXCEPT ![r] = "next"]
      /\ readerPc'[r] = "next" /\ \A q \in Readers : q # r => readerPc'[q] = readerPc[q]
      /\ phase' = [t \in Tasks |-> IF t \in IdTasks(r) THEN "posted" ELSE phase[t]]
      /\ UNCHANGED <<waiting_task_ids, queue_results, received_count, cancelled, cleaning,
                     sent, got, final>>
  BY <1>0 DEF ReaderPost, GoTo, TypeOK, ReaderTypes, responseVars, historyVars
<1>3. \A t \in Tasks : \/ Owner[t] = r /\ phase[t] = "none" /\ phase'[t] = "posted"
                       \/ Owner[t] # r /\ phase'[t] = phase[t]
  BY <1>2 DEF IdTasks, ResponseInv, Stages
<1>4. WaitingWhileOpen'
  BY <1>1, <1>2 DEF ResponseInv, WaitingWhileOpen
<1>5. QueuedOwned'
  BY <1>1, <1>2 DEF ResponseInv, QueuedOwned
<1>6. QueuedInOrder'
  BY <1>2 DEF ResponseInv, QueuedInOrder
<1>7. NothingLost'
  BY <1>1, <1>2 DEF ResponseInv, NothingLost
<1>8. FinalIsLast'
  BY <1>1, <1>2, <1>3 DEF ResponseInv, FinalIsLast
<1>9. FinalIsOver'
  BY <1>0, <1>2, <1>3 DEF ResponseInv, FinalIsOver, TypeOK, ServerTypes
<1>10. Counted'
  BY <1>2 DEF ResponseInv, Counted, IdTasks
<1>11. Stages'
  BY <1>1, <1>2, <1>3 DEF ResponseInv, Stages, IdTasks
<1> QED
  BY <1>4, <1>5, <1>6, <1>7, <1>8, <1>9, <1>10, <1>11 DEF ResponseInv

\* Taking a result out of the queue: the others stay, in their order.
LEMMA TakenOut ==
  ASSUME queue_results \in Seq(Result), NEW i \in DOMAIN queue_results,
         queue_results' = RemoveAt(queue_results, i)
  PROVE  \E g \in [DOMAIN queue_results' -> DOMAIN queue_results] :
           /\ \A k \in DOMAIN queue_results' : queue_results'[k] = queue_results[g[k]] /\ g[k] # i
           /\ \A k, l \in DOMAIN queue_results' : k < l => g[k] < g[l]
           /\ \A j \in DOMAIN queue_results : j # i => \E k \in DOMAIN queue_results' : g[k] = j
<1> DEFINE s == queue_results
           g == [k \in 1..(Len(s) - 1) |-> IF k < i THEN k ELSE k + 1]
<1>1. Len(s) \in Nat /\ DOMAIN s = 1..Len(s) /\ i \in 1..Len(s)
  BY LenProperties
<1>2. /\ s' \in Seq(Result) /\ Len(s') = Len(s) - 1
      /\ \A k \in 1..(Len(s) - 1) : s'[k] = IF k < i THEN s[k] ELSE s[k + 1]
  BY <1>1, RemoveAtFacts
<1>3. DOMAIN s' = 1..(Len(s) - 1)
  BY <1>2, LenProperties
<1> HIDE DEF s
<1>4. g \in [DOMAIN s' -> DOMAIN s]
  BY <1>1, <1>3
<1>5. \A k \in DOMAIN s' : s'[k] = s[g[k]] /\ g[k] # i
  BY <1>1, <1>2, <1>3
<1>6. \A k, l \in DOMAIN s' : k < l => g[k] < g[l]
  BY <1>1, <1>3
<1>7. \A j \in DOMAIN s : j # i => \E k \in DOMAIN s' : g[k] = j
  <2> SUFFICES ASSUME NEW j \in 1..Len(s), j # i PROVE \E k \in 1..(Len(s) - 1) : g[k] = j
    BY <1>1, <1>3
  <2>1. CASE j < i
    BY <1>1, <2>1
  <2>2. CASE j > i
    <3>1. j - 1 \in 1..(Len(s) - 1) /\ g[j - 1] = j
      BY <1>1, <2>2
    <3> QED
      BY <3>1
  <2> QED
    BY <1>1, <2>1, <2>2
<1> HIDE DEF g
<1> QED
  BY <1>4, <1>5, <1>6, <1>7 DEF s

\* The first result for a request is the next one of its task, so nothing is
\* skipped; if it is the final one nothing of the task is left.
LEMMA FirstIsNext ==
  ASSUME ResponseInv, NEW r \in Readers, NEW i \in DOMAIN queue_results,
         readerPc[r] \in OpenPc, FirstFor(r, i)
  PROVE  LET x == queue_results[i] IN
         /\ x.id \in IdTasks(r) /\ x.n = got[x.id] + 1 /\ x.n <= sent[x.id]
         /\ \A j \in DOMAIN queue_results : queue_results[j].id = x.id => i <= j
         /\ x.kind # "partial" =>
              \A j \in DOMAIN queue_results : queue_results[j].id = x.id => i = j
<1> DEFINE x == queue_results[i]
<1>0. TypeOK
  BY DEF ResponseInv
<1>1. /\ Len(queue_results) \in Nat /\ DOMAIN queue_results = 1..Len(queue_results)
      /\ \A j \in DOMAIN queue_results : queue_results[j].id \in Tasks /\ queue_results[j].n \in Nat
  BY <1>0, QueueTypes
<1>2. got \in [Tasks -> Nat] /\ sent \in [Tasks -> Nat]
  BY <1>0 DEF TypeOK, ServerTypes
<1>3. x.id \in Tasks /\ x.id \in IdTasks(r) /\ Owner[x.id] = r
  BY <1>1 DEF FirstFor, IdTasks
<1>4. \A j \in DOMAIN queue_results : queue_results[j].id = x.id => i <= j
  <2> SUFFICES ASSUME NEW j \in DOMAIN queue_results, queue_results[j].id = x.id, j < i
               PROVE  FALSE
    BY <1>1
  <2>1. j \in 1..(i - 1)
    BY <1>1
  <2> QED
    BY <1>3, <2>1 DEF FirstFor
<1>5. got[x.id] < x.n /\ x.n <= sent[x.id] /\ got[x.id] \in Nat /\ sent[x.id] \in Nat /\ x.n \in Nat
  BY <1>1, <1>2, <1>3 DEF ResponseInv, QueuedInOrder
<1>6. got[x.id] + 1 \in (got[x.id] + 1)..sent[x.id]
  BY <1>5
<1>7. PICK j \in DOMAIN queue_results :
        queue_results[j].id = x.id /\ queue_results[j].n = got[x.id] + 1
  BY <1>3, <1>6 DEF ResponseInv, NothingLost
<1>8. \A k, l \in DOMAIN queue_results :
        k < l /\ queue_results[k].id = queue_results[l].id
          => queue_results[k].n < queue_results[l].n
  BY DEF ResponseInv, QueuedInOrder
<1>9. x.n = got[x.id] + 1
  <2>1. CASE i = j
    BY <1>7, <2>1
  <2>2. CASE i # j
    <3>1. i < j
      BY <1>1, <1>4, <1>7, <2>2
    <3>2. x.n < queue_results[j].n
      BY <1>7, <1>8, <3>1
    <3> QED
      BY <1>5, <1>7, <3>2
  <2> QED
    BY <2>1, <2>2
<1>10. ASSUME x.kind # "partial", NEW l \in DOMAIN queue_results, queue_results[l].id = x.id, i # l
       PROVE  FALSE
  <2>1. x.n = sent[x.id]
    BY <1>10 DEF ResponseInv, FinalIsLast
  <2>2. i < l
    BY <1>1, <1>4, <1>10
  <2>3. x.n < queue_results[l].n
    BY <1>8, <1>10, <2>2
  <2>4. queue_results[l].n <= sent[x.id]
    BY <1>10 DEF ResponseInv, QueuedInOrder
  <2> QED
    BY <1>1, <1>5, <1>10, <2>1, <2>3, <2>4
<1> QED
  BY <1>3, <1>4, <1>5, <1>9, <1>10

\* Counting one more final result.
LEMMA CountOneMore ==
  ASSUME TypeOK, Counted, NEW r \in Readers, NEW t \in IdTasks(r), t \notin final,
         final' = final \cup {t},
         received_count' = [received_count EXCEPT ![r] = @ + 1]
  PROVE  Counted'
<1> SUFFICES ASSUME NEW q \in Readers
             PROVE  received_count'[q] = Cardinality(final' \cap IdTasks(q))
  BY DEF Counted, IdTasks
<1>1. received_count \in [Readers -> Nat] /\ IsFiniteSet(final \cap IdTasks(q))
  <2>1. final \cap IdTasks(q) \subseteq Tasks /\ IsFiniteSet(Tasks)
    BY ResponseAssumption DEF IdTasks
  <2> QED
    BY <2>1, FS_Subset DEF TypeOK, ReaderTypes
<1>2. CASE q = r
  <2>1. final' \cap IdTasks(r) = (final \cap IdTasks(r)) \cup {t}
    OBVIOUS
  <2>2. Cardinality((final \cap IdTasks(r)) \cup {t}) = Cardinality(final \cap IdTasks(r)) + 1
    BY <1>1, <1>2, FS_AddElement
  <2> QED
    BY <1>1, <1>2, <2>1, <2>2 DEF Counted
<1>3. CASE q # r
  <2>1. final' \cap IdTasks(q) = final \cap IdTasks(q)
    BY <1>3 DEF IdTasks
  <2> QED
    BY <1>1, <1>3, <2>1 DEF Counted
<1> QED
  BY <1>2, <1>3

\* recv_with_timeout and next(): the first result is taken, and counted when
\* it is a final one.
LEMMA KeptReceive ==
  ASSUME ResponseInv, TypeOK', NEW r \in Readers, ReaderReceive(r)
  PROVE  ResponseInv'
<1>0. TypeOK
  BY DEF ResponseInv
<1>1. PICK i \in DOMAIN queue_results :
        /\ FirstFor(r, i)
        /\ queue_results' = RemoveAt(queue_results, i)
        /\ got' = [got EXCEPT ![queue_results[i].id] = queue_results[i].n]
        /\ \/ /\ queue_results[i].kind = "error"
              /\ GoTo(r, "stop") /\ UNCHANGED <<received_count, final>>
           \/ /\ queue_results[i].kind # "error"
              /\ GoTo(r, "next")
              /\ received_count' = [received_count EXCEPT ![r] =
                                      IF queue_results[i].kind = "stop" THEN @ + 1 ELSE @]
              /\ final' = IF queue_results[i].kind = "stop"
                          THEN final \cup {queue_results[i].id} ELSE final
  BY DEF ReaderReceive, IsStop
<1> DEFINE x == queue_results[i]
<1>2. /\ readerPc[r] = "recv"
      /\ UNCHANGED <<waiting_task_ids, cancelled, cleaning, phase, sent>>
  BY DEF ReaderReceive, serverVars
<1>3. /\ x.id \in IdTasks(r) /\ x.n = got[x.id] + 1 /\ x.n <= sent[x.id]
      /\ \A j \in DOMAIN queue_results : queue_results[j].id = x.id => i <= j
      /\ x.kind # "partial" =>
           \A j \in DOMAIN queue_results : queue_results[j].id = x.id => i = j
  BY <1>1, <1>2, FirstIsNext DEF OpenPc
<1>4. PICK g \in [DOMAIN queue_results' -> DOMAIN queue_results] :
        /\ \A k \in DOMAIN queue_results' : queue_results'[k] = queue_results[g[k]] /\ g[k] # i
        /\ \A k, l \in DOMAIN queue_results' : k < l => g[k] < g[l]
        /\ \A j \in DOMAIN queue_results : j # i => \E k \in DOMAIN queue_results' : g[k] = j
  BY <1>0, <1>1, TakenOut DEF TypeOK, ResponseTypes
<1>5. /\ DOMAIN queue_results = 1..Len(queue_results)
      /\ \A j \in DOMAIN queue_results :
           /\ queue_results[j].id \in Tasks /\ queue_results[j].n \in Nat
           /\ queue_results[j] \in Result
      /\ x.id \in Tasks /\ Owner[x.id] = r
  BY <1>0, <1>3, QueueTypes DEF IdTasks
<1>6. /\ got \in [Tasks -> Nat] /\ sent \in [Tasks -> Nat] /\ got'[x.id] = x.n
      /\ \A t \in Tasks : t # x.id => got'[t] = got[t]
  BY <1>0, <1>1, <1>5 DEF TypeOK, ServerTypes
<1>7. PICK pc \in {"stop", "next"} : readerPc' = [readerPc EXCEPT ![r] = pc]
  BY <1>1 DEF GoTo
<1>8. /\ readerPc'[r] = pc /\ \A q \in Readers : q # r => readerPc'[q] = readerPc[q]
      /\ \A t \in Tasks : Owner[t] \in Readers
  BY <1>0, <1>7, ResponseAssumption DEF TypeOK, ReaderTypes
<1>9. \A k \in DOMAIN queue_results' : g[k] \in DOMAIN queue_results /\ queue_results'[k].id \in Tasks
  BY <1>4, <1>5
<1>10. WaitingWhileOpen'
  BY <1>2, <1>8 DEF ResponseInv, WaitingWhileOpen, OpenPc
<1>11. QueuedOwned'
  BY <1>2, <1>4, <1>5, <1>8, <1>9 DEF ResponseInv, QueuedOwned, OpenPc
<1>12. QueuedInOrder'
  <2>1. ASSUME NEW k \in DOMAIN queue_results'
        PROVE  /\ got'[queue_results'[k].id] < queue_results'[k].n
               /\ queue_results'[k].n <= sent'[queue_results'[k].id]
    <3> DEFINE y == queue_results'[k]
    <3>1. y = queue_results[g[k]] /\ g[k] # i /\ g[k] \in DOMAIN queue_results
      BY <1>4, <1>9
    <3>2. got[y.id] < y.n /\ y.n <= sent[y.id]
      BY <3>1 DEF ResponseInv, QueuedInOrder
    <3>3. CASE y.id = x.id
      <4>1. i < g[k]
        BY <1>3, <1>5, <3>1, <3>3
      <4>2. x.n < y.n
        BY <3>1, <3>3, <4>1 DEF ResponseInv, QueuedInOrder
      <4> QED
        BY <1>2, <1>6, <3>2, <3>3, <4>2
    <3>4. CASE y.id # x.id
      BY <1>2, <1>6, <1>9, <3>2, <3>4
    <3> QED
      BY <3>3, <3>4
  <2>2. ASSUME NEW k \in DOMAIN queue_results', NEW l \in DOMAIN queue_results', k < l,
               queue_results'[k].id = queue_results'[l].id
        PROVE  queue_results'[k].n < queue_results'[l].n
    <3>1. /\ queue_results'[k] = queue_results[g[k]] /\ queue_results'[l] = queue_results[g[l]]
          /\ g[k] < g[l] /\ g[k] \in DOMAIN queue_results /\ g[l] \in DOMAIN queue_results
      BY <1>4, <1>9, <2>2
    <3> QED
      BY <2>2, <3>1 DEF ResponseInv, QueuedInOrder
  <2> QED
    BY <2>1, <2>2 DEF QueuedInOrder
<1>13. NothingLost'
  <2> SUFFICES ASSUME NEW t \in Tasks, readerPc'[Owner[t]] \in OpenPc \cup {"new"}
               PROVE  /\ got'[t] <= sent'[t]
                      /\ \A n \in (got'[t] + 1)..sent'[t] : \E k \in DOMAIN queue_results' :
                           queue_results'[k].id = t /\ queue_results'[k].n = n
    BY DEF NothingLost
  <2>1. readerPc[Owner[t]] \in OpenPc \cup {"new"}
    BY <1>2, <1>8 DEF OpenPc
  <2>2. /\ got[t] <= sent[t]
        /\ \A n \in (got[t] + 1)..sent[t] : \E j \in DOMAIN queue_results :
             queue_results[j].id = t /\ queue_results[j].n = n
    BY <2>1 DEF ResponseInv, NothingLost
  <2>3. got'[t] <= sent'[t] /\ got[t] <= got'[t] /\ got[t] \in Nat /\ got'[t] \in Nat
    BY <1>2, <1>3, <1>5, <1>6, <2>2
  <2>4. ASSUME NEW n \in (got'[t] + 1)..sent'[t]
        PROVE  \E k \in DOMAIN queue_results' :
                 queue_results'[k].id = t /\ queue_results'[k].n = n
    <3>1. n \in (got[t] + 1)..sent[t] /\ n > got'[t]
      BY <1>2, <1>6, <2>3, <2>4
    <3>2. PICK j \in DOMAIN queue_results : queue_results[j].id = t /\ queue_results[j].n = n
      BY <2>2, <3>1
    <3>3. j # i
      BY <1>6, <2>3, <3>1, <3>2
    <3>4. PICK k \in DOMAIN queue_results' : g[k] = j
      BY <1>4, <3>3
    <3> QED
      BY <1>4, <3>2, <3>4
  <2> QED
    BY <2>3, <2>4
<1>14. FinalIsLast'
  BY <1>2, <1>4, <1>9 DEF ResponseInv, FinalIsLast
<1>15. FinalIsOver'
  <2>1. \A t \in final : /\ phase'[t] = "ended"
                         /\ \A k \in DOMAIN queue_results' : queue_results'[k].id # t
    BY <1>2, <1>4, <1>9 DEF ResponseInv, FinalIsOver
  <2>2. CASE x.kind = "stop"
    <3>1. phase'[x.id] = "ended"
      BY <1>2, <2>2 DEF ResponseInv, FinalIsLast
    <3>2. \A k \in DOMAIN queue_results' : queue_results'[k].id # x.id
      BY <1>3, <1>4, <1>9, <2>2
    <3> QED
      BY <1>1, <2>1, <2>2, <3>1, <3>2 DEF FinalIsOver
  <2>3. CASE x.kind # "stop"
    BY <1>1, <2>1, <2>3 DEF FinalIsOver
  <2> QED
    BY <2>2, <2>3
<1>16. Counted'
  <2>1. CASE x.kind = "stop"
    <3>1. x.id \notin final
      BY DEF ResponseInv, FinalIsOver
    <3>2. final' = final \cup {x.id} /\ received_count' = [received_count EXCEPT ![r] = @ + 1]
      BY <1>1, <2>1
    <3> HIDE DEF x
    <3> QED
      BY <1>0, <1>3, <3>1, <3>2, CountOneMore DEF ResponseInv
  <2>2. CASE x.kind # "stop"
    <3>1. final' = final /\ received_count' = received_count
      BY <1>0, <1>1, <2>2 DEF TypeOK, ReaderTypes
    <3> QED
      BY <3>1 DEF ResponseInv, Counted, IdTasks
  <2> QED
    BY <2>1, <2>2
<1>17. Stages'
  <2>1. final \subseteq final'
    BY <1>1
  <2>2. ASSUME NEW t \in Tasks
        PROVE  /\ readerPc'[Owner[t]] \in {"new", "registered"} <=> phase'[t] = "none"
               /\ readerPc'[Owner[t]] = "new" => sent'[t] = 0 /\ got'[t] = 0
               /\ readerPc'[Owner[t]] = "done" => phase'[t] \in {"cancelling", "ended"}
    <3>1. CASE Owner[t] = r
      BY <1>2, <1>8, <3>1 DEF ResponseInv, Stages
    <3>2. CASE Owner[t] # r
      <4>1. t # x.id
        BY <1>5, <3>2
      <4> QED
        BY <1>2, <1>6, <1>8, <3>2, <4>1 DEF ResponseInv, Stages
    <3> QED
      BY <3>1, <3>2
  <2>3. ASSUME NEW q \in Readers
        PROVE  /\ cancelled'[q] => readerPc'[q] \in {"clean", "done"}
               /\ readerPc'[q] = "clean" => cancelled'[q]
               /\ readerPc'[q] = "done" /\ ~cancelled'[q] => IdTasks(q) \subseteq final'
    BY <1>2, <1>8, <2>1 DEF ResponseInv, Stages
  <2> QED
    BY <2>2, <2>3 DEF Stages, IdTasks
<1> QED
  BY <1>10, <1>11, <1>12, <1>13, <1>14, <1>15, <1>16, <1>17 DEF ResponseInv

\* has_next(): a request that is not cancelled and expects nothing more has
\* received the final result of each of its tasks.
LEMMA NothingMoreIsAll ==
  ASSUME ResponseInv, NEW r \in Readers, ~cancelled[r], ~HasNext(r)
  PROVE  IdTasks(r) \subseteq final
<1>0. TypeOK
  BY DEF ResponseInv
<1>1. IsFiniteSet(IdTasks(r)) /\ Cardinality(IdTasks(r)) \in Nat
  <2>1. IdTasks(r) \subseteq Tasks /\ IsFiniteSet(Tasks)
    BY ResponseAssumption DEF IdTasks
  <2> QED
    BY <2>1, FS_Subset, FS_CardinalityType
<1>2. received_count[r] \in Nat /\ received_count[r] = Cardinality(final \cap IdTasks(r))
  BY <1>0 DEF ResponseInv, Counted, TypeOK, ReaderTypes
<1>3. Cardinality(IdTasks(r)) <= Cardinality(final \cap IdTasks(r))
  BY <1>1, <1>2 DEF HasNext
<1>4. final \cap IdTasks(r) \subseteq IdTasks(r)
  OBVIOUS
<1>5. /\ Cardinality(final \cap IdTasks(r)) <= Cardinality(IdTasks(r))
      /\ Cardinality(final \cap IdTasks(r)) = Cardinality(IdTasks(r))
           => final \cap IdTasks(r) = IdTasks(r)
  BY <1>1, <1>4, FS_Subset
<1>6. final \cap IdTasks(r) = IdTasks(r)
  BY <1>1, <1>2, <1>3, <1>5
<1> QED
  BY <1>6

\* stop(): the ids are no longer registered; what is queued for them is left
\* to the cleaning, or there is nothing queued.
LEMMA KeptStop ==
  ASSUME ResponseInv, TypeOK', NEW r \in Readers, ReaderStop(r)
  PROVE  ResponseInv'
<1>0. TypeOK
  BY DEF ResponseInv
<1>1. /\ \A t \in Tasks : Owner[t] \in Readers
      /\ \A i \in DOMAIN queue_results : queue_results[i].id \in Tasks
  BY <1>0, QueueTypes, ResponseAssumption
<1>2. /\ readerPc[r] = "stop" /\ waiting_task_ids' = waiting_task_ids \ IdTasks(r)
      /\ UNCHANGED <<queue_results, received_count, phase, sent, got, final>>
  BY DEF ReaderStop, serverVars, historyVars
<1>3. ~cancelled[r]
  BY <1>2 DEF ResponseInv, Stages
<1>4. PICK pc \in {"clean", "done"} :
        /\ readerPc' = [readerPc EXCEPT ![r] = pc]
        /\ pc = "clean" => /\ cancelled' = [cancelled EXCEPT ![r] = TRUE]
                           /\ cleaning' = [cleaning EXCEPT ![r] = IdTasks(r)]
        /\ pc = "done" => /\ UNCHANGED <<cancelled, cleaning>>
                          /\ IdTasks(r) \subseteq final
  <2>1. CASE HasNext(r)
    BY <2>1 DEF ReaderStop, GoTo
  <2>2. CASE ~HasNext(r)
    BY <1>3, <2>2, NothingMoreIsAll DEF ReaderStop, GoTo
  <2> QED
    BY <2>1, <2>2
<1>5. /\ readerPc'[r] = pc
      /\ \A q \in Readers : q # r => /\ readerPc'[q] = readerPc[q]
                                     /\ cleaning'[q] = cleaning[q]
                                     /\ cancelled'[q] = cancelled[q]
      /\ pc = "clean" => cleaning'[r] = IdTasks(r) /\ cancelled'[r]
  <2>1. /\ readerPc \in [Readers -> ReaderPc] /\ cleaning \in [Readers -> SUBSET Tasks]
        /\ cancelled \in [Readers -> BOOLEAN]
    BY <1>0 DEF TypeOK, ReaderTypes
  <2> QED
    BY <1>4, <2>1
<1>6. WaitingWhileOpen'
  BY <1>1, <1>2, <1>5 DEF ResponseInv, WaitingWhileOpen, OpenPc, IdTasks
<1>7. QueuedOwned'
  <2> SUFFICES ASSUME NEW i \in DOMAIN queue_results,
                      NEW t, t = queue_results[i].id
               PROVE  \/ readerPc'[Owner[t]] \in OpenPc
                      \/ readerPc'[Owner[t]] = "clean" /\ t \in cleaning'[Owner[t]]
    BY <1>2 DEF QueuedOwned
  <2>1. CASE Owner[t] # r
    BY <1>1, <1>5, <2>1 DEF ResponseInv, QueuedOwned
  <2>2. CASE Owner[t] = r
    <3>1. t \in IdTasks(r)
      BY <1>1, <2>2 DEF IdTasks
    <3>2. pc # "done"
      BY <1>4, <3>1 DEF ResponseInv, FinalIsOver
    <3> QED
      BY <1>5, <2>2, <3>1, <3>2
  <2> QED
    BY <2>1, <2>2
<1>8. QueuedInOrder'
  BY <1>2 DEF ResponseInv, QueuedInOrder
<1>9. NothingLost'
  BY <1>1, <1>2, <1>5 DEF ResponseInv, NothingLost, OpenPc
<1>10. FinalIsLast' /\ FinalIsOver' /\ Counted'
  BY <1>2 DEF ResponseInv, FinalIsLast, FinalIsOver, Counted, IdTasks
<1>11. Stages'
  <2>1. ASSUME NEW t \in Tasks
        PROVE  /\ readerPc'[Owner[t]] \in {"new", "registered"} <=> phase'[t] = "none"
               /\ readerPc'[Owner[t]] = "new" => sent'[t] = 0 /\ got'[t] = 0
               /\ readerPc'[Owner[t]] = "done" => phase'[t] \in {"cancelling", "ended"}
    <3>1. CASE Owner[t] = r
      <4>1. phase[t] # "none"
        BY <1>2, <3>1 DEF ResponseInv, Stages
      <4>2. pc = "done" => phase[t] = "ended"
        BY <1>4, <3>1 DEF ResponseInv, FinalIsOver, IdTasks
      <4> QED
        BY <1>2, <1>5, <3>1, <4>1, <4>2
    <3>2. CASE Owner[t] # r
      BY <1>1, <1>2, <1>5, <3>2 DEF ResponseInv, Stages
    <3> QED
      BY <3>1, <3>2
  <2>2. ASSUME NEW q \in Readers
        PROVE  /\ cancelled'[q] => readerPc'[q] \in {"clean", "done"}
               /\ readerPc'[q] = "clean" => cancelled'[q]
               /\ readerPc'[q] = "done" /\ ~cancelled'[q] => IdTasks(q) \subseteq final'
    <3>1. CASE q = r
      BY <1>2, <1>4, <1>5, <3>1
    <3>2. CASE q # r
      BY <1>2, <1>5, <3>2 DEF ResponseInv, Stages
    <3> QED
      BY <3>1, <3>2
  <2> QED
    BY <2>1, <2>2 DEF Stages, IdTasks
<1> QED
  BY <1>6, <1>7, <1>8, <1>9, <1>10, <1>11 DEF ResponseInv

\* remove_waiting_task_id: no result of the id is left.
LEMMA KeptClean ==
  ASSUME ResponseInv, TypeOK', NEW r \in Readers, ReaderClean(r)
  PROVE  ResponseInv'
<1>0. TypeOK
  BY DEF ResponseInv
<1>1. PICK t \in cleaning[r] :
        /\ waiting_task_ids' = waiting_task_ids \ {t}
        /\ queue_results' = Purged(t)
        /\ cleaning' = [cleaning EXCEPT ![r] = @ \ {t}]
  BY DEF ReaderClean
<1>2. /\ readerPc[r] = "clean"
      /\ UNCHANGED <<readerPc, received_count, cancelled, phase, sent, got, final>>
  BY DEF ReaderClean, serverVars, historyVars
<1>3. PICK g : KeptAt(queue_results', g, queue_results, t, Len(queue_results))
  BY <1>0, <1>1, PurgedKeeps DEF TypeOK, ResponseTypes
<1>4. DOMAIN queue_results = 1..Len(queue_results) /\ DOMAIN queue_results' = 1..Len(queue_results')
  BY <1>0, QueueTypes, LenProperties DEF TypeOK, ResponseTypes
<1>5. /\ \A k \in DOMAIN queue_results' :
           /\ queue_results'[k] = queue_results[g[k]] /\ queue_results'[k].id # t
           /\ g[k] \in DOMAIN queue_results
      /\ \A k, l \in DOMAIN queue_results' : k < l => g[k] < g[l]
      /\ \A j \in DOMAIN queue_results :
           queue_results[j].id # t => \E k \in DOMAIN queue_results' : g[k] = j
  BY <1>3, <1>4 DEF KeptAt
<1>6. /\ t \in Tasks /\ Owner[t] = r
      /\ \A u \in Tasks : Owner[u] \in Readers
      /\ cleaning'[r] = cleaning[r] \ {t}
      /\ \A q \in Readers : q # r => cleaning'[q] = cleaning[q]
      /\ \A k \in DOMAIN queue_results' : queue_results'[k].id \in Tasks
  <2>1. cleaning \in [Readers -> SUBSET Tasks] /\ cleaning[r] \subseteq IdTasks(r)
    BY <1>0, <1>2 DEF TypeOK, ReaderTypes
  <2>2. \A k \in DOMAIN queue_results' : queue_results'[k].id \in Tasks
    BY <1>0, <1>5, QueueTypes
  <2> QED
    BY <1>1, <2>1, <2>2, ResponseAssumption DEF IdTasks
<1>7. WaitingWhileOpen'
  BY <1>1, <1>2, <1>6 DEF ResponseInv, WaitingWhileOpen, OpenPc
<1>8. QueuedOwned'
  BY <1>2, <1>5, <1>6 DEF ResponseInv, QueuedOwned
<1>9. QueuedInOrder'
  <2>1. ASSUME NEW k \in DOMAIN queue_results'
        PROVE  /\ got[queue_results'[k].id] < queue_results'[k].n
               /\ queue_results'[k].n <= sent[queue_results'[k].id]
    BY <1>5 DEF ResponseInv, QueuedInOrder
  <2>2. ASSUME NEW k \in DOMAIN queue_results', NEW l \in DOMAIN queue_results', k < l,
               queue_results'[k].id = queue_results'[l].id
        PROVE  queue_results'[k].n < queue_results'[l].n
    BY <1>5, <2>2 DEF ResponseInv, QueuedInOrder
  <2> QED
    BY <1>2, <2>1, <2>2 DEF QueuedInOrder
<1>10. NothingLost'
  <2> SUFFICES ASSUME NEW u \in Tasks, readerPc[Owner[u]] \in OpenPc \cup {"new"}
               PROVE  /\ got[u] <= sent[u]
                      /\ \A n \in (got[u] + 1)..sent[u] : \E k \in DOMAIN queue_results' :
                           queue_results'[k].id = u /\ queue_results'[k].n = n
    BY <1>2 DEF NothingLost
  <2>1. u # t
    BY <1>2, <1>6 DEF OpenPc
  <2>2. /\ got[u] <= sent[u]
        /\ \A n \in (got[u] + 1)..sent[u] : \E j \in DOMAIN queue_results :
             queue_results[j].id = u /\ queue_results[j].n = n
    BY DEF ResponseInv, NothingLost
  <2>3. ASSUME NEW n \in (got[u] + 1)..sent[u]
        PROVE  \E k \in DOMAIN queue_results' :
                 queue_results'[k].id = u /\ queue_results'[k].n = n
    <3>1. PICK j \in DOMAIN queue_results : queue_results[j].id = u /\ queue_results[j].n = n
      BY <2>2
    <3>2. PICK k \in DOMAIN queue_results' : g[k] = j
      BY <1>5, <2>1, <3>1
    <3> QED
      BY <1>5, <3>1, <3>2
  <2> QED
    BY <2>2, <2>3
<1>11. FinalIsLast'
  BY <1>2, <1>5 DEF ResponseInv, FinalIsLast
<1>12. FinalIsOver'
  BY <1>2, <1>5 DEF ResponseInv, FinalIsOver
<1>13. Counted' /\ Stages'
  BY <1>2 DEF ResponseInv, Counted, Stages, IdTasks
<1> QED
  BY <1>7, <1>8, <1>9, <1>10, <1>11, <1>12, <1>13 DEF ResponseInv

\* The CANCEL tasks are posted: every task of the request was at the server,
\* and none of its results is left.
LEMMA KeptCancel ==
  ASSUME ResponseInv, TypeOK', NEW r \in Readers, ReaderCancel(r)
  PROVE  ResponseInv'
<1>0. TypeOK
  BY DEF ResponseInv
<1>1. /\ \A t \in Tasks : Owner[t] \in Readers
      /\ \A i \in DOMAIN queue_results : queue_results[i].id \in Tasks
  BY <1>0, QueueTypes, ResponseAssumption
<1>2. /\ readerPc[r] = "clean" /\ cleaning[r] = {}
      /\ readerPc' = [readerPc EXCEPT ![r] = "done"]
      /\ readerPc'[r] = "done" /\ \A q \in Readers : q # r => readerPc'[q] = readerPc[q]
      /\ phase' = [t \in Tasks |-> IF t \in IdTasks(r) /\ phase[t] = "posted"
                                   THEN "cancelling" ELSE phase[t]]
      /\ UNCHANGED <<waiting_task_ids, queue_results, received_count, cancelled, cleaning,
                     sent, got, final>>
  BY <1>0 DEF ReaderCancel, GoTo, TypeOK, ReaderTypes, responseVars, historyVars
<1>3. \A t \in Tasks : /\ phase[t] \in Phase
                       /\ phase'[t] = IF Owner[t] = r /\ phase[t] = "posted"
                                      THEN "cancelling" ELSE phase[t]
  BY <1>0, <1>2 DEF IdTasks, TypeOK, ServerTypes
<1>4. WaitingWhileOpen'
  BY <1>1, <1>2 DEF ResponseInv, WaitingWhileOpen, OpenPc
<1>5. QueuedOwned'
  <2>1. \A i \in DOMAIN queue_results : Owner[queue_results[i].id] # r
    BY <1>2 DEF ResponseInv, QueuedOwned, OpenPc
  <2>2. \A i \in DOMAIN queue_results :
          /\ Owner[queue_results[i].id] \in Readers
          /\ readerPc'[Owner[queue_results[i].id]] = readerPc[Owner[queue_results[i].id]]
    BY <1>1, <1>2, <2>1
  <2> QED
    BY <1>2, <2>2 DEF ResponseInv, QueuedOwned
<1>6. QueuedInOrder'
  BY <1>2 DEF ResponseInv, QueuedInOrder
<1>7. NothingLost'
  BY <1>1, <1>2 DEF ResponseInv, NothingLost, OpenPc
<1>8. FinalIsLast'
  BY <1>1, <1>2, <1>3 DEF ResponseInv, FinalIsLast
<1>9. FinalIsOver'
  BY <1>0, <1>2, <1>3 DEF ResponseInv, FinalIsOver, TypeOK, ServerTypes
<1>10. Counted'
  BY <1>2 DEF ResponseInv, Counted, IdTasks
<1>11. Stages'
  <2>1. ASSUME NEW t \in Tasks
        PROVE  /\ readerPc'[Owner[t]] \in {"new", "registered"} <=> phase'[t] = "none"
               /\ readerPc'[Owner[t]] = "new" => sent'[t] = 0 /\ got'[t] = 0
               /\ readerPc'[Owner[t]] = "done" => phase'[t] \in {"cancelling", "ended"}
    BY <1>1, <1>2, <1>3 DEF ResponseInv, Stages, Phase
  <2>2. \A q \in Readers :
          /\ cancelled'[q] => readerPc'[q] \in {"clean", "done"}
          /\ readerPc'[q] = "clean" => cancelled'[q]
          /\ readerPc'[q] = "done" /\ ~cancelled'[q] => IdTasks(q) \subseteq final'
    BY <1>2 DEF ResponseInv, Stages
  <2> QED
    BY <2>1, <2>2 DEF Stages, IdTasks
<1> QED
  BY <1>4, <1>5, <1>6, <1>7, <1>8, <1>9, <1>10, <1>11 DEF ResponseInv

\* The thread's next request starts afresh: nothing of the last one is queued
\* or registered.
LEMMA KeptRenew ==
  ASSUME ResponseInv, TypeOK', NEW r \in Readers, ReaderRenew(r)
  PROVE  ResponseInv'
<1>0. TypeOK
  BY DEF ResponseInv
<1>1. /\ \A t \in Tasks : Owner[t] \in Readers
      /\ \A i \in DOMAIN queue_results : queue_results[i].id \in Tasks
  BY <1>0, QueueTypes, ResponseAssumption
<1>2. /\ readerPc[r] = "done" /\ readerPc' = [readerPc EXCEPT ![r] = "new"]
      /\ readerPc'[r] = "new" /\ \A q \in Readers : q # r => readerPc'[q] = readerPc[q]
      /\ received_count' = [received_count EXCEPT ![r] = 0]
      /\ cancelled' = [cancelled EXCEPT ![r] = FALSE]
      /\ final' = final \ IdTasks(r)
      /\ UNCHANGED <<waiting_task_ids, queue_results, cleaning>>
  BY <1>0 DEF ReaderRenew, GoTo, TypeOK, ReaderTypes, responseVars
<1>3. \A t \in Tasks :
        /\ phase'[t] = IF Owner[t] = r THEN "none" ELSE phase[t]
        /\ sent'[t] = IF Owner[t] = r THEN 0 ELSE sent[t]
        /\ got'[t] = IF Owner[t] = r THEN 0 ELSE got[t]
  BY DEF ReaderRenew, IdTasks
<1>4. \A i \in DOMAIN queue_results : Owner[queue_results[i].id] # r
  BY <1>2 DEF ResponseInv, QueuedOwned, OpenPc
<1>5. WaitingWhileOpen'
  BY <1>1, <1>2 DEF ResponseInv, WaitingWhileOpen, OpenPc
<1>6. QueuedOwned'
  <2>1. \A i \in DOMAIN queue_results :
          /\ Owner[queue_results[i].id] \in Readers
          /\ readerPc'[Owner[queue_results[i].id]] = readerPc[Owner[queue_results[i].id]]
    BY <1>1, <1>2, <1>4
  <2> QED
    BY <1>2, <2>1 DEF ResponseInv, QueuedOwned
<1>7. QueuedInOrder'
  BY <1>1, <1>2, <1>3, <1>4 DEF ResponseInv, QueuedInOrder
<1>8. NothingLost'
  <2> SUFFICES ASSUME NEW t \in Tasks, readerPc'[Owner[t]] \in OpenPc \cup {"new"}
               PROVE  /\ got'[t] <= sent'[t]
                      /\ \A n \in (got'[t] + 1)..sent'[t] : \E j \in DOMAIN queue_results :
                           queue_results[j].id = t /\ queue_results[j].n = n
    BY <1>2 DEF NothingLost
  <2>1. CASE Owner[t] = r
    BY <1>3, <2>1
  <2>2. CASE Owner[t] # r
    BY <1>1, <1>2, <1>3, <2>2 DEF ResponseInv, NothingLost
  <2> QED
    BY <2>1, <2>2
<1>9. FinalIsLast'
  BY <1>1, <1>2, <1>3, <1>4 DEF ResponseInv, FinalIsLast
<1>10. FinalIsOver'
  BY <1>0, <1>2, <1>3 DEF ResponseInv, FinalIsOver, TypeOK, ServerTypes, IdTasks
<1>11. Counted'
  <2> SUFFICES ASSUME NEW q \in Readers
               PROVE  received_count'[q] = Cardinality(final' \cap IdTasks(q))
    BY DEF Counted, IdTasks
  <2>1. received_count \in [Readers -> Nat]
    BY <1>0 DEF TypeOK, ReaderTypes
  <2>2. CASE q = r
    <3>1. final' \cap IdTasks(r) = {}
      BY <1>2
    <3> QED
      BY <1>2, <2>1, <2>2, <3>1, FS_EmptySet
  <2>3. CASE q # r
    <3>1. final' \cap IdTasks(q) = final \cap IdTasks(q)
      BY <1>2, <2>3 DEF IdTasks
    <3> QED
      BY <1>2, <2>1, <2>3, <3>1 DEF ResponseInv, Counted
  <2> QED
    BY <2>2, <2>3
<1>12. Stages'
  <2>1. ASSUME NEW t \in Tasks
        PROVE  /\ readerPc'[Owner[t]] \in {"new", "registered"} <=> phase'[t] = "none"
               /\ readerPc'[Owner[t]] = "new" => sent'[t] = 0 /\ got'[t] = 0
               /\ readerPc'[Owner[t]] = "done" => phase'[t] \in {"cancelling", "ended"}
    BY <1>1, <1>2, <1>3 DEF ResponseInv, Stages
  <2>2. ASSUME NEW q \in Readers
        PROVE  /\ cancelled'[q] => readerPc'[q] \in {"clean", "done"}
               /\ readerPc'[q] = "clean" => cancelled'[q]
               /\ readerPc'[q] = "done" /\ ~cancelled'[q] => IdTasks(q) \subseteq final'
    <3>1. cancelled'[q] = IF q = r THEN FALSE ELSE cancelled[q]
      BY <1>0, <1>2 DEF TypeOK, ReaderTypes
    <3>2. CASE q = r
      BY <1>2, <3>1, <3>2
    <3>3. CASE q # r
      <4>1. IdTasks(q) \subseteq final => IdTasks(q) \subseteq final'
        BY <1>2, <3>3 DEF IdTasks
      <4> QED
        BY <1>2, <3>1, <3>3, <4>1 DEF ResponseInv, Stages
    <3> QED
      BY <3>2, <3>3
  <2> QED
    BY <2>1, <2>2 DEF Stages, IdTasks
<1> QED
  BY <1>5, <1>6, <1>7, <1>8, <1>9, <1>10, <1>11, <1>12 DEF ResponseInv

\* send(): a result of a task that has not ended is queued behind the earlier
\* ones, or vanishes; a final one ends its task.
LEMMA KeptSend ==
  ASSUME ResponseInv, TypeOK', NEW t \in Tasks, NEW kind \in {"partial", "stop", "error"},
         Send(t, kind), phase[t] \in {"posted", "cancelling"},
         \/ kind = "partial" /\ phase' = phase
         \/ phase' = [phase EXCEPT ![t] = "ended"],
         UNCHANGED <<waiting_task_ids, readerVars, historyVars>>
  PROVE  ResponseInv'
<1> DEFINE q == queue_results
           m == Len(queue_results)
<1>0. TypeOK
  BY DEF ResponseInv
<1>1. /\ \A u \in Tasks : Owner[u] \in Readers
      /\ m \in Nat /\ DOMAIN q = 1..m
      /\ \A i \in 1..m : q[i].id \in Tasks /\ q[i].n \in Nat
  BY <1>0, QueueTypes, ResponseAssumption
<1>2. UNCHANGED <<waiting_task_ids, readerPc, received_count, cancelled, cleaning, got, final>>
  BY DEF readerVars, historyVars
<1>3. \A u \in Tasks : \/ phase'[u] = phase[u]
                       \/ u = t /\ phase'[u] = "ended"
  <2>1. phase \in [Tasks -> Phase]
    BY <1>0 DEF TypeOK, ServerTypes
  <2> QED
    BY <2>1
<1>4. t \notin final /\ \A i \in 1..m : q[i].id = t => q[i].kind = "partial"
  BY <1>1 DEF ResponseInv, FinalIsOver, FinalIsLast
<1>5. sent \in [Tasks -> Nat] /\ got \in [Tasks -> Nat]
  BY <1>0 DEF TypeOK, ServerTypes
<1>6. WaitingWhileOpen' /\ Counted'
  BY <1>2 DEF ResponseInv, WaitingWhileOpen, Counted, IdTasks
<1>7. CASE t \notin waiting_task_ids
  <2>1. UNCHANGED <<queue_results, sent>>
    BY <1>0, <1>7, SendFacts
  <2>2. QueuedOwned' /\ QueuedInOrder' /\ NothingLost'
    BY <1>2, <2>1 DEF ResponseInv, QueuedOwned, QueuedInOrder, NothingLost
  <2>3. FinalIsLast'
    BY <1>1, <1>3, <2>1 DEF ResponseInv, FinalIsLast
  <2>4. FinalIsOver'
    BY <1>0, <1>2, <1>3, <2>1 DEF ResponseInv, FinalIsOver, TypeOK, ServerTypes
  <2>5. Stages'
    BY <1>2, <1>3, <2>1 DEF ResponseInv, Stages, IdTasks
  <2> QED
    BY <1>6, <2>2, <2>3, <2>4, <2>5 DEF ResponseInv
<1>8. CASE t \in waiting_task_ids
  <2>1. /\ q' \in Seq(Result) /\ sent' = [sent EXCEPT ![t] = @ + 1]
        /\ Len(q') = m + 1
        /\ \A i \in 1..m : q'[i] = q[i]
        /\ q'[m + 1] = [id |-> t, n |-> sent[t] + 1, kind |-> kind]
    BY <1>0, <1>8, SendFacts
  <2>2. /\ DOMAIN q' = 1..(m + 1)
        /\ \A i \in 1..(m + 1) : i \in 1..m \/ i = m + 1
    BY <1>1, <2>1, LenProperties
  <2>3. /\ sent'[t] = sent[t] + 1 /\ sent[t] \in Nat /\ got[t] \in Nat
        /\ \A u \in Tasks : u # t => sent'[u] = sent[u]
    BY <1>5, <2>1
  <2>4. readerPc[Owner[t]] \in OpenPc /\ got[t] <= sent[t]
    BY <1>8 DEF ResponseInv, WaitingWhileOpen, NothingLost
  <2>5. q'[m + 1].id = t /\ q'[m + 1].n = sent[t] + 1 /\ q'[m + 1].kind = kind
    BY <2>1
  <2> HIDE DEF q, m
  <2>6. QueuedOwned'
    BY <1>1, <1>2, <2>1, <2>2, <2>4, <2>5 DEF ResponseInv, QueuedOwned, q
  <2>7. QueuedInOrder'
    <3>1. ASSUME NEW i \in 1..(m + 1)
          PROVE  got[q'[i].id] < q'[i].n /\ q'[i].n <= sent'[q'[i].id]
      <4>1. CASE i = m + 1
        BY <2>3, <2>4, <2>5, <4>1
      <4>2. CASE i \in 1..m
        <5>1. q'[i] = q[i] /\ got[q[i].id] < q[i].n /\ q[i].n <= sent[q[i].id] /\ q[i].id \in Tasks
              /\ q[i].n \in Nat
          BY <1>1, <2>1, <4>2 DEF ResponseInv, QueuedInOrder, q
        <5>2. sent[q[i].id] \in Nat /\ sent[q[i].id] <= sent'[q[i].id] /\ sent'[q[i].id] \in Nat
          BY <1>5, <2>3, <5>1
        <5> QED
          BY <5>1, <5>2
      <4> QED
        BY <2>2, <4>1, <4>2
    <3>2. ASSUME NEW i \in 1..(m + 1), NEW j \in 1..(m + 1), i < j, q'[i].id = q'[j].id
          PROVE  q'[i].n < q'[j].n
      <4>1. i \in 1..m /\ q'[i] = q[i]
        BY <1>1, <2>1, <3>2
      <4>2. CASE j = m + 1
        <5>1. q[i].id = t /\ q[i].n <= sent[t] /\ q[i].n \in Nat
          BY <1>1, <2>5, <3>2, <4>1, <4>2 DEF ResponseInv, QueuedInOrder, q
        <5> QED
          BY <2>3, <2>5, <4>1, <4>2, <5>1
      <4>3. CASE j \in 1..m
        BY <1>1, <2>1, <3>2, <4>1, <4>3 DEF ResponseInv, QueuedInOrder, q
      <4> QED
        BY <2>2, <4>2, <4>3
    <3> QED
      BY <1>2, <2>2, <3>1, <3>2 DEF QueuedInOrder, q
  <2>8. NothingLost'
    <3> SUFFICES ASSUME NEW u \in Tasks, readerPc[Owner[u]] \in OpenPc \cup {"new"}
                 PROVE  /\ got[u] <= sent'[u]
                        /\ \A n \in (got[u] + 1)..sent'[u] : \E i \in 1..(m + 1) :
                             q'[i].id = u /\ q'[i].n = n
      BY <1>2, <2>2 DEF NothingLost, q
    <3>1. /\ got[u] <= sent[u]
          /\ \A n \in (got[u] + 1)..sent[u] : \E i \in 1..m : q[i].id = u /\ q[i].n = n
      BY <1>1 DEF ResponseInv, NothingLost, q
    <3>2. sent[u] \in Nat /\ got[u] \in Nat
      BY <1>5
    <3>3. got[u] <= sent'[u]
      BY <2>3, <3>1, <3>2
    <3>4. ASSUME NEW n \in (got[u] + 1)..sent'[u]
          PROVE  \E i \in 1..(m + 1) : q'[i].id = u /\ q'[i].n = n
      <4>1. CASE n \in (got[u] + 1)..sent[u]
        <5>1. PICK i \in 1..m : q[i].id = u /\ q[i].n = n
          BY <3>1, <4>1
        <5>2. i \in 1..(m + 1) /\ q'[i] = q[i]
          BY <1>1, <2>1, <5>1
        <5> QED
          BY <5>1, <5>2
      <4>2. CASE n \notin (got[u] + 1)..sent[u]
        <5>1. u = t /\ n = sent[t] + 1
          BY <2>3, <3>2, <4>2
        <5>2. m + 1 \in 1..(m + 1)
          BY <1>1
        <5> QED
          BY <2>5, <5>1, <5>2
      <4> QED
        BY <4>1, <4>2
    <3> QED
      BY <3>3, <3>4
  <2>9. FinalIsLast'
    <3> SUFFICES ASSUME NEW i \in 1..(m + 1), q'[i].kind # "partial"
                 PROVE  phase'[q'[i].id] = "ended" /\ q'[i].n = sent'[q'[i].id]
      BY <2>2 DEF FinalIsLast, q
    <3>1. CASE i = m + 1
      <4>1. phase'[t] = "ended"
        BY <1>0, <2>5, <3>1 DEF TypeOK, ServerTypes
      <4> QED
        BY <2>3, <2>5, <3>1, <4>1
    <3>2. CASE i \in 1..m
      <4>1. q'[i] = q[i] /\ q[i].id # t /\ q[i].id \in Tasks
        BY <1>1, <1>4, <2>1, <3>2
      <4> QED
        BY <1>1, <1>3, <2>3, <3>2, <4>1 DEF ResponseInv, FinalIsLast, q
    <3> QED
      BY <2>2, <3>1, <3>2
  <2>10. FinalIsOver'
    <3> SUFFICES ASSUME NEW u \in final
                 PROVE  phase'[u] = "ended" /\ \A i \in 1..(m + 1) : q'[i].id # u
      BY <1>2, <2>2 DEF FinalIsOver, q
    <3>1. u # t /\ phase[u] = "ended" /\ \A i \in 1..m : q[i].id # u
      BY <1>1, <1>4 DEF ResponseInv, FinalIsOver, q
    <3>2. u \in Tasks
      BY <1>0 DEF TypeOK, ServerTypes
    <3> QED
      BY <1>3, <2>1, <2>2, <2>5, <3>1, <3>2
  <2>11. Stages'
    <3>1. ASSUME NEW u \in Tasks
          PROVE  /\ readerPc[Owner[u]] \in {"new", "registered"} <=> phase'[u] = "none"
                 /\ readerPc[Owner[u]] = "new" => sent'[u] = 0 /\ got[u] = 0
                 /\ readerPc[Owner[u]] = "done" => phase'[u] \in {"cancelling", "ended"}
      BY <1>3, <2>3, <2>4 DEF ResponseInv, Stages, OpenPc
    <3> QED
      BY <1>2, <3>1 DEF ResponseInv, Stages, IdTasks
  <2> QED
    BY <1>6, <2>6, <2>7, <2>8, <2>9, <2>10, <2>11 DEF ResponseInv
<1> QED
  BY <1>7, <1>8

\* The server's steps keep the invariant.
LEMMA KeptServer ==
  ASSUME ResponseInv, TypeOK', NEW t \in Tasks, ServerStep(t)
  PROVE  ResponseInv'
<1>0. TypeOK
  BY DEF ResponseInv
<1>1. CASE ServerSendPartial(t)
  BY <1>1, KeptSend DEF ServerSendPartial
<1>2. CASE ServerSendFinal(t)
  <2>1. PICK kind \in {"partial", "stop", "error"} : Send(t, kind)
    BY <1>2 DEF ServerSendFinal
  <2>2. /\ phase[t] \in {"posted", "cancelling"} /\ phase' = [phase EXCEPT ![t] = "ended"]
        /\ UNCHANGED <<waiting_task_ids, readerVars, historyVars>>
    BY <1>2 DEF ServerSendFinal
  <2> QED
    BY <2>1, <2>2, KeptSend
<1>3. CASE ServerCancel(t)
  <2>1. /\ phase[t] = "cancelling" /\ phase' = [phase EXCEPT ![t] = "ended"]
        /\ UNCHANGED <<waiting_task_ids, queue_results, readerPc, received_count, cancelled,
                       cleaning, sent, got, final>>
    BY <1>3 DEF ServerCancel, responseVars, readerVars, historyVars
  <2>2. \A u \in Tasks : IF u = t THEN phase'[u] = "ended" ELSE phase'[u] = phase[u]
    BY <1>0, <2>1 DEF TypeOK, ServerTypes
  <2>3. \A i \in DOMAIN queue_results : queue_results[i].id \in Tasks
    BY <1>0, QueueTypes
  <2>4. WaitingWhileOpen' /\ QueuedOwned' /\ QueuedInOrder' /\ NothingLost' /\ Counted'
    BY <2>1 DEF ResponseInv, WaitingWhileOpen, QueuedOwned, QueuedInOrder, NothingLost,
                Counted, IdTasks
  <2>5. FinalIsLast'
    BY <2>1, <2>2, <2>3 DEF ResponseInv, FinalIsLast
  <2>6. FinalIsOver'
    BY <1>0, <2>1, <2>2 DEF ResponseInv, FinalIsOver, TypeOK, ServerTypes
  <2>7. Stages'
    BY <2>1, <2>2 DEF ResponseInv, Stages, IdTasks
  <2> QED
    BY <2>4, <2>5, <2>6, <2>7 DEF ResponseInv
<1> QED
  BY <1>1, <1>2, <1>3 DEF ServerStep

\* The operations of a request keep the invariant.
LEMMA KeptReader ==
  ASSUME ResponseInv, TypeOK', NEW r \in Readers,
         ReaderStep(r) \/ ReaderTimeout(r) \/ ReaderRenew(r) \/ ClientGone(r)
  PROVE  ResponseInv'
<1>0. TypeOK
  BY DEF ResponseInv
<1>1. CASE ReaderNext(r) \/ ReaderBlock(r) \/ ReaderPoll(r) \/ ReaderTimeout(r) \/ ClientGone(r)
  <2>1. \/ readerPc' = readerPc
        \/ \E pc \in {"next", "recv", "timeout", "stop"} :
             /\ readerPc[r] \in {"next", "recv", "timeout", "stop"}
             /\ readerPc' = [readerPc EXCEPT ![r] = pc]
    <3>1. CASE ReaderNext(r)
      BY <3>1 DEF ReaderNext, GoTo
    <3>2. CASE ReaderBlock(r)
      BY <3>2 DEF ReaderBlock, readerVars
    <3>3. CASE ReaderPoll(r)
      BY <3>3 DEF ReaderPoll, GoTo
    <3>4. CASE ReaderTimeout(r)
      <4>1. readerPc[r] = "recv"
        BY <1>0, <3>4 DEF ReaderTimeout, TypeOK, ResponseTypes
      <4> QED
        BY <3>4, <4>1 DEF ReaderTimeout, GoTo
    <3>5. CASE ClientGone(r)
      BY <3>5 DEF ClientGone, readerVars
    <3> QED
      BY <1>1, <3>1, <3>2, <3>3, <3>4, <3>5
  <2>2. UNCHANGED <<waiting_task_ids, queue_results, received_count, cancelled,
                    cleaning, serverVars, historyVars>>
    BY <1>1 DEF ReaderNext, ReaderBlock, ReaderPoll, ReaderTimeout, ClientGone, readerVars,
                responseVars
  <2> QED
    BY <2>1, <2>2, KeptPolling
<1> QED
  BY <1>1, KeptRegister, KeptPost, KeptReceive, KeptStop, KeptClean, KeptCancel, KeptRenew
  DEF ReaderStep

\* The initial state satisfies the invariant.
LEMMA ResponseInvInit == Init => ResponseInv
<1> SUFFICES ASSUME Init PROVE ResponseInv
  OBVIOUS
<1>1. TypeOK
  BY TypesInit
<1>2. \A t \in Tasks : Owner[t] \in Readers
  BY ResponseAssumption
<1>3. WaitingWhileOpen /\ QueuedOwned /\ QueuedInOrder
  BY <1>2 DEF Init, WaitingWhileOpen, QueuedOwned, QueuedInOrder, OpenPc
<1>4. NothingLost
  BY DEF Init, NothingLost
<1>5. FinalIsLast /\ FinalIsOver
  BY DEF Init, FinalIsLast, FinalIsOver
<1>6. Counted
  <2>1. \A r \in Readers : final \cap IdTasks(r) = {}
    BY DEF Init
  <2> QED
    BY <2>1, FS_EmptySet DEF Init, Counted
<1>7. Stages
  BY <1>2 DEF Init, Stages
<1> QED
  BY <1>1, <1>3, <1>4, <1>5, <1>6, <1>7 DEF ResponseInv

\* Every step keeps the invariant.
LEMMA ResponseInvStep == ResponseInv /\ [Next]_vars => ResponseInv'
<1> SUFFICES ASSUME ResponseInv, [Next]_vars PROVE ResponseInv'
  OBVIOUS
<1>1. TypeOK'
  BY TypesReader, TypesServer, TypesStutter DEF Next, ResponseInv
<1>2. CASE Next
  BY <1>1, <1>2, KeptReader, KeptServer DEF Next
<1>3. CASE UNCHANGED vars
  <2>1. UNCHANGED <<waiting_task_ids, queue_results, readerPc, received_count, cancelled,
                    cleaning, phase, sent, got, final>>
    BY <1>3 DEF vars, responseVars, readerVars, serverVars, historyVars
  <2>2. WaitingWhileOpen' /\ QueuedOwned' /\ QueuedInOrder' /\ NothingLost'
    BY <2>1 DEF ResponseInv, WaitingWhileOpen, QueuedOwned, QueuedInOrder, NothingLost
  <2>3. FinalIsLast' /\ FinalIsOver' /\ Counted'
    BY <2>1 DEF ResponseInv, FinalIsLast, FinalIsOver, Counted, IdTasks
  <2>4. Stages'
    BY <2>1 DEF ResponseInv, Stages, IdTasks
  <2> QED
    BY <1>1, <2>2, <2>3, <2>4 DEF ResponseInv
<1> QED
  BY <1>2, <1>3

\* The inductive invariant holds of every behaviour.
LEMMA ResponseInvariant == Spec => []ResponseInv
BY ResponseInvInit, ResponseInvStep, PTL DEF Spec

\* A request that is over has left nothing behind: none of its ids is
\* registered and none of its results is in the queue (stop,
\* remove_waiting_task_id against send).
THEOREM NothingLeftBehind == Spec => []NoOrphans
<1>1. ResponseInv => NoOrphans
  BY DEF ResponseInv, NoOrphans, WaitingWhileOpen, QueuedOwned, OpenPc, IdTasks
<1> QED
  BY <1>1, ResponseInvariant, PTL

\* A request that ended without cancelling anything received the final result
\* of every one of its tasks (has_next, received_count).
THEOREM EveryTaskAnswered == Spec => []AllAnswered
<1>1. ResponseInv => AllAnswered
  BY DEF ResponseInv, AllAnswered, Stages
<1> QED
  BY <1>1, ResponseInvariant, PTL

\* A task of a request that is over has ended or a CANCEL for it was posted
\* (stop).
THEOREM CancelReachesAll == Spec => []CancelReaches
<1>1. ResponseInv => CancelReaches
  BY DEF ResponseInv, CancelReaches, Stages, IdTasks
<1> QED
  BY <1>1, ResponseInvariant, PTL

-----------------------------------------------------------------------------
(* The refinement.                                                         *)

\* The state of each request as ResultDelivery sees it.
DeliveryState ==
  [r \in Readers |->
     CASE readerPc[r] = "new" -> "new"
       [] readerPc[r] \in {"clean", "done"} -> "closed"
       [] OTHER -> "open"]

\* It is open from the registration of the ids to stop().
LEMMA DeliveryStates ==
  ASSUME TypeOK
  PROVE  \A r \in Readers :
           /\ DeliveryState[r] = "new" <=> readerPc[r] = "new"
           /\ DeliveryState[r] = "open" <=> readerPc[r] \in OpenPc
           /\ DeliveryState[r] = "closed" <=> readerPc[r] \in {"clean", "done"}
BY DEF TypeOK, ReaderTypes, ReaderPc, OpenPc, DeliveryState

\* A move within one of its three stages does not show.
LEMMA SameDeliveryState ==
  ASSUME TypeOK, TypeOK', NEW r \in Readers, NEW pc, readerPc' = [readerPc EXCEPT ![r] = pc],
         \/ readerPc[r] \in OpenPc /\ pc \in OpenPc
         \/ readerPc[r] \in {"clean", "done"} /\ pc \in {"clean", "done"}
  PROVE  DeliveryState' = DeliveryState
<1>1. \A q \in Readers : readerPc'[q] = IF q = r THEN pc ELSE readerPc[q]
  BY DEF TypeOK, ReaderTypes
<1>2. \A q \in Readers : DeliveryState'[q] = DeliveryState[q]
  BY <1>1 DEF DeliveryState, OpenPc
<1> QED
  BY <1>2 DEF DeliveryState

\* A move from one stage to another changes the stage of that request only.
LEMMA NextDeliveryState ==
  ASSUME TypeOK, NEW r \in Readers, NEW pc, readerPc' = [readerPc EXCEPT ![r] = pc]
  PROVE  DeliveryState' = [DeliveryState EXCEPT ![r] =
                             CASE pc = "new" -> "new"
                               [] pc \in {"clean", "done"} -> "closed"
                               [] OTHER -> "open"]
<1>1. \A q \in Readers : readerPc'[q] = IF q = r THEN pc ELSE readerPc[q]
  BY DEF TypeOK, ReaderTypes
<1> DEFINE e == [DeliveryState EXCEPT ![r] =
                   CASE pc = "new" -> "new"
                     [] pc \in {"clean", "done"} -> "closed"
                     [] OTHER -> "open"]
<1>2. DOMAIN e = Readers /\ \A q \in Readers : DeliveryState'[q] = e[q]
  BY <1>1 DEF DeliveryState
<1> QED
  BY <1>2 DEF DeliveryState

\* An operation of a request opens, closes or renews its tasks, or gets the
\* next result of one.
LEMMA ReaderRefines ==
  ASSUME ResponseInv, TypeOK', NEW r \in Readers,
         ReaderStep(r) \/ ReaderTimeout(r) \/ ReaderRenew(r) \/ ClientGone(r)
  PROVE  Delivery!Next \/ UNCHANGED <<DeliveryState, sent, got>>
<1>0. TypeOK
  BY DEF ResponseInv
<1>1. CASE ReaderRegister(r)
  <2>1. /\ readerPc[r] = "new" /\ readerPc' = [readerPc EXCEPT ![r] = "registered"]
        /\ UNCHANGED <<sent, got>>
    BY <1>1 DEF ReaderRegister, GoTo, serverVars, historyVars
  <2>2. DeliveryState[r] = "new" /\ DeliveryState' = [DeliveryState EXCEPT ![r] = "open"]
    <3>1. DeliveryState[r] = "new"
      BY <1>0, <2>1, DeliveryStates
    <3> DEFINE pc == "registered"
    <3>2. readerPc' = [readerPc EXCEPT ![r] = pc]
      BY <2>1
    <3> HIDE DEF pc
    <3>3. DeliveryState' = [DeliveryState EXCEPT ![r] =
                              CASE pc = "new" -> "new"
                                [] pc \in {"clean", "done"} -> "closed"
                                [] OTHER -> "open"]
      BY <1>0, <3>2, NextDeliveryState
    <3> QED
      BY <3>1, <3>3 DEF pc
  <2>3. Delivery!Open(r)
    BY <2>1, <2>2 DEF Delivery!Open, DeliveryState
  <2> QED
    BY <2>3 DEF Delivery!Next
<1>2. CASE ReaderStop(r)
  <2>1. PICK pc \in {"clean", "done"} : readerPc' = [readerPc EXCEPT ![r] = pc]
    BY <1>2 DEF ReaderStop, GoTo
  <2>2. readerPc[r] = "stop" /\ UNCHANGED <<sent, got>>
    BY <1>2 DEF ReaderStop, serverVars, historyVars
  <2>3. DeliveryState[r] = "open"
    BY <1>0, <2>2, DeliveryStates DEF OpenPc
  <2>4. DeliveryState' = [DeliveryState EXCEPT ![r] = "closed"]
    BY <1>0, <2>1, NextDeliveryState
  <2>5. Delivery!Close(r)
    BY <2>2, <2>3, <2>4 DEF Delivery!Close, DeliveryState
  <2> QED
    BY <2>5 DEF Delivery!Next
<1>3. CASE ReaderRenew(r)
  <2>1. /\ readerPc[r] = "done" /\ readerPc' = [readerPc EXCEPT ![r] = "new"]
        /\ sent' = [t \in Tasks |-> IF t \in IdTasks(r) THEN 0 ELSE sent[t]]
        /\ got' = [t \in Tasks |-> IF t \in IdTasks(r) THEN 0 ELSE got[t]]
    BY <1>3 DEF ReaderRenew, GoTo
  <2>2. /\ sent' = [t \in Tasks |-> IF Owner[t] = r THEN 0 ELSE sent[t]]
        /\ got' = [t \in Tasks |-> IF Owner[t] = r THEN 0 ELSE got[t]]
    BY <2>1 DEF IdTasks
  <2>3. DeliveryState[r] = "closed" /\ DeliveryState' = [DeliveryState EXCEPT ![r] = "new"]
    BY <1>0, <2>1, DeliveryStates, NextDeliveryState
  <2>4. Delivery!Renew(r)
    BY <2>2, <2>3 DEF Delivery!Renew, DeliveryState
  <2> QED
    BY <2>4 DEF Delivery!Next
<1>4. CASE ReaderReceive(r)
  <2>1. PICK i \in DOMAIN queue_results :
          /\ FirstFor(r, i)
          /\ got' = [got EXCEPT ![queue_results[i].id] = queue_results[i].n]
          /\ \E pc \in {"stop", "next"} : readerPc' = [readerPc EXCEPT ![r] = pc]
    BY <1>4 DEF ReaderReceive, GoTo
  <2>2. readerPc[r] = "recv" /\ UNCHANGED sent
    BY <1>4 DEF ReaderReceive, serverVars
  <2> DEFINE t == queue_results[i].id
  <2>3. /\ t \in Tasks /\ Owner[t] = r /\ queue_results[i].n = got[t] + 1
        /\ queue_results[i].n <= sent[t]
    BY <2>1, <2>2, FirstIsNext DEF OpenPc, IdTasks
  <2>4. DeliveryState' = DeliveryState
    BY <1>0, <2>1, <2>2, SameDeliveryState DEF OpenPc
  <2>5. DeliveryState[r] = "open"
    BY <1>0, <2>2, DeliveryStates DEF OpenPc
  <2>6. got[t] \in Nat /\ sent[t] \in Nat
    BY <1>0, <2>3 DEF TypeOK, ServerTypes
  <2>7. got[t] < sent[t] /\ got' = [got EXCEPT ![t] = @ + 1]
    BY <2>1, <2>3, <2>6
  <2> HIDE DEF t
  <2>8. Delivery!Get(t)
    BY <2>2, <2>3, <2>4, <2>5, <2>7 DEF Delivery!Get, DeliveryState
  <2> QED
    BY <2>3, <2>8 DEF Delivery!Next
<1>5. CASE \/ ReaderPost(r) \/ ReaderNext(r) \/ ReaderPoll(r) \/ ReaderTimeout(r)
           \/ ReaderCancel(r)
  <2>1. PICK pc \in ReaderPc :
          /\ readerPc' = [readerPc EXCEPT ![r] = pc]
          /\ \/ readerPc[r] \in OpenPc /\ pc \in OpenPc
             \/ readerPc[r] = "clean" /\ pc = "done"
    <3>1. CASE ReaderPost(r)
      BY <3>1 DEF ReaderPost, GoTo, OpenPc, ReaderPc
    <3>2. CASE ReaderNext(r)
      BY <3>2 DEF ReaderNext, GoTo, OpenPc, ReaderPc
    <3>3. CASE ReaderPoll(r)
      BY <3>3 DEF ReaderPoll, GoTo, OpenPc, ReaderPc
    <3>4. CASE ReaderTimeout(r)
      <4>1. readerPc[r] = "recv"
        BY <1>0, <3>4 DEF ReaderTimeout, TypeOK, ResponseTypes
      <4> QED
        BY <3>4, <4>1 DEF ReaderTimeout, GoTo, OpenPc, ReaderPc
    <3>5. CASE ReaderCancel(r)
      BY <3>5 DEF ReaderCancel, GoTo, ReaderPc
    <3> QED
      BY <1>5, <3>1, <3>2, <3>3, <3>4, <3>5
  <2>2. UNCHANGED <<sent, got>>
    BY <1>5 DEF ReaderPost, ReaderNext, ReaderPoll, ReaderTimeout, ReaderCancel, serverVars,
                historyVars
  <2>3. DeliveryState' = DeliveryState
    BY <1>0, <2>1, SameDeliveryState
  <2> QED
    BY <2>2, <2>3
<1>6. CASE ReaderBlock(r) \/ ReaderClean(r) \/ ClientGone(r)
  <2>1. UNCHANGED <<readerPc, sent, got>>
    BY <1>6 DEF ReaderBlock, ReaderClean, ClientGone, readerVars, serverVars, historyVars
  <2> QED
    BY <2>1 DEF DeliveryState
<1> QED
  BY <1>1, <1>2, <1>3, <1>4, <1>5, <1>6 DEF ReaderStep

\* A step of the server puts a result, or does not show.
LEMMA ServerRefines ==
  ASSUME ResponseInv, NEW t \in Tasks, ServerStep(t)
  PROVE  Delivery!Next \/ UNCHANGED <<DeliveryState, sent, got>>
<1>0. TypeOK
  BY DEF ResponseInv
<1>1. UNCHANGED <<readerPc, got>>
  BY DEF ServerStep, ServerSendPartial, ServerSendFinal, ServerCancel, readerVars, historyVars
<1>2. DeliveryState' = DeliveryState
  BY <1>1 DEF DeliveryState
<1>3. CASE ServerCancel(t)
  BY <1>1, <1>2, <1>3 DEF ServerCancel
<1>4. CASE ServerSendPartial(t) \/ ServerSendFinal(t)
  <2>1. PICK kind \in {"partial", "stop", "error"} : Send(t, kind)
    BY <1>4 DEF ServerSendPartial, ServerSendFinal
  <2>2. CASE t \notin waiting_task_ids
    BY <1>0, <1>1, <1>2, <2>1, <2>2, SendFacts
  <2>3. CASE t \in waiting_task_ids
    <3>1. sent' = [sent EXCEPT ![t] = @ + 1]
      BY <1>0, <2>1, <2>3, SendFacts
    <3>2. readerPc[Owner[t]] \in OpenPc /\ Owner[t] \in Readers
      BY <2>3, ResponseAssumption DEF ResponseInv, WaitingWhileOpen
    <3>3. DeliveryState[Owner[t]] = "open"
      BY <1>0, <3>2, DeliveryStates
    <3>4. Delivery!Put(t)
      BY <1>1, <1>2, <3>1, <3>3 DEF Delivery!Put, DeliveryState
    <3> QED
      BY <3>4 DEF Delivery!Next
  <2> QED
    BY <2>2, <2>3
<1> QED
  BY <1>3, <1>4 DEF ServerStep

\* The results of a task reach its request in the order in which they were
\* sent, none twice and none left out, until the request withdraws: the
\* result queue implements ResultDelivery (send, recv_with_timeout).
THEOREM ImplementsDelivery == Spec => Delivery!Spec
<1>1. Init => Delivery!Init
  BY DEF Init, Delivery!Init
<1>2. ResponseInv /\ TypeOK' /\ [Next]_vars => [Delivery!Next]_(Delivery!deliveryVars)
  <2> SUFFICES ASSUME ResponseInv, TypeOK', [Next]_vars
               PROVE  Delivery!Next \/ UNCHANGED <<DeliveryState, sent, got>>
    BY DEF Delivery!deliveryVars, DeliveryState
  <2>1. CASE Next
    BY <2>1, ReaderRefines, ServerRefines DEF Next
  <2>2. CASE UNCHANGED vars
    BY <2>2 DEF vars, readerVars, serverVars, historyVars, DeliveryState
  <2> QED
    BY <2>1, <2>2
<1>3. ResponseInv => TypeOK
  BY DEF ResponseInv
<1> QED
  BY <1>1, <1>2, <1>3, ResponseInvariant, PTL DEF Spec, Delivery!Spec

=============================================================================

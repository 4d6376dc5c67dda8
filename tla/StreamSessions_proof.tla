------------------------ MODULE StreamSessions_proof ------------------------
(***************************************************************************)
(* What StreamSessions keeps for every number of requests, conversations   *)
(* and readers, every buffer size and every chunk size: types, the buffer  *)
(* as the tail of the output, exact replay, and, where a failing request   *)
(* is alone in its conversation, the reachability of what still runs.      *)
(***************************************************************************)
EXTENDS StreamSessions, SequenceTheorems, TLAPS

-----------------------------------------------------------------------------
(* Appending a chunk.                                                      *)

\* The bytes of a chunk continue those already produced.
LEMMA DataFacts ==
  ASSUME NEW p \in Requests, NEW len \in Nat, produced[p] \in Nat
  PROVE  /\ Data(p, len) \in Seq(Nat) /\ Len(Data(p, len)) = len
         /\ \A i \in 1..len : Data(p, len)[i] = produced[p] + i
  BY DEF Data

\* What a session's buffer must be: the bytes after the dropped prefix.
IsTail(b, d) == Len(b) <= Cap /\ \A i \in 1..Len(b) : b[i] = d + i

\* A part of a sequence up to its end.
LEMMA Suffix ==
  ASSUME NEW s \in Seq(Nat), NEW m \in Nat, m <= Len(s)
  PROVE  /\ SubSeq(s, m + 1, Len(s)) \in Seq(Nat)
         /\ Len(SubSeq(s, m + 1, Len(s))) = Len(s) - m
         /\ \A i \in 1..(Len(s) - m) : SubSeq(s, m + 1, Len(s))[i] = s[m + i]
<1>1. Len(s) \in Nat /\ \A i \in 1..Len(s) : s[i] \in Nat
  BY LenProperties, ElementOfSeq
<1>2. m + 1 \in Int /\ \A i \in (m + 1)..Len(s) : s[i] \in Nat
  BY <1>1
<1> DEFINE t == SubSeq(s, m + 1, Len(s))
<1>3. /\ t \in Seq(Nat)
      /\ Len(t) = IF m + 1 <= Len(s) THEN Len(s) - (m + 1) + 1 ELSE 0
      /\ \A i \in 1..(Len(s) - (m + 1) + 1) : t[i] = s[m + 1 + i - 1]
  BY <1>1, <1>2, SubSeqProperties
<1> HIDE DEF t
<1>4. Len(t) = Len(s) - m
  BY <1>1, <1>3
<1>5. ASSUME NEW i \in 1..(Len(s) - m) PROVE t[i] = s[m + i]
  <2>1. i \in 1..(Len(s) - (m + 1) + 1) /\ m + 1 + i - 1 = m + i
    BY <1>1
  <2> QED
    BY <2>1, <1>3
<1> QED
  BY <1>3, <1>4, <1>5 DEF t

\* Consecutive bytes after consecutive bytes are consecutive.
LEMMA Consecutive ==
  ASSUME NEW t \in Seq(Nat), NEW a \in Seq(Nat), NEW d \in Int,
         \A i \in 1..Len(t) : t[i] = d + i,
         \A i \in 1..Len(a) : a[i] = d + Len(t) + i
  PROVE  /\ t \o a \in Seq(Nat) /\ Len(t \o a) = Len(t) + Len(a)
         /\ \A i \in 1..(Len(t) + Len(a)) : (t \o a)[i] = d + i
<1>1. Len(t) \in Nat /\ Len(a) \in Nat
  BY LenProperties
<1>2. /\ t \o a \in Seq(Nat) /\ Len(t \o a) = Len(t) + Len(a)
      /\ \A i \in 1..(Len(t) + Len(a)) :
           (t \o a)[i] = IF i <= Len(t) THEN t[i] ELSE a[i - Len(t)]
  BY ConcatProperties
<1>3. ASSUME NEW i \in 1..(Len(t) + Len(a)) PROVE (t \o a)[i] = d + i
  <2>1. CASE i <= Len(t)
    <3>1. (t \o a)[i] = t[i] /\ i \in 1..Len(t)
      BY <1>1, <1>2, <2>1
    <3> QED
      BY <3>1
  <2>2. CASE ~(i <= Len(t))
    <3>1. (t \o a)[i] = a[i - Len(t)] /\ i - Len(t) \in 1..Len(a)
      BY <1>1, <1>2, <2>2
    <3>2. a[i - Len(t)] = d + Len(t) + (i - Len(t))
      BY <3>1
    <3>3. d + Len(t) + (i - Len(t)) = d + i
      BY <1>1
    <3> QED
      BY <3>1, <3>2, <3>3
  <2> QED
    BY <2>1, <2>2
<1> QED
  BY <1>2, <1>3

\* append() of a chunk leaves the buffer typed and the tail of the output,
\* whether the chunk fits, overlaps the cap or exceeds it (stream_session::append).
LEMMA AppendKeepsTail ==
  ASSUME SessionTypes, NEW p \in Requests, NEW len \in Nat \ {0},
         produced[p] \in Nat, Append_(p, len),
         IsTail(buffer[p], prefix_dropped[p]),
         ~done[p] => LogicalEnd(p) = produced[p]
  PROVE  /\ buffer' \in [Requests -> Seq(Nat)]
         /\ prefix_dropped' \in [Requests -> Nat]
         /\ \A q \in Requests \ {p} : /\ buffer'[q] = buffer[q]
                                      /\ prefix_dropped'[q] = prefix_dropped[q]
         /\ IsTail(buffer'[p], prefix_dropped'[p])
         /\ ~done[p] => prefix_dropped'[p] + Len(buffer'[p]) = produced[p] + len
<1> DEFINE b == buffer[p]
           d == prefix_dropped[p]
           a == Data(p, len)
<1>1. /\ b \in Seq(Nat) /\ d \in Nat /\ Cap \in Nat /\ Cap > 0
      /\ len \in Nat /\ len > 0
  BY StreamAssumption DEF SessionTypes
<1>2. Len(b) \in Nat /\ Len(b) <= Cap /\ \A i \in 1..Len(b) : b[i] = d + i
  BY <1>1, LenProperties DEF IsTail
<1>3. a \in Seq(Nat) /\ Len(a) = len /\ \A i \in 1..len : a[i] = produced[p] + i
  BY <1>1, DataFacts
<1> HIDE DEF a
\* it is enough to name what the buffer becomes
<1>4. ASSUME NEW n \in Seq(Nat), NEW e \in Nat,
             buffer' = [buffer EXCEPT ![p] = n],
             prefix_dropped' = [prefix_dropped EXCEPT ![p] = e],
             Len(n) <= Cap, \A i \in 1..Len(n) : n[i] = e + i,
             ~done[p] => e + Len(n) = produced[p] + len
      PROVE  /\ buffer' \in [Requests -> Seq(Nat)]
             /\ prefix_dropped' \in [Requests -> Nat]
             /\ \A q \in Requests \ {p} : /\ buffer'[q] = buffer[q]
                                          /\ prefix_dropped'[q] = prefix_dropped[q]
             /\ IsTail(buffer'[p], prefix_dropped'[p])
             /\ ~done[p] => prefix_dropped'[p] + Len(buffer'[p]) = produced[p] + len
  <2>1. buffer'[p] = n /\ prefix_dropped'[p] = e
    BY <1>4 DEF SessionTypes
  <2>2. /\ buffer' \in [Requests -> Seq(Nat)] /\ prefix_dropped' \in [Requests -> Nat]
        /\ \A q \in Requests \ {p} : /\ buffer'[q] = buffer[q]
                                     /\ prefix_dropped'[q] = prefix_dropped[q]
    BY <1>4 DEF SessionTypes
  <2> QED
    BY <2>1, <2>2, <1>4 DEF IsTail
<1>5. CASE Closed(p)
  <2>1. UNCHANGED <<buffer, prefix_dropped>>
    BY <1>5 DEF Append_
  <2> QED
    BY <1>5, <2>1 DEF SessionTypes, Closed
<1>6. CASE ~Closed(p) /\ len >= Cap
  <2> DEFINE n == SubSeq(a, (len - Cap) + 1, Len(a))
             e == d + Len(b) + (len - Cap)
  <2>1. buffer' = [buffer EXCEPT ![p] = n] /\ prefix_dropped' = [prefix_dropped EXCEPT ![p] = e]
    <3>1. ~(len < Cap)
      BY <1>1, <1>6
    <3> QED
      BY <1>3, <1>6, <3>1 DEF Append_, a
  <2>2. d + Len(b) = produced[p]
    BY <1>6 DEF LogicalEnd, Closed
  <2>3. len - Cap \in Nat /\ len - Cap <= len /\ len - (len - Cap) = Cap
    BY <1>1, <1>6
  <2>4. /\ n \in Seq(Nat) /\ Len(n) = Cap
        /\ \A i \in 1..Cap : n[i] = a[(len - Cap) + i]
    <3> DEFINE m == len - Cap
    <3>1. m \in Nat /\ m <= Len(a) /\ Len(a) - m = Cap
      BY <1>3, <2>3
    <3> HIDE DEF m
    <3>2. /\ SubSeq(a, m + 1, Len(a)) \in Seq(Nat)
          /\ Len(SubSeq(a, m + 1, Len(a))) = Cap
          /\ \A i \in 1..Cap : SubSeq(a, m + 1, Len(a))[i] = a[m + i]
      BY <1>3, <3>1, Suffix
    <3> QED
      BY <3>2 DEF m
  <2>5. ASSUME NEW i \in 1..Len(n) PROVE n[i] = e + i
    <3>1. (len - Cap) + i \in 1..len /\ i \in 1..Cap
      BY <1>1, <2>3, <2>4
    <3>2. n[i] = produced[p] + ((len - Cap) + i)
      BY <1>3, <2>4, <3>1
    <3> HIDE DEF n, b
    <3> QED
      BY <1>1, <1>2, <2>2, <2>3, <3>1, <3>2
  <2>6. e \in Nat /\ e + Len(n) = produced[p] + len /\ Len(n) <= Cap
    <3> HIDE DEF n, b
    <3> QED
      BY <1>1, <1>2, <2>2, <2>3, <2>4
  <2> HIDE DEF n, e
  <2> QED
    BY <1>4, <2>1, <2>4, <2>5, <2>6
<1>7. CASE ~Closed(p) /\ len < Cap
  <2> DEFINE k == Dropped(p, len)
             t == SubSeq(b, k + 1, Len(b))
             e == d + k
  <2>1. buffer' = [buffer EXCEPT ![p] = t \o a] /\ prefix_dropped' = [prefix_dropped EXCEPT ![p] = e]
    <3>1. ~(len >= Cap)
      BY <1>1, <1>7
    <3> QED
      BY <1>7, <3>1 DEF Append_, a
  <2>2. d + Len(b) = produced[p]
    BY <1>7 DEF LogicalEnd, Closed
  <2>3. k \in Nat /\ k <= Len(b) /\ Len(b) - k + len <= Cap
    BY <1>1, <1>2, <1>7 DEF Dropped
  <2> HIDE DEF k
  <2>4. /\ t \in Seq(Nat) /\ Len(t) = Len(b) - k
        /\ \A i \in 1..(Len(b) - k) : t[i] = b[k + i]
    BY <1>1, <2>3, Suffix
  <2> HIDE DEF t, b
  <2>5. ASSUME NEW i \in 1..Len(t) PROVE t[i] = e + i
    <3>1. k + i \in 1..Len(b) /\ i \in 1..(Len(b) - k)
      BY <1>2, <2>3, <2>4
    <3>2. t[i] = d + (k + i)
      BY <1>2, <2>4, <3>1
    <3> QED
      BY <1>1, <2>3, <3>1, <3>2
  <2>6. e \in Nat /\ e \in Int
    BY <1>1, <2>3
  <2>7. ASSUME NEW i \in 1..Len(a) PROVE a[i] = e + Len(t) + i
    <3>1. a[i] = produced[p] + i
      BY <1>3
    <3> QED
      BY <1>1, <1>2, <2>2, <2>3, <2>4, <3>1
  <2> HIDE DEF e
  <2>8. /\ t \o a \in Seq(Nat) /\ Len(t \o a) = Len(t) + Len(a)
        /\ \A i \in 1..(Len(t) + Len(a)) : (t \o a)[i] = e + i
    BY <1>3, <2>4, <2>5, <2>6, <2>7, Consecutive
  <2>9. Len(t \o a) <= Cap /\ e + Len(t \o a) = produced[p] + len
    BY <1>1, <1>2, <1>3, <2>2, <2>3, <2>4, <2>8 DEF e
  <2> QED
    BY <1>4, <2>1, <2>6, <2>8, <2>9
<1> QED
  <2>1. len >= Cap \/ len < Cap
    BY <1>1
  <2> QED
    BY <1>5, <1>6, <1>7, <2>1

-----------------------------------------------------------------------------
(* Types, the buffer as tail, exact replay.                                *)

\* What a reader was told and what its session is: nothing received before it
\* is attached, and the end only of a finalized session.
ReaderStates ==
  \A r \in Readers : /\ readerPc[r] = "new" => got[r] = <<>>
                     /\ readerPc[r] = "ended" => done[pipe[r]]

\* The inductive invariant of the buffers and of those who read them.
ReplayInv == TypeOK /\ RingIsTail /\ ReaderStates /\ ReaderExact /\ EndIsComplete

\* A session once finalized stays so, and only a chunk changes a buffer.
Quiet == /\ UNCHANGED <<buffer, prefix_dropped, produced>>
         /\ \A p \in Requests : done[p] => done'[p]

\* A program start satisfies the invariant.
LEMMA ReplayInit == Init => ReplayInv
<1> SUFFICES ASSUME Init PROVE ReplayInv
  OBVIOUS
<1>1. TypeOK
  <2>1. SessionTypes
    BY DEF Init, SessionTypes
  <2>2. ThreadTypes
    BY DEF Init, ThreadTypes, RequestPc
  <2>3. ReaderTypes
    BY DEF Init, ReaderTypes, ReaderPc
  <2> QED
    BY <2>1, <2>2, <2>3 DEF TypeOK
<1>2. RingIsTail
  BY StreamAssumption DEF Init, RingIsTail, LogicalEnd
<1>3. ReaderStates /\ ReaderExact /\ EndIsComplete
  BY DEF Init, ReaderStates, ReaderExact, EndIsComplete
<1> QED
  BY <1>1, <1>2, <1>3 DEF ReplayInv

\* Every step but a chunk is quiet.
LEMMA QuietOrChunk ==
  ASSUME TypeOK, [Next]_vars, ~ \E p \in Requests : RequestChunk(p)
  PROVE  Quiet
<1> USE DEF TypeOK, SessionTypes, Quiet, sessionVars, requestVars, enderVars, readerVars
<1>1. ASSUME NEW p \in Requests,
             RequestInstall(p) \/ RequestCancelPrevious(p) \/ RequestFinalizePrevious(p)
               \/ RequestStart(p) \/ RequestNext(p)
      PROVE  Quiet
  BY <1>1 DEF RequestInstall, RequestCancelPrevious, RequestFinalizePrevious, RequestStart,
              RequestNext, Finalize, CancelSession
<1>2. ASSUME NEW p \in Requests,
             RequestUnwind(p) \/ RequestEnd(p) \/ RequestEvict(p)
               \/ RequestFinalizeEvicted(p) \/ RequestDestroy(p)
      PROVE  Quiet
  BY <1>2 DEF RequestUnwind, RequestEnd, RequestEvict, RequestFinalizeEvicted,
              RequestDestroy, Finalize
<1>3. ASSUME NEW c \in Convs, DeleteTake(c) PROVE Quiet
  BY <1>3 DEF DeleteTake
<1>4. CASE DeleteCancel \/ DeleteFinalize
  BY <1>4 DEF DeleteCancel, DeleteFinalize, Finalize
<1>5. CASE CollectGarbage
  BY <1>5 DEF CollectGarbage
<1>6. CASE StopManager \/ StopFinalize
  BY <1>6 DEF StopManager, StopFinalize, Finalize
<1>7. ASSUME NEW r \in Readers,
             ReaderAttach(r) \/ ReaderCheck(r) \/ ReaderRead(r) \/ ReaderLeave(r)
      PROVE  Quiet
  BY <1>7 DEF ReaderAttach, ReaderCheck, ReaderRead, ReaderLeave
<1>8. CASE UNCHANGED vars
  BY <1>8 DEF vars
<1> HIDE DEF TypeOK, SessionTypes, Quiet, sessionVars, requestVars, enderVars, readerVars
<1> QED
  BY <1>1, <1>2, <1>3, <1>4, <1>5, <1>6, <1>7, <1>8 DEF Next, RequestStep, Generation

\* A quiet step keeps the buffers.
LEMMA QuietKeepsRing ==
  ASSUME RingIsTail, Quiet
  PROVE  RingIsTail'
BY DEF RingIsTail, Quiet, LogicalEnd

\* Each step keeps the types of the sessions.
LEMMA SessionTypesNext ==
  ASSUME ReplayInv, [Next]_vars
  PROVE  SessionTypes'
<1> USE DEF TypeOK, SessionTypes, ThreadTypes
<1>1. TypeOK /\ RingIsTail
  BY DEF ReplayInv
<1>2. ASSUME NEW p \in Requests, RequestChunk(p) PROVE SessionTypes'
  <2>1. PICK len \in ChunkSizes : Append_(p, len)
    BY <1>2 DEF RequestChunk
  <2>2. IsTail(buffer[p], prefix_dropped[p]) /\ (~done[p] => LogicalEnd(p) = produced[p])
    BY <1>1 DEF RingIsTail, IsTail
  <2>3. len \in Nat \ {0} /\ produced[p] \in Nat
    BY <1>1, StreamAssumption
  <2>4. buffer' \in [Requests -> Seq(Nat)] /\ prefix_dropped' \in [Requests -> Nat]
    BY <1>1, <2>1, <2>2, <2>3, AppendKeepsTail
  <2> QED
    BY <1>1, <1>2, <2>4 DEF RequestChunk
<1>3. ASSUME NEW p \in Requests,
             RequestInstall(p) \/ RequestCancelPrevious(p) \/ RequestFinalizePrevious(p)
      PROVE  SessionTypes'
  <2>1. CASE RequestInstall(p)
    <3>1. sessions' \in [Convs -> Requests \cup {None}]
      BY <1>1, <2>1, StreamAssumption DEF RequestInstall
    <3> QED
      BY <1>1, <2>1, <3>1 DEF RequestInstall, sessionVars
  <2>2. CASE RequestCancelPrevious(p)
    BY <1>1, <2>2 DEF RequestCancelPrevious, CancelSession
  <2>3. CASE RequestFinalizePrevious(p)
    BY <1>1, <2>3 DEF RequestFinalizePrevious, Finalize
  <2> QED
    BY <1>3, <2>1, <2>2, <2>3
<1>4. ASSUME NEW p \in Requests,
             RequestStart(p) \/ RequestNext(p) \/ RequestUnwind(p) \/ RequestEnd(p)
      PROVE  SessionTypes'
  BY <1>1, <1>4 DEF RequestStart, RequestNext, RequestUnwind, RequestEnd, sessionVars
<1>5. ASSUME NEW p \in Requests,
             RequestEvict(p) \/ RequestFinalizeEvicted(p) \/ RequestDestroy(p)
      PROVE  SessionTypes'
  BY <1>1, <1>5 DEF RequestEvict, RequestFinalizeEvicted, RequestDestroy, Finalize, sessionVars
<1>6. ASSUME NEW c \in Convs, DeleteTake(c) PROVE SessionTypes'
  BY <1>1, <1>6 DEF DeleteTake, sessionVars
<1>7. CASE DeleteCancel \/ DeleteFinalize
  BY <1>1, <1>7 DEF DeleteCancel, DeleteFinalize, Finalize, CancelSession
<1>8. CASE CollectGarbage
  <2>1. sessions' \in [Convs -> Requests \cup {None}]
    BY <1>1, <1>8 DEF CollectGarbage
  <2>2. done' \in [Requests -> BOOLEAN]
    BY <1>1, <1>8 DEF CollectGarbage
  <2> QED
    BY <1>1, <1>8, <2>1, <2>2 DEF CollectGarbage
<1>9. CASE StopManager \/ StopFinalize
  BY <1>1, <1>9 DEF StopManager, StopFinalize, Finalize, sessionVars
<1>10. ASSUME NEW r \in Readers,
              ReaderAttach(r) \/ ReaderCheck(r) \/ ReaderRead(r) \/ ReaderLeave(r)
       PROVE  SessionTypes'
  BY <1>1, <1>10 DEF ReaderAttach, ReaderCheck, ReaderRead, ReaderLeave, sessionVars
<1>11. CASE UNCHANGED vars
  BY <1>1, <1>11 DEF vars, sessionVars
<1> QED
  BY <1>2, <1>3, <1>4, <1>5, <1>6, <1>7, <1>8, <1>9, <1>10, <1>11
  DEF Next, RequestStep, Generation

\* Each step keeps the types of the threads that make and end sessions.
LEMMA ThreadTypesNext ==
  ASSUME TypeOK, [Next]_vars
  PROVE  ThreadTypes'
<1> USE DEF TypeOK, SessionTypes, ThreadTypes, RequestPc
<1>1. ASSUME NEW p \in Requests, RequestInstall(p) PROVE ThreadTypes'
  BY <1>1, StreamAssumption DEF RequestInstall, GoTo, enderVars
<1>2. ASSUME NEW p \in Requests, RequestCancelPrevious(p) PROVE ThreadTypes'
  BY <1>2 DEF RequestCancelPrevious, GoTo, enderVars
<1>3. ASSUME NEW p \in Requests, RequestFinalizePrevious(p) PROVE ThreadTypes'
  BY <1>3 DEF RequestFinalizePrevious, GoTo, enderVars
<1>4. ASSUME NEW p \in Requests,
             RequestStart(p) \/ RequestNext(p) \/ RequestUnwind(p) \/ RequestEnd(p)
               \/ RequestDestroy(p)
      PROVE  ThreadTypes'
  <2> DEFINE pc == requestPc'[p]
  <2>1. /\ requestPc[p] \notin {"cancel_previous", "finalize_previous", "finalize_evicted"}
        /\ pc \in {"evict", "next", "destroy", "pull", "done"}
        /\ requestPc' = [requestPc EXCEPT ![p] = pc]
        /\ UNCHANGED <<victim, produced, deletePc, deleted, stopped, snapshot>>
    BY <1>4 DEF RequestStart, RequestNext, RequestUnwind, RequestEnd, RequestDestroy,
                GoTo, enderVars
  <2> HIDE DEF pc
  <2> QED
    BY <2>1
<1>5. ASSUME NEW p \in Requests, RequestChunk(p) PROVE ThreadTypes'
  <2>1. PICK len \in ChunkSizes : produced' = [produced EXCEPT ![p] = @ + len]
    BY <1>5 DEF RequestChunk
  <2>2. PICK pc \in {"next", "destroy"} : requestPc' = [requestPc EXCEPT ![p] = pc]
    BY <1>5 DEF RequestChunk, GoTo
  <2>3. produced' \in [Requests -> Nat]
    BY <2>1, StreamAssumption
  <2>4. requestPc[p] = "pull" /\ UNCHANGED <<victim, deletePc, deleted, stopped, snapshot>>
    BY <1>5 DEF RequestChunk, enderVars
  <2> QED
    BY <2>2, <2>3, <2>4
<1>6. ASSUME NEW p \in Requests, RequestEvict(p) PROVE ThreadTypes'
  BY <1>6, StreamAssumption DEF RequestEvict, GoTo, enderVars
<1>7. ASSUME NEW p \in Requests, RequestFinalizeEvicted(p) PROVE ThreadTypes'
  BY <1>7 DEF RequestFinalizeEvicted, GoTo, enderVars
<1>8. ASSUME NEW c \in Convs, DeleteTake(c) PROVE ThreadTypes'
  BY <1>8 DEF DeleteTake, requestVars
<1>9. CASE DeleteCancel
  BY <1>9 DEF DeleteCancel, requestVars
<1>10. CASE DeleteFinalize
  BY <1>10 DEF DeleteFinalize, requestVars
<1>11. CASE CollectGarbage
  BY <1>11 DEF CollectGarbage, requestVars, enderVars
<1>12. CASE StopManager
  BY <1>12 DEF StopManager, requestVars
<1>13. CASE StopFinalize
  BY <1>13 DEF StopFinalize, requestVars
<1>14. ASSUME NEW r \in Readers,
              ReaderAttach(r) \/ ReaderCheck(r) \/ ReaderRead(r) \/ ReaderLeave(r)
       PROVE  ThreadTypes'
  <2>1. UNCHANGED <<requestVars, enderVars>>
    BY <1>14 DEF ReaderAttach, ReaderCheck, ReaderRead, ReaderLeave
  <2> QED
    BY <2>1 DEF requestVars, enderVars
<1>15. CASE UNCHANGED vars
  BY <1>15 DEF vars, requestVars, enderVars
<1> QED
  BY <1>1, <1>2, <1>3, <1>4, <1>5, <1>6, <1>7, <1>8, <1>9, <1>10, <1>11, <1>12, <1>13,
     <1>14, <1>15
  DEF Next, RequestStep, Generation

\* Only a reader's own steps touch what it keeps.
LEMMA ReadersAlone ==
  ASSUME [Next]_vars, ~ \E r \in Readers :
           ReaderAttach(r) \/ ReaderCheck(r) \/ ReaderRead(r) \/ ReaderLeave(r)
  PROVE  UNCHANGED readerVars
<1>1. ASSUME NEW p \in Requests, RequestStep(p) PROVE UNCHANGED readerVars
  BY <1>1 DEF RequestStep, RequestInstall, RequestCancelPrevious, RequestFinalizePrevious,
     RequestNext, RequestUnwind, RequestEvict, RequestFinalizeEvicted, RequestDestroy
<1>2. ASSUME NEW p \in Requests, Generation(p) PROVE UNCHANGED readerVars
  BY <1>2 DEF Generation, RequestStart, RequestChunk, RequestEnd
<1>3. ASSUME NEW c \in Convs, DeleteTake(c) PROVE UNCHANGED readerVars
  BY <1>3 DEF DeleteTake
<1>4. CASE DeleteCancel \/ DeleteFinalize \/ CollectGarbage \/ StopManager \/ StopFinalize
  BY <1>4 DEF DeleteCancel, DeleteFinalize, CollectGarbage, StopManager, StopFinalize
<1>5. CASE UNCHANGED vars
  BY <1>5 DEF vars
<1> QED
  BY <1>1, <1>2, <1>3, <1>4, <1>5 DEF Next

\* Each step keeps the types of the readers.
LEMMA ReaderTypesNext ==
  ASSUME TypeOK, [Next]_vars
  PROVE  ReaderTypes'
<1> USE DEF ReaderTypes, ReaderPc
<1>0. SessionTypes /\ ReaderTypes
  BY DEF TypeOK
<1>1. ASSUME NEW r \in Readers, ReaderAttach(r) PROVE ReaderTypes'
  <2>1. CASE sessions[ReaderConv[r]] = None
    BY <1>0, <1>1, <2>1 DEF ReaderAttach, ReaderGoTo
  <2>2. CASE sessions[ReaderConv[r]] # None
    <3>1. sessions[ReaderConv[r]] \in Requests
      BY <1>0, <2>2, StreamAssumption DEF SessionTypes
    <3>2. PICK from \in From : offset' = [offset EXCEPT ![r] = from]
      BY <1>1, <2>2 DEF ReaderAttach
    <3>3. from \in Nat
      BY StreamAssumption
    <3>4. /\ pipe' = [pipe EXCEPT ![r] = sessions[ReaderConv[r]]]
          /\ readerPc' = [readerPc EXCEPT ![r] = "attached"] /\ UNCHANGED got
      BY <1>1, <2>2 DEF ReaderAttach, ReaderGoTo
    <3> QED
      BY <1>0, <2>2, <3>1, <3>2, <3>3, <3>4
  <2> QED
    BY <2>1, <2>2
<1>2. ASSUME NEW r \in Readers, ReaderCheck(r) PROVE ReaderTypes'
  BY <1>0, <1>2 DEF ReaderCheck, ReaderGoTo
<1>3. ASSUME NEW r \in Readers, ReaderLeave(r) PROVE ReaderTypes'
  BY <1>0, <1>3 DEF ReaderLeave, ReaderGoTo
<1>4. ASSUME NEW r \in Readers, ReaderRead(r) PROVE ReaderTypes'
  <2> DEFINE p == pipe[r]
  <2>1. p \in Requests
    BY <1>0, <1>4 DEF ReaderRead
  <2>2. /\ buffer[p] \in Seq(Nat) /\ prefix_dropped[p] \in Nat
        /\ offset[r] \in Nat /\ got[r] \in Seq(Nat) /\ readerPc[r] = "reading"
        /\ UNCHANGED pipe
    BY <1>0, <1>4, <2>1 DEF SessionTypes, ReaderRead
  <2>3. CASE \E pc \in {"lost", "ended"} : ReaderGoTo(r, pc) /\ UNCHANGED <<offset, got>>
    BY <1>0, <2>2, <2>3 DEF ReaderGoTo
  <2>4. CASE /\ prefix_dropped[p] <= offset[r] /\ offset[r] < LogicalEnd(p)
             /\ got' = [got EXCEPT ![r] = @ \o Unread(r)]
             /\ offset' = [offset EXCEPT ![r] = LogicalEnd(p)]
             /\ UNCHANGED readerPc
    <3>1. LogicalEnd(p) \in Nat
      BY <2>2, LenProperties DEF LogicalEnd
    <3>2. Unread(r) \in Seq(Nat)
      <4> DEFINE m == offset[r] - prefix_dropped[p]
      <4>1. Len(buffer[p]) \in Nat
        BY <2>2, LenProperties
      <4>2. m \in Nat /\ m <= Len(buffer[p])
        BY <2>2, <2>4, <4>1 DEF LogicalEnd
      <4> HIDE DEF m
      <4>3. SubSeq(buffer[p], m + 1, Len(buffer[p])) \in Seq(Nat)
        BY <2>2, <4>2, Suffix
      <4> QED
        BY <4>3 DEF Unread, m
    <3>3. got[r] \o Unread(r) \in Seq(Nat)
      BY <2>2, <3>2, ConcatProperties
    <3>4. got' \in [Readers -> Seq(Nat)] /\ offset' \in [Readers -> Nat]
      BY <1>0, <2>4, <3>1, <3>3
    <3> QED
      BY <1>0, <2>2, <2>4, <3>4
  <2> QED
    BY <1>4, <2>3, <2>4 DEF ReaderRead
<1>5. CASE UNCHANGED readerVars
  BY <1>0, <1>5 DEF readerVars
<1> QED
  BY <1>1, <1>2, <1>3, <1>4, <1>5, ReadersAlone

\* Each step keeps the buffers the tail of the output.
LEMMA RingNext ==
  ASSUME ReplayInv, [Next]_vars
  PROVE  RingIsTail'
<1>1. TypeOK /\ RingIsTail
  BY DEF ReplayInv
<1>2. ASSUME NEW p \in Requests, RequestChunk(p) PROVE RingIsTail'
  <2>1. PICK len \in ChunkSizes :
          Append_(p, len) /\ produced' = [produced EXCEPT ![p] = @ + len]
    BY <1>2 DEF RequestChunk
  <2>2. IsTail(buffer[p], prefix_dropped[p]) /\ (~done[p] => LogicalEnd(p) = produced[p])
    BY <1>1 DEF RingIsTail, IsTail
  <2>3. /\ len \in Nat \ {0} /\ produced[p] \in Nat
        /\ SessionTypes /\ produced \in [Requests -> Nat]
    BY <1>1, StreamAssumption DEF TypeOK, ThreadTypes
  <2>4. /\ \A q \in Requests \ {p} : /\ buffer'[q] = buffer[q]
                                     /\ prefix_dropped'[q] = prefix_dropped[q]
        /\ IsTail(buffer'[p], prefix_dropped'[p])
        /\ ~done[p] => prefix_dropped'[p] + Len(buffer'[p]) = produced[p] + len
    BY <2>1, <2>2, <2>3, AppendKeepsTail
  <2>5. produced'[p] = produced[p] + len /\ done' = done
    BY <1>2, <2>1, <2>3 DEF RequestChunk
  <2>6. \A q \in Requests \ {p} : produced'[q] = produced[q]
    BY <2>1, <2>3
  <2>7. ASSUME NEW q \in Requests
        PROVE  /\ IsTail(buffer'[q], prefix_dropped'[q])
               /\ ~done[q] => prefix_dropped'[q] + Len(buffer'[q]) = produced'[q]
    <3>1. CASE q = p
      BY <2>4, <2>5, <3>1
    <3>2. CASE q # p
      BY <1>1, <2>4, <2>6, <3>2 DEF RingIsTail, IsTail, LogicalEnd
    <3> QED
      BY <3>1, <3>2
  <2> QED
    BY <2>5, <2>7 DEF RingIsTail, IsTail, LogicalEnd
<1> QED
  BY <1>1, <1>2, QuietOrChunk, QuietKeepsRing

\* A finalized session stays finalized and its buffer does not change again.
LEMMA Frozen ==
  ASSUME ReplayInv, [Next]_vars, NEW p \in Requests, done[p]
  PROVE  done'[p] /\ buffer'[p] = buffer[p] /\ prefix_dropped'[p] = prefix_dropped[p]
<1>1. TypeOK /\ RingIsTail
  BY DEF ReplayInv
<1>2. CASE Quiet
  BY <1>2 DEF Quiet
<1>3. ASSUME NEW q \in Requests, RequestChunk(q)
      PROVE  done'[p] /\ buffer'[p] = buffer[p] /\ prefix_dropped'[p] = prefix_dropped[p]
  <2>1. PICK len \in ChunkSizes : Append_(q, len)
    BY <1>3 DEF RequestChunk
  <2>2. done' = done
    BY <1>3 DEF RequestChunk
  <2>3. CASE q = p
    BY <2>1, <2>2, <2>3 DEF Append_, Closed
  <2>4. CASE q # p
    BY <1>1, <2>1, <2>2, <2>4 DEF Append_, TypeOK, SessionTypes
  <2> QED
    BY <2>3, <2>4
<1> QED
  BY <1>1, <1>2, <1>3, QuietOrChunk

\* Each step keeps what readers were told, what they received, and the
\* completeness of an ended stream.
LEMMA ReadersNext ==
  ASSUME ReplayInv, [Next]_vars
  PROVE  (ReaderStates /\ ReaderExact /\ EndIsComplete)'
<1> DEFINE Ok(r) == /\ readerPc[r] = "new" => got[r] = <<>>
                    /\ readerPc[r] = "ended" => done[pipe[r]]
                    /\ \A i \in 1..Len(got[r]) : got[r][i] = offset[r] - Len(got[r]) + i
                    /\ readerPc[r] = "ended" => offset[r] >= LogicalEnd(pipe[r])
<1>1. /\ SessionTypes /\ ReaderTypes /\ RingIsTail
      /\ \A r \in Readers : Ok(r)
  BY DEF ReplayInv, TypeOK, ReaderStates, ReaderExact, EndIsComplete
<1>2. SUFFICES ASSUME NEW r \in Readers PROVE Ok(r)'
  BY DEF ReaderStates, ReaderExact, EndIsComplete
<1>3. /\ readerPc[r] \in ReaderPc /\ pipe[r] \in Requests \cup {None}
      /\ readerPc[r] \notin {"new", "refused"} => pipe[r] \in Requests
      /\ offset[r] \in Nat /\ got[r] \in Seq(Nat)
  BY <1>1 DEF ReaderTypes
\* a step that leaves the reader alone
<1>4. CASE /\ readerPc'[r] = readerPc[r] /\ pipe'[r] = pipe[r]
           /\ offset'[r] = offset[r] /\ got'[r] = got[r]
  <2>1. CASE readerPc[r] = "ended"
    <3>1. /\ done'[pipe[r]] /\ buffer'[pipe[r]] = buffer[pipe[r]]
          /\ prefix_dropped'[pipe[r]] = prefix_dropped[pipe[r]]
      BY <1>1, <1>3, <2>1, Frozen
    <3> QED
      BY <1>1, <1>4, <2>1, <3>1 DEF LogicalEnd
  <2>2. CASE readerPc[r] # "ended"
    BY <1>1, <1>4, <2>2
  <2> QED
    BY <2>1, <2>2
<1>5. CASE ReaderAttach(r)
  <2>1. got'[r] = <<>> /\ readerPc'[r] \in {"refused", "attached"}
    BY <1>1, <1>5 DEF ReaderAttach, ReaderGoTo, ReaderTypes
  <2>2. Len(got'[r]) = 0
    BY <2>1
  <2> QED
    BY <2>1, <2>2
<1>6. CASE ReaderCheck(r)
  <2>1. /\ got'[r] = got[r] /\ offset'[r] = offset[r]
        /\ readerPc'[r] \in {"refused", "reading"}
    BY <1>1, <1>6 DEF ReaderCheck, ReaderGoTo, ReaderTypes
  <2> QED
    BY <1>1, <2>1
<1>7. CASE ReaderLeave(r)
  <2>1. got'[r] = got[r] /\ offset'[r] = offset[r] /\ readerPc'[r] = "left"
    BY <1>1, <1>7 DEF ReaderLeave, ReaderGoTo, ReaderTypes
  <2> QED
    BY <1>1, <2>1
<1>8. CASE ReaderRead(r)
  <2> DEFINE p == pipe[r]
  <2>1. /\ p \in Requests /\ readerPc[r] = "reading"
        /\ buffer[p] \in Seq(Nat) /\ prefix_dropped[p] \in Nat
        /\ pipe' = pipe /\ UNCHANGED sessionVars
    BY <1>1, <1>3, <1>8 DEF ReaderRead, SessionTypes
  <2>2. CASE readerPc'[r] = "lost" /\ UNCHANGED <<offset, got>>
    BY <1>1, <2>2
  <2>3. CASE /\ offset[r] >= LogicalEnd(p) /\ done[p]
             /\ readerPc'[r] = "ended" /\ UNCHANGED <<offset, got>>
    BY <1>1, <2>1, <2>3 DEF LogicalEnd, sessionVars
  <2>4. CASE /\ prefix_dropped[p] <= offset[r] /\ offset[r] < LogicalEnd(p)
             /\ got' = [got EXCEPT ![r] = @ \o Unread(r)]
             /\ offset' = [offset EXCEPT ![r] = LogicalEnd(p)]
             /\ UNCHANGED readerPc
    <3> DEFINE m == offset[r] - prefix_dropped[p]
               u == SubSeq(buffer[p], m + 1, Len(buffer[p]))
               g == got[r]
               e == offset[r] - Len(g)
    <3>1. Len(buffer[p]) \in Nat /\ Len(g) \in Nat
      BY <1>3, <2>1, LenProperties
    <3>2. m \in Nat /\ m <= Len(buffer[p]) /\ e \in Int
      BY <1>3, <2>1, <2>4, <3>1 DEF LogicalEnd
    <3>3. u = Unread(r)
      BY DEF Unread
    <3>4. m + prefix_dropped[p] = offset[r] /\ e + Len(g) = offset[r]
      BY <1>3, <2>1, <3>1
    <3> HIDE DEF m, e
    <3>5. /\ u \in Seq(Nat) /\ Len(u) = Len(buffer[p]) - m
          /\ \A i \in 1..(Len(buffer[p]) - m) : u[i] = buffer[p][m + i]
      BY <2>1, <3>2, Suffix
    <3> HIDE DEF u, g
    <3>6. ASSUME NEW i \in 1..Len(u) PROVE u[i] = e + Len(g) + i
      <4>1. m + i \in 1..Len(buffer[p]) /\ i \in 1..(Len(buffer[p]) - m)
        BY <3>1, <3>2, <3>5
      <4>2. u[i] = prefix_dropped[p] + (m + i)
        BY <1>1, <2>1, <3>5, <4>1 DEF RingIsTail
      <4>3. prefix_dropped[p] + (m + i) = (m + prefix_dropped[p]) + i
        BY <2>1, <3>2, <4>1
      <4> QED
        BY <3>4, <4>2, <4>3
    <3>7. g \in Seq(Nat) /\ \A i \in 1..Len(g) : g[i] = e + i
      BY <1>1, <1>3 DEF g, e
    <3>8. /\ g \o u \in Seq(Nat) /\ Len(g \o u) = Len(g) + Len(u)
          /\ \A i \in 1..(Len(g) + Len(u)) : (g \o u)[i] = e + i
      BY <3>2, <3>5, <3>6, <3>7, Consecutive
    <3>9. got'[r] = g \o u /\ offset'[r] = LogicalEnd(p) /\ readerPc'[r] = "reading"
      BY <1>1, <2>1, <2>4, <3>3 DEF ReaderTypes, g
    <3>10. LogicalEnd(p) - Len(g \o u) = e
      <4> DEFINE L == Len(buffer[p])
                 G == Len(g)
                 D == prefix_dropped[p]
      <4>1. L \in Nat /\ G \in Nat /\ D \in Nat /\ m \in Nat /\ e \in Int /\ e + G = m + D
        BY <2>1, <3>1, <3>2, <3>4
      <4>2. LogicalEnd(p) = D + L /\ Len(g \o u) = G + (L - m)
        BY <3>5, <3>8 DEF LogicalEnd
      <4> HIDE DEF L, G, D
      <4> QED
        BY <4>1, <4>2
    <3>11. \A i \in 1..Len(got'[r]) : got'[r][i] = offset'[r] - Len(got'[r]) + i
      BY <3>8, <3>9, <3>10
    <3> QED
      BY <3>9, <3>11
  <2> QED
    BY <1>1, <1>8, <2>2, <2>3, <2>4 DEF ReaderRead, ReaderGoTo, ReaderTypes
<1>9. ASSUME NEW s \in Readers, s # r,
             ReaderAttach(s) \/ ReaderCheck(s) \/ ReaderRead(s) \/ ReaderLeave(s)
      PROVE  /\ readerPc'[r] = readerPc[r] /\ pipe'[r] = pipe[r]
             /\ offset'[r] = offset[r] /\ got'[r] = got[r]
  BY <1>1, <1>9 DEF ReaderAttach, ReaderCheck, ReaderRead, ReaderLeave, ReaderGoTo, ReaderTypes
<1>10. CASE UNCHANGED readerVars
  BY <1>4, <1>10 DEF readerVars
<1> QED
  BY <1>4, <1>5, <1>6, <1>7, <1>8, <1>9, <1>10, ReadersAlone

\* The inductive invariant holds in every state.
LEMMA ReplayAlways == Spec => []ReplayInv
<1>1. Init => ReplayInv
  BY ReplayInit
<1>2. ReplayInv /\ [Next]_vars => ReplayInv'
  <2> SUFFICES ASSUME ReplayInv, [Next]_vars PROVE ReplayInv'
    OBVIOUS
  <2>1. TypeOK
    BY DEF ReplayInv
  <2>2. TypeOK'
    BY <2>1, SessionTypesNext, ThreadTypesNext, ReaderTypesNext DEF TypeOK
  <2> QED
    BY <2>2, RingNext, ReadersNext DEF ReplayInv
<1> QED
  BY <1>1, <1>2, PTL DEF Spec

\* The variables keep their types; whoever ends a session points to one
\* (create_or_replace, evict, evict_and_cancel).
THEOREM StreamTypes == Spec => []TypeOK
<1>1. ReplayInv => TypeOK
  BY DEF ReplayInv
<1> QED
  BY <1>1, ReplayAlways, PTL

\* The buffer is the tail of the output, within its cap, whatever the sizes of
\* the chunks and of the cap (append).
THEOREM BufferIsTail == Spec => []RingIsTail
<1>1. ReplayInv => RingIsTail
  BY DEF ReplayInv
<1> QED
  BY <1>1, ReplayAlways, PTL

\* A reader receives consecutive bytes, from any offset, however the buffer
\* moves between two rounds of read_from().
THEOREM ReplayExact == Spec => []ReaderExact
<1>1. ReplayInv => ReaderExact
  BY DEF ReplayInv
<1> QED
  BY <1>1, ReplayAlways, PTL

\* A reader that was told the end has all that the session will ever hold: a
\* finalized session's buffer does not change (append, finalize).
THEOREM EndComplete == Spec => []EndIsComplete
<1>1. ReplayInv => EndIsComplete
  BY DEF ReplayInv
<1> QED
  BY <1>1, ReplayAlways, PTL

-----------------------------------------------------------------------------
(* Who can still be stopped.                                               *)

\* A request that ends before it streams is the only one of its conversation.
\* Without this a failing request evicts its successor's session, which the
\* run stream_v_evict shows.
FailingAlone == \A p \in Failing : \A q \in Requests : ConvOf[q] = ConvOf[p] => q = p

\* between the entry into the map and the end of the generation
LivePc == {"cancel_previous", "finalize_previous", "starting", "next", "pull"}

\* The map is keyed by the conversation of its sessions.
MapKeyed == \A c \in Convs : sessions[c] # None => ConvOf[sessions[c]] = c

\* Who finalizes a session that is not his own has cancelled it, has it from a
\* stopped manager, or is a failing request that evicts its conversation.
EndersCancel ==
  /\ \A q \in Requests :
       /\ requestPc[q] \in {"evict", "finalize_evicted"} => q \in Failing
       /\ requestPc[q] = "finalize_previous" => cancelled[victim[q]]
       /\ requestPc[q] = "finalize_evicted" => ConvOf[victim[q]] = ConvOf[q]
  /\ deletePc = "finalize" => cancelled[deleted]
  /\ snapshot # {} => stopped

\* Hence a live generation's session is finalized only if it was cancelled, and
\* the collector does not take it out of the map.
FinalizedIsOver ==
  \A p \in Requests :
    done[p] /\ requestPc[p] \in LivePc \cup {"new"} => cancelled[p] \/ stopped

\* LiveIsReachable from the entry into the map on.
Reachable(p) ==
  requestPc[p] \in LivePc /\ ~cancelled[p] /\ ~stopped =>
    \/ sessions[ConvOf[p]] = p
    \/ \E q \in Requests : requestPc[q] = "cancel_previous" /\ victim[q] = p
    \/ deletePc = "cancel" /\ deleted = p

\* The inductive invariant behind LiveIsReachable.
LifeInv ==
  /\ TypeOK /\ MapKeyed /\ EndersCancel /\ FinalizedIsOver
  /\ \A p \in Requests : Reachable(p)

\* The steps of a request that only move its program counter.
LEMMA MoveKeepsLife ==
  ASSUME LifeInv, TypeOK', NEW p \in Requests,
         RequestStart(p) \/ RequestNext(p) \/ RequestChunk(p) \/ RequestUnwind(p)
           \/ RequestEnd(p)
  PROVE  (MapKeyed /\ EndersCancel /\ FinalizedIsOver /\ \A q \in Requests : Reachable(q))'
<1> DEFINE pc == requestPc'[p]
<1>1. /\ requestPc[p] \in {"starting", "next", "pull"}
      /\ requestPc' = [requestPc EXCEPT ![p] = pc]
      /\ pc \in {"next", "pull", "destroy"} \/ (pc = "evict" /\ p \in Failing)
  BY DEF RequestStart, RequestNext, RequestChunk, RequestUnwind, RequestEnd, GoTo,
         LifeInv, TypeOK, ThreadTypes
<1>2. UNCHANGED <<sessions, done, cancelled, victim, deletePc, deleted, stopped, snapshot>>
  BY DEF RequestStart, RequestNext, RequestChunk, RequestUnwind, RequestEnd,
         sessionVars, enderVars
<1> HIDE DEF pc
<1>3. /\ requestPc \in [Requests -> RequestPc]
      /\ MapKeyed /\ EndersCancel /\ FinalizedIsOver /\ \A q \in Requests : Reachable(q)
  BY DEF LifeInv, TypeOK, ThreadTypes
<1>4. MapKeyed'
  BY <1>2, <1>3 DEF MapKeyed
<1>5. EndersCancel'
  BY <1>1, <1>2, <1>3 DEF EndersCancel
<1>6. FinalizedIsOver'
  BY <1>1, <1>2, <1>3 DEF FinalizedIsOver, LivePc
<1>7. \A q \in Requests : Reachable(q)'
  <2> TAKE q \in Requests
  <2>1. requestPc'[q] \in LivePc => requestPc[q] \in LivePc
    BY <1>1, <1>3 DEF LivePc
  <2>2. \A x \in Requests : requestPc[x] = "cancel_previous" => requestPc'[x] = "cancel_previous"
    BY <1>1, <1>3
  <2> QED
    BY <1>2, <1>3, <2>1, <2>2 DEF Reachable
<1> QED
  BY <1>4, <1>5, <1>6, <1>7

\* Each step keeps the invariant, where failing requests are alone.
LEMMA LifeNext ==
  ASSUME FailingAlone, LifeInv, TypeOK', [Next]_vars
  PROVE  (MapKeyed /\ EndersCancel /\ FinalizedIsOver /\ \A q \in Requests : Reachable(q))'
<1> DEFINE Goal == MapKeyed /\ EndersCancel /\ FinalizedIsOver /\ \A q \in Requests : Reachable(q)
<1>0. Goal /\ SessionTypes /\ ThreadTypes
  BY DEF LifeInv, TypeOK
<1>a. /\ ConvOf \in [Requests -> Convs] /\ None \notin Requests /\ Failing \subseteq Requests
  BY StreamAssumption
<1> USE DEF MapKeyed, EndersCancel, FinalizedIsOver, Reachable, LivePc, SessionTypes, ThreadTypes
<1>1. ASSUME NEW p \in Requests, RequestInstall(p) PROVE Goal'
  <2>1. /\ requestPc[p] = "new"
        /\ sessions' = [sessions EXCEPT ![ConvOf[p]] = p]
        /\ victim' = [victim EXCEPT ![p] = sessions[ConvOf[p]]]
        /\ sessions[ConvOf[p]] = None => requestPc' = [requestPc EXCEPT ![p] = "starting"]
        /\ sessions[ConvOf[p]] # None => requestPc' = [requestPc EXCEPT ![p] = "cancel_previous"]
        /\ UNCHANGED <<done, cancelled, deletePc, deleted, stopped, snapshot>>
    BY <1>1 DEF RequestInstall, GoTo, sessionVars, enderVars
  <2>2. MapKeyed'
    BY <1>0, <1>a, <2>1
  <2>3. EndersCancel'
    BY <1>0, <1>a, <2>1
  <2>4. FinalizedIsOver'
    BY <1>0, <1>a, <2>1
  <2>5. \A q \in Requests : Reachable(q)'
    <3> TAKE q \in Requests
    <3>1. CASE q = p
      BY <1>0, <1>a, <2>1, <3>1
    <3>2. CASE q # p /\ sessions[ConvOf[q]] = q /\ ConvOf[q] = ConvOf[p]
      BY <1>0, <1>a, <2>1, <3>2
    <3>3. CASE q # p /\ sessions[ConvOf[q]] = q /\ ConvOf[q] # ConvOf[p]
      BY <1>0, <1>a, <2>1, <3>3
    <3>4. CASE q # p /\ sessions[ConvOf[q]] # q
      <4>1. requestPc'[q] = requestPc[q]
        BY <1>0, <2>1, <3>4
      <4>2. \A x \in Requests : requestPc[x] = "cancel_previous" =>
              requestPc'[x] = "cancel_previous" /\ victim'[x] = victim[x]
        BY <1>0, <2>1
      <4> QED
        BY <1>0, <2>1, <3>4, <4>1, <4>2
    <3> QED
      BY <3>1, <3>2, <3>3, <3>4
  <2> QED
    BY <2>2, <2>3, <2>4, <2>5
<1>2. ASSUME NEW p \in Requests, RequestCancelPrevious(p) PROVE Goal'
  <2>1. /\ requestPc[p] = "cancel_previous" /\ victim[p] \in Requests
        /\ cancelled' = [cancelled EXCEPT ![victim[p]] = TRUE]
        /\ requestPc' = [requestPc EXCEPT ![p] = "finalize_previous"]
        /\ UNCHANGED <<sessions, done, victim, deletePc, deleted, stopped, snapshot>>
    BY <1>0, <1>2 DEF RequestCancelPrevious, CancelSession, GoTo, enderVars
  <2> QED
    BY <1>0, <1>a, <2>1
<1>3. ASSUME NEW p \in Requests, RequestFinalizePrevious(p) PROVE Goal'
  <2>1. /\ requestPc[p] = "finalize_previous" /\ victim[p] \in Requests /\ cancelled[victim[p]]
        /\ done' = [done EXCEPT ![victim[p]] = TRUE]
        /\ victim' = [victim EXCEPT ![p] = None]
        /\ requestPc' = [requestPc EXCEPT ![p] = "starting"]
        /\ UNCHANGED <<sessions, cancelled, deletePc, deleted, stopped, snapshot>>
    BY <1>0, <1>3 DEF RequestFinalizePrevious, Finalize, GoTo, enderVars
  <2> QED
    BY <1>0, <1>a, <2>1
<1>4. ASSUME NEW p \in Requests, RequestEvict(p) PROVE Goal'
  <2>1. /\ requestPc[p] = "evict" /\ p \in Failing
        /\ sessions' = [sessions EXCEPT ![ConvOf[p]] = None]
        /\ victim' = [victim EXCEPT ![p] = sessions[ConvOf[p]]]
        /\ sessions[ConvOf[p]] = None => requestPc' = [requestPc EXCEPT ![p] = "destroy"]
        /\ sessions[ConvOf[p]] # None => requestPc' = [requestPc EXCEPT ![p] = "finalize_evicted"]
        /\ UNCHANGED <<done, cancelled, deletePc, deleted, stopped, snapshot>>
    BY <1>0, <1>4 DEF RequestEvict, GoTo, sessionVars, enderVars
  <2>2. \A q \in Requests : ConvOf[q] = ConvOf[p] => q = p
    BY <2>1 DEF FailingAlone
  <2>3. MapKeyed' /\ EndersCancel' /\ FinalizedIsOver'
    BY <1>0, <1>a, <2>1
  <2>4. \A q \in Requests : Reachable(q)'
    <3> TAKE q \in Requests
    <3>1. CASE q = p
      BY <1>0, <2>1, <3>1
    <3>2. CASE q # p
      <4>1. requestPc'[q] = requestPc[q] /\ sessions'[ConvOf[q]] = sessions[ConvOf[q]]
        BY <1>0, <1>a, <2>1, <2>2, <3>2
      <4>2. \A x \in Requests : requestPc[x] = "cancel_previous" =>
              requestPc'[x] = "cancel_previous" /\ victim'[x] = victim[x]
        BY <1>0, <2>1
      <4> QED
        BY <1>0, <2>1, <4>1, <4>2
    <3> QED
      BY <3>1, <3>2
  <2> QED
    BY <2>3, <2>4
<1>5. ASSUME NEW p \in Requests, RequestFinalizeEvicted(p) PROVE Goal'
  <2>1. /\ requestPc[p] = "finalize_evicted" /\ p \in Failing
        /\ victim[p] \in Requests /\ ConvOf[victim[p]] = ConvOf[p]
    BY <1>0, <1>5 DEF RequestFinalizeEvicted
  <2>2. victim[p] = p
    BY <2>1 DEF FailingAlone
  <2>3. /\ done' = [done EXCEPT ![p] = TRUE]
        /\ victim' = [victim EXCEPT ![p] = None]
        /\ requestPc' = [requestPc EXCEPT ![p] = "destroy"]
        /\ UNCHANGED <<sessions, cancelled, deletePc, deleted, stopped, snapshot>>
    BY <1>5, <2>2 DEF RequestFinalizeEvicted, Finalize, GoTo, enderVars
  <2> QED
    BY <1>0, <1>a, <2>1, <2>3
<1>6. ASSUME NEW p \in Requests, RequestDestroy(p) PROVE Goal'
  <2>1. /\ requestPc[p] = "destroy"
        /\ done' = [done EXCEPT ![p] = TRUE]
        /\ requestPc' = [requestPc EXCEPT ![p] = "done"]
        /\ UNCHANGED <<sessions, cancelled, victim, deletePc, deleted, stopped, snapshot>>
    BY <1>6 DEF RequestDestroy, Finalize, GoTo, enderVars
  <2> QED
    BY <1>0, <1>a, <2>1
<1>7. ASSUME NEW c \in Convs, DeleteTake(c) PROVE Goal'
  <2>1. /\ deletePc = "idle" /\ sessions[c] # None /\ ConvOf[sessions[c]] = c
        /\ deleted' = sessions[c] /\ deletePc' = "cancel"
        /\ sessions' = [sessions EXCEPT ![c] = None]
        /\ UNCHANGED <<done, cancelled, requestPc, victim, stopped, snapshot>>
    BY <1>0, <1>7 DEF DeleteTake, sessionVars, requestVars
  <2> QED
    BY <1>0, <1>a, <2>1
<1>8. CASE DeleteCancel
  <2>1. /\ deletePc = "cancel" /\ deletePc' = "finalize" /\ deleted \in Requests
        /\ cancelled' = [cancelled EXCEPT ![deleted] = TRUE]
        /\ UNCHANGED <<sessions, done, requestPc, victim, deleted, stopped, snapshot>>
    BY <1>0, <1>8 DEF DeleteCancel, CancelSession, requestVars
  <2> QED
    BY <1>0, <1>a, <2>1
<1>9. CASE DeleteFinalize
  <2>1. /\ deletePc = "finalize" /\ deletePc' = "idle" /\ deleted \in Requests
        /\ cancelled[deleted]
        /\ done' = [done EXCEPT ![deleted] = TRUE]
        /\ UNCHANGED <<sessions, cancelled, requestPc, victim, stopped, snapshot>>
    BY <1>0, <1>9 DEF DeleteFinalize, Finalize, requestVars
  <2> QED
    BY <1>0, <1>a, <2>1
<1>10. CASE CollectGarbage
  <2>1. PICK C \in SUBSET {c \in Convs : sessions[c] # None /\ Expired(sessions[c])} :
          /\ sessions' = [c \in Convs |-> IF c \in C THEN None ELSE sessions[c]]
          /\ done' = [p \in Requests |-> done[p] \/ \E c \in C : sessions[c] = p]
    BY <1>10 DEF CollectGarbage
  <2>2. ~stopped /\ UNCHANGED <<cancelled, requestPc, victim, deletePc, deleted, stopped, snapshot>>
    BY <1>10 DEF CollectGarbage, requestVars, enderVars
  <2>3. \A c \in C : c \in Convs /\ sessions[c] \in Requests /\ done[sessions[c]]
    BY <1>0, <2>1 DEF Expired
  <2>4. \A p \in Requests : done'[p] => done[p]
    BY <1>0, <2>1, <2>3
  <2>5. MapKeyed' /\ EndersCancel'
    BY <1>0, <1>a, <2>1, <2>2
  <2>6. FinalizedIsOver'
    BY <1>0, <2>2, <2>4
  <2>7. \A q \in Requests : Reachable(q)'
    <3> TAKE q \in Requests
    <3>1. CASE ConvOf[q] \in C /\ sessions[ConvOf[q]] = q
      BY <1>0, <1>a, <2>2, <2>3, <3>1
    <3>2. CASE ConvOf[q] \notin C \/ sessions[ConvOf[q]] # q
      BY <1>0, <1>a, <2>1, <2>2, <3>2
    <3> QED
      BY <3>1, <3>2
  <2> QED
    BY <2>5, <2>6, <2>7
<1>11. CASE StopManager
  <2>1. /\ stopped' /\ sessions' = [c \in Convs |-> None]
        /\ UNCHANGED <<done, cancelled, requestPc, victim, deletePc, deleted>>
    BY <1>11 DEF StopManager, sessionVars, requestVars
  <2> QED
    BY <1>0, <1>a, <2>1
<1>12. CASE StopFinalize
  <2>1. PICK p \in snapshot : done' = [done EXCEPT ![p] = TRUE] /\ snapshot' = snapshot \ {p}
    BY <1>12 DEF StopFinalize, Finalize
  <2>2. stopped /\ UNCHANGED <<sessions, cancelled, requestPc, victim, deletePc, deleted, stopped>>
    BY <1>0, <1>12 DEF StopFinalize, requestVars
  <2> QED
    BY <1>0, <1>a, <2>1, <2>2
<1>13. CASE UNCHANGED <<sessions, sessionVars, requestVars, enderVars>>
  BY <1>0, <1>13 DEF sessionVars, requestVars, enderVars
<1>14. ASSUME NEW r \in Readers,
              ReaderAttach(r) \/ ReaderCheck(r) \/ ReaderRead(r) \/ ReaderLeave(r)
       PROVE  UNCHANGED <<sessions, sessionVars, requestVars, enderVars>>
  BY <1>14 DEF ReaderAttach, ReaderCheck, ReaderRead, ReaderLeave
<1>15. CASE UNCHANGED vars
  BY <1>13, <1>15 DEF vars
<1>16. ASSUME NEW p \in Requests,
              RequestStart(p) \/ RequestNext(p) \/ RequestChunk(p) \/ RequestUnwind(p)
                \/ RequestEnd(p)
       PROVE  Goal'
  BY <1>16, MoveKeepsLife
<1> HIDE DEF MapKeyed, EndersCancel, FinalizedIsOver, Reachable, LivePc, SessionTypes, ThreadTypes
<1>17. ASSUME NEW p \in Requests, RequestStep(p) \/ Generation(p) PROVE Goal'
  BY <1>1, <1>2, <1>3, <1>4, <1>5, <1>6, <1>16, <1>17 DEF RequestStep, Generation
<1>18. ASSUME NEW r \in Readers,
              ReaderAttach(r) \/ ReaderCheck(r) \/ ReaderRead(r) \/ ReaderLeave(r)
       PROVE  Goal'
  BY <1>13, <1>14, <1>18
<1> QED
  BY <1>7, <1>8, <1>9, <1>10, <1>11, <1>12, <1>15, <1>17, <1>18 DEF Next

\* Where a failing request is alone in its conversation, every generation that
\* goes on, uncancelled and under a running manager, can be stopped: DELETE
\* finds its session, or somebody is about to cancel it (create_or_replace,
\* evict_and_cancel, gc_loop and evict in any interleaving).
THEOREM LiveReachable ==
  ASSUME FailingAlone
  PROVE  Spec => []LiveIsReachable
<1>1. Init => LifeInv
  <2> SUFFICES ASSUME Init PROVE LifeInv
    OBVIOUS
  <2>1. TypeOK
    BY ReplayInit DEF ReplayInv
  <2> QED
    BY <2>1 DEF Init, LifeInv, MapKeyed, EndersCancel, FinalizedIsOver, Reachable, LivePc
<1>2. LifeInv /\ TypeOK' /\ [Next]_vars => LifeInv'
  BY LifeNext DEF LifeInv
<1>3. LifeInv => LiveIsReachable
  BY DEF LifeInv, Reachable, LivePc, LiveIsReachable
<1> QED
  BY <1>1, <1>2, <1>3, StreamTypes, PTL DEF Spec

=============================================================================

--------------------------- MODULE StreamSessions ---------------------------
(***************************************************************************)
(* The resumable streams of tools/server (server-stream): a generation     *)
(* that carries a conversation id tees its output into a session, a        *)
(* bounded buffer that outlives the connection; readers replay it from any *)
(* offset and follow it; a newer request of the conversation, DELETE,      *)
(* expiry and shutdown end it.                                             *)
(*                                                                         *)
(* A session is named after the request that made it, and the k-th byte of *)
(* a generation is the number k.  One action is one critical section of    *)
(* map_mu or of a session's mu; cancelled is an atomic.  Waiting readers   *)
(* wake up every STREAM_READ_WAKE_INTERVAL_MS, so a reader that can go on  *)
(* does, and the condition variable is not modelled.                       *)
(***************************************************************************)
EXTENDS Integers, Sequences, FiniteSets

CONSTANTS
  Requests,    \* generations with an X-Conversation-Id header
  Convs, ConvOf, \* ConvOf[p]: the conversation of request p
  Failing,     \* the requests that end before they stream anything
  Readers, ReaderConv, \* GET /v1/stream; ReaderConv[r]: its conv_id
  From,        \* offsets a reader may start from
  Cap,         \* cap_bytes
  ChunkSizes,  \* sizes of a chunk of output
  MaxBytes,    \* bound: bytes of a generation
  None

ASSUME StreamAssumption ==
  /\ ConvOf \in [Requests -> Convs] /\ ReaderConv \in [Readers -> Convs]
  /\ Failing \subseteq Requests
  /\ From \subseteq Nat /\ ChunkSizes \subseteq Nat \ {0}
  /\ Cap \in Nat \ {0} /\ MaxBytes \in Nat
  /\ None \notin Requests

VARIABLES
  sessions,                                  \* conversation -> its session
  buffer, prefix_dropped, done, cancelled,   \* the session of each request
  requestPc, victim,     \* HTTP thread of a request; a session it is ending
  produced,              \* bytes a generation has put out
  deletePc, deleted,     \* thread of a DELETE and the session it is ending
  stopped, snapshot,     \* stop_gc(), and the sessions it has yet to finalize
  readerPc, pipe, offset,  \* thread of a GET: its session and position
  got                    \* history: the bytes a reader has received

sessionVars == <<buffer, prefix_dropped, done, cancelled>>
requestVars == <<requestPc, victim, produced>>
enderVars   == <<deletePc, deleted, stopped, snapshot>>
readerVars  == <<readerPc, pipe, offset, got>>
vars == <<sessions, sessionVars, requestVars, enderVars, readerVars>>

RequestPc == {"new", "cancel_previous", "finalize_previous", "starting", "next",
              "pull", "evict", "finalize_evicted", "destroy", "done"}
ReaderPc == {"new", "attached", "reading", "refused", "ended", "lost", "left"}

-----------------------------------------------------------------------------
Init ==
  /\ sessions = [c \in Convs |-> None]
  /\ buffer = [p \in Requests |-> <<>>]
  /\ prefix_dropped = [p \in Requests |-> 0]
  /\ done = [p \in Requests |-> FALSE]
  /\ cancelled = [p \in Requests |-> FALSE]
  /\ requestPc = [p \in Requests |-> "new"]
  /\ victim = [p \in Requests |-> None]
  /\ produced = [p \in Requests |-> 0]
  /\ deletePc = "idle" /\ deleted = None
  /\ stopped = FALSE /\ snapshot = {}
  /\ readerPc = [r \in Readers |-> "new"]
  /\ pipe = [r \in Readers |-> None]
  /\ offset = [r \in Readers |-> 0]
  /\ got = [r \in Readers |-> <<>>]

\* stream_session::finalize and cancel; both may be called again
Finalize(p) == done' = [done EXCEPT ![p] = TRUE]
CancelSession(p) == cancelled' = [cancelled EXCEPT ![p] = TRUE]

GoTo(p, pc) == requestPc' = [requestPc EXCEPT ![p] = pc]

-----------------------------------------------------------------------------
(* The thread of a request: set_req(), next, on_complete(), destructor.    *)

\* create_or_replace, the part under map_mu
RequestInstall(p) ==
  /\ requestPc[p] = "new"
  /\ sessions' = [sessions EXCEPT ![ConvOf[p]] = p]
  /\ victim' = [victim EXCEPT ![p] = sessions[ConvOf[p]]]
  /\ GoTo(p, IF sessions[ConvOf[p]] = None THEN "starting" ELSE "cancel_previous")
  /\ UNCHANGED <<sessionVars, produced, enderVars, readerVars>>

RequestCancelPrevious(p) ==
  /\ requestPc[p] = "cancel_previous"
  /\ CancelSession(victim[p])
  /\ GoTo(p, "finalize_previous")
  /\ UNCHANGED <<sessions, buffer, prefix_dropped, done, victim, produced,
                 enderVars, readerVars>>

RequestFinalizePrevious(p) ==
  /\ requestPc[p] = "finalize_previous"
  /\ Finalize(victim[p])
  /\ victim' = [victim EXCEPT ![p] = None]
  /\ GoTo(p, "starting")
  /\ UNCHANGED <<sessions, buffer, prefix_dropped, cancelled, produced, enderVars,
                 readerVars>>

\* the first result has come: set_next(); or the request ends before that, by
\* an error or because its client is gone, and on_complete() evicts
RequestStart(p) ==
  /\ requestPc[p] = "starting"
  /\ GoTo(p, IF p \in Failing THEN "evict" ELSE "next")
  /\ UNCHANGED <<sessions, sessionVars, victim, produced, enderVars, readerVars>>

\* next_orig asks should_stop() first; the loop of on_complete(), after the
\* client is gone, asks the same
RequestNext(p) ==
  /\ requestPc[p] = "next"
  /\ GoTo(p, IF cancelled[p] THEN "destroy" ELSE "pull")
  /\ UNCHANGED <<sessions, sessionVars, victim, produced, enderVars, readerVars>>

\* one byte too few is dropped
BugDropped(p, len) ==
  IF Len(buffer[p]) + len > Cap THEN Len(buffer[p]) + len - Cap - 1 ELSE 0

\* bytes that make room for a chunk smaller than the cap
Dropped(p, len) ==
  IF Len(buffer[p]) + len > Cap THEN Len(buffer[p]) + len - Cap ELSE 0

\* a finalized session is not closed to the producer
BugClosed(p) == FALSE

\* append() refuses, and the producer does not look at the result
Closed(p) == done[p]

\* the next len bytes of the generation
Data(p, len) == [i \in 1..len |-> produced[p] + i]

\* append()
Append_(p, len) ==
  \/ /\ Closed(p)
     /\ UNCHANGED <<buffer, prefix_dropped>>
  \/ /\ ~Closed(p) /\ len >= Cap
     /\ prefix_dropped' = [prefix_dropped EXCEPT ![p] = @ + Len(buffer[p]) + (len - Cap)]
     /\ buffer' = [buffer EXCEPT ![p] = SubSeq(Data(p, len), len - Cap + 1, len)]
  \/ /\ ~Closed(p) /\ len < Cap
     /\ prefix_dropped' = [prefix_dropped EXCEPT ![p] = @ + Dropped(p, len)]
     /\ buffer' = [buffer EXCEPT ![p] =
                     SubSeq(buffer[p], Dropped(p, len) + 1, Len(buffer[p])) \o Data(p, len)]

\* a result of the generation, teed into the session; maybe the last
RequestChunk(p) ==
  /\ requestPc[p] = "pull"
  /\ \E len \in ChunkSizes :
       /\ produced[p] + len <= MaxBytes
       /\ Append_(p, len)
       /\ produced' = [produced EXCEPT ![p] = @ + len]
  /\ \E pc \in {"next", "destroy"} : GoTo(p, pc)
  /\ UNCHANGED <<sessions, done, cancelled, victim, enderVars, readerVars>>

\* should_stop() is not asked while waiting for a result
BugRequestUnwind(p) == FALSE /\ UNCHANGED vars

\* rd.next() noticed should_stop()
RequestUnwind(p) ==
  /\ requestPc[p] = "pull" /\ cancelled[p]
  /\ GoTo(p, "destroy")
  /\ UNCHANGED <<sessions, sessionVars, victim, produced, enderVars, readerVars>>

\* the generation ended without further output
RequestEnd(p) ==
  /\ requestPc[p] = "pull"
  /\ GoTo(p, "destroy")
  /\ UNCHANGED <<sessions, sessionVars, victim, produced, enderVars, readerVars>>

\* a conversation without a session is not looked for
BugRequestEvict(p) ==
  /\ requestPc[p] = "evict"
  /\ sessions' = [sessions EXCEPT ![ConvOf[p]] = None]
  /\ victim' = [victim EXCEPT ![p] = sessions[ConvOf[p]]]
  /\ GoTo(p, "finalize_evicted")
  /\ UNCHANGED <<sessionVars, produced, enderVars, readerVars>>

\* evict(), by conversation id
RequestEvict(p) ==
  /\ requestPc[p] = "evict"
  /\ sessions' = [sessions EXCEPT ![ConvOf[p]] = None]
  /\ victim' = [victim EXCEPT ![p] = sessions[ConvOf[p]]]
  /\ GoTo(p, IF sessions[ConvOf[p]] = None THEN "destroy" ELSE "finalize_evicted")
  /\ UNCHANGED <<sessionVars, produced, enderVars, readerVars>>

RequestFinalizeEvicted(p) ==
  /\ requestPc[p] = "finalize_evicted"
  /\ Finalize(victim[p])
  /\ victim' = [victim EXCEPT ![p] = None]
  /\ GoTo(p, "destroy")
  /\ UNCHANGED <<sessions, buffer, prefix_dropped, cancelled, produced, enderVars,
                 readerVars>>

\* the session is not finalized
BugRequestDestroy(p) ==
  /\ requestPc[p] = "destroy"
  /\ GoTo(p, "done")
  /\ UNCHANGED <<sessions, sessionVars, victim, produced, enderVars, readerVars>>

\* ~stream_pipe_producer
RequestDestroy(p) ==
  /\ requestPc[p] = "destroy"
  /\ Finalize(p)
  /\ GoTo(p, "done")
  /\ UNCHANGED <<sessions, buffer, prefix_dropped, cancelled, victim, produced,
                 enderVars, readerVars>>

-----------------------------------------------------------------------------
(* DELETE, the collector, shutdown.                                        *)

\* evict_and_cancel, the part under map_mu
DeleteTake(c) ==
  /\ deletePc = "idle"
  /\ sessions[c] # None
  /\ deleted' = sessions[c]
  /\ sessions' = [sessions EXCEPT ![c] = None]
  /\ deletePc' = "cancel"
  /\ UNCHANGED <<sessionVars, requestVars, stopped, snapshot, readerVars>>

DeleteCancel ==
  /\ deletePc = "cancel"
  /\ CancelSession(deleted)
  /\ deletePc' = "finalize"
  /\ UNCHANGED <<sessions, buffer, prefix_dropped, done, requestVars, deleted,
                 stopped, snapshot, readerVars>>

DeleteFinalize ==
  /\ deletePc = "finalize"
  /\ Finalize(deleted)
  /\ deletePc' = "idle" /\ deleted' = None
  /\ UNCHANGED <<sessions, buffer, prefix_dropped, cancelled, requestVars, stopped,
                 snapshot, readerVars>>

\* a session that is not complete expires too
BugExpired(p) == TRUE

\* completed_ts is set and older than the time to live
Expired(p) == done[p]

\* one pass of gc_loop()
CollectGarbage ==
  /\ ~stopped
  /\ \E C \in SUBSET {c \in Convs : sessions[c] # None /\ Expired(sessions[c])} :
       /\ C # {}
       /\ sessions' = [c \in Convs |-> IF c \in C THEN None ELSE sessions[c]]
       /\ done' = [p \in Requests |-> done[p] \/ \E c \in C : sessions[c] = p]
  /\ UNCHANGED <<buffer, prefix_dropped, cancelled, requestVars, enderVars, readerVars>>

\* stop_gc(): the collector is joined, the map emptied ...
StopManager ==
  /\ ~stopped
  /\ stopped' = TRUE
  /\ snapshot' = {sessions[c] : c \in Convs} \ {None}
  /\ sessions' = [c \in Convs |-> None]
  /\ UNCHANGED <<sessionVars, requestVars, deletePc, deleted, readerVars>>

\* ... and its sessions finalized one by one
StopFinalize ==
  /\ \E p \in snapshot :
       /\ Finalize(p)
       /\ snapshot' = snapshot \ {p}
  /\ UNCHANGED <<sessions, buffer, prefix_dropped, cancelled, requestVars, deletePc,
                 deleted, stopped, readerVars>>

-----------------------------------------------------------------------------
(* GET /v1/stream.                                                         *)

ReaderGoTo(r, pc) == readerPc' = [readerPc EXCEPT ![r] = pc]

\* get() and the offset asked for
ReaderAttach(r) ==
  /\ readerPc[r] = "new"
  /\ IF sessions[ReaderConv[r]] = None
     THEN ReaderGoTo(r, "refused") /\ UNCHANGED <<pipe, offset>>
     ELSE /\ pipe' = [pipe EXCEPT ![r] = sessions[ReaderConv[r]]]
          /\ \E from \in From : offset' = [offset EXCEPT ![r] = from]
          /\ ReaderGoTo(r, "attached")
  /\ UNCHANGED <<sessions, sessionVars, requestVars, enderVars, got>>

\* the handler's check of dropped_prefix()
ReaderCheck(r) ==
  /\ readerPc[r] = "attached"
  /\ ReaderGoTo(r, IF offset[r] < prefix_dropped[pipe[r]] THEN "refused" ELSE "reading")
  /\ UNCHANGED <<sessions, sessionVars, requestVars, enderVars, pipe, offset, got>>

\* the offset is taken to be inside of the buffer
BugUnread(r) ==
  LET p == pipe[r]
  IN SubSeq(buffer[p], offset[r] + 1, Len(buffer[p]))

\* what read_from() copies out under the lock
Unread(r) ==
  LET p == pipe[r]
  IN SubSeq(buffer[p], offset[r] - prefix_dropped[p] + 1, Len(buffer[p]))

LogicalEnd(p) == prefix_dropped[p] + Len(buffer[p])

\* one round of read_from(), the chunk passed on to the client
ReaderRead(r) ==
  /\ readerPc[r] = "reading"
  /\ LET p == pipe[r] IN
     \/ /\ offset[r] < prefix_dropped[p]
        /\ ReaderGoTo(r, "lost") /\ UNCHANGED <<offset, got>>
     \/ /\ prefix_dropped[p] <= offset[r] /\ offset[r] < LogicalEnd(p)
        /\ got' = [got EXCEPT ![r] = @ \o Unread(r)]
        /\ offset' = [offset EXCEPT ![r] = LogicalEnd(p)]
        /\ UNCHANGED readerPc
     \/ /\ prefix_dropped[p] <= offset[r] /\ offset[r] >= LogicalEnd(p) /\ done[p]
        /\ ReaderGoTo(r, "ended") /\ UNCHANGED <<offset, got>>
  /\ UNCHANGED <<sessions, sessionVars, requestVars, enderVars, pipe>>

\* should_stop(): the client of the GET is gone
ReaderLeave(r) ==
  /\ readerPc[r] = "reading"
  /\ ReaderGoTo(r, "left")
  /\ UNCHANGED <<sessions, sessionVars, requestVars, enderVars, pipe, offset, got>>

-----------------------------------------------------------------------------
\* what the thread of a request does by itself; when the generation yields its
\* next result is up to the scheduler
RequestStep(p) ==
  \/ RequestInstall(p) \/ RequestCancelPrevious(p) \/ RequestFinalizePrevious(p)
  \/ RequestNext(p) \/ RequestUnwind(p) \/ RequestEvict(p)
  \/ RequestFinalizeEvicted(p) \/ RequestDestroy(p)

Generation(p) == RequestStart(p) \/ RequestChunk(p) \/ RequestEnd(p)

Next ==
  \/ \E p \in Requests : RequestStep(p) \/ Generation(p)
  \/ \E c \in Convs : DeleteTake(c)
  \/ DeleteCancel \/ DeleteFinalize
  \/ CollectGarbage \/ StopManager \/ StopFinalize
  \/ \E r \in Readers :
       ReaderAttach(r) \/ ReaderCheck(r) \/ ReaderRead(r) \/ ReaderLeave(r)

Spec == Init /\ [][Next]_vars

\* Threads run.  Nothing is assumed about when a generation makes progress,
\* except that the first result, an answer or an error, comes.
FairSpec ==
  /\ Spec
  /\ \A p \in Requests : WF_vars(RequestStep(p)) /\ WF_vars(RequestStart(p))
  /\ WF_vars(DeleteCancel \/ DeleteFinalize) /\ WF_vars(StopFinalize)
  /\ \A r \in Readers : WF_vars(ReaderCheck(r) \/ ReaderRead(r))

-----------------------------------------------------------------------------
(* Properties.                                                             *)

SessionTypes ==
  /\ sessions \in [Convs -> Requests \cup {None}]
  /\ buffer \in [Requests -> Seq(Nat)]
  /\ prefix_dropped \in [Requests -> Nat]
  /\ done \in [Requests -> BOOLEAN] /\ cancelled \in [Requests -> BOOLEAN]

ThreadTypes ==
  /\ requestPc \in [Requests -> RequestPc]
  /\ victim \in [Requests -> Requests \cup {None}]
  /\ \A p \in Requests :
       victim[p] = None <=>
         requestPc[p] \notin {"cancel_previous", "finalize_previous", "finalize_evicted"}
  /\ produced \in [Requests -> Nat]
  /\ deletePc \in {"idle", "cancel", "finalize"}
  /\ deleted \in IF deletePc = "idle" THEN {None} ELSE Requests
  /\ stopped \in BOOLEAN /\ snapshot \subseteq Requests

ReaderTypes ==
  /\ readerPc \in [Readers -> ReaderPc]
  /\ pipe \in [Readers -> Requests \cup {None}]
  /\ \A r \in Readers : readerPc[r] \notin {"new", "refused"} => pipe[r] # None
  /\ offset \in [Readers -> Nat]
  /\ got \in [Readers -> Seq(Nat)]

\* The values of the variables; a thread points to a session exactly while it
\* is ending it, and a reader once it is attached.
TypeOK == SessionTypes /\ ThreadTypes /\ ReaderTypes

\* The buffer holds the last bytes of the generation, at most Cap of them, and
\* prefix_dropped counts the ones before; nothing is missing until the session
\* is finalized (append).
RingIsTail ==
  \A p \in Requests :
    /\ Len(buffer[p]) <= Cap
    /\ \A i \in 1..Len(buffer[p]) : buffer[p][i] = prefix_dropped[p] + i
    /\ ~done[p] => LogicalEnd(p) = produced[p]

\* Whatever is dropped and appended between two reads, a reader receives
\* consecutive bytes up to its offset, none twice and none left out
\* (read_from, the GET handler's offset).
ReaderExact ==
  \A r \in Readers : \A i \in 1..Len(got[r]) :
    got[r][i] = offset[r] - Len(got[r]) + i

\* A generation that goes on can be stopped through its conversation: its
\* session is the one DELETE finds, unless it is cancelled, somebody is about
\* to cancel it, or the manager is stopped.
LiveIsReachable ==
  \A p \in Requests :
    requestPc[p] \in {"starting", "next", "pull"} /\ ~cancelled[p] /\ ~stopped =>
      \/ sessions[ConvOf[p]] = p
      \/ \E q \in Requests : requestPc[q] = "cancel_previous" /\ victim[q] = p
      \/ deletePc = "cancel" /\ deleted = p

\* A reader that was told the end of the stream has all of it: nothing enters a
\* session after finalize() (append against evict_and_cancel, create_or_replace).
EndIsComplete ==
  \A r \in Readers : readerPc[r] = "ended" => offset[r] >= LogicalEnd(pipe[r])

\* The request of a session that was cancelled, by DELETE or by a newer
\* request, unwinds, however long its generation would go on.
CancelUnwinds == \A p \in Requests : cancelled[p] ~> requestPc[p] = "done"

\* No reader hangs: when the request of its session is over, or the session was
\* ended by somebody else, the reader comes to an end.
ReaderEnds ==
  \A r \in Readers :
    readerPc[r] = "reading" /\ requestPc[pipe[r]] \in {"destroy", "done"}
      ~> readerPc[r] # "reading"

=============================================================================

--------------------------- MODULE StreamSession ---------------------------
(***************************************************************************)
(* The session machinery behind /v1/stream: every WebSocket connection has *)
(* one handler coroutine and one reaper task on a single event loop, all   *)
(* of them share one SessionRegistry, and completed utterances go through  *)
(* a bounded queue to the one InteractionWorker thread.                    *)
(*                                                                         *)
(* An action is what runs between two suspension points of a coroutine (or *)
(* one step of the worker thread).  A handler that awaits a send has put   *)
(* the message on the socket already; what follows the await is a separate *)
(* action, so reapers, other handlers and the worker can run in between.   *)
(***************************************************************************)
EXTENDS Naturals, Sequences, FiniteSets

CONSTANTS Conn,          \* connections (edge units)
          Sid,           \* session ids the edge may send
          NoConn, NoSid, \* "no owner", "no session"
          MaxQueue,      \* queue_max_size
          MaxChunks,     \* bound: downlink chunks of one response
          StoreMayFail   \* whether a SQLite write may raise

ASSUME ConstantsOK ==
  /\ NoConn \notin Conn
  /\ NoSid \notin Sid
  /\ MaxQueue \in Nat \ {0}
  /\ MaxChunks \in Nat
  /\ StoreMayFail \in BOOLEAN

VARIABLES
  sock,      \* the socket as the server sees it
  pc,        \* where a handler coroutine is suspended
  reaper,    \* the reaper task of a connection
  synced,    \* Connection.clock_offset_ms is set
  bound,     \* Connection._in_flight_session_id
  sid,       \* _in_flight.session_id
  submitted, \* _in_flight.submitted
  idle,      \* _in_flight.last_activity_monotonic is at least the timeout ago
  left,      \* downlink chunks the handler has still to send
  registry,  \* SessionRegistry._sessions
  accepting, \* InteractionWorker._accepting
  queue,     \* InteractionWorker._queue
  running,   \* the work item in InteractionRunner.run
  future,    \* the future the handler awaits
  told,      \* history: what the edge was sent about its latest session
  rows       \* history: trace rows written for that session

connVars   == <<sock, synced>>
taskVars   == <<pc, reaper, left>>
sessVars   == <<bound, sid, submitted, idle, registry>>
workVars   == <<accepting, queue, running, future>>
ghostVars  == <<told, rows>>
vars == <<sock, pc, reaper, synced, bound, sid, submitted, idle, left,
          registry, accepting, queue, running, future, told, rows>>

Job   == [conn : Conn, sid : Sid]
NoJob == [conn |-> NoConn, sid |-> NoSid]

\* Suspended in a send; the name says what the handler does once it returns.
SendStates == {"note", "malformed", "overflow", "failed",
               "response", "chunk", "ended"}
PcStates   == SendStates \cup {"gone", "recv", "await", "closing"}
Results    == {"none", "pending", "ok", "error", "raised"}
Stages     == {"none", "ready", "refused", "response", "ended", "twice"}
RowKinds   == {"interaction", "session_timeout", "queue_overflow"}

TypeOK ==
  /\ sock \in [Conn -> {"none", "open", "closed"}]
  /\ pc \in [Conn -> PcStates]
  /\ reaper \in [Conn -> {"off", "sleep", "sending"}]
  /\ synced \in [Conn -> BOOLEAN]
  /\ bound \in [Conn -> Sid \cup {NoSid}]
  /\ sid \in [Conn -> Sid \cup {NoSid}]
  /\ submitted \in [Conn -> BOOLEAN]
  /\ idle \in [Conn -> BOOLEAN]
  /\ left \in [Conn -> 0..MaxChunks]
  /\ registry \in [Sid -> Conn \cup {NoConn}]
  /\ accepting \in BOOLEAN
  /\ queue \in Seq(Job)
  /\ Len(queue) <= MaxQueue
  /\ running \in Job \cup {NoJob}
  /\ future \in [Conn -> Results]
  /\ told \in [Conn -> Stages]
  /\ rows \in [Conn -> SUBSET RowKinds]

Init ==
  /\ sock = [c \in Conn |-> "none"]
  /\ pc = [c \in Conn |-> "gone"]
  /\ reaper = [c \in Conn |-> "off"]
  /\ synced = [c \in Conn |-> FALSE]
  /\ bound = [c \in Conn |-> NoSid]
  /\ sid = [c \in Conn |-> NoSid]
  /\ submitted = [c \in Conn |-> FALSE]
  /\ idle = [c \in Conn |-> FALSE]
  /\ left = [c \in Conn |-> 0]
  /\ registry = [s \in Sid |-> NoConn]
  /\ accepting = TRUE
  /\ queue = <<>>
  /\ running = NoJob
  /\ future = [c \in Conn |-> "none"]
  /\ told = [c \in Conn |-> "none"]
  /\ rows = [c \in Conn |-> {}]

-----------------------------------------------------------------------------
(* Building blocks of the handlers.                                        *)

Goto(c, p) == /\ pc' = [pc EXCEPT ![c] = p]
              /\ UNCHANGED reaper

\* An exception reaches stream_endpoint: its finally block cancels the reaper
\* and awaits it before the session is released (Close).
Leave(c) == /\ pc' = [pc EXCEPT ![c] = "closing"]
            /\ reaper' = [reaper EXCEPT ![c] = "off"]

\* A send puts its message on an open socket and suspends; on a closed one it
\* raises WebSocketDisconnect at once.
SendThen(c, p) == IF sock[c] = "open" THEN Goto(c, p) ELSE Leave(c)

\* The edge learns something only from a message that was really sent.
Tell(c, stage) ==
  told' = IF sock[c] = "open" THEN [told EXCEPT ![c] = stage] ELSE told

\* error and tts_audio_end end the session the edge was told is ready.
Ended(c) == IF told[c] \in {"ended", "twice"} THEN "twice" ELSE "ended"

ReleaseRegistry(c) ==
  registry' = IF sid[c] = NoSid
              THEN registry ELSE [registry EXCEPT ![sid[c]] = NoConn]

\* _release_session: a no-op when nothing is in flight, and tolerant of a
\* connection that is not bound to the session any more.
Release(c) ==
  /\ ReleaseRegistry(c)
  /\ bound' = [bound EXCEPT ![c] =
                 IF sid[c] # NoSid /\ bound[c] = sid[c] THEN NoSid ELSE @]
  /\ sid' = [sid EXCEPT ![c] = NoSid]
  /\ submitted' = [submitted EXCEPT ![c] = FALSE]
  /\ idle' = [idle EXCEPT ![c] = FALSE]

AddRow(c, kind) == rows' = [rows EXCEPT ![c] = @ \cup {kind}]

-----------------------------------------------------------------------------
(* The handler coroutine, from accept to the end of stream_endpoint.       *)

\* An authenticated connection; a refused one (4401) touches no state.
Connect(c) ==
  /\ pc[c] = "gone"
  /\ sock' = [sock EXCEPT ![c] = "open"]
  /\ synced' = [synced EXCEPT ![c] = FALSE]
  /\ pc' = [pc EXCEPT ![c] = "recv"]
  /\ reaper' = [reaper EXCEPT ![c] = "sleep"]
  /\ told' = [told EXCEPT ![c] = "none"]
  /\ rows' = [rows EXCEPT ![c] = {}]
  /\ UNCHANGED <<left, sessVars, workVars>>

\* start_audio for a session id some connection, maybe this one, has in flight.
StartCollision(c, s) ==
  /\ pc[c] = "recv"
  /\ registry[s] # NoConn
  /\ SendThen(c, "note")
  /\ IF sid[c] = s /\ told[c] = "ready"
     THEN Tell(c, "refused") ELSE UNCHANGED told
  /\ UNCHANGED <<connVars, left, sessVars, workVars, rows>>

\* Fault: the rollback of the entry the registry accepted is forgotten.
StartBusyNoRollback(c, s) ==
  /\ pc[c] = "recv"
  /\ registry[s] = NoConn
  /\ bound[c] # NoSid
  /\ registry' = [registry EXCEPT ![s] = c]
  /\ SendThen(c, "note")
  /\ UNCHANGED <<connVars, left, bound, sid, submitted, idle, workVars,
                 ghostVars>>

\* start_audio while this connection has another session in flight: the entry
\* the registry just accepted is rolled back.
StartBusy(c, s) ==
  /\ pc[c] = "recv"
  /\ registry[s] = NoConn
  /\ bound[c] # NoSid
  /\ registry' = [registry EXCEPT ![s] = NoConn]
  /\ SendThen(c, "note")
  /\ UNCHANGED <<connVars, left, bound, sid, submitted, idle, workVars,
                 ghostVars>>

AcceptSession(c, s) ==
  /\ pc[c] = "recv"
  /\ bound[c] = NoSid
  /\ registry' = [registry EXCEPT ![s] = c]
  /\ bound' = [bound EXCEPT ![c] = s]
  /\ sid' = [sid EXCEPT ![c] = s]
  /\ submitted' = [submitted EXCEPT ![c] = FALSE]
  /\ idle' = [idle EXCEPT ![c] = FALSE]
  /\ SendThen(c, "note")
  /\ told' = [told EXCEPT ![c] = IF sock[c] = "open" THEN "ready" ELSE "none"]
  /\ rows' = [rows EXCEPT ![c] = {}]
  /\ UNCHANGED <<connVars, left, workVars>>

\* Fault: only the connection's own session is checked, not the registry.
StartAudioUnchecked(c, s) == AcceptSession(c, s)

StartAudio(c, s) ==
  /\ registry[s] = NoConn
  /\ AcceptSession(c, s)

\* The first clock_sync_request is answered, a repeated one ignored.
ClockSync(c) ==
  /\ pc[c] = "recv"
  /\ ~synced[c]
  /\ synced' = [synced EXCEPT ![c] = TRUE]
  /\ SendThen(c, "note")
  /\ UNCHANGED <<sock, left, sessVars, workVars, ghostVars>>

AudioFrame(c) ==
  /\ pc[c] = "recv"
  /\ sid[c] # NoSid
  /\ idle' = [idle EXCEPT ![c] = FALSE]
  /\ UNCHANGED <<connVars, taskVars, bound, sid, submitted, registry,
                 workVars, ghostVars>>

\* Fault: the frame is refused but its session goes on.
MalformedFrameTolerated(c) ==
  /\ pc[c] = "recv"
  /\ sid[c] # NoSid
  /\ SendThen(c, "note")
  /\ Tell(c, Ended(c))
  /\ UNCHANGED <<connVars, left, sessVars, workVars, rows>>

\* A frame of odd length: the error is sent before the session is released.
MalformedFrame(c) ==
  /\ pc[c] = "recv"
  /\ sid[c] # NoSid
  /\ SendThen(c, "malformed")
  /\ Tell(c, Ended(c))
  /\ UNCHANGED <<connVars, left, sessVars, workVars, rows>>

\* A control frame that is valid JSON but no object: parse_uplink_message raises
\* AttributeError, which no handler catches, and the connection ends.
BadFrame(c) ==
  /\ pc[c] = "recv"
  /\ Leave(c)
  /\ UNCHANGED <<connVars, left, sessVars, workVars, ghostVars>>

\* receive() reports the disconnect once the frames before it are handled.
Disconnect(c) ==
  /\ pc[c] = "recv"
  /\ sock[c] = "closed"
  /\ Leave(c)
  /\ UNCHANGED <<connVars, left, sessVars, workVars, ghostVars>>

\* Fault: the session is marked only once the queue took the utterance.
SubmittingLate(c) ==
  /\ pc[c] = "recv"
  /\ sid[c] # NoSid
  /\ submitted' = [submitted EXCEPT ![c] = accepting /\ Len(queue) < MaxQueue]
  /\ UNCHANGED <<connVars, left, bound, sid, idle, registry, accepting,
                 running, rows>>

\* end_audio of the session in flight, its three outcomes at submit.
Submitting(c) ==
  /\ pc[c] = "recv"
  /\ sid[c] # NoSid
  /\ submitted' = [submitted EXCEPT ![c] = TRUE]
  /\ UNCHANGED <<connVars, left, bound, sid, idle, registry, accepting,
                 running, rows>>

\* Fault: one utterance too many.
EndAudioQueuedBeyond(c) ==
  /\ Submitting(c)
  /\ accepting
  /\ Len(queue) <= MaxQueue
  /\ queue' = Append(queue, [conn |-> c, sid |-> sid[c]])
  /\ future' = [future EXCEPT ![c] = "pending"]
  /\ Goto(c, "await")
  /\ UNCHANGED told

EndAudioQueued(c) ==
  /\ Submitting(c)
  /\ accepting
  /\ Len(queue) < MaxQueue
  /\ queue' = Append(queue, [conn |-> c, sid |-> sid[c]])
  /\ future' = [future EXCEPT ![c] = "pending"]
  /\ Goto(c, "await")
  /\ UNCHANGED told

EndAudioOverflow(c) ==
  /\ Submitting(c)
  /\ accepting
  /\ Len(queue) = MaxQueue
  /\ SendThen(c, "overflow")
  /\ Tell(c, Ended(c))
  /\ UNCHANGED <<queue, future>>

EndAudioStopped(c) ==
  /\ Submitting(c)
  /\ ~accepting
  /\ Leave(c)
  /\ UNCHANGED <<queue, future, told>>

\* A send returns: what each caller does next.
SendDone(c) ==
  \/ /\ pc[c] = "note"
     /\ Goto(c, "recv")
     /\ UNCHANGED <<sessVars, rows>>
  \/ /\ pc[c] \in {"malformed", "failed", "ended"}
     /\ Release(c)
     /\ Goto(c, "recv")
     /\ UNCHANGED rows
  \/ /\ pc[c] = "overflow"
     /\ \/ /\ AddRow(c, "queue_overflow")
           /\ Release(c)
           /\ Goto(c, "recv")
        \/ /\ StoreMayFail
           /\ Leave(c)
           /\ UNCHANGED <<sessVars, rows>>

Resume(c) ==
  /\ SendDone(c)
  /\ UNCHANGED <<connVars, left, workVars, told>>

\* The next 100 ms chunk, or tts_audio_end after the last one.
Downlink(c) ==
  /\ pc[c] \in {"response", "chunk"}
  /\ IF left[c] > 0
     THEN /\ left' = [left EXCEPT ![c] = @ - 1]
          /\ SendThen(c, "chunk")
          /\ UNCHANGED told
     ELSE /\ SendThen(c, "ended")
          /\ Tell(c, Ended(c))
          /\ UNCHANGED left
  /\ UNCHANGED <<connVars, sessVars, workVars, rows>>

\* The socket closed while a send was waiting for it to drain.
SendRaises(c) ==
  /\ pc[c] \in SendStates
  /\ sock[c] = "closed"
  /\ Leave(c)
  /\ UNCHANGED <<connVars, left, sessVars, workVars, ghostVars>>

\* wrap_future delivers the worker's outcome.
ResultOk(c) ==
  /\ pc[c] = "await"
  /\ future[c] = "ok"
  /\ \E n \in 0..MaxChunks : left' = [left EXCEPT ![c] = n]
  /\ SendThen(c, "response")
  /\ Tell(c, "response")
  /\ future' = [future EXCEPT ![c] = "none"]
  /\ UNCHANGED <<connVars, sessVars, accepting, queue, running, rows>>

\* Fault: the error is reported, the session kept.
ResultErrorKept(c) ==
  /\ pc[c] = "await"
  /\ future[c] = "error"
  /\ SendThen(c, "note")
  /\ Tell(c, Ended(c))
  /\ future' = [future EXCEPT ![c] = "none"]
  /\ UNCHANGED <<connVars, left, sessVars, accepting, queue, running, rows>>

ResultError(c) ==
  /\ pc[c] = "await"
  /\ future[c] = "error"
  /\ SendThen(c, "failed")
  /\ Tell(c, Ended(c))
  /\ future' = [future EXCEPT ![c] = "none"]
  /\ UNCHANGED <<connVars, left, sessVars, accepting, queue, running, rows>>

\* Fault: the exception is logged and the handler receives on.
ResultRaisedSwallowed(c) ==
  /\ pc[c] = "await"
  /\ future[c] = "raised"
  /\ Goto(c, "recv")
  /\ future' = [future EXCEPT ![c] = "none"]
  /\ UNCHANGED <<connVars, left, sessVars, accepting, queue, running,
                 ghostVars>>

ResultRaised(c) ==
  /\ pc[c] = "await"
  /\ future[c] = "raised"
  /\ Leave(c)
  /\ future' = [future EXCEPT ![c] = "none"]
  /\ UNCHANGED <<connVars, left, sessVars, accepting, queue, running,
                 ghostVars>>

\* handle_disconnect, after the cancelled reaper has been awaited.
Close(c) ==
  /\ pc[c] = "closing"
  /\ Release(c)
  /\ pc' = [pc EXCEPT ![c] = "gone"]
  /\ sock' = [sock EXCEPT ![c] = "none"]
  /\ left' = [left EXCEPT ![c] = 0]
  /\ told' = [told EXCEPT ![c] = "none"]
  /\ rows' = [rows EXCEPT ![c] = {}]
  /\ UNCHANGED <<reaper, synced, workVars>>

-----------------------------------------------------------------------------
(* The reaper task.                                                        *)

\* Fault: the reaper does not look at `submitted`.
ExpiredAlsoSubmitted(c) == sid[c] # NoSid /\ idle[c]

Expired(c) == sid[c] # NoSid /\ ~submitted[c] /\ idle[c]

\* Fault: an exception ends the reaper task.
ReclaimOnce(c) ==
  /\ reaper[c] = "sleep"
  /\ Expired(c)
  /\ Release(c)
  /\ \/ /\ AddRow(c, "session_timeout")
        /\ Tell(c, Ended(c))
        /\ reaper' = [reaper EXCEPT ![c] =
                        IF sock[c] = "open" THEN "sending" ELSE "sleep"]
     \/ /\ StoreMayFail
        /\ reaper' = [reaper EXCEPT ![c] = "off"]
        /\ UNCHANGED ghostVars
  /\ UNCHANGED <<connVars, pc, left, workVars>>

\* _reclaim_if_stale up to its only await.  A failing write or send raises;
\* run_reaper logs it and polls again.
Reclaim(c) ==
  /\ reaper[c] = "sleep"
  /\ Expired(c)
  /\ Release(c)
  /\ \/ /\ AddRow(c, "session_timeout")
        /\ Tell(c, Ended(c))
        /\ reaper' = [reaper EXCEPT ![c] =
                        IF sock[c] = "open" THEN "sending" ELSE "sleep"]
     \/ /\ StoreMayFail
        /\ UNCHANGED <<reaper, ghostVars>>
  /\ UNCHANGED <<connVars, pc, left, workVars>>

ReaperSent(c) ==
  /\ reaper[c] = "sending"
  /\ reaper' = [reaper EXCEPT ![c] = "sleep"]
  /\ UNCHANGED <<connVars, pc, left, sessVars, workVars, ghostVars>>

-----------------------------------------------------------------------------
(* The worker thread, the lifespan, time and the network.                  *)

WorkerTake ==
  /\ running = NoJob
  /\ queue # <<>>
  /\ running' = Head(queue)
  /\ queue' = Tail(queue)
  /\ UNCHANGED <<connVars, taskVars, sessVars, accepting, future, ghostVars>>

\* InteractionRunner.run writes its trace row and returns, or translates a
\* stage failure after writing a degraded row; only a failing write lets a
\* raw exception through.
WorkerFinish ==
  /\ running # NoJob
  /\ \E out \in {"ok", "error", "raised"} :
       /\ out = "raised" => StoreMayFail
       /\ future' = [future EXCEPT ![running.conn] = out]
       /\ IF out = "raised" THEN UNCHANGED rows
          ELSE AddRow(running.conn, "interaction")
  /\ running' = NoJob
  /\ UNCHANGED <<connVars, taskVars, sessVars, accepting, queue, told>>

WorkerStop ==
  /\ accepting
  /\ accepting' = FALSE
  /\ UNCHANGED <<connVars, taskVars, sessVars, queue, running, future,
                 ghostVars>>

\* The inactivity timeout passes without a frame.
Elapse(c) ==
  /\ sid[c] # NoSid
  /\ ~idle[c]
  /\ idle' = [idle EXCEPT ![c] = TRUE]
  /\ UNCHANGED <<connVars, taskVars, bound, sid, submitted, registry,
                 workVars, ghostVars>>

\* The server notices that the edge is gone.
Drop(c) ==
  /\ sock[c] = "open"
  /\ sock' = [sock EXCEPT ![c] = "closed"]
  /\ UNCHANGED <<synced, taskVars, sessVars, workVars, ghostVars>>

-----------------------------------------------------------------------------
Uplink(c) ==
  \/ \E s \in Sid : StartCollision(c, s) \/ StartBusy(c, s) \/ StartAudio(c, s)
  \/ ClockSync(c) \/ AudioFrame(c) \/ MalformedFrame(c) \/ BadFrame(c)
  \/ EndAudioQueued(c) \/ EndAudioOverflow(c) \/ EndAudioStopped(c)

\* What the event loop runs without waiting for the edge.
Continue(c) ==
  \/ Disconnect(c) \/ Resume(c) \/ Downlink(c) \/ SendRaises(c)
  \/ ResultOk(c) \/ ResultError(c) \/ ResultRaised(c) \/ Close(c)

Reaper(c) == Reclaim(c) \/ ReaperSent(c)
Worker    == WorkerTake \/ WorkerFinish

Next ==
  \/ \E c \in Conn : Connect(c) \/ Uplink(c) \/ Continue(c) \/ Reaper(c)
                     \/ Elapse(c) \/ Drop(c)
  \/ Worker
  \/ WorkerStop

Spec == Init /\ [][Next]_vars

\* The event loop runs every ready callback, the worker thread is scheduled
\* and every stage it calls returns, the clock advances.  Nothing is assumed
\* of the edge.
Fairness ==
  /\ \A c \in Conn : WF_vars(Continue(c)) /\ WF_vars(Reaper(c))
  /\ WF_vars(Worker)

FairSpec == Spec /\ Fairness

-----------------------------------------------------------------------------
(* Safety.                                                                 *)

\* The registry, Connection and the handler's _in_flight agree at every
\* suspension point, whoever released or rejected what: a session id is held
\* by exactly the connection that has it in flight.
RegistryConsistent ==
  /\ \A c \in Conn : bound[c] = sid[c]
  /\ \A c \in Conn, s \in Sid : registry[s] = c <=> sid[c] = s

Queued == {queue[i] : i \in DOMAIN queue}
InWorker == Queued \cup ({running} \ {NoJob})

\* An utterance in the worker belongs to a handler that still waits for it
\* and still holds its session, and no session has two of them: the answer
\* cannot reach another edge, nor one session be answered twice.
UtterancesOwned ==
  /\ \A j \in InWorker : /\ pc[j.conn] = "await"
                          /\ future[j.conn] = "pending"
                          /\ sid[j.conn] = j.sid
                          /\ submitted[j.conn]
  /\ \A i, k \in DOMAIN queue : queue[i].sid = queue[k].sid => i = k
  /\ running # NoJob => \A j \in Queued : j.sid # running.sid

\* A session the host holds while its handler listens is one the edge was told
\* is ready and not told has ended: no session lives on behind the edge's back.
\* (The converse is TimeoutReported, and fails.)
EdgeAgrees ==
  \A c \in Conn : pc[c] = "recv" /\ sock[c] = "open" /\ sid[c] # NoSid =>
    told[c] \in {"ready", "refused"}

\* However timeout, overflow, worker and disconnect race, a session leaves at
\* most one row in decision_trace.
OneRowPerSession ==
  \A c \in Conn : \A k1, k2 \in rows[c] : k1 = k2

\* SPEC 7.4: a session exits at `response` or `error`; once the edge was told
\* it ended, it is not answered any more.
NoAnswerAfterEnd ==
  [][\A c \in Conn : told[c] \in {"ended", "twice"} => told'[c] # "response"]_vars

(* Claims of the documentation the code does not meet.                     *)

\* SPEC.md:1405: an utterance the full queue rejects leaves a degraded trace.
UtteranceTraced ==
  \A c \in Conn : pc[c] = "closing" /\ submitted[c] /\ accepting
                  /\ future[c] = "none" => rows[c] # {}

\* SPEC.md:810-813: a session that times out is reported to the edge if the
\* connection is still open, so a listening edge is not left believing in it.
TimeoutReported ==
  \A c \in Conn : pc[c] = "recv" /\ sock[c] = "open" /\ told[c] = "ready"
                  => sid[c] # NoSid

(* Liveness.                                                               *)

\* Every utterance that reached end_audio is answered, failed or abandoned,
\* and its session freed.
SubmittedReleased == \A c \in Conn : submitted[c] ~> ~submitted[c]

\* A session without frames for the inactivity timeout does not stay.
IdleReclaimed == \A c \in Conn : Expired(c) ~> ~Expired(c)

-----------------------------------------------------------------------------
(* The abstract lifecycle this machinery implements.                       *)

Phase(s) ==
  IF registry[s] = NoConn THEN "free"
  ELSE IF submitted[registry[s]] THEN "busy" ELSE "open"

Lifecycle == INSTANCE SessionLifecycle
  WITH holder <- registry,
       phase <- [s \in Sid |-> Phase(s)],
       inWorker <- {j.sid : j \in InWorker}

LifecycleSpec == Lifecycle!Spec
LifecycleFair == Lifecycle!FairSpec
=============================================================================

------------------------- MODULE StreamSessionProofs -------------------------
(***************************************************************************)
(* The safety properties of StreamSession for every set of connections and *)
(* session ids, every queue size and every number of chunks.               *)
(***************************************************************************)
EXTENDS StreamSession, TLAPS

Inv1 == TypeOK /\ RegistryConsistent /\ UtterancesOwned

-----------------------------------------------------------------------------

\* Inv1 holds before the first connection.
LEMMA InitInv1 == Init => Inv1
  <1> SUFFICES ASSUME Init PROVE Inv1
    OBVIOUS
  <1> USE ConstantsOK DEF Init
  <1>1. TypeOK
    BY DEF TypeOK, PcStates, Results, Stages, NoJob
  <1>2. RegistryConsistent
    BY DEF RegistryConsistent
  <1>3. UtterancesOwned
    BY DEF UtterancesOwned, InWorker, Queued, NoJob
  <1>4. QED
    BY <1>1, <1>2, <1>3 DEF Inv1

USE DEF connVars, taskVars, sessVars, workVars, ghostVars

\* The names the actions use; with them the sets below stay unexpanded.
LEMMA Names ==
  /\ {"note", "malformed", "overflow", "failed", "response", "chunk", "ended",
      "gone", "recv", "await", "closing"} \subseteq PcStates
  /\ {"none", "pending", "ok", "error", "raised"} \subseteq Results
  /\ {"none", "ready", "refused", "response"} \subseteq Stages
  /\ {"interaction", "session_timeout", "queue_overflow"} \subseteq RowKinds
  BY DEF PcStates, SendStates, Results, Stages, RowKinds

\* What the building blocks of the handlers leave the variables at.
LEMMA SendThenType ==
  ASSUME TypeOK, NEW c \in Conn, NEW p \in PcStates,
         SendThen(c, p) \/ Goto(c, p) \/ Leave(c)
  PROVE  /\ pc' \in [Conn -> PcStates]
         /\ reaper' \in [Conn -> {"off", "sleep", "sending"}]
  <1>1. CASE Goto(c, p)
    BY <1>1 DEF TypeOK, Goto
  <1>2. CASE Leave(c)
    <2>1. "closing" \in PcStates
      BY Names
    <2>2. QED
      BY <1>2, <2>1 DEF TypeOK, Leave
  <1>3. QED
    BY <1>1, <1>2 DEF SendThen

\* A message to the edge leaves the stages typed.
LEMMA TellType ==
  ASSUME TypeOK, NEW c \in Conn, NEW stage \in Stages, Tell(c, stage)
  PROVE  told' \in [Conn -> Stages]
  BY DEF TypeOK, Tell

\* The end of a session is a stage.
LEMMA EndedType ==
  ASSUME NEW c \in Conn PROVE Ended(c) \in Stages
  BY DEF Ended, Stages

\* A release leaves the registry and the handler typed.
LEMMA ReleaseType ==
  ASSUME TypeOK, NEW c \in Conn, Release(c)
  PROVE  /\ registry' \in [Sid -> Conn \cup {NoConn}]
         /\ bound' \in [Conn -> Sid \cup {NoSid}]
         /\ sid' \in [Conn -> Sid \cup {NoSid}]
         /\ submitted' \in [Conn -> BOOLEAN]
         /\ idle' \in [Conn -> BOOLEAN]
  BY DEF TypeOK, Release, ReleaseRegistry

\* A new row leaves the trace typed.
LEMMA AddRowType ==
  ASSUME TypeOK, NEW c \in Conn, NEW k \in RowKinds, AddRow(c, k)
  PROVE  rows' \in [Conn -> SUBSET RowKinds]
  <1>1. rows[c] \cup {k} \in SUBSET RowKinds
    BY DEF TypeOK
  <1>2. QED
    BY <1>1 DEF TypeOK, AddRow

\* Every step keeps the types.
LEMMA TypeStep == ASSUME TypeOK, [Next]_vars PROVE TypeOK'
  <1> USE Names DEF TypeOK
  <1>1. ASSUME NEW c \in Conn, Connect(c) PROVE TypeOK'
    BY <1>1 DEF Connect
  <1>2. ASSUME NEW c \in Conn, Uplink(c) PROVE TypeOK'
    <2>1. ASSUME NEW s \in Sid, StartCollision(c, s) PROVE TypeOK'
      BY <2>1, SendThenType, TellType DEF StartCollision
    <2>2. ASSUME NEW s \in Sid, StartBusy(c, s) PROVE TypeOK'
      BY <2>2, SendThenType DEF StartBusy
    <2>3. ASSUME NEW s \in Sid, StartAudio(c, s) PROVE TypeOK'
      BY <2>3, SendThenType DEF StartAudio, AcceptSession
    <2>4. CASE ClockSync(c)
      BY <2>4, SendThenType DEF ClockSync
    <2>5. CASE AudioFrame(c)
      BY <2>5 DEF AudioFrame
    <2>6. CASE MalformedFrame(c)
      BY <2>6, SendThenType, TellType, EndedType DEF MalformedFrame
    <2>7. CASE BadFrame(c)
      BY <2>7, SendThenType DEF BadFrame
    <2>8. CASE EndAudioQueued(c)
      BY <2>8, SendThenType, ConstantsOK DEF EndAudioQueued, Submitting, Job
    <2>9. CASE EndAudioOverflow(c)
      BY <2>9, SendThenType, TellType, EndedType DEF EndAudioOverflow, Submitting
    <2>10. CASE EndAudioStopped(c)
      BY <2>10, SendThenType DEF EndAudioStopped, Submitting
    <2>11. QED
      BY <1>2, <2>1, <2>2, <2>3, <2>4, <2>5, <2>6, <2>7, <2>8, <2>9, <2>10
      DEF Uplink
  <1>3. ASSUME NEW c \in Conn, Continue(c) PROVE TypeOK'
    <2>1. CASE Disconnect(c)
      BY <2>1, SendThenType DEF Disconnect
    <2>2. CASE Resume(c)
      BY <2>2, SendThenType, ReleaseType, AddRowType DEF Resume, SendDone
    <2>3. CASE Downlink(c)
      <3>1. left[c] > 0 => left[c] - 1 \in 0..MaxChunks
        BY ConstantsOK
      <3>2. QED
        BY <2>3, <3>1, SendThenType, TellType, EndedType DEF Downlink
    <2>4. CASE SendRaises(c)
      BY <2>4, SendThenType DEF SendRaises
    <2>5. CASE ResultOk(c)
      BY <2>5, SendThenType, TellType DEF ResultOk
    <2>6. CASE ResultError(c)
      BY <2>6, SendThenType, TellType, EndedType DEF ResultError
    <2>7. CASE ResultRaised(c)
      BY <2>7, SendThenType DEF ResultRaised
    <2>8. CASE Close(c)
      BY <2>8, ReleaseType, ConstantsOK DEF Close
    <2>9. QED
      BY <1>3, <2>1, <2>2, <2>3, <2>4, <2>5, <2>6, <2>7, <2>8 DEF Continue
  <1>4. ASSUME NEW c \in Conn, Reaper(c) PROVE TypeOK'
    <2>1. CASE Reclaim(c)
      BY <2>1, ReleaseType, AddRowType, TellType, EndedType DEF Reclaim
    <2>2. CASE ReaperSent(c)
      BY <2>2 DEF ReaperSent
    <2>3. QED
      BY <1>4, <2>1, <2>2 DEF Reaper
  <1>5. ASSUME NEW c \in Conn, Elapse(c) \/ Drop(c) PROVE TypeOK'
    BY <1>5 DEF Elapse, Drop
  <1>6. CASE Worker
    <2>1. CASE WorkerTake
      <3>1. /\ Head(queue) \in Job
            /\ Tail(queue) \in Seq(Job)
            /\ Len(Tail(queue)) <= MaxQueue
        BY <2>1, ConstantsOK DEF WorkerTake
      <3>2. QED
        BY <2>1, <3>1 DEF WorkerTake
    <2>2. CASE WorkerFinish
      <3>1. running.conn \in Conn
        BY <2>2 DEF WorkerFinish, Job
      <3>2. QED
        BY <2>2, <3>1, AddRowType DEF WorkerFinish
    <2>3. QED
      BY <1>6, <2>1, <2>2 DEF Worker
  <1>7. CASE WorkerStop
    BY <1>7 DEF WorkerStop
  <1>8. CASE UNCHANGED vars
    BY <1>8 DEF vars
  <1>9. QED
    BY <1>1, <1>2, <1>3, <1>4, <1>5, <1>6, <1>7, <1>8 DEF Next

-----------------------------------------------------------------------------
(* Who holds which session.                                                *)

\* The registry agrees as long as nobody touches it.
LEMMA RegistryFrame ==
  ASSUME RegistryConsistent, UNCHANGED <<bound, sid, registry>>
  PROVE  RegistryConsistent'
  BY DEF RegistryConsistent

\* A release leaves the registry in agreement.
LEMMA ReleaseRegistryInv ==
  ASSUME TypeOK, RegistryConsistent, NEW c \in Conn, Release(c)
  PROVE  RegistryConsistent'
  <1> USE ConstantsOK DEF TypeOK, RegistryConsistent, Release, ReleaseRegistry
  <1>1. CASE sid[c] = NoSid
    BY <1>1
  <1>2. CASE sid[c] # NoSid
    BY <1>2
  <1>3. QED
    BY <1>1, <1>2

\* So does every step.
LEMMA RegistryStep ==
  ASSUME TypeOK, RegistryConsistent, [Next]_vars
  PROVE  RegistryConsistent'
  <1>1. ASSUME NEW c \in Conn, Connect(c) PROVE RegistryConsistent'
    BY <1>1, RegistryFrame DEF Connect
  <1>2. ASSUME NEW c \in Conn, Uplink(c) PROVE RegistryConsistent'
    <2>1. ASSUME NEW s \in Sid, StartBusy(c, s) PROVE RegistryConsistent'
      <3>1. registry' = registry
        BY <2>1 DEF StartBusy, TypeOK
      <3>2. QED
        BY <2>1, <3>1, RegistryFrame DEF StartBusy
    <2>2. ASSUME NEW s \in Sid, StartAudio(c, s) PROVE RegistryConsistent'
      <3>1. /\ registry' = [registry EXCEPT ![s] = c]
            /\ bound' = [bound EXCEPT ![c] = s]
            /\ sid' = [sid EXCEPT ![c] = s]
            /\ registry[s] = NoConn
            /\ bound[c] = NoSid
        BY <2>2 DEF StartAudio, AcceptSession
      <3>2. QED
        BY <3>1, ConstantsOK DEF TypeOK, RegistryConsistent
    <2>3. CASE ~\E s \in Sid : StartBusy(c, s) \/ StartAudio(c, s)
      <3>1. UNCHANGED <<bound, sid, registry>>
        BY <1>2, <2>3 DEF Uplink, StartCollision, ClockSync, AudioFrame,
           MalformedFrame, BadFrame, EndAudioQueued, EndAudioOverflow,
           EndAudioStopped, Submitting
      <3>2. QED
        BY <3>1, RegistryFrame
    <2>4. QED
      BY <2>1, <2>2, <2>3
  <1>3. ASSUME NEW c \in Conn, Continue(c) PROVE RegistryConsistent'
    <2>1. CASE Release(c)
      BY <2>1, ReleaseRegistryInv
    <2>2. CASE ~Release(c)
      <3>1. UNCHANGED <<bound, sid, registry>>
        BY <1>3, <2>2 DEF Continue, Disconnect, Resume, SendDone, Downlink,
           SendRaises, ResultOk, ResultError, ResultRaised, Close
      <3>2. QED
        BY <3>1, RegistryFrame
    <2>3. QED
      BY <2>1, <2>2
  <1>4. ASSUME NEW c \in Conn, Reaper(c) PROVE RegistryConsistent'
    <2>1. CASE Reclaim(c)
      BY <2>1, ReleaseRegistryInv DEF Reclaim
    <2>2. CASE ReaperSent(c)
      BY <2>2, RegistryFrame DEF ReaperSent
    <2>3. QED
      BY <1>4, <2>1, <2>2 DEF Reaper
  <1>5. CASE Worker \/ WorkerStop \/ UNCHANGED vars
    BY <1>5, RegistryFrame DEF Worker, WorkerTake, WorkerFinish, WorkerStop, vars
  <1>6. ASSUME NEW c \in Conn, Elapse(c) \/ Drop(c) PROVE RegistryConsistent'
    BY <1>6, RegistryFrame DEF Elapse, Drop
  <1>7. QED
    BY <1>1, <1>2, <1>3, <1>4, <1>5, <1>6 DEF Next

-----------------------------------------------------------------------------
(* Whose utterance the worker has.                                         *)

\* The part of the state UtterancesOwned reads of a connection.
Keeps(d) == /\ pc'[d] = pc[d]
            /\ future'[d] = future[d]
            /\ sid'[d] = sid[d]
            /\ submitted'[d] = submitted[d]

NotInWorker(c) == \A j \in InWorker : j.conn # c

\* A handler that awaits no result has no utterance in the worker.
LEMMA OutsideWorker ==
  ASSUME UtterancesOwned, NEW c \in Conn,
         pc[c] # "await" \/ future[c] # "pending" \/ ~submitted[c]
  PROVE  NotInWorker(c)
  BY DEF UtterancesOwned, NotInWorker

\* What the worker holds are utterances of connections.
LEMMA WorkerConns ==
  ASSUME TypeOK
  PROVE  \A j \in InWorker : j \in Job
  BY DEF TypeOK, InWorker, Queued

\* A step of a connection with nothing in the worker.
LEMMA OwnedFrame ==
  ASSUME TypeOK, UtterancesOwned, UNCHANGED <<queue, running>>,
         NEW c \in Conn, NotInWorker(c), \A d \in Conn \ {c} : Keeps(d)
  PROVE  UtterancesOwned'
  <1>1. InWorker' = InWorker /\ Queued' = Queued
    BY DEF InWorker, Queued
  <1>2. \A j \in InWorker : Keeps(j.conn)
    BY WorkerConns DEF NotInWorker, Job
  <1>3. QED
    BY <1>1, <1>2 DEF UtterancesOwned, Keeps

\* Ownership stands as long as worker and handlers stay as they are.
LEMMA OwnedSame ==
  ASSUME UtterancesOwned,
         UNCHANGED <<queue, running, pc, future, sid, submitted>>
  PROVE  UtterancesOwned'
  BY DEF UtterancesOwned, InWorker, Queued

\* No two connections have the same session in flight.
LEMMA SidInjective ==
  ASSUME TypeOK, RegistryConsistent, NEW c \in Conn, NEW d \in Conn,
         sid[c] = sid[d], sid[c] # NoSid
  PROVE  c = d
  BY DEF TypeOK, RegistryConsistent

\* Queueing an utterance keeps ownership.
LEMMA OwnedSubmit ==
  ASSUME Inv1, NEW c \in Conn, EndAudioQueued(c)
  PROVE  UtterancesOwned'
  <1> DEFINE job == [conn |-> c, sid |-> sid[c]]
  <1>1. /\ job \in Job /\ queue' = Append(queue, job) /\ running' = running
        /\ pc' = [pc EXCEPT ![c] = "await"]
        /\ future' = [future EXCEPT ![c] = "pending"]
        /\ submitted' = [submitted EXCEPT ![c] = TRUE]
        /\ sid' = sid /\ sid[c] # NoSid /\ pc[c] = "recv"
    BY DEF Inv1, TypeOK, EndAudioQueued, Submitting, Goto, Job
  <1>2. NotInWorker(c)
    BY <1>1, OutsideWorker DEF Inv1
  <1>3. \A j \in InWorker : j \in Job /\ j.conn # c /\ j.sid # sid[c]
    BY <1>1, <1>2, WorkerConns, SidInjective
    DEF NotInWorker, Inv1, UtterancesOwned, Job
  <1>41. /\ DOMAIN queue' = DOMAIN queue \cup {Len(queue) + 1}
        /\ queue'[Len(queue) + 1] = job
        /\ \A i \in DOMAIN queue : queue'[i] = queue[i]
    BY <1>1 DEF Inv1, TypeOK
  <1>4. Queued' = Queued \cup {job}
    BY <1>41 DEF Queued
  <1>5. InWorker' = InWorker \cup {job}
    BY <1>1, <1>4 DEF InWorker
  <1>6. \A j \in InWorker' : /\ pc'[j.conn] = "await"
                             /\ future'[j.conn] = "pending"
                             /\ sid'[j.conn] = j.sid
                             /\ submitted'[j.conn]
    <2>1. ASSUME NEW j \in InWorker
          PROVE  /\ pc'[j.conn] = "await" /\ future'[j.conn] = "pending"
                 /\ sid'[j.conn] = j.sid /\ submitted'[j.conn]
      BY <1>1, <1>3 DEF Inv1, UtterancesOwned, TypeOK, Job
    <2>2. /\ pc'[c] = "await" /\ future'[c] = "pending" /\ submitted'[c]
      BY <1>1 DEF Inv1, TypeOK
    <2>3. QED
      BY <1>1, <1>5, <2>1, <2>2
  <1>7. \A i, k \in DOMAIN queue' : queue'[i].sid = queue'[k].sid => i = k
    <2>1. \A i \in DOMAIN queue : queue[i].sid # sid[c]
      BY <1>3 DEF InWorker, Queued
    <2>2. QED
      BY <1>41, <2>1 DEF Inv1, UtterancesOwned
  <1>8. running' # NoJob => \A j \in Queued' : j.sid # running'.sid
    BY <1>1, <1>3, <1>4 DEF Inv1, UtterancesOwned, InWorker
  <1>9. QED
    BY <1>6, <1>7, <1>8 DEF UtterancesOwned

\* Taking one from the queue keeps ownership.
LEMMA OwnedTake ==
  ASSUME Inv1, WorkerTake
  PROVE  UtterancesOwned'
  <1>1. /\ running = NoJob /\ running' = queue[1] /\ queue' = Tail(queue)
        /\ Len(queue) \in Nat /\ Len(queue) > 0 /\ DOMAIN queue = 1..Len(queue)
        /\ queue \in Seq(Job)
        /\ UNCHANGED <<pc, future, sid, submitted>>
    BY DEF WorkerTake, Inv1, TypeOK
  <1>2. /\ DOMAIN queue' = 1..(Len(queue) - 1)
        /\ \A i \in DOMAIN queue' : queue'[i] = queue[i + 1]
    BY <1>1
  <1>3. \A i \in DOMAIN queue' : i + 1 \in DOMAIN queue /\ i + 1 # 1
    BY <1>1, <1>2
  <1>4. 1 \in DOMAIN queue /\ queue[1] \in Job /\ running' # NoJob
    <2>1. 1 \in DOMAIN queue /\ queue[1] \in Job
      BY <1>1
    <2>2. \A j \in Job : j # NoJob
      <3>1. \A j \in Job : j.conn # NoJob.conn
        BY ConstantsOK DEF Job, NoJob
      <3>2. QED
        BY <3>1
    <2>3. QED
      BY <1>1, <2>1, <2>2
  <1>5. Queued' \subseteq Queued /\ running' \in Queued
    BY <1>1, <1>2, <1>3, <1>4 DEF Queued
  <1>6. InWorker' \subseteq InWorker
    BY <1>5 DEF InWorker
  <1>7. \A i, k \in DOMAIN queue' : queue'[i].sid = queue'[k].sid => i = k
    BY <1>1, <1>2, <1>3 DEF Inv1, UtterancesOwned
  <1>8. \A j \in Queued' : j.sid # running'.sid
    BY <1>1, <1>2, <1>3, <1>4 DEF Inv1, UtterancesOwned, Queued
  <1>9. QED
    BY <1>1, <1>6, <1>7, <1>8 DEF Inv1, UtterancesOwned

\* Finishing one keeps ownership.
LEMMA OwnedFinish ==
  ASSUME Inv1, WorkerFinish
  PROVE  UtterancesOwned'
  <1>1. /\ running \in Job /\ running # NoJob /\ running' = NoJob
        /\ queue' = queue
        /\ UNCHANGED <<pc, sid, submitted>>
        /\ \A d \in Conn : d # running.conn => future'[d] = future[d]
    BY DEF WorkerFinish, Inv1, TypeOK, Job
  <1>2. Queued' = Queued /\ InWorker' \subseteq Queued /\ running \in InWorker
    BY <1>1 DEF InWorker, Queued
  <1>3. \A j \in Queued : j \in Job /\ j \in InWorker /\ j.sid # running.sid
    BY <1>1, WorkerConns DEF Inv1, UtterancesOwned, InWorker
  <1>4. \A j \in Queued : j.conn # running.conn
    BY <1>2, <1>3 DEF Inv1, UtterancesOwned
  <1>5. QED
    BY <1>1, <1>2, <1>3, <1>4 DEF Inv1, UtterancesOwned, Job

\* So does every step.
LEMMA OwnedStep ==
  ASSUME Inv1, [Next]_vars
  PROVE  UtterancesOwned'
  <1> USE DEF Keeps
  <1>1. ASSUME NEW c \in Conn, Connect(c) PROVE UtterancesOwned'
    <2>1. NotInWorker(c)
      BY <1>1, OutsideWorker DEF Connect, Inv1
    <2>2. QED
      BY <1>1, <2>1, OwnedFrame DEF Connect, Inv1, TypeOK
  <1>2. ASSUME NEW c \in Conn, Uplink(c), ~EndAudioQueued(c)
        PROVE  UtterancesOwned'
    <2>1. pc[c] = "recv" /\ UNCHANGED <<queue, running>>
      BY <1>2 DEF Uplink, StartCollision, StartBusy, StartAudio, AcceptSession,
         ClockSync, AudioFrame, MalformedFrame, BadFrame, EndAudioOverflow,
         EndAudioStopped, Submitting
    <2>2. \A d \in Conn \ {c} : Keeps(d)
      BY <1>2 DEF Uplink, StartCollision, StartBusy, StartAudio, AcceptSession,
         ClockSync, AudioFrame, MalformedFrame, BadFrame, EndAudioOverflow,
         EndAudioStopped, Submitting, SendThen, Goto, Leave, Inv1, TypeOK
    <2>3. QED
      BY <2>1, <2>2, OutsideWorker, OwnedFrame DEF Inv1
  <1>3. ASSUME NEW c \in Conn, Continue(c) PROVE UtterancesOwned'
    <2>1. /\ pc[c] # "await" \/ future[c] # "pending"
          /\ UNCHANGED <<queue, running>>
      BY <1>3 DEF Continue, Disconnect, Resume, SendDone, Downlink, SendRaises,
         ResultOk, ResultError, ResultRaised, Close, SendStates
    <2>2. \A d \in Conn \ {c} : Keeps(d)
      BY <1>3 DEF Continue, Disconnect, Resume, SendDone, Downlink, SendRaises,
         ResultOk, ResultError, ResultRaised, Close, SendThen, Goto, Leave,
         Release, Inv1, TypeOK
    <2>3. QED
      BY <2>1, <2>2, OutsideWorker, OwnedFrame DEF Inv1
  <1>4. ASSUME NEW c \in Conn, Reaper(c) PROVE UtterancesOwned'
    <2>1. CASE Reclaim(c)
      <3>1. NotInWorker(c)
        BY <2>1, OutsideWorker DEF Reclaim, Expired, Inv1
      <3>2. QED
        BY <2>1, <3>1, OwnedFrame DEF Reclaim, Release, Inv1, TypeOK
    <2>2. CASE ReaperSent(c)
      BY <2>2, OwnedSame DEF ReaperSent, Inv1
    <2>3. QED
      BY <1>4, <2>1, <2>2 DEF Reaper
  <1>5. ASSUME NEW c \in Conn, Elapse(c) \/ Drop(c) PROVE UtterancesOwned'
    BY <1>5, OwnedSame DEF Elapse, Drop, Inv1
  <1>6. CASE WorkerStop \/ UNCHANGED vars
    BY <1>6, OwnedSame DEF WorkerStop, vars, Inv1
  <1>7. QED
    BY <1>1, <1>2, <1>3, <1>4, <1>5, <1>6, OwnedSubmit, OwnedTake, OwnedFinish
    DEF Next, Worker

\* Types, registry and ownership hold together at every step.
LEMMA Inv1Always == Spec => []Inv1
  <1>1. Inv1 /\ [Next]_vars => Inv1'
    BY TypeStep, RegistryStep, OwnedStep DEF Inv1
  <1>2. QED
    BY <1>1, InitInv1, PTL DEF Spec

\* The variables stay in their types for every instance; in particular the
\* queue of the worker never exceeds queue_max_size.
THEOREM TypeCorrect == Spec => []TypeOK
  BY Inv1Always, PTL DEF Inv1

\* Registry, Connection and handler agree on who has which session in flight.
THEOREM RegistryCorrect == Spec => []RegistryConsistent
  BY Inv1Always, PTL DEF Inv1

\* An utterance in the worker is the only one of its session, and its own
\* handler waits for it and still holds the session.
THEOREM OwnershipCorrect == Spec => []UtterancesOwned
  BY Inv1Always, PTL DEF Inv1

-----------------------------------------------------------------------------
(* What the handler's position says of its session, of the rows written    *)
(* for it and of what the edge was told.                                   *)

Unwritten(c) == \/ ~submitted[c]
                \/ pc[c] = "overflow"
                \/ pc[c] = "await" /\ future[c] = "pending"

HandlerInv(c) ==
  /\ sid[c] = NoSid => ~submitted[c]
  /\ submitted[c] => pc[c] \in {"await", "overflow", "failed", "response",
                                "chunk", "ended", "closing"}
  /\ pc[c] \in {"await", "overflow"} => submitted[c]
  /\ sid[c] # NoSid /\ Unwritten(c) => rows[c] = {}
  /\ \A k1, k2 \in rows[c] : k1 = k2
  /\ sid[c] # NoSid /\ pc[c] \in {"recv", "note", "await"}
       => told[c] \notin {"ended", "twice"}

Inv2 == \A c \in Conn : HandlerInv(c)

\* Everything HandlerInv reads of a connection.
Untouched(d) == /\ Keeps(d)
                /\ rows'[d] = rows[d]
                /\ told'[d] = told[d]

\* Inv2 holds before the first connection.
LEMMA InitInv2 == Init => Inv2
  BY DEF Init, Inv2, HandlerInv, Unwritten

\* A handler nobody touched keeps its invariant.
LEMMA HandlerFrame ==
  ASSUME Inv2, NEW d \in Conn, Untouched(d)
  PROVE  HandlerInv(d)'
  BY DEF Inv2, HandlerInv, Unwritten, Untouched, Keeps

\* A message from the edge keeps the invariant of its handler.
LEMMA HandlerUplink ==
  ASSUME Inv1, Inv2, NEW c \in Conn, Uplink(c)
  PROVE  HandlerInv(c)'
  <1> USE DEF TypeOK, Inv1, Inv2, HandlerInv, Unwritten
  <1>1. ASSUME NEW s \in Sid, StartCollision(c, s) PROVE HandlerInv(c)'
    BY <1>1 DEF StartCollision, SendThen, Goto, Leave, Tell
  <1>2. ASSUME NEW s \in Sid, StartBusy(c, s) PROVE HandlerInv(c)'
    BY <1>2 DEF StartBusy, SendThen, Goto, Leave
  <1>3. ASSUME NEW s \in Sid, StartAudio(c, s) PROVE HandlerInv(c)'
    BY <1>3, ConstantsOK DEF StartAudio, AcceptSession, SendThen, Goto, Leave
  <1>4. CASE ClockSync(c) \/ AudioFrame(c) \/ BadFrame(c)
    BY <1>4 DEF ClockSync, AudioFrame, BadFrame, SendThen, Goto, Leave
  <1>5. CASE MalformedFrame(c)
    BY <1>5 DEF MalformedFrame, SendThen, Goto, Leave, Tell
  <1>6. CASE EndAudioQueued(c)
    BY <1>6 DEF EndAudioQueued, Submitting, Goto
  <1>7. CASE EndAudioOverflow(c)
    BY <1>7 DEF EndAudioOverflow, Submitting, SendThen, Goto, Leave, Tell
  <1>8. CASE EndAudioStopped(c)
    BY <1>8 DEF EndAudioStopped, Submitting, Leave
  <1>9. QED
    BY <1>1, <1>2, <1>3, <1>4, <1>5, <1>6, <1>7, <1>8 DEF Uplink

\* Resuming a handler keeps its invariant.
LEMMA HandlerContinue ==
  ASSUME Inv1, Inv2, NEW c \in Conn, Continue(c)
  PROVE  HandlerInv(c)'
  <1> USE DEF TypeOK, Inv1, Inv2, HandlerInv, Unwritten
  <1>1. CASE Disconnect(c) \/ SendRaises(c)
    BY <1>1 DEF Disconnect, SendRaises, SendStates, Leave
  <1>2. CASE Resume(c)
    <2>1. CASE pc[c] = "note"
      BY <1>2, <2>1 DEF Resume, SendDone, Goto
    <2>2. CASE Release(c) /\ Goto(c, "recv") /\ UNCHANGED rows
      BY <1>2, <2>2 DEF Resume, Release, Goto
    <2>3. CASE pc[c] = "overflow" /\ Release(c) /\ AddRow(c, "queue_overflow")
      <3>1. rows'[c] = {"queue_overflow"} /\ sid'[c] = NoSid /\ ~submitted'[c]
        BY <2>3 DEF Release, AddRow
      <3>2. QED
        BY <1>2, <2>3, <3>1 DEF Resume, SendDone, Goto
    <2>4. CASE Leave(c) /\ UNCHANGED <<sessVars, rows>>
      BY <1>2, <2>4 DEF Resume, Leave
    <2>5. QED
      BY <1>2, <2>1, <2>2, <2>3, <2>4 DEF Resume, SendDone
  <1>3. CASE Downlink(c)
    BY <1>3 DEF Downlink, SendThen, Goto, Leave, Tell
  <1>4. CASE ResultOk(c)
    BY <1>4 DEF ResultOk, SendThen, Goto, Leave, Tell
  <1>5. CASE ResultError(c)
    BY <1>5 DEF ResultError, SendThen, Goto, Leave, Tell
  <1>6. CASE ResultRaised(c)
    BY <1>6 DEF ResultRaised, Leave
  <1>7. CASE Close(c)
    BY <1>7 DEF Close, Release
  <1>8. QED
    BY <1>1, <1>2, <1>3, <1>4, <1>5, <1>6, <1>7 DEF Continue

\* A handler step leaves the other connections alone.
LEMMA OthersUntouched ==
  ASSUME TypeOK, NEW c \in Conn,
         Connect(c) \/ Uplink(c) \/ Continue(c) \/ Reaper(c),
         NEW d \in Conn \ {c}
  PROVE  Untouched(d)
  <1> USE DEF TypeOK, Untouched, Keeps
  <1>1. CASE Connect(c)
    BY <1>1 DEF Connect
  <1>2. CASE Uplink(c)
    BY <1>2 DEF Uplink, StartCollision, StartBusy, StartAudio, AcceptSession,
       ClockSync, AudioFrame, MalformedFrame, BadFrame, EndAudioQueued,
       EndAudioOverflow, EndAudioStopped, Submitting, SendThen, Goto, Leave,
       Tell
  <1>3. CASE Continue(c)
    BY <1>3 DEF Continue, Disconnect, Resume, SendDone, Downlink, SendRaises,
       ResultOk, ResultError, ResultRaised, Close, Release, AddRow, SendThen,
       Goto, Leave, Tell
  <1>4. CASE Reaper(c)
    BY <1>4 DEF Reaper, Reclaim, ReaperSent, Release, AddRow, Tell
  <1>5. QED
    BY <1>1, <1>2, <1>3, <1>4

\* Every step keeps the invariant of every handler.
LEMMA Inv2Step ==
  ASSUME Inv1, Inv2, [Next]_vars
  PROVE  Inv2'
  <1>1. ASSUME NEW c \in Conn, Connect(c) \/ Uplink(c) \/ Continue(c) \/ Reaper(c)
        PROVE  Inv2'
    <2>1. \A d \in Conn \ {c} : HandlerInv(d)'
      BY <1>1, OthersUntouched, HandlerFrame DEF Inv1
    <2>2. CASE Connect(c)
      BY <2>2 DEF Connect, Inv1, Inv2, TypeOK, HandlerInv, Unwritten
    <2>3. CASE Reaper(c)
      <3>1. CASE Reclaim(c)
        <4>1. /\ rows'[c] \in {{}, {"session_timeout"}}
              /\ sid'[c] = NoSid /\ submitted'[c] = FALSE /\ pc' = pc
          BY <3>1 DEF Reclaim, Expired, Release, AddRow, Inv1, Inv2, TypeOK,
             HandlerInv, Unwritten
        <4>2. submitted[c] = FALSE
          BY <3>1 DEF Reclaim, Expired, Inv1, TypeOK
        <4>3. pc'[c] \notin {"await", "overflow"}
          BY <4>1, <4>2 DEF Inv2, HandlerInv
        <4>4. \A k1, k2 \in rows'[c] : k1 = k2
          BY <4>1
        <4>5. QED
          BY <2>1, <4>1, <4>3, <4>4 DEF Inv2, HandlerInv, Unwritten
      <3>2. CASE ReaperSent(c)
        BY <3>2 DEF ReaperSent, Inv2, HandlerInv, Unwritten
      <3>3. QED
        BY <2>3, <3>1, <3>2 DEF Reaper
    <2>4. HandlerInv(c)'
      BY <1>1, <2>2, <2>3, HandlerUplink, HandlerContinue, <2>1 DEF Inv2
    <2>5. QED
      BY <2>1, <2>4 DEF Inv2
  <1>2. ASSUME NEW c \in Conn, Elapse(c) \/ Drop(c) PROVE Inv2'
    BY <1>2, HandlerFrame DEF Elapse, Drop, Untouched, Keeps, Inv2
  <1>3. CASE WorkerTake \/ WorkerStop \/ UNCHANGED vars
    BY <1>3, HandlerFrame DEF WorkerTake, WorkerStop, vars, Untouched, Keeps, Inv2
  <1>4. CASE WorkerFinish
    <2>1. running \in Job /\ running \in InWorker
      BY <1>4 DEF WorkerFinish, Inv1, TypeOK, InWorker
    <2>2. PICK r \in Conn : r = running.conn
      BY <2>1 DEF Job
    <2>3. rows[r] = {} /\ pc[r] = "await" /\ submitted[r] /\ sid[r] # NoSid
      BY <2>1, <2>2, ConstantsOK
      DEF Inv1, Inv2, UtterancesOwned, HandlerInv, Unwritten, Job, TypeOK
    <2>4. /\ rows'[r] \in {{}, {"interaction"}}
          /\ future'[r] # "pending"
          /\ UNCHANGED <<pc, sid, submitted, told>>
      BY <1>4, <2>2, <2>3 DEF WorkerFinish, AddRow, Inv1, TypeOK
    <2>5. HandlerInv(r)'
      BY <2>3, <2>4 DEF Inv2, HandlerInv, Unwritten
    <2>6. ASSUME NEW d \in Conn \ {r} PROVE HandlerInv(d)'
      <3>1. Untouched(d)
        BY <1>4, <2>2 DEF WorkerFinish, AddRow, Untouched, Keeps, Inv1, TypeOK
      <3>2. QED
        BY <3>1, HandlerFrame
    <2>7. QED
      BY <2>5, <2>6 DEF Inv2
  <1>5. QED
    BY <1>1, <1>2, <1>3, <1>4 DEF Next, Worker

\* Handlers and trace rows agree at every step.
LEMMA Inv2Always == Spec => []Inv2
  <1>1. Inv1 /\ Inv2 /\ [Next]_vars => Inv2'
    BY Inv2Step
  <1>2. QED
    BY <1>1, InitInv2, Inv1Always, PTL DEF Spec

\* Whatever ends a session, it leaves at most one row in decision_trace.
THEOREM OneRow == Spec => []OneRowPerSession
  <1>1. Inv2 => OneRowPerSession
    BY DEF Inv2, HandlerInv, OneRowPerSession
  <1>2. QED
    BY <1>1, Inv2Always, PTL

\* No response follows the message that told the edge its session is over.
THEOREM NoLateAnswer == Spec => NoAnswerAfterEnd
  <1> DEFINE Step == \A c \in Conn :
               told[c] \in {"ended", "twice"} => told'[c] # "response"
  <1>1. ASSUME Inv1, Inv2, [Next]_vars PROVE Step
    <2> SUFFICES ASSUME NEW d \in Conn, told[d] \in {"ended", "twice"}
                 PROVE  told'[d] # "response"
      OBVIOUS
    <2>1. ASSUME NEW c \in Conn,
                 Connect(c) \/ Uplink(c) \/ Continue(c) \/ Reaper(c), c # d
          PROVE  told'[d] # "response"
      BY <2>1, <1>1, OthersUntouched DEF Untouched, Inv1
    <2>2. CASE Connect(d) \/ Reaper(d)
      BY <2>2, <1>1 DEF Connect, Reaper, Reclaim, ReaperSent, Tell, Ended, Inv1,
         TypeOK
    <2>3. CASE Uplink(d)
      BY <2>3, <1>1 DEF Uplink, StartCollision, StartBusy, StartAudio,
         AcceptSession, ClockSync, AudioFrame, MalformedFrame, BadFrame,
         EndAudioQueued, EndAudioOverflow, EndAudioStopped, Tell, Ended, Inv1,
         TypeOK
    <2>4. CASE Continue(d)
      <3>1. ~ResultOk(d)
        BY <1>1 DEF ResultOk, Inv2, HandlerInv
      <3>2. QED
        BY <2>4, <3>1, <1>1 DEF Continue, Disconnect, Resume, Downlink,
           SendRaises, ResultError, ResultRaised, Close, Tell, Ended, Inv1,
           TypeOK
    <2>5. CASE Worker \/ WorkerStop \/ UNCHANGED vars
      BY <2>5 DEF Worker, WorkerTake, WorkerFinish, WorkerStop, vars
    <2>6. ASSUME NEW c \in Conn, Elapse(c) \/ Drop(c)
          PROVE  told'[d] # "response"
      BY <2>6 DEF Elapse, Drop
    <2>7. QED
      BY <1>1, <2>1, <2>2, <2>3, <2>4, <2>5, <2>6 DEF Next
  <1>2. Inv1 /\ Inv2 /\ [Next]_vars => [Step]_vars
    BY <1>1
  <1>3. QED
    BY <1>2, Inv1Always, Inv2Always, PTL DEF Spec, NoAnswerAfterEnd

-----------------------------------------------------------------------------
(* What a listening handler's edge was told.                               *)

EdgeInv(c) ==
  /\ pc[c] = "gone" => sid[c] = NoSid
  /\ pc[c] \in {"recv", "note"} /\ sock[c] = "open" /\ sid[c] # NoSid
       => told[c] \in {"ready", "refused"}

Inv3 == \A c \in Conn : EdgeInv(c)

\* What the edge knows stands while its connection is left alone.
LEMMA EdgeFrame ==
  ASSUME Inv3, NEW d \in Conn,
         pc'[d] = pc[d], sid'[d] = sid[d], told'[d] = told[d],
         sock'[d] = sock[d]
  PROVE  EdgeInv(d)'
  BY DEF Inv3, EdgeInv

\* A message from the edge keeps the two views in agreement.
LEMMA EdgeUplink ==
  ASSUME TypeOK, Inv3, NEW c \in Conn, Uplink(c)
  PROVE  EdgeInv(c)'
  <1> USE DEF TypeOK, Inv3, EdgeInv
  <1>1. ASSUME NEW s \in Sid, StartCollision(c, s) PROVE EdgeInv(c)'
    BY <1>1 DEF StartCollision, SendThen, Goto, Leave, Tell, connVars, sessVars
  <1>2. ASSUME NEW s \in Sid, StartBusy(c, s) PROVE EdgeInv(c)'
    BY <1>2 DEF StartBusy, SendThen, Goto, Leave, connVars, ghostVars
  <1>3. ASSUME NEW s \in Sid, StartAudio(c, s) PROVE EdgeInv(c)'
    BY <1>3 DEF StartAudio, AcceptSession, SendThen, Goto, Leave, connVars
  <1>4. CASE ClockSync(c) \/ AudioFrame(c) \/ BadFrame(c)
    BY <1>4 DEF ClockSync, AudioFrame, BadFrame, SendThen, Goto, Leave,
       connVars, sessVars, taskVars, ghostVars
  <1>5. CASE MalformedFrame(c)
    BY <1>5 DEF MalformedFrame, SendThen, Goto, Leave, connVars
  <1>6. CASE EndAudioQueued(c) \/ EndAudioOverflow(c) \/ EndAudioStopped(c)
    BY <1>6 DEF EndAudioQueued, EndAudioOverflow, EndAudioStopped, Submitting,
       SendThen, Goto, Leave, connVars
  <1>7. QED
    BY <1>1, <1>2, <1>3, <1>4, <1>5, <1>6 DEF Uplink

\* Resuming a handler keeps the two views in agreement.
LEMMA EdgeContinue ==
  ASSUME TypeOK, Inv3, NEW c \in Conn, Continue(c)
  PROVE  EdgeInv(c)'
  <1> USE DEF TypeOK, Inv3, EdgeInv
  <1>1. CASE Disconnect(c) \/ SendRaises(c) \/ ResultRaised(c)
    BY <1>1 DEF Disconnect, SendRaises, ResultRaised, Leave
  <1>2. CASE Resume(c)
    <2>1. CASE pc[c] = "note"
      BY <1>2, <2>1 DEF Resume, SendDone, Goto, connVars, sessVars
    <2>2. CASE Release(c) /\ Goto(c, "recv")
      BY <2>2 DEF Release, Goto
    <2>3. CASE Leave(c)
      BY <2>3 DEF Leave
    <2>4. QED
      BY <1>2, <2>1, <2>2, <2>3 DEF Resume, SendDone
  <1>3. CASE Downlink(c) \/ ResultOk(c) \/ ResultError(c)
    BY <1>3 DEF Downlink, ResultOk, ResultError, SendThen, Goto, Leave
  <1>4. CASE Close(c)
    BY <1>4 DEF Close, Release
  <1>5. QED
    BY <1>1, <1>2, <1>3, <1>4 DEF Continue

\* A step of one connection leaves the sockets of the others alone.
LEMMA OtherSockets ==
  ASSUME TypeOK, NEW c \in Conn,
         Connect(c) \/ Uplink(c) \/ Continue(c) \/ Reaper(c),
         NEW d \in Conn \ {c}
  PROVE  sock'[d] = sock[d]
  BY DEF TypeOK, connVars, Connect, Uplink, StartCollision, StartBusy,
     StartAudio, AcceptSession, ClockSync, AudioFrame, MalformedFrame,
     BadFrame, EndAudioQueued, EndAudioOverflow, EndAudioStopped, Submitting,
     Continue, Disconnect, Resume, Downlink, SendRaises, ResultOk,
     ResultError, ResultRaised, Close, Reaper, Reclaim, ReaperSent

\* Every step keeps the two views in agreement.
LEMMA Inv3Step ==
  ASSUME Inv1, Inv3, [Next]_vars
  PROVE  Inv3'
  <1> USE DEF Inv1
  <1>1. ASSUME NEW c \in Conn, Connect(c) \/ Uplink(c) \/ Continue(c) \/ Reaper(c)
        PROVE  Inv3'
    <2>1. \A d \in Conn \ {c} : EdgeInv(d)'
      BY <1>1, OthersUntouched, OtherSockets, EdgeFrame DEF Untouched, Keeps
    <2>2. ASSUME Connect(c) PROVE EdgeInv(c)'
      BY <2>2 DEF Connect, sessVars, TypeOK, Inv3, EdgeInv
    <2>3. ASSUME Reclaim(c) PROVE EdgeInv(c)'
      BY <2>3 DEF Reclaim, Release, TypeOK, Inv3, EdgeInv
    <2>4. ASSUME ReaperSent(c) PROVE EdgeInv(c)'
      BY <2>4, EdgeFrame DEF ReaperSent, connVars, sessVars, ghostVars
    <2>5. EdgeInv(c)'
      BY <1>1, <2>2, <2>3, <2>4, EdgeUplink, EdgeContinue DEF Reaper
    <2>6. QED
      BY <2>1, <2>5 DEF Inv3
  <1>2. ASSUME NEW c \in Conn, Drop(c) PROVE Inv3'
    BY <1>2 DEF Drop, taskVars, sessVars, ghostVars, TypeOK, Inv3, EdgeInv
  <1>3. ASSUME NEW c \in Conn, Elapse(c) PROVE Inv3'
    BY <1>3, EdgeFrame DEF Elapse, connVars, taskVars, ghostVars, Inv3
  <1>4. CASE Worker \/ WorkerStop \/ UNCHANGED vars
    BY <1>4, EdgeFrame DEF Worker, WorkerTake, WorkerFinish, WorkerStop, vars,
       connVars, taskVars, sessVars, ghostVars, Inv3
  <1>5. QED
    BY <1>1, <1>2, <1>3, <1>4 DEF Next

\* No session lives on that a connected, listening edge was told is over or
\* was never told of.
THEOREM EdgeView == Spec => []EdgeAgrees
  <1>1. Init => Inv3
    BY DEF Init, Inv3, EdgeInv
  <1>2. Inv1 /\ Inv3 /\ [Next]_vars => Inv3'
    BY Inv3Step
  <1>3. Inv3 => EdgeAgrees
    BY DEF Inv3, EdgeInv, EdgeAgrees
  <1>4. QED
    BY <1>1, <1>2, <1>3, Inv1Always, PTL DEF Spec

-----------------------------------------------------------------------------
(* The abstract lifecycle.  Phases and Sids are what its variables are     *)
(* mapped to.                                                              *)

Phases == [s \in Sid |-> Phase(s)]
Sids   == {j.sid : j \in InWorker}
USE DEF Phases, Sids

Stutter == UNCHANGED <<registry, Phases, Sids>>

\* A step that leaves registry and worker alone is a stutter.
LEMMA StutterFrame ==
  ASSUME UNCHANGED <<registry, submitted, queue, running>>
  PROVE  Stutter
  BY DEF Stutter, Phase, InWorker, Queued

\* A session has one holder.
LEMMA HeldBy ==
  ASSUME TypeOK, RegistryConsistent, NEW c \in Conn, sid[c] # NoSid
  PROVE  /\ sid[c] \in Sid /\ registry[sid[c]] = c
         /\ \A t \in Sid : t # sid[c] => registry[t] # c
  BY DEF TypeOK, RegistryConsistent

\* A release frees the session id, or changes nothing the lifecycle sees.
LEMMA SimFree ==
  ASSUME Inv1, NEW c \in Conn, NotInWorker(c), Release(c),
         UNCHANGED <<queue, running>>
  PROVE  Stutter \/ Lifecycle!Next
  <1>1. Sids' = Sids
    BY DEF InWorker, Queued
  <1>2. \A d \in Conn : d # c => submitted'[d] = submitted[d]
    BY DEF Release, Inv1, TypeOK
  <1>3. CASE sid[c] = NoSid
    <2>1. registry' = registry
      BY <1>3 DEF Release, ReleaseRegistry
    <2>2. \A t \in Sid : registry[t] # c
      BY <1>3, ConstantsOK DEF Inv1, RegistryConsistent
    <2>3. \A t \in Sid : Phase(t)' = Phase(t)
      BY <1>2, <2>1, <2>2 DEF Phase, Inv1, TypeOK
    <2>4. QED
      BY <1>1, <2>1, <2>3 DEF Stutter
  <1>4. CASE sid[c] # NoSid
    <2> DEFINE s == sid[c]
    <2>1. /\ s \in Sid /\ registry[s] = c
          /\ \A t \in Sid : t # s => registry[t] # c
      BY <1>4, HeldBy DEF Inv1
    <2>2. registry' = [registry EXCEPT ![s] = NoConn]
      BY <1>4 DEF Release, ReleaseRegistry
    <2>3. Phases' = [Phases EXCEPT ![s] = "free"]
      <3>1. \A t \in Sid : Phase(t)' = IF t = s THEN "free" ELSE Phase(t)
        BY <1>2, <2>1, <2>2 DEF Phase, Inv1, TypeOK
      <3>2. QED
        BY <3>1, <2>1
    <2>4. s \notin Sids
      <3>1. \A j \in InWorker : j.conn \in Conn /\ sid[j.conn] = j.sid /\ j.conn # c
        BY WorkerConns DEF Inv1, UtterancesOwned, NotInWorker, Job
      <3>2. QED
        BY <1>4, <3>1, SidInjective DEF Inv1
    <2>5. Phases[s] # "free"
      BY <2>1, ConstantsOK DEF Phase
    <2>6. Lifecycle!Free(s)
      BY <1>1, <2>2, <2>3, <2>4, <2>5 DEF Lifecycle!Free
    <2>7. QED
      BY <2>1, <2>6 DEF Lifecycle!Next
  <1>5. QED
    BY <1>3, <1>4

\* An accepted start opens the session id.
LEMMA SimOpen ==
  ASSUME Inv1, NEW c \in Conn, NEW s \in Sid, StartAudio(c, s)
  PROVE  Lifecycle!Next
  <1>1. /\ registry[s] = NoConn /\ sid[c] = NoSid
        /\ registry' = [registry EXCEPT ![s] = c]
        /\ submitted' = [submitted EXCEPT ![c] = FALSE]
        /\ UNCHANGED <<queue, running>>
    BY DEF StartAudio, AcceptSession, Inv1, RegistryConsistent
  <1>2. Sids' = Sids
    BY <1>1 DEF InWorker, Queued
  <1>3. \A t \in Sid : registry[t] # c
    BY <1>1, ConstantsOK DEF Inv1, RegistryConsistent
  <1>4. \A t \in Sid : Phase(t)' = IF t = s THEN "open" ELSE Phase(t)
    BY <1>1, <1>3, ConstantsOK DEF Phase, Inv1, TypeOK
  <1>5. Phases' = [Phases EXCEPT ![s] = "open"]
    BY <1>4
  <1>6. Phases[s] = "free"
    BY <1>1 DEF Phase
  <1>7. Lifecycle!Open(s, c)
    BY <1>1, <1>2, <1>3, <1>5, <1>6 DEF Lifecycle!Open
  <1>8. QED
    BY <1>7 DEF Lifecycle!Next

\* An accepted or refused utterance is the step of the lifecycle it stands for.
LEMMA SimSubmit ==
  ASSUME Inv1, Inv2, NEW c \in Conn,
         EndAudioQueued(c) \/ EndAudioOverflow(c) \/ EndAudioStopped(c)
  PROVE  Lifecycle!Next
  <1>0. PICK s \in Sid : s = sid[c]
    BY HeldBy DEF EndAudioQueued, EndAudioOverflow, EndAudioStopped, Submitting,
       Inv1
  <1>1. /\ Submitting(c) /\ pc[c] = "recv" /\ sid[c] # NoSid
        /\ submitted' = [submitted EXCEPT ![c] = TRUE]
        /\ UNCHANGED <<registry, running>>
    BY DEF EndAudioQueued, EndAudioOverflow, EndAudioStopped, Submitting
  <1>2. ~submitted[c]
    BY <1>1 DEF Inv2, HandlerInv
  <1>3. /\ s \in Sid /\ registry[s] = c
        /\ \A t \in Sid : t # s => registry[t] # c
    BY <1>0, <1>1, HeldBy DEF Inv1
  <1>4. Sids' \in {Sids \cup {s}, Sids}
    <2>1. CASE EndAudioQueued(c)
      <3>1. queue' = Append(queue, [conn |-> c, sid |-> s]) /\ queue \in Seq(Job)
            /\ [conn |-> c, sid |-> s] \in Job
        BY <2>1, <1>0 DEF EndAudioQueued, Inv1, TypeOK, Job
      <3>2. /\ DOMAIN queue' = DOMAIN queue \cup {Len(queue) + 1}
            /\ queue'[Len(queue) + 1] = [conn |-> c, sid |-> s]
            /\ \A i \in DOMAIN queue : queue'[i] = queue[i]
        BY <3>1
      <3>3. InWorker' = InWorker \cup {[conn |-> c, sid |-> s]}
        BY <1>1, <3>2 DEF InWorker, Queued
      <3>4. QED
        BY <3>3
    <2>2. CASE EndAudioOverflow(c) \/ EndAudioStopped(c)
      BY <1>1, <2>2 DEF EndAudioOverflow, EndAudioStopped, InWorker, Queued
    <2>3. QED
      BY <2>1, <2>2
  <1>5. \A t \in Sid : Phase(t)' = IF t = s THEN "busy" ELSE Phase(t)
    BY <1>1, <1>3, ConstantsOK DEF Phase, Inv1, TypeOK
  <1>6. Phases' = [Phases EXCEPT ![s] = "busy"]
    BY <1>5
  <1>7. Phases[s] = "open"
    BY <1>2, <1>3, ConstantsOK DEF Phase
  <1>8. Lifecycle!Submit(s)
    BY <1>1, <1>4, <1>6, <1>7 DEF Lifecycle!Submit
  <1>9. QED
    BY <1>8 DEF Lifecycle!Next

\* Taking an utterance changes nothing the lifecycle sees.
LEMMA SimTake ==
  ASSUME Inv1, WorkerTake
  PROVE  Stutter
  <1>1. /\ running = NoJob /\ running' = queue[1] /\ queue' = Tail(queue)
        /\ Len(queue) \in Nat /\ Len(queue) > 0 /\ queue \in Seq(Job)
        /\ UNCHANGED <<registry, submitted>>
    BY DEF WorkerTake, Inv1, TypeOK
  <1>2. /\ DOMAIN queue' = 1..(Len(queue) - 1) /\ DOMAIN queue = 1..Len(queue)
        /\ \A i \in DOMAIN queue' : queue'[i] = queue[i + 1]
    BY <1>1
  <1>3. \A j \in Job : j # NoJob
    <2>1. \A j \in Job : j.conn # NoJob.conn
      BY ConstantsOK DEF Job, NoJob
    <2>2. QED
      BY <2>1
  <1>4. Queued = Queued' \cup {queue[1]}
    <2>1. \A i \in DOMAIN queue : i = 1 \/ (i - 1 \in DOMAIN queue' /\ queue'[i - 1] = queue[i])
      BY <1>1, <1>2
    <2>2. \A i \in DOMAIN queue' : i + 1 \in DOMAIN queue
      BY <1>1, <1>2
    <2>3. 1 \in DOMAIN queue
      BY <1>1, <1>2
    <2>4. QED
      BY <1>2, <2>1, <2>2, <2>3 DEF Queued
  <1>5. queue[1] \in Job
    BY <1>1
  <1>6. InWorker' = InWorker
    BY <1>1, <1>3, <1>4, <1>5 DEF InWorker
  <1>7. QED
    BY <1>1, <1>6 DEF Stutter, Phase

\* Finishing one is a step of the lifecycle.
LEMMA SimFinish ==
  ASSUME Inv1, WorkerFinish
  PROVE  Lifecycle!Next
  <1>1. /\ running \in Job /\ running # NoJob /\ running' = NoJob
        /\ UNCHANGED <<queue, registry, submitted>>
    BY DEF WorkerFinish, Inv1, TypeOK
  <1>2. PICK s \in Sid : s = running.sid
    BY <1>1 DEF Job
  <1>3. /\ InWorker = Queued \cup {running} /\ InWorker' = Queued \ {}
    BY <1>1 DEF InWorker, Queued
  <1>4. \A j \in Queued : j.sid # s
    BY <1>1, <1>2 DEF Inv1, UtterancesOwned
  <1>5. s \in Sids /\ Sids' = Sids \ {s}
    BY <1>2, <1>3, <1>4
  <1>6. UNCHANGED <<registry, Phases>>
    BY <1>1 DEF Phase
  <1>7. Lifecycle!Processed(s)
    BY <1>5, <1>6 DEF Lifecycle!Processed
  <1>8. QED
    BY <1>7 DEF Lifecycle!Next

\* Every step is one of the lifecycle, or a stutter.
LEMMA Simulation ==
  ASSUME Inv1, Inv2, [Next]_vars
  PROVE  Stutter \/ Lifecycle!Next
  <1>1. ASSUME NEW c \in Conn, Uplink(c) PROVE Stutter \/ Lifecycle!Next
    <2>1. ASSUME NEW s \in Sid, StartBusy(c, s) PROVE Stutter
      <3>1. registry' = registry
        BY <2>1 DEF StartBusy, Inv1, TypeOK
      <3>2. QED
        BY <2>1, <3>1, StutterFrame DEF StartBusy
    <2>2. CASE \/ \E s \in Sid : StartCollision(c, s)
               \/ ClockSync(c) \/ AudioFrame(c) \/ MalformedFrame(c)
               \/ BadFrame(c)
      BY <2>2, StutterFrame DEF StartCollision, ClockSync, AudioFrame,
         MalformedFrame, BadFrame
    <2>3. QED
      BY <1>1, <2>1, <2>2, SimOpen, SimSubmit DEF Uplink
  <1>2. ASSUME NEW c \in Conn, Continue(c) PROVE Stutter \/ Lifecycle!Next
    <2>1. /\ NotInWorker(c)
          /\ UNCHANGED <<queue, running>>
      <3>1. /\ pc[c] # "await" \/ future[c] # "pending"
            /\ UNCHANGED <<queue, running>>
        BY <1>2 DEF Continue, Disconnect, Resume, SendDone, Downlink,
           SendRaises, ResultOk, ResultError, ResultRaised, Close, SendStates
      <3>2. QED
        BY <3>1, OutsideWorker DEF Inv1
    <2>2. Release(c) \/ UNCHANGED <<registry, submitted>>
      BY <1>2 DEF Continue, Disconnect, Resume, SendDone, Downlink,
         SendRaises, ResultOk, ResultError, ResultRaised, Close
    <2>3. QED
      BY <2>1, <2>2, SimFree, StutterFrame
  <1>3. ASSUME NEW c \in Conn, Reaper(c) PROVE Stutter \/ Lifecycle!Next
    <2>1. CASE Reclaim(c)
      BY <2>1, OutsideWorker, SimFree DEF Reclaim, Expired, Inv1
    <2>2. CASE ReaperSent(c)
      BY <2>2, StutterFrame DEF ReaperSent
    <2>3. QED
      BY <1>3, <2>1, <2>2 DEF Reaper
  <1>4. ASSUME NEW c \in Conn, Connect(c) \/ Elapse(c) \/ Drop(c) PROVE Stutter
    BY <1>4, StutterFrame DEF Connect, Elapse, Drop
  <1>5. CASE WorkerStop \/ UNCHANGED vars
    BY <1>5, StutterFrame DEF WorkerStop, vars
  <1>6. QED
    BY <1>1, <1>2, <1>3, <1>4, <1>5, SimTake, SimFinish DEF Next, Worker

\* Handlers, reapers, queue and worker together keep the session lifecycle.
THEOREM Implements == Spec => LifecycleSpec
  <1>1. Init => Lifecycle!Init
    BY ConstantsOK
    DEF Init, Lifecycle!Init, Phase, InWorker, Queued, NoJob
  <1>2. Inv1 /\ Inv2 /\ [Next]_vars => [Lifecycle!Next]_(Lifecycle!vars)
    BY Simulation DEF Stutter, Lifecycle!vars
  <1>3. QED
    BY <1>1, <1>2, Inv1Always, Inv2Always, PTL
    DEF Spec, LifecycleSpec, Lifecycle!Spec
=============================================================================

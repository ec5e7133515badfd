------------------------- MODULE HostLifespanProofs -------------------------
(***************************************************************************)
(* The safety properties of HostLifespan for every set of turns, size of   *)
(* the queue and configuration, from what is proved of the worker and of   *)
(* the runner by themselves.                                               *)
(***************************************************************************)
EXTENDS HostLifespan, TLAPS

WP == INSTANCE InteractionWorkerProofs
  WITH Task <- Turn, NoTask <- NoTurn, OneThread <- TRUE,
       Stopper <- {"lifespan"}, Timed <- {"lifespan"}

RP == INSTANCE InteractionRunnerProofs WITH StoreMayFail <- TRUE

-----------------------------------------------------------------------------
(* The parts.                                                              *)

\* The constants of the parts are in order.
LEMMA PartsOK == WP!WorkerConstantsOK /\ RP!RunnerConstantsOK
  BY LifespanConstantsOK DEF WP!WorkerConstantsOK, RP!RunnerConstantsOK

\* The worker the lifespan uses is the one that is proved about.
LEMMA SameWorker ==
  /\ W!Init <=> WP!Init
  /\ W!TypeOK <=> WP!TypeOK
  /\ W!Start <=> WP!Start
  /\ \A t : /\ W!SubmitCheck(t) <=> WP!SubmitCheck(t)
            /\ W!SubmitPut(t) <=> WP!SubmitPut(t)
            /\ W!Cancel(t) <=> WP!Cancel(t)
  /\ \A p : /\ W!StopCall(p) <=> WP!StopCall(p)
            /\ W!StopPut(p) <=> WP!StopPut(p)
            /\ W!StopJoin(p) <=> WP!StopJoin(p)
  /\ W!Get <=> WP!Get
  /\ W!Claim <=> WP!Claim
  /\ W!Finish <=> WP!Finish
  <1>1. W!Init <=> WP!Init
    BY DEF W!Init, WP!Init
  <1>2. W!TypeOK <=> WP!TypeOK
    BY DEF W!TypeOK, WP!TypeOK, W!Settled, WP!Settled
  <1>3. (W!Start <=> WP!Start) /\ (W!Claim <=> WP!Claim)
    BY DEF W!Start, WP!Start, W!Claim, WP!Claim
  <1>4. \A t : /\ W!SubmitCheck(t) <=> WP!SubmitCheck(t)
               /\ W!SubmitPut(t) <=> WP!SubmitPut(t)
               /\ W!Cancel(t) <=> WP!Cancel(t)
    BY DEF W!SubmitCheck, WP!SubmitCheck, W!SubmitPut, WP!SubmitPut, W!Cancel,
           WP!Cancel, W!Stopping, WP!Stopping, W!Submitting, WP!Submitting
  <1>5. \A p : /\ W!StopCall(p) <=> WP!StopCall(p)
               /\ W!StopPut(p) <=> WP!StopPut(p)
               /\ W!StopJoin(p) <=> WP!StopJoin(p)
    BY DEF W!StopCall, WP!StopCall, W!StopPut, WP!StopPut, W!StopJoin,
           WP!StopJoin, W!Stopping, WP!Stopping, W!Submitting, WP!Submitting
  <1>6. (W!Get <=> WP!Get) /\ (W!Finish <=> WP!Finish)
    BY DEF W!Get, WP!Get, W!Take, WP!Take, W!Finish, WP!Finish, W!Settle,
           WP!Settle, W!Settled, WP!Settled
  <1>7. QED
    BY <1>1, <1>2, <1>3, <1>4, <1>5, <1>6

\* And so is the runner.
LEMMA SameRunner ==
  /\ R!Init <=> RP!Init
  /\ R!TypeOK <=> RP!TypeOK
  /\ \A t : R!Begin(t) <=> RP!Begin(t)
  /\ R!Run <=> RP!Run
  /\ R!Executor <=> RP!Executor
  /\ R!Close <=> RP!Close
  <1>1. R!Init <=> RP!Init
    BY DEF R!Init, RP!Init
  <1>2. R!TypeOK <=> RP!TypeOK
    BY DEF R!TypeOK, RP!TypeOK, R!Unfinished, RP!Unfinished
  <1> USE DEF R!ttsVars, RP!ttsVars, R!endVars, RP!endVars, R!Advance, RP!Advance,
              R!Fail, RP!Fail, R!Unfinished, RP!Unfinished
  <1>3. \A t : R!Begin(t) <=> RP!Begin(t)
    BY DEF R!Begin, RP!Begin
  <1>4. (R!Graph <=> RP!Graph) /\ (R!SynthesizeInline <=> RP!SynthesizeInline)
        /\ (R!SynthesizeClosed <=> RP!SynthesizeClosed)
    BY DEF R!Graph, RP!Graph, R!SynthesizeInline, RP!SynthesizeInline,
           R!SynthesizeClosed, RP!SynthesizeClosed
  <1>5. (R!SynthesizeBusy <=> RP!SynthesizeBusy) /\ (R!Synthesize <=> RP!Synthesize)
    BY DEF R!SynthesizeBusy, RP!SynthesizeBusy, R!Synthesize, RP!Synthesize,
           R!Busy, RP!Busy, R!Enqueue, RP!Enqueue
  <1>6. (R!AwaitDone <=> RP!AwaitDone) /\ (R!AwaitTimeout <=> RP!AwaitTimeout)
    BY DEF R!AwaitDone, RP!AwaitDone, R!AwaitTimeout, RP!AwaitTimeout,
           R!Awaited, RP!Awaited, R!Forget, RP!Forget
  <1>7. (R!Resample <=> RP!Resample) /\ (R!Degrade <=> RP!Degrade)
    BY DEF R!Resample, RP!Resample, R!Degrade, RP!Degrade, R!Return, RP!Return
  <1>8. R!SaveTrace <=> RP!SaveTrace
    BY DEF R!SaveTrace, RP!SaveTrace, R!Return, RP!Return, R!TraceRow, RP!TraceRow
  <1>9. (R!Executor <=> RP!Executor) /\ (R!Close <=> RP!Close)
    BY DEF R!Executor, RP!Executor, R!JobStart, RP!JobStart, R!JobEnd, RP!JobEnd,
           R!Close, RP!Close, R!Cancelled, RP!Cancelled
  <1>10. QED
    BY <1>1, <1>2, <1>3, <1>4, <1>5, <1>6, <1>7, <1>8, <1>9 DEF R!Run, RP!Run

\* A step of the host is, for the worker, one of its own or none.
LEMMA WorkerStep == ASSUME [Next]_vars PROVE [WP!Next]_(WP!vars)
  <1> USE SameWorker
  <1>1. UNCHANGED workerVars => UNCHANGED WP!vars
    BY DEF workerVars, WP!vars
  <1>2. CASE Configure \/ Build \/ Serve \/ Executor \/ Close \/ Exit
    BY <1>1, <1>2 DEF Configure, Build, Serve, Executor, Close, Exit
  <1>3. CASE StartWorker
    BY <1>3 DEF StartWorker, WP!Next
  <1>4. ASSUME NEW t \in Turn, Submit(t) PROVE [WP!Next]_(WP!vars)
    BY <1>4 DEF Submit, WP!Next
  <1>5. CASE Thread
    BY <1>1, <1>5 DEF Thread, Take, Claim, Run, Finish, WP!Next, WP!Thread
  <1>6. CASE Shutdown \/ StopPut \/ StopReturns
    BY <1>6 DEF Shutdown, StopPut, StopReturns, WP!Next
  <1>7. CASE UNCHANGED vars
    BY <1>1, <1>7 DEF vars
  <1>8. QED
    BY <1>2, <1>3, <1>4, <1>5, <1>6, <1>7 DEF Next

\* What is proved of the worker holds of the host's: the event loop is the one
\* thread that submits and stops.
LEMMA WorkerAlways == Spec => [](WP!TypeOK /\ WP!ThreadInv /\ WP!OrderInv)
  <1>1. Init => WP!Init
    BY SameWorker DEF Init
  <1>2. Spec => WP!Spec
    BY <1>1, WorkerStep, PTL DEF Spec, WP!Spec
  <1>3. WP!Spec => [](WP!TypeOK /\ WP!ThreadInv /\ WP!OrderInv)
    BY PartsOK, WP!TypeCorrect, WP!ThreadAlways, WP!OrderAlways, PTL
  <1>4. QED
    BY <1>2, <1>3

\* A step of the host is, for the runner, one of its own or none: what the
\* thread claims is a turn.
LEMMA RunnerStep ==
  ASSUME WP!ThreadInv, [Next]_vars PROVE [RP!Next]_(RP!vars)
  <1> USE SameRunner
  <1>1. UNCHANGED runnerVars => UNCHANGED RP!vars
    BY DEF runnerVars, RP!vars
  <1>2. CASE Configure \/ Build \/ StartWorker \/ Serve \/ Exit
    BY <1>1, <1>2 DEF Configure, Build, StartWorker, Serve, Exit
  <1>3. ASSUME NEW t \in Turn, Submit(t) PROVE [RP!Next]_(RP!vars)
    BY <1>1, <1>3 DEF Submit
  <1>4. CASE Thread
    <2>1. CASE Take \/ Finish
      BY <1>1, <2>1 DEF Take, Finish
    <2>2. CASE Claim
      <3>1. work \in Turn
        BY <2>2 DEF Claim, W!Claim, WP!ThreadInv, WP!HeldInv
      <3>2. QED
        BY <1>1, <2>2, <3>1 DEF Claim, RP!Next
    <2>3. CASE Run
      BY <2>3 DEF Run, RP!Next
    <2>4. QED
      BY <1>4, <2>1, <2>2, <2>3 DEF Thread
  <1>5. CASE Executor \/ Close
    BY <1>5 DEF Executor, Close, RP!Next
  <1>6. CASE Shutdown \/ StopPut \/ StopReturns
    BY <1>1, <1>6 DEF Shutdown, StopPut, StopReturns
  <1>7. CASE UNCHANGED vars
    BY <1>1, <1>7 DEF vars
  <1>8. QED
    BY <1>2, <1>3, <1>4, <1>5, <1>6, <1>7 DEF Next

\* What is proved of the runner holds of the host's.
LEMMA RunnerAlways == Spec => [](RP!TypeOK /\ RP!TraceInv)
  <1>1. Init => RP!Init
    BY SameRunner DEF Init
  <1>2. Spec => RP!Spec
    BY <1>1, WorkerAlways, RunnerStep, PTL DEF Spec, RP!Spec
  <1>3. RP!Spec => [](RP!TypeOK /\ RP!TraceInv)
    BY PartsOK, RP!TypeCorrect, RP!TraceAlways, PTL
  <1>4. QED
    BY <1>2, <1>3

PartsInv ==
  WP!TypeOK /\ WP!ThreadInv /\ WP!OrderInv /\ RP!TypeOK /\ RP!TraceInv

-----------------------------------------------------------------------------
(* What holds between the parts.                                           *)

\* How far the lifespan is tells what its parts have been told.
PhaseInv ==
  /\ host \in Phases
  /\ host \in {"down", "configured", "built"} => ~started
  /\ host \in {"started", "serving", "stopping"} \cup AfterStop => started
  /\ host \notin {"stopping"} \cup AfterStop => stop["lifespan"] = "new"
  /\ host = "stopping" => stop["lifespan"] \in {"putting", "joining"}
  /\ host \in AfterStop => stop["lifespan"] = "returned"
  /\ overran => host \in AfterStop
  /\ open \/ host \in {"exiting", "gone"}

\* What is served was built from settings that passed.
SettingsInv ==
  /\ host \in {"configured", "built", "started", "serving", "stopping"} =>
       WithinBudget(env)
  /\ host \in {"built", "started", "serving", "stopping"} => env.queue >= 1

\* The runner is inside the interaction the thread runs, and what the caller is
\* given is what the runner ended it with.
RunInv ==
  /\ stage # "idle" => thread = "run" /\ turn = work
  /\ thread = "run" /\ stage = "idle" => outcome[work] # "none"
  /\ \A t \in Turn :
       /\ future[t] = "result" => outcome[t] = "ok"
       /\ future[t] = "error" => outcome[t] \in {"error", "raised"}

\* There is one sentinel, put by the one stop(), and the thread ends with it;
\* a stop() that did not run out of time leaves nothing behind.
DrainInv ==
  /\ stop["lifespan"] \in {"new", "putting"} =>
       /\ thread # "exited"
       /\ \A i \in 1..Len(queue) : queue[i] # Sentinel
  /\ \A i, j \in 1..Len(queue) :
       queue[i] = Sentinel /\ queue[j] = Sentinel => i = j
  /\ thread = "exited" => \A i \in 1..Len(queue) : queue[i] # Sentinel
  /\ host \in AfterStop /\ ~overran => thread = "exited"

\* What the phase of the host says of its parts survives every step.
LEMMA PhaseStep ==
  ASSUME PartsInv, PhaseInv, [Next]_vars PROVE PhaseInv'
  <1> USE DEF PhaseInv, Phases, AfterStop, Become
  <1>1. CASE Configure \/ Build \/ Serve \/ Exit
    BY <1>1 DEF Configure, Build, Serve, Exit, workerVars, runnerVars
  <1>2. CASE StartWorker
    BY <1>2 DEF StartWorker, W!Start, runnerVars
  <1>3. ASSUME NEW t \in Turn, Submit(t) PROVE PhaseInv'
    BY <1>3 DEF Submit, W!SubmitCheck, W!SubmitPut, W!Cancel, runnerVars
  <1>4. CASE Thread \/ Executor
    <2>1. UNCHANGED <<started, stop, open, host, overran>>
      BY <1>4 DEF Thread, Take, Claim, Run, Finish, Executor, workerVars,
         runnerVars, W!Get, W!Take, W!Claim, W!Finish, W!Settle, R!Begin, R!Run,
         R!Executor, R!JobStart, R!JobEnd, R!ttsVars, R!endVars, R!Graph,
         R!SynthesizeInline, R!SynthesizeClosed, R!SynthesizeBusy, R!Synthesize,
         R!Enqueue, R!AwaitDone, R!AwaitTimeout, R!Forget, R!Resample,
         R!SaveTrace, R!Degrade, R!Return
    <2>2. QED
      BY <2>1
  <1>5. CASE Shutdown \/ StopPut \/ StopReturns
    <2>1. stop \in [{"lifespan"} -> {"new", "putting", "joining", "returned"}]
      BY DEF PartsInv, WP!TypeOK
    <2>2. QED
      BY <1>5, <2>1 DEF Shutdown, StopPut, StopReturns, W!StopCall, W!StopPut,
         W!StopJoin, runnerVars
  <1>6. CASE Close
    BY <1>6 DEF Close, R!Close, workerVars
  <1>7. CASE UNCHANGED vars
    BY <1>7 DEF vars, workerVars, runnerVars
  <1>8. QED
    BY <1>1, <1>2, <1>3, <1>4, <1>5, <1>6, <1>7 DEF Next

\* The parts keep the settings they were built with.
LEMMA SettingsStep ==
  ASSUME SettingsInv, [Next]_vars PROVE SettingsInv'
  <1> USE DEF SettingsInv, Become
  <1>1. CASE Configure
    BY <1>1 DEF Configure
  <1>2. CASE Build
    BY <1>2 DEF Build, Assembles
  <1>3. env' = env /\ ((Configure \/ Build) \/ host' = host \/
          (host = "built" /\ host' = "started") \/
          (host = "started" /\ host' = "serving") \/
          (host = "serving" /\ host' = "stopping") \/
          host' \in {"failed", "closing", "exiting", "gone"})
    BY DEF Next, vars, Configure, Build, StartWorker, Serve, Submit, Thread,
       Executor, Shutdown, StopPut, StopReturns, Close, Exit
  <1>4. WithinBudget(env)' <=> WithinBudget(env)
    BY <1>3 DEF WithinBudget
  <1>5. QED
    BY <1>1, <1>2, <1>3, <1>4

\* run() ends an interaction or stays in it.
LEMMA RunsOn ==
  ASSUME R!Run
  PROVE  /\ stage # "idle"
         /\ \/ stage' # "idle" /\ turn' = turn /\ outcome' = outcome
            \/ /\ stage' = "idle"
               /\ \E how \in {"ok", "error", "raised"} :
                    outcome' = [outcome EXCEPT ![turn] = how]
  BY DEF R!Run, R!Graph, R!SynthesizeInline, R!SynthesizeClosed, R!SynthesizeBusy,
     R!Synthesize, R!Enqueue, R!AwaitDone, R!AwaitTimeout, R!Forget, R!Resample,
     R!SaveTrace, R!Degrade, R!Return, R!Advance, R!Fail, R!endVars, R!ttsVars

\* Every action keeps RunInv: the runner is begun by the claim, and the future
\* is settled by how it ended.
LEMMA RunStep ==
  ASSUME PartsInv, RunInv, [Next]_vars PROVE RunInv'
  <1> USE DEF RunInv
  <1>1. /\ thread = "run" => future[work] = "running" /\ work \in Turn
        /\ work \in Turn \cup {NoTurn}
        /\ outcome \in [Turn -> {"none", "ok", "error", "raised"}]
        /\ future \in [Turn -> W!Settled \cup {"none", "pending", "running"}]
    BY SameWorker, SameRunner
    DEF PartsInv, WP!ThreadInv, WP!HeldInv, W!TypeOK, R!TypeOK
  <1>2. CASE UNCHANGED <<thread, work, future, runnerVars>>
    BY <1>2 DEF runnerVars
  <1>3. CASE StartWorker
    BY <1>1, <1>3 DEF StartWorker, W!Start, runnerVars, PartsInv, WP!ThreadInv, WP!HeldInv
  <1>4. ASSUME NEW t \in Turn, Submit(t) PROVE RunInv'
    BY <1>1, <1>4 DEF Submit, W!SubmitCheck, W!SubmitPut, W!Cancel, runnerVars
  <1>5. CASE Take
    BY <1>5 DEF Take, W!Get, W!Take, runnerVars
  <1>6. CASE Claim
    BY <1>1, <1>6 DEF Claim, W!Claim, R!Begin, R!endVars, R!Advance, runnerVars
  <1>7. CASE Run
    <2>1. thread = "run" /\ turn = work
      BY <1>7, RunsOn DEF Run
    <2>2. UNCHANGED <<thread, work, future>>
      BY <1>7 DEF Run, workerVars
    <2>3. QED
      BY <1>1, <1>7, <2>1, <2>2, RunsOn DEF Run
  <1>8. CASE Finish
    <2>1. /\ stage = "idle" /\ thread = "run" /\ thread' = "get"
          /\ \E end : future' = [future EXCEPT ![work] = end]
          /\ future'[work] = IF outcome[work] = "ok" THEN "result" ELSE "error"
          /\ UNCHANGED <<stage, outcome>>
      BY <1>1, <1>8 DEF Finish, W!Finish, W!Settle, W!Settled, runnerVars
    <2>2. QED
      BY <1>1, <2>1
  <1>9. CASE Executor \/ Close
    BY <1>9 DEF Executor, Close, R!Executor, R!JobStart, R!JobEnd, R!Close,
       R!endVars, workerVars
  <1>10. QED
    BY <1>2, <1>3, <1>4, <1>5, <1>6, <1>7, <1>8, <1>9
    DEF Next, Thread, vars, workerVars, Configure, Build, Serve, Shutdown,
        StopPut, StopReturns, Exit, W!StopCall, W!StopPut, W!StopJoin

\* Every action keeps DrainInv: there is one call of stop(), and it comes after
\* the last submission.
LEMMA DrainStep ==
  ASSUME PartsInv, PhaseInv, DrainInv, [Next]_vars PROVE DrainInv'
  <1> USE DEF DrainInv
  <1>0. /\ queue \in Seq(WP!Item) /\ Sentinel \in WP!Item /\ Turn \subseteq WP!Item
        /\ Sentinel \notin Turn
        /\ stop \in [{"lifespan"} -> {"new", "putting", "joining", "returned"}]
    BY LifespanConstantsOK DEF PartsInv, WP!TypeOK, WP!Item
  <1>1. CASE UNCHANGED <<thread, queue, stop, host, overran>>
    BY <1>1
  <1>2. CASE Configure \/ Build \/ Serve \/ Close \/ Exit
    <2>1. /\ UNCHANGED <<thread, queue, stop, overran>>
          /\ host' \in AfterStop => host \in AfterStop
      BY <1>2 DEF Configure, Build, Serve, Close, Exit, Become, workerVars, AfterStop
    <2>2. QED
      BY <2>1
  <1>3. CASE StartWorker
    BY <1>3 DEF StartWorker, W!Start, Become, AfterStop
  <1>4. ASSUME NEW t \in Turn, Submit(t) PROVE DrainInv'
    <2>1. CASE queue' = queue
      BY <1>4, <2>1 DEF Submit, W!SubmitCheck, W!SubmitPut, W!Cancel
    <2>2. CASE queue' # queue
      <3>1. /\ queue' = Append(queue, t) /\ host = "serving"
            /\ UNCHANGED <<thread, stop, host, overran>>
        BY <1>4, <2>2 DEF Submit, W!SubmitCheck, W!SubmitPut, W!Cancel
      <3>2. /\ Len(queue') = Len(queue) + 1 /\ queue'[Len(queue) + 1] = t
            /\ \A i \in 1..Len(queue) : queue'[i] = queue[i]
        BY <1>0, <3>1, WP!PutItem
      <3>3. \A i \in 1..Len(queue') : queue'[i] # Sentinel
        BY <1>0, <3>1, <3>2 DEF PhaseInv, AfterStop
      <3>4. QED
        BY <3>1, <3>3 DEF AfterStop
    <2>3. QED
      BY <2>1, <2>2
  <1>5. CASE StopPut
    <2>1. /\ queue' = Append(queue, Sentinel) /\ stop["lifespan"] = "putting"
          /\ stop' = [stop EXCEPT !["lifespan"] = "joining"]
          /\ UNCHANGED <<thread, host, overran>> /\ host = "stopping"
      BY <1>5 DEF StopPut, W!StopPut
    <2>2. /\ Len(queue') = Len(queue) + 1 /\ queue'[Len(queue) + 1] = Sentinel
          /\ \A i \in 1..Len(queue) : queue'[i] = queue[i]
      BY <1>0, <2>1, WP!PutItem
    <2>3. \A i \in 1..Len(queue') : queue'[i] = Sentinel => i = Len(queue) + 1
      BY <1>0, <2>1, <2>2
    <2>4. QED
      BY <1>0, <2>1, <2>3 DEF AfterStop
  <1>6. CASE Shutdown \/ StopReturns
    <2>1. UNCHANGED <<thread, queue>>
      BY <1>6 DEF Shutdown, StopReturns, W!StopCall, W!StopJoin
    <2>2. CASE Shutdown
      BY <1>0, <2>1, <2>2 DEF Shutdown, W!StopCall, Become, AfterStop, PhaseInv
    <2>3. CASE StopReturns
      BY <1>0, <2>1, <2>3 DEF StopReturns, W!StopJoin, Become, AfterStop
    <2>4. QED
      BY <1>6, <2>2, <2>3
  <1>7. CASE Thread /\ Take
    <2>1. /\ thread = "get" /\ queue # <<>> /\ queue' = Tail(queue)
          /\ IF Head(queue) = Sentinel THEN thread' = "exited" ELSE thread' = "got"
          /\ UNCHANGED <<stop, host, overran>>
      BY <1>7 DEF Thread, Take, W!Get, W!Take
    <2>2. /\ Len(queue) \in Nat \ {0} /\ Len(queue') = Len(queue) - 1
          /\ Head(queue) = queue[1]
          /\ \A i \in 1..Len(queue') : queue'[i] = queue[i + 1]
      BY <1>0, <2>1, WP!GetItem
    <2>3. \A i \in 1..Len(queue') : i + 1 \in 1..Len(queue) /\ i + 1 # 1
                                    /\ 1 \in 1..Len(queue)
      BY <2>2
    <2>4. \A i, j \in 1..Len(queue') :
            queue'[i] = Sentinel /\ queue'[j] = Sentinel => i = j
      BY <2>2, <2>3
    <2>5. thread' = "exited" =>
            /\ \A i \in 1..Len(queue') : queue'[i] # Sentinel
            /\ stop["lifespan"] \notin {"new", "putting"}
      BY <2>1, <2>2, <2>3
    <2>6. stop["lifespan"] \in {"new", "putting"} =>
            \A i \in 1..Len(queue') : queue'[i] # Sentinel
      BY <2>2, <2>3
    <2>7. QED
      BY <2>1, <2>4, <2>5, <2>6
  <1>8. CASE Thread /\ (Claim \/ Finish)
    <2>1. /\ thread # "exited" /\ thread' # "exited"
          /\ UNCHANGED <<queue, stop, host, overran>>
      BY <1>8 DEF Thread, Claim, Finish, W!Claim, W!Finish, W!Settle
    <2>2. QED
      BY <2>1
  <1>9. CASE (Thread /\ Run) \/ Executor
    BY <1>1, <1>9 DEF Thread, Run, Executor, workerVars
  <1>10. QED
    BY <1>1, <1>2, <1>3, <1>4, <1>5, <1>6, <1>7, <1>8, <1>9
    DEF Next, Thread, vars, workerVars

-----------------------------------------------------------------------------
(* The properties.                                                         *)

\* The strengthening holds in every reachable state.
LEMMA LifespanAlways ==
  Spec => [](PartsInv /\ PhaseInv /\ SettingsInv /\ RunInv /\ DrainInv)
  <1>1. Init => PhaseInv /\ SettingsInv /\ RunInv /\ DrainInv
    BY DEF Init, W!Init, R!Init, PhaseInv, Phases, AfterStop, SettingsInv, RunInv,
       DrainInv
  <1>2. Spec => []PartsInv
    BY WorkerAlways, RunnerAlways, PTL DEF PartsInv
  <1>3. QED
    BY <1>1, <1>2, PhaseStep, SettingsStep, RunStep, DrainStep, PTL DEF Spec

\* Whoever is served has a thread that works for him, built from settings whose
\* timeouts fit into a session, and the thread is inside the runner with the
\* interaction it holds.
THEOREM TypeCorrect == Spec => []TypeOK
  <1>1. PartsInv /\ PhaseInv /\ SettingsInv /\ RunInv => TypeOK
    BY SameWorker, SameRunner
    DEF PartsInv, PhaseInv, SettingsInv, RunInv, TypeOK, WithinBudget
  <1>2. QED
    BY <1>1, LifespanAlways, PTL

\* close() takes the executor from a runner nobody uses any more: unless stop()
\* ran out of time, every accepted turn is settled by then and has its row.
THEOREM DrainedFirst == Spec => []DrainedBeforeClose
  <1>1. ASSUME PartsInv, PhaseInv, RunInv, DrainInv PROVE DrainedBeforeClose
    <2>1. ASSUME host \in AfterStop, ~overran
          PROVE  turn = NoTurn /\ thread = "exited" /\ queue = <<>>
      <3>1. thread = "exited"
        BY <1>1, <2>1 DEF DrainInv
      <3>2. turn = NoTurn
        BY <1>1, <3>1 DEF RunInv, PartsInv, RP!TypeOK
      <3>3. queue \in Seq(Turn \cup {Sentinel})
        BY <1>1 DEF PartsInv, WP!TypeOK
      <3>4. \A i \in 1..Len(queue) : queue[i] = Sentinel /\ queue[i] # Sentinel
        BY <1>1, <3>1 DEF PartsInv, WP!OrderInv, DrainInv
      <3>5. Len(queue) = 0
        BY <3>3, <3>4
      <3>6. QED
        BY <3>1, <3>2, <3>3, <3>5
    <2>2. ASSUME host \in AfterStop, ~overran, NEW t \in Turn, call[t] = "accepted"
          PROVE  /\ future[t] \in W!Settled
                 /\ future[t] = "result" => rows[t] # {}
                 /\ future[t] = "error" => rows[t] # {} \/ outcome[t] = "raised"
      <3>1. thread = "exited" /\ queue = <<>>
        BY <2>1, <2>2
      <3>2. future[t] \notin {"none", "pending", "running"}
        BY <1>1, <2>2, <3>1
        DEF PartsInv, WP!ThreadInv, WP!HeldInv, WP!QueueInv, WP!OrderInv
      <3>3. future[t] \in W!Settled
        BY <1>1, <3>2, SameWorker DEF PartsInv, W!TypeOK
      <3>4. /\ outcome[t] = "ok" => rows[t] # {}
            /\ outcome[t] = "error" => rows[t] # {}
        BY <1>1 DEF PartsInv, RP!TraceInv, RP!TraceTellsOutcome
      <3>5. QED
        BY <1>1, <3>3, <3>4 DEF RunInv
    <2>3. ~open => host \in AfterStop
      BY <1>1 DEF PhaseInv, AfterStop
    <2>4. QED
      BY <2>1, <2>2, <2>3 DEF DrainedBeforeClose
  <1>2. QED
    BY <1>1, LifespanAlways, PTL

\* In the host the worker still serves its line in order, one turn at a time,
\* each settled once, and every turn still ends with its row and an answer, or
\* without a row and only because the store failed: composition, start-up and
\* shutdown take nothing of it away.
THEOREM PartsKeepPromises == Spec => WP!ServiceSpec /\ RP!PromiseSpec
  <1>1. Init => WP!Init /\ RP!Init
    BY SameWorker, SameRunner DEF Init
  <1>2. Spec => WP!Spec
    BY <1>1, WorkerStep, PTL DEF Spec, WP!Spec
  <1>3. Spec => RP!Spec
    BY <1>1, WorkerAlways, RunnerStep, PTL DEF Spec, RP!Spec
  <1>4. WP!Spec => WP!ServiceSpec
    BY PartsOK, WP!ImplementsService
  <1>5. RP!Spec => RP!PromiseSpec
    BY PartsOK, RP!KeepsPromise
  <1>6. QED
    BY <1>2, <1>3, <1>4, <1>5
=============================================================================

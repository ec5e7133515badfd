---------------------------- MODULE HostLifespan ----------------------------
(***************************************************************************)
(* The host process from its settings to its exit.  The lifespan of the    *)
(* application reads the settings, builds the components, starts the       *)
(* worker's thread, and on shutdown calls stop() and close() one after the *)
(* other on the event loop, which does nothing else meanwhile.  When       *)
(* stop() runs out of time the thread goes on beneath close() and the end  *)
(* of the interpreter, which waits for the executor of the runner and not  *)
(* for the worker's daemon thread.                                         *)
(***************************************************************************)
EXTENDS Integers, Sequences

CONSTANTS Turn, NoTurn, Sentinel, MaxSize,
          Environment  \* what the process may be configured with

ASSUME LifespanConstantsOK ==
  /\ {NoTurn, Sentinel} \cap Turn = {}
  /\ NoTurn # Sentinel
  /\ MaxSize \in Nat \ {0}

VARIABLES
  accepting, started, queue, thread, work, call, future, stop,
  timed, stage, turn, open, tracked, job, heard, outcome, rows,
  env,     \* the settings it was started with
  host,    \* how far the lifespan is
  overran  \* stop() came back while the worker's thread was at work

workerVars == <<accepting, started, queue, thread, work, call, future, stop>>
runnerVars == <<timed, stage, turn, open, tracked, job, heard, outcome, rows>>
vars == <<workerVars, runnerVars, env, host, overran>>

W == INSTANCE InteractionWorker
  WITH Task <- Turn, NoTask <- NoTurn, OneThread <- TRUE,
       Stopper <- {"lifespan"}, Timed <- {"lifespan"}

R == INSTANCE InteractionRunner WITH StoreMayFail <- TRUE

Phases == {"down", "configured", "built", "started", "serving", "stopping",
           "closing", "exiting", "gone", "failed"}
Ended == {"gone", "failed"}
AfterStop == {"closing", "exiting", "gone"}

Init ==
  /\ W!Init
  /\ R!Init
  /\ timed  \* Settings always has a tts_timeout_s
  /\ env \in Environment
  /\ host = "down"
  /\ overran = FALSE

-----------------------------------------------------------------------------
(* Start-up.                                                               *)

Malformed == -1000 \* an environment variable that is no number
NaN == -2000       \* one float() takes, though no number

\* _int_env and _float_env; an int is never NaN.
Readable(e) ==
  /\ Malformed \notin {e.intent, e.reasoning, e.margin, e.session, e.queue}
  /\ NaN \notin {e.session, e.queue}

\* Fault: each timeout is held against the session by itself.
WithinBudgetEach(e) ==
  \A seconds \in {e.intent, e.reasoning, e.margin} : seconds < e.session

\* __post_init__: a sum with NaN in it is not >= anything.
WithinBudget(e) ==
  NaN \in {e.intent, e.reasoning, e.margin}
  \/ e.intent + e.reasoning + e.margin < e.session

\* build_host_components apart from the adapters: the detector is the one
\* configured or, without its artifact, the development detector; the worker
\* wants a queue of at least one.  An unreachable Ollama is only logged.
Assembles(e) ==
  e.backend \in {"development", "classifier"} /\ e.queue >= 1

Become(phase) == host' = phase

Configure ==
  /\ host = "down"
  /\ Become(IF Readable(env) /\ WithinBudget(env) THEN "configured" ELSE "failed")
  /\ UNCHANGED <<workerVars, runnerVars, env, overran>>

\* Whisper, Piper and the store fail to load, or all is built.
Build ==
  /\ host = "configured"
  /\ Become("failed") \/ (Assembles(env) /\ Become("built"))
  /\ UNCHANGED <<workerVars, runnerVars, env, overran>>

StartWorker ==
  /\ host = "built"
  /\ W!Start
  /\ Become("started")
  /\ UNCHANGED <<runnerVars, env, overran>>

\* The tokens are parsed with the thread already running; when they are no
\* good the process ends and the thread with it.
Serve ==
  /\ host = "started"
  /\ Become(IF env.tokens THEN "serving" ELSE "failed")
  /\ UNCHANGED <<workerVars, runnerVars, env, overran>>

-----------------------------------------------------------------------------
(* Serving, and the worker's thread, which runs the runner.                *)

Submit(t) ==
  /\ host = "serving"
  /\ W!SubmitCheck(t) \/ W!SubmitPut(t) \/ W!Cancel(t)
  /\ UNCHANGED <<runnerVars, env, host, overran>>

Take ==
  /\ W!Get
  /\ UNCHANGED runnerVars

Claim ==
  /\ W!Claim
  /\ IF thread' = "run" THEN R!Begin(work) ELSE UNCHANGED runnerVars

Run ==
  /\ R!Run
  /\ UNCHANGED workerVars

\* What run() returned or raised is what the future is settled with.
Finish ==
  /\ stage = "idle"
  /\ W!Finish
  /\ future'[work] = IF outcome[work] = "ok" THEN "result" ELSE "error"
  /\ UNCHANGED runnerVars

Thread ==
  /\ host \notin Ended
  /\ Take \/ Claim \/ Run \/ Finish
  /\ UNCHANGED <<env, host, overran>>

Executor ==
  /\ host \notin Ended
  /\ R!Executor
  /\ UNCHANGED <<workerVars, env, host, overran>>

-----------------------------------------------------------------------------
(* Shutdown, once the server has let its handlers go.                      *)

Shutdown ==
  /\ host = "serving"
  /\ W!StopCall("lifespan")
  /\ Become("stopping")
  /\ UNCHANGED <<runnerVars, env, overran>>

StopPut ==
  /\ host = "stopping"
  /\ W!StopPut("lifespan")
  /\ UNCHANGED <<runnerVars, env, host, overran>>

StopReturns ==
  /\ host = "stopping"
  /\ W!StopJoin("lifespan")
  /\ Become("closing")
  /\ overran' = (thread # "exited")
  /\ UNCHANGED <<runnerVars, env>>

\* Fault: the runner is closed before the worker has been stopped.
CloseFirst ==
  /\ host \in {"stopping", "closing"}
  /\ R!Close
  /\ Become(IF host = "closing" THEN "exiting" ELSE host)
  /\ UNCHANGED <<workerVars, env, overran>>

Close ==
  /\ host = "closing"
  /\ R!Close
  /\ Become("exiting")
  /\ UNCHANGED <<workerVars, env, overran>>

\* The interpreter joins the threads of every executor, also of one that was
\* shut down without waiting.
Exit ==
  /\ host = "exiting"
  /\ \A t \in Turn : job[t] \notin R!Unfinished
  /\ Become("gone")
  /\ UNCHANGED <<workerVars, runnerVars, env, overran>>

Next ==
  \/ Configure \/ Build \/ StartWorker \/ Serve
  \/ \E t \in Turn : Submit(t)
  \/ Thread \/ Executor
  \/ Shutdown \/ StopPut \/ StopReturns \/ Close \/ Exit

Spec == Init /\ [][Next]_vars

\* The worker's thread goes on, its waits having bounds, and so does the
\* event loop in stop() and close().  Nothing is assumed of the synthesis.
Fairness ==
  /\ WF_vars(Thread)
  /\ WF_vars(StopPut) /\ WF_vars(StopReturns) /\ WF_vars(Close)

FairSpec == Spec /\ Fairness

-----------------------------------------------------------------------------
\* The parts keep their types and the phases their promises: whoever is served
\* has a thread that works for him, built from settings whose timeouts, when
\* they are numbers, fit into a session.
TypeOK ==
  /\ W!TypeOK
  /\ R!TypeOK
  /\ host \in Phases
  /\ overran => host \in AfterStop
  /\ host \in {"serving", "stopping"} =>
       /\ started
       /\ env.queue >= 1
       /\ NaN \notin {env.intent, env.reasoning, env.margin} =>
            env.intent + env.reasoning + env.margin < env.session
  /\ thread = "run" /\ stage # "idle" => turn = work

\* app.py:39: close() takes the executor from a runner nobody uses any more.
\* Unless stop() ran out of time, every accepted turn is then settled, those
\* that ran have their row, and none fails because the process is stopping.
DrainedBeforeClose ==
  /\ ~open => overran \/ (turn = NoTurn /\ thread = "exited" /\ queue = <<>>)
  /\ host \in AfterStop /\ ~overran =>
       \A t \in Turn : call[t] = "accepted" =>
         /\ future[t] \in W!Settled
         /\ future[t] = "result" => rows[t] # {}
         /\ future[t] = "error" => rows[t] # {} \/ outcome[t] = "raised"

\* Shutdown gets past stop() and close(), also with a full queue and with a
\* synthesis that never ends; only the end of the process waits for that one.
ShutdownGetsThrough == host = "stopping" ~> host \in {"exiting", "gone"}
=============================================================================

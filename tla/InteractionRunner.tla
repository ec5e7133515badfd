------------------------- MODULE InteractionRunner -------------------------
(***************************************************************************)
(* InteractionRunner.run on the worker thread: dialogue graph, synthesis,  *)
(* trace, and the translation of every failure into a degraded trace and   *)
(* an InteractionError.  Synthesis runs on the one thread of the runner's  *)
(* own executor and is waited for at most tts_timeout_s; a synthesis that  *)
(* is not done by then goes on behind the next interactions.  close() is   *)
(* called on the event loop's thread when the worker was asked to stop,    *)
(* and comes while an interaction runs when stop() timed out.              *)
(***************************************************************************)
EXTENDS Naturals, FiniteSets

CONSTANTS Turn,         \* interactions, each with its own text to speak
          NoTurn,
          StoreMayFail  \* whether a SQLite write may raise

ASSUME RunnerConstantsOK ==
  /\ NoTurn \notin Turn
  /\ StoreMayFail \in BOOLEAN

VARIABLES
  timed,   \* tts_timeout_s is set, once and for all
  stage,   \* where the worker thread is inside run()
  turn,    \* the interaction it runs
  open,    \* _tts_executor is there
  tracked, \* _tts_future, named by the interaction that submitted it
  job,     \* the executor's job for an interaction's text
  heard,   \* whose text the audio of an interaction says
  outcome, \* how run() ended
  rows     \* trace rows written for it

ttsVars == <<timed, open, tracked, job>>
endVars == <<outcome, rows>>
vars == <<timed, stage, turn, open, tracked, job, heard, outcome, rows>>

Unfinished == {"queued", "running"}

TypeOK ==
  /\ timed \in BOOLEAN
  /\ stage \in {"idle", "graph", "tts", "wait", "inline", "audio", "save",
                "degrade"}
  /\ turn \in Turn \cup {NoTurn}
  /\ open \in BOOLEAN
  /\ tracked \in Turn \cup {NoTurn}
  /\ job \in [Turn -> Unfinished \cup {"none", "done", "failed", "cancelled"}]
  /\ heard \in [Turn -> Turn \cup {NoTurn}]
  /\ outcome \in [Turn -> {"none", "ok", "error", "raised"}]
  /\ rows \in [Turn -> SUBSET {"full", "tts_timeout", "pipeline_failure"}]
  /\ stage = "idle" <=> turn = NoTurn
  /\ stage = "wait" => tracked = turn

Init ==
  /\ timed \in BOOLEAN
  /\ stage = "idle"
  /\ turn = NoTurn
  /\ open = timed
  /\ tracked = NoTurn
  /\ job = [t \in Turn |-> "none"]
  /\ heard = [t \in Turn |-> NoTurn]
  /\ outcome = [t \in Turn |-> "none"]
  /\ rows = [t \in Turn |-> {}]

-----------------------------------------------------------------------------
(* run(), up to the audio.                                                 *)

Advance(s) == stage' = s

\* An exception reaches the except clause of run().  Every class of exception
\* ends there alike: the map it is looked up in requires a trace for each, and
\* only names the stage and wire code.
Fail == Advance("degrade")

Begin(t) ==
  /\ stage = "idle"
  /\ outcome[t] = "none"
  /\ turn' = t
  /\ Advance("graph")
  /\ UNCHANGED <<ttsVars, heard, endVars>>

\* invoke_dialogue, and the checks that its state has a payload and a trace.
Graph ==
  /\ stage = "graph"
  /\ \/ Advance("tts")
     \/ Fail
  /\ UNCHANGED <<turn, ttsVars, heard, endVars>>

\* Without a timeout the adapter is called on the worker thread itself.
SynthesizeInline ==
  /\ stage = "tts"
  /\ ~timed
  /\ Advance("inline")
  /\ UNCHANGED <<turn, ttsVars, heard, endVars>>

InlineDone ==
  /\ stage = "inline"
  /\ \/ /\ Advance("audio")
        /\ heard' = [heard EXCEPT ![turn] = turn]
     \/ /\ Fail
        /\ UNCHANGED heard
  /\ UNCHANGED <<turn, ttsVars, endVars>>

\* close() came first: the assertion on the executor fails.
SynthesizeClosed ==
  /\ stage = "tts"
  /\ timed
  /\ ~open
  /\ Fail
  /\ UNCHANGED <<turn, ttsVars, heard, endVars>>

Busy == tracked # NoTurn /\ job[tracked] \in Unfinished

\* An earlier synthesis is still going on: no second one beside it.
SynthesizeBusy ==
  /\ stage = "tts"
  /\ timed
  /\ open
  /\ Busy
  /\ Advance("save")
  /\ UNCHANGED <<turn, ttsVars, heard, endVars>>

Enqueue ==
  /\ stage = "tts"
  /\ timed
  /\ open
  /\ job' = [job EXCEPT ![turn] = "queued"]
  /\ tracked' = turn
  /\ Advance("wait")
  /\ UNCHANGED <<turn, timed, open, heard, endVars>>

\* Fault: a timed-out synthesis is forgotten, not waited out.
SynthesizeAnyway == Enqueue

\* Fault: a finished synthesis nobody fetched is taken for this one.
SynthesizeReuse ==
  \/ tracked = NoTurn /\ Enqueue
  \/ /\ stage = "tts"
     /\ timed
     /\ open
     /\ tracked # NoTurn
     /\ ~Busy
     /\ Advance("wait")
     /\ UNCHANGED <<turn, ttsVars, heard, endVars>>

Synthesize == ~Busy /\ Enqueue

\* The future this call waits for: the one it submitted, which stays the
\* tracked one meanwhile (TypeOK).
Awaited == job[tracked]

Forget == tracked' = NoTurn

\* future.result() returns, or raises what the job raised.
AwaitDone ==
  /\ stage = "wait"
  /\ Awaited \notin Unfinished
  /\ IF Awaited = "done"
     THEN Advance("audio") /\ heard' = [heard EXCEPT ![turn] = tracked]
     ELSE Fail /\ UNCHANGED heard
  /\ Forget
  /\ UNCHANGED <<turn, timed, open, job, endVars>>

\* Fault: the wait has no bound.
AwaitForever == FALSE /\ UNCHANGED vars

\* tts_timeout_s elapses first.  The future stays tracked, unless it is done
\* by the time the finally clause looks.
AwaitTimeout ==
  /\ stage = "wait"
  /\ Advance("save")
  /\ IF Awaited \in Unfinished THEN UNCHANGED tracked ELSE Forget
  /\ UNCHANGED <<turn, timed, open, job, heard, endVars>>

Resample ==
  /\ stage = "audio"
  /\ \/ Advance("save") /\ UNCHANGED heard
     \/ /\ Fail
        /\ heard' = [heard EXCEPT ![turn] = NoTurn]
  /\ UNCHANGED <<turn, ttsVars, endVars>>

-----------------------------------------------------------------------------
(* The trace and the way out of run().                                     *)

Return(how, row) ==
  /\ outcome' = [outcome EXCEPT ![turn] = how]
  /\ rows' = [rows EXCEPT ![turn] = @ \cup row]
  /\ stage' = "idle"
  /\ turn' = NoTurn

\* The row says how the turn went for the user: without audio it is degraded.
TraceRow == IF heard[turn] = NoTurn THEN "tts_timeout" ELSE "full"

\* Fault: the reason the audio is missing is not carried into the trace.
SaveTraceUndegraded ==
  /\ stage = "save"
  /\ Return("ok", {"full"})
  /\ UNCHANGED <<ttsVars, heard>>

\* The record is validated, then ensure_user and save_decision_trace are a
\* transaction each: the row is there only when the last of them succeeded.
SaveTrace ==
  /\ stage = "save"
  /\ \/ /\ Return("ok", {TraceRow})
        /\ UNCHANGED heard
     \/ /\ Fail
        /\ heard' = [heard EXCEPT ![turn] = NoTurn]
        /\ UNCHANGED <<turn, endVars>>
  /\ UNCHANGED ttsVars

\* Fault: the failure is translated, its trace forgotten.
DegradeUntraced ==
  /\ stage = "degrade"
  /\ Return("error", {})
  /\ UNCHANGED <<ttsVars, heard>>

\* When the degraded row cannot be written either, the store's exception
\* leaves run() as it is.
Degrade ==
  /\ stage = "degrade"
  /\ \/ Return("error", {"pipeline_failure"})
     \/ StoreMayFail /\ Return("raised", {})
  /\ UNCHANGED <<ttsVars, heard>>

-----------------------------------------------------------------------------
(* The executor's thread, and shutdown.                                    *)

JobStart(t) ==
  /\ job[t] = "queued"
  /\ \A u \in Turn : job[u] # "running"
  /\ job' = [job EXCEPT ![t] = "running"]
  /\ UNCHANGED <<stage, turn, timed, open, tracked, heard, endVars>>

JobEnd(t) ==
  /\ job[t] = "running"
  /\ \E end \in {"done", "failed"} : job' = [job EXCEPT ![t] = end]
  /\ UNCHANGED <<stage, turn, timed, open, tracked, heard, endVars>>

Cancelled == [t \in Turn |-> IF job[t] = "queued" THEN "cancelled" ELSE job[t]]

\* shutdown(wait=False, cancel_futures=True): the running synthesis goes on.
Close ==
  /\ open
  /\ open' = FALSE
  /\ job' = Cancelled
  /\ UNCHANGED <<stage, turn, timed, tracked, heard, endVars>>

-----------------------------------------------------------------------------
Run ==
  \/ Graph \/ SynthesizeInline \/ SynthesizeClosed \/ SynthesizeBusy
  \/ Synthesize \/ AwaitDone \/ AwaitTimeout \/ Resample
  \/ SaveTrace \/ Degrade

Executor == \E t \in Turn : JobStart(t) \/ JobEnd(t)

Next == (\E t \in Turn : Begin(t)) \/ Run \/ InlineDone \/ Executor \/ Close

Spec == Init /\ [][Next]_vars

\* The worker thread goes on: the graph's adapters have timeouts of their own
\* (Ollama) or compute (Whisper), and tts_timeout_s elapses.  Nothing is
\* assumed of the synthesis: Piper may hang for good.
FairSpec == Spec /\ WF_vars(Run)

-----------------------------------------------------------------------------
\* Piper is never entered twice at once, nor a second text put behind a stuck
\* one: at most one synthesis is unfinished, however many turns timed out.
OneSynthesis == Cardinality({t \in Turn : job[t] \in Unfinished}) <= 1

\* Late audio of a turn that timed out is never spoken as another turn's
\* answer.
OwnAudio == \A t \in Turn : heard[t] \in {t, NoTurn}

\* The trace tells the truth: a turn answered with audio has one undegraded
\* row, one answered in text only a tts_timeout row, a failed one a
\* pipeline_failure row, and none has two rows or none unless the store failed.
TraceTellsOutcome ==
  \A t \in Turn :
    CASE outcome[t] = "ok" ->
           rows[t] = {IF heard[t] = t THEN "full" ELSE "tts_timeout"}
      [] outcome[t] = "error" -> rows[t] = {"pipeline_failure"}
      [] OTHER -> rows[t] = {}

\* A stuck synthesis holds up no turn: with a timeout each one ends,
\* although nothing makes the synthesis end.
TurnEnds == \A t \in Turn : timed /\ turn = t ~> outcome[t] # "none"

\* interaction.py:213: all graph, adapter and runner-stage failures leave
\* run() as an InteractionError.
FailuresTranslated == \A t \in Turn : outcome[t] # "raised"

-----------------------------------------------------------------------------
(* What StreamSession takes run() to be: one step that writes a row and    *)
(* answers, or raises without one.                                         *)

Promise == INSTANCE RunPromise
  WITH busy <- turn, done <- outcome,
       traced <- {t \in Turn : rows[t] # {}}

PromiseSpec == Promise!Spec
=============================================================================

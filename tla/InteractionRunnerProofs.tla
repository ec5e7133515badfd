---------------------- MODULE InteractionRunnerProofs ----------------------
(***************************************************************************)
(* The safety properties of InteractionRunner for every set of turns, with *)
(* and without a TTS timeout, with a store that may or may not fail, and   *)
(* with close() at any moment.                                             *)
(***************************************************************************)
EXTENDS InteractionRunner, FiniteSetTheorems, TLAPS

-----------------------------------------------------------------------------
(* Types.                                                                  *)

\* Every action keeps the types.
LEMMA TypeStep == ASSUME TypeOK, [Next]_vars PROVE TypeOK'
  <1> USE RunnerConstantsOK
      DEF TypeOK, Unfinished, ttsVars, endVars, Advance, Fail
  <1>1. ASSUME NEW t \in Turn, Begin(t) PROVE TypeOK'
    BY <1>1 DEF Begin
  <1>2. CASE Graph \/ SynthesizeInline \/ SynthesizeClosed \/ SynthesizeBusy
    BY <1>2 DEF Graph, SynthesizeInline, SynthesizeClosed, SynthesizeBusy
  <1>3. CASE Synthesize
    BY <1>3 DEF Synthesize, Enqueue
  <1>4. CASE InlineDone
    BY <1>4 DEF InlineDone
  <1>5. CASE AwaitDone
    BY <1>5 DEF AwaitDone, Forget
  <1>6. CASE AwaitTimeout
    BY <1>6 DEF AwaitTimeout, Forget
  <1>7. CASE Resample
    BY <1>7 DEF Resample
  <1>8. CASE SaveTrace
    BY <1>8 DEF SaveTrace, Return, TraceRow
  <1>9. CASE Degrade
    BY <1>9 DEF Degrade, Return
  <1>10. CASE Executor
    BY <1>10 DEF Executor, JobStart, JobEnd
  <1>11. CASE Close
    BY <1>11 DEF Close, Cancelled
  <1>12. CASE UNCHANGED vars
    BY <1>12 DEF vars
  <1>13. QED
    BY <1>1, <1>2, <1>3, <1>4, <1>5, <1>6, <1>7, <1>8, <1>9, <1>10, <1>11,
       <1>12 DEF Next, Run

\* run() is in one stage with one turn, and what it waits for is what it
\* submitted.
THEOREM TypeCorrect == Spec => []TypeOK
  <1>1. Init => TypeOK
    BY RunnerConstantsOK DEF Init, TypeOK, Unfinished
  <1>2. QED
    BY <1>1, TypeStep, PTL DEF Spec

-----------------------------------------------------------------------------
(* The executor.                                                           *)

\* The strengthening of OneSynthesis: only the tracked future, if any, is
\* unfinished.  Nothing else would tell _synthesize that the executor's thread
\* is taken.
OnlyTracked == \A t \in Turn : job[t] \in Unfinished => tracked = t

\* The one unfinished synthesis stays the tracked one.
LEMMA TrackedStep == ASSUME TypeOK, OnlyTracked, [Next]_vars PROVE OnlyTracked'
  <1> USE RunnerConstantsOK DEF TypeOK, OnlyTracked, Unfinished, ttsVars
  <1>1. CASE Synthesize
    BY <1>1 DEF Synthesize, Busy, Enqueue
  <1>2. CASE AwaitDone
    BY <1>2 DEF AwaitDone, Awaited, Forget
  <1>3. CASE AwaitTimeout
    BY <1>3 DEF AwaitTimeout, Awaited, Forget
  <1>4. CASE Executor
    BY <1>4 DEF Executor, JobStart, JobEnd
  <1>5. CASE Close
    BY <1>5 DEF Close, Cancelled
  <1>6. CASE UNCHANGED <<tracked, job>>
    BY <1>6
  <1>7. QED
    BY <1>1, <1>2, <1>3, <1>4, <1>5, <1>6
    DEF Next, Run, vars, Begin, Graph, SynthesizeInline, SynthesizeClosed,
        SynthesizeBusy, InlineDone, Resample, SaveTrace, Degrade

\* However many turns time out on a stuck Piper, no second synthesis is begun
\* or queued behind it.
THEOREM PiperAlone == Spec => []OneSynthesis
  <1>1. Init => OnlyTracked
    BY DEF Init, OnlyTracked, Unfinished
  <1>2. TypeOK /\ OnlyTracked => OneSynthesis
    <2> SUFFICES ASSUME OnlyTracked PROVE OneSynthesis
      OBVIOUS
    <2> DEFINE U == {t \in Turn : job[t] \in Unfinished}
    <2>1. U \subseteq {tracked}
      BY DEF OnlyTracked
    <2>2. IsFiniteSet({tracked}) /\ Cardinality({tracked}) = 1
      BY FS_Singleton
    <2>3. Cardinality(U) <= 1
      BY <2>1, <2>2, FS_Subset
    <2>4. QED
      BY <2>3 DEF OneSynthesis
  <1>3. QED
    BY <1>1, <1>2, TrackedStep, TypeCorrect, PTL DEF Spec

\* What is heard as the answer of a turn is the text of that turn, although
\* late syntheses of others may finish at any time.
THEOREM NoForeignAudio == Spec => []OwnAudio
  <1>1. Init => OwnAudio
    BY DEF Init, OwnAudio
  <1>2. ASSUME TypeOK, OwnAudio, [Next]_vars PROVE OwnAudio'
    <2> USE DEF TypeOK, OwnAudio
    <2>1. CASE AwaitDone
      BY <1>2, <2>1 DEF AwaitDone
    <2>2. CASE InlineDone
      BY <1>2, <2>2 DEF InlineDone
    <2>3. CASE heard' \in {heard, [heard EXCEPT ![turn] = NoTurn]}
      BY <1>2, <2>3
    <2>4. QED
      BY <1>2, <2>1, <2>2, <2>3
      DEF Next, Run, vars, Begin, Graph, SynthesizeInline, SynthesizeClosed,
          SynthesizeBusy, Synthesize, Enqueue, AwaitTimeout, Resample,
          SaveTrace, Degrade, Executor, JobStart, JobEnd, Close
  <1>3. QED
    BY <1>1, <1>2, TypeCorrect, PTL DEF Spec

-----------------------------------------------------------------------------
(* Row and outcome.                                                        *)

\* The strengthening of TraceTellsOutcome: the turn that runs has ended in no
\* way yet, so that nothing is added to the row of one that has.
TraceInv ==
  /\ TraceTellsOutcome
  /\ turn # NoTurn => outcome[turn] = "none"

\* The row and the outcome stay in agreement along every step.
LEMMA TraceStep ==
  ASSUME TypeOK, OwnAudio, TraceInv, [Next]_vars PROVE TraceInv'
  <1> USE RunnerConstantsOK DEF TypeOK, TraceInv, TraceTellsOutcome, endVars
  <1>1. ASSUME NEW t \in Turn, Begin(t) PROVE TraceInv'
    BY <1>1 DEF Begin
  <1>2. CASE /\ UNCHANGED <<turn, outcome, rows>>
             /\ \A t \in Turn : t # turn => heard'[t] = heard[t]
    BY <1>2
  <1>3. CASE SaveTrace /\ outcome' # outcome
    <2>1. /\ turn \in Turn /\ turn' = NoTurn /\ heard' = heard
          /\ outcome' = [outcome EXCEPT ![turn] = "ok"]
          /\ rows' = [rows EXCEPT ![turn] = @ \cup {TraceRow}]
      BY <1>3 DEF SaveTrace, Return
    <2>2. rows[turn] = {}
      BY <2>1
    <2>3. heard[turn] = NoTurn <=> heard[turn] # turn
      BY <2>1 DEF OwnAudio
    <2>4. rows'[turn] = {IF heard[turn] = turn THEN "full" ELSE "tts_timeout"}
      BY <2>1, <2>2, <2>3 DEF TraceRow
    <2>5. QED
      BY <2>1, <2>4
  <1>4. CASE Degrade
    BY <1>4 DEF Degrade, Return, ttsVars
  <1>5. QED
    BY <1>1, <1>2, <1>3, <1>4
    DEF Next, Run, vars, Graph, SynthesizeInline, SynthesizeClosed,
        SynthesizeBusy, Synthesize, Enqueue, AwaitDone, AwaitTimeout,
        InlineDone, Resample, SaveTrace, Return, Executor, JobStart, JobEnd,
        Close

\* They agree at every step.
LEMMA TraceAlways == Spec => []TraceInv
  <1>1. Init => TraceInv
    BY DEF Init, TraceInv, TraceTellsOutcome
  <1>2. QED
    BY <1>1, TraceStep, TypeCorrect, NoForeignAudio, PTL DEF Spec

\* Whatever fails, and wherever, a turn leaves the one row that says how it
\* ended for the user.
THEOREM TruthfulTrace == Spec => []TraceTellsOutcome
  BY TraceAlways, PTL DEF TraceInv

-----------------------------------------------------------------------------
(* The promise made to the worker and to the stream sessions.              *)

Traced == {t \in Turn : rows[t] # {}}

\* A turn with stages, an executor and a trace is the turn of one step.
THEOREM KeepsPromise == Spec => PromiseSpec
  <1>1. Init => Promise!Init
    BY DEF Init, Promise!Init
  <1>2. ASSUME TypeOK, TraceInv, [Next]_vars
        PROVE  [Promise!Next]_(Promise!vars)
    <2> USE RunnerConstantsOK DEF TypeOK, Promise!Next, Promise!vars
    <2>1. ASSUME NEW t \in Turn, Begin(t) PROVE Promise!Begin(t)
      BY <1>2, <2>1 DEF Begin, Promise!Begin, endVars
    <2>2. ASSUME NEW t \in Turn, turn = t, turn' = NoTurn,
                 NEW how \in {"ok", "error"}, NEW row,
                 outcome' = [outcome EXCEPT ![t] = how],
                 rows' = [rows EXCEPT ![t] = @ \cup {row}]
          PROVE  Promise!End(t)
      <3>1. Traced' = Traced \cup {t}
        BY <1>2, <2>2 DEF Traced
      <3>2. QED
        BY <2>2, <3>1 DEF Promise!End, Traced
    <2>3. ASSUME NEW t \in Turn, turn = t, turn' = NoTurn, StoreMayFail,
                 outcome' = [outcome EXCEPT ![t] = "raised"],
                 rows' = [rows EXCEPT ![t] = @ \cup {}]
          PROVE  Promise!End(t)
      <3>1. Traced' = Traced
        BY <1>2, <2>3 DEF Traced
      <3>2. QED
        BY <2>3, <3>1 DEF Promise!End, Traced
    <2>4. ASSUME SaveTrace \/ Degrade, turn' # turn PROVE Promise!Next
      <3>1. PICK t \in Turn : turn = t
        BY <1>2, <2>4 DEF SaveTrace, Degrade
      <3>2. CASE Return("ok", {TraceRow})
        BY <2>2, <3>1, <3>2 DEF Return
      <3>3. CASE Return("error", {"pipeline_failure"})
        BY <2>2, <3>1, <3>3 DEF Return
      <3>4. CASE StoreMayFail /\ Return("raised", {})
        BY <2>3, <3>1, <3>4 DEF Return
      <3>5. QED
        BY <2>4, <3>2, <3>3, <3>4 DEF SaveTrace, Degrade
    <2>5. CASE SaveTrace \/ Degrade
      BY <1>2, <2>4, <2>5 DEF SaveTrace, Degrade, Return, endVars
    <2>6. CASE UNCHANGED <<turn, outcome, rows>>
      BY <2>6
    <2>7. QED
      BY <1>2, <2>1, <2>5, <2>6
      DEF Next, Run, vars, endVars, Graph, SynthesizeInline, SynthesizeClosed,
          SynthesizeBusy, Synthesize, Enqueue, AwaitDone, AwaitTimeout,
          InlineDone, Resample, Executor, JobStart, JobEnd, Close
  <1>3. QED
    BY <1>1, <1>2, TypeCorrect, TraceAlways, PTL
    DEF Spec, PromiseSpec, Promise!Spec
=============================================================================

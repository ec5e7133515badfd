------------------------- MODULE InteractionWorker -------------------------
(***************************************************************************)
(* InteractionWorker: callers put work items into a bounded queue, one     *)
(* thread takes them out, runs them and settles their futures, and stop()  *)
(* ends the thread with a sentinel behind the work already queued.         *)
(*                                                                         *)
(* submit() is two steps, the test of _accepting and the put, because      *)
(* nothing in the class makes them one.  OneThread says that submit() and  *)
(* stop() are called from the same thread, as they are in this program     *)
(* (the event loop), so that neither runs inside the other.                *)
(***************************************************************************)
EXTENDS Naturals, Sequences, FiniteSets

CONSTANTS Task,             \* submissions
          Stopper,          \* calls of stop()
          NoTask, Sentinel, \* nothing in work; _SENTINEL
          MaxSize,          \* maxsize of the queue
          OneThread,        \* submit() and stop() share a thread
          Timed             \* the calls of stop() that are given a timeout

ASSUME WorkerConstantsOK ==
  /\ {NoTask, Sentinel} \cap Task = {}
  /\ NoTask # Sentinel
  /\ MaxSize \in Nat \ {0}
  /\ OneThread \in BOOLEAN
  /\ Timed \subseteq Stopper

VARIABLES
  accepting, \* _accepting
  started,   \* _started
  queue,     \* _queue
  thread,    \* where the worker thread is
  work,      \* the item it holds
  call,      \* progress of each submit()
  future,    \* the Future of each item
  stop       \* progress of each stop()

vars == <<accepting, started, queue, thread, work, call, future, stop>>

Settled == {"cancelled", "result", "error"}

TypeOK ==
  /\ accepting \in BOOLEAN
  /\ started \in BOOLEAN
  /\ queue \in Seq(Task \cup {Sentinel})
  /\ Len(queue) <= MaxSize
  /\ thread \in {"none", "get", "got", "run", "exited", "crashed"}
  /\ work \in Task \cup {NoTask}
  /\ call \in [Task -> {"new", "checked", "accepted", "full", "stopped"}]
  /\ future \in [Task -> Settled \cup {"none", "pending", "running"}]
  /\ stop \in [Stopper -> {"new", "putting", "joining", "returned"}]

Init ==
  /\ accepting = TRUE
  /\ started = FALSE
  /\ queue = <<>>
  /\ thread = "none"
  /\ work = NoTask
  /\ call = [t \in Task |-> "new"]
  /\ future = [t \in Task |-> "none"]
  /\ stop = [p \in Stopper |-> "new"]

-----------------------------------------------------------------------------
(* The callers.                                                            *)

\* Whether a call of submit() or of stop() can begin or go on when a stop()
\* may have to finish first.
Stopping == \E p \in Stopper : stop[p] \in {"putting", "joining"}
Submitting == \E t \in Task : call[t] = "checked"

Start ==
  /\ ~started
  /\ started' = TRUE
  /\ thread' = "get"
  /\ UNCHANGED <<accepting, queue, work, call, future, stop>>

SubmitCheck(t) ==
  /\ call[t] = "new"
  /\ OneThread => ~Stopping /\ ~Submitting
  /\ call' = [call EXCEPT ![t] = IF accepting THEN "checked" ELSE "stopped"]
  /\ UNCHANGED <<accepting, started, queue, thread, work, future, stop>>

\* Fault: one item too many.
SubmitPutBeyond(t) ==
  /\ call[t] = "checked"
  /\ Len(queue) <= MaxSize
  /\ queue' = Append(queue, t)
  /\ call' = [call EXCEPT ![t] = "accepted"]
  /\ future' = [future EXCEPT ![t] = "pending"]
  /\ UNCHANGED <<accepting, started, thread, work, stop>>

SubmitPut(t) ==
  /\ call[t] = "checked"
  /\ IF Len(queue) < MaxSize
     THEN /\ queue' = Append(queue, t)
          /\ call' = [call EXCEPT ![t] = "accepted"]
          /\ future' = [future EXCEPT ![t] = "pending"]
     ELSE /\ call' = [call EXCEPT ![t] = "full"]
          /\ UNCHANGED <<queue, future>>
  /\ UNCHANGED <<accepting, started, thread, work, stop>>

\* Future.cancel(), also through wrap_future when the awaiting task is
\* cancelled: without effect once the item is being run.
Cancel(t) ==
  /\ call[t] = "accepted"
  /\ future[t] = "pending"
  /\ future' = [future EXCEPT ![t] = "cancelled"]
  /\ UNCHANGED <<accepting, started, queue, thread, work, call, stop>>

\* Fault: stop() does not turn new submissions away.
StopCallAccepting(p) ==
  /\ stop[p] = "new"
  /\ OneThread => ~Stopping /\ ~Submitting
  /\ stop' = [stop EXCEPT ![p] = IF started THEN "putting" ELSE "returned"]
  /\ UNCHANGED <<accepting, started, queue, thread, work, call, future>>

StopCall(p) ==
  /\ stop[p] = "new"
  /\ OneThread => ~Stopping /\ ~Submitting
  /\ accepting' = FALSE
  /\ stop' = [stop EXCEPT ![p] = IF started THEN "putting" ELSE "returned"]
  /\ UNCHANGED <<started, queue, thread, work, call, future>>

\* The put of the sentinel waits for room, however long that takes: the
\* timeout is only given to join().
StopPut(p) ==
  /\ stop[p] = "putting"
  /\ Len(queue) < MaxSize
  /\ queue' = Append(queue, Sentinel)
  /\ stop' = [stop EXCEPT ![p] = "joining"]
  /\ UNCHANGED <<accepting, started, thread, work, call, future>>

StopJoin(p) ==
  /\ stop[p] = "joining"
  /\ p \in Timed \/ thread \in {"exited", "crashed"}
  /\ stop' = [stop EXCEPT ![p] = "returned"]
  /\ UNCHANGED <<accepting, started, queue, thread, work, call, future>>

-----------------------------------------------------------------------------
(* The worker thread.                                                      *)

Take(item) ==
  IF item = Sentinel
  THEN thread' = "exited" /\ work' = NoTask
  ELSE thread' = "got" /\ work' = item

\* Fault: a last-in first-out queue.
GetLast ==
  /\ thread = "get"
  /\ queue # <<>>
  /\ queue' = SubSeq(queue, 1, Len(queue) - 1)
  /\ Take(queue[Len(queue)])
  /\ UNCHANGED <<accepting, started, call, future, stop>>

\* Fault: the sentinel is passed over.
GetPastSentinel ==
  /\ thread = "get"
  /\ queue # <<>>
  /\ queue' = Tail(queue)
  /\ IF Head(queue) = Sentinel THEN UNCHANGED <<thread, work>>
     ELSE Take(Head(queue))
  /\ UNCHANGED <<accepting, started, call, future, stop>>

Get ==
  /\ thread = "get"
  /\ queue # <<>>
  /\ queue' = Tail(queue)
  /\ Take(Head(queue))
  /\ UNCHANGED <<accepting, started, call, future, stop>>

\* Fault: set_running_or_notify_cancel is left out.
ClaimUnasked ==
  /\ thread = "got"
  /\ thread' = "run"
  /\ UNCHANGED <<accepting, started, queue, work, call, future, stop>>

\* set_running_or_notify_cancel: a cancelled item is not run.
Claim ==
  /\ thread = "got"
  /\ IF future[work] = "cancelled"
     THEN /\ thread' = "get"
          /\ work' = NoTask
          /\ UNCHANGED future
     ELSE /\ thread' = "run"
          /\ future' = [future EXCEPT ![work] = "running"]
          /\ UNCHANGED work
  /\ UNCHANGED <<accepting, started, queue, call, stop>>

\* set_result and set_exception raise InvalidStateError on a future that is
\* settled already, and nothing in _run would catch it.
Settle(outcome) ==
  IF future[work] \in Settled
  THEN thread' = "crashed" /\ UNCHANGED future
  ELSE thread' = "get" /\ future' = [future EXCEPT ![work] = outcome]

\* Fault: only Exception is caught, so a BaseException ends the thread.
FinishExceptionOnly ==
  /\ thread = "run"
  /\ \/ Settle("result")
     \/ Settle("error")
     \/ thread' = "crashed" /\ UNCHANGED future
  /\ work' = NoTask
  /\ UNCHANGED <<accepting, started, queue, call, stop>>

\* The runner returned or raised, whatever it raised.
Finish ==
  /\ thread = "run"
  /\ Settle("result") \/ Settle("error")
  /\ work' = NoTask
  /\ UNCHANGED <<accepting, started, queue, call, stop>>

-----------------------------------------------------------------------------
Thread == Get \/ Claim \/ Finish

Next ==
  \/ Start
  \/ \E t \in Task : SubmitCheck(t) \/ SubmitPut(t) \/ Cancel(t)
  \/ \E p \in Stopper : StopCall(p) \/ StopPut(p) \/ StopJoin(p)
  \/ Thread

Spec == Init /\ [][Next]_vars

\* The lifespan starts the thread, and the thread runs as long as the runner
\* returns, which TurnEnds of InteractionRunner is about; a stop() that
\* was called goes on once it can.
Fairness ==
  /\ WF_vars(Start)
  /\ WF_vars(Thread)
  /\ \A p \in Stopper : WF_vars(StopPut(p)) /\ WF_vars(StopJoin(p))

FairSpec == Spec /\ Fairness

-----------------------------------------------------------------------------
\* worker.py:183-186: no interaction, failed, cancelled or cancelled in the
\* middle of its run, kills the thread and strands the items behind it.
ThreadSurvives ==
  /\ thread # "crashed"
  /\ thread = "exited" => ~accepting

\* worker.py:73-78, 156-159: submit() hands back a future its caller can wait
\* on; when the thread has ended, every future it handed out is settled, so
\* nobody waits for an item left in the queue.
NobodyStranded ==
  thread \in {"exited", "crashed"} =>
    \A t \in Task : call[t] = "accepted" => future[t] \in Settled

\* Every accepted interaction is settled in the end, whether or not the
\* process is being stopped meanwhile.
AcceptedSettles == \A t \in Task : call[t] = "accepted" ~> future[t] \in Settled

\* stop() comes back, also when the queue is full at the moment it is called.
StopReturns == \A p \in Stopper : stop[p] = "putting" ~> stop[p] = "returned"

-----------------------------------------------------------------------------
\* How many of these items the thread comes to before it comes to a sentinel.
Ahead(items) == CHOOSE n \in 0..Len(items) :
                  /\ \A i \in 1..n : items[i] # Sentinel
                  /\ n = Len(items) \/ items[n + 1] = Sentinel

\* An item the thread has taken but not claimed is still first in line.
Line == (IF thread = "got" THEN <<work>> ELSE <<>>)
        \o SubSeq(queue, 1, Ahead(queue))

Service == INSTANCE SerialService
  WITH line <- Line,
       serving <- IF thread = "run" THEN work ELSE NoTask,
       fate <- future

ServiceSpec == Service!Spec
=============================================================================

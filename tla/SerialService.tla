--------------------------- MODULE SerialService ---------------------------
(***************************************************************************)
(* What InteractionWorker promises its callers: an accepted interaction    *)
(* stands in line, the line is served in order and one at a time, and each *)
(* accepted interaction is answered exactly once unless its caller         *)
(* cancelled it before its turn.                                           *)
(***************************************************************************)
EXTENDS Naturals, Sequences

CONSTANTS Task, NoTask

VARIABLES line,    \* accepted and not begun, oldest first
          serving, \* the one being run
          fate     \* what became of each task

vars == <<line, serving, fate>>

Init ==
  /\ line = <<>>
  /\ serving = NoTask
  /\ fate = [t \in Task |-> "none"]

Join(t) ==
  /\ fate[t] = "none"
  /\ fate' = [fate EXCEPT ![t] = "pending"]
  /\ line' = Append(line, t)
  /\ UNCHANGED serving

Withdraw(t) ==
  /\ fate[t] = "pending"
  /\ fate' = [fate EXCEPT ![t] = "cancelled"]
  /\ UNCHANGED <<line, serving>>

\* The head of the line: run it, or pass over it when it was withdrawn.
Serve ==
  /\ serving = NoTask
  /\ line # <<>>
  /\ line' = Tail(line)
  /\ IF fate[Head(line)] = "cancelled"
     THEN UNCHANGED <<serving, fate>>
     ELSE /\ serving' = Head(line)
          /\ fate' = [fate EXCEPT ![Head(line)] = "running"]

Answer ==
  /\ serving # NoTask
  /\ \E answer \in {"result", "error"} :
       fate' = [fate EXCEPT ![serving] = answer]
  /\ serving' = NoTask
  /\ UNCHANGED line

Next == (\E t \in Task : Join(t) \/ Withdraw(t)) \/ Serve \/ Answer

Spec == Init /\ [][Next]_vars
=============================================================================

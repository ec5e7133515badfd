----------------------------- MODULE RunPromise -----------------------------
(***************************************************************************)
(* run() as its caller sees it, and as StreamSession models it: turns are  *)
(* run one at a time, and a turn ends with a trace row and an answer or an *)
(* error, or, only when the store fails, with a raw exception and no row.  *)
(***************************************************************************)
CONSTANTS Turn, NoTurn, StoreMayFail

VARIABLES busy, done, traced

vars == <<busy, done, traced>>

Init ==
  /\ busy = NoTurn
  /\ done = [t \in Turn |-> "none"]
  /\ traced = {}

Begin(t) ==
  /\ busy = NoTurn
  /\ done[t] = "none"
  /\ busy' = t
  /\ UNCHANGED <<done, traced>>

End(t) ==
  /\ busy = t
  /\ busy' = NoTurn
  /\ \/ /\ \E how \in {"ok", "error"} : done' = [done EXCEPT ![t] = how]
        /\ traced' = traced \cup {t}
     \/ /\ StoreMayFail
        /\ done' = [done EXCEPT ![t] = "raised"]
        /\ UNCHANGED traced

Next == \E t \in Turn : Begin(t) \/ End(t)

Spec == Init /\ [][Next]_vars
=============================================================================

--------------------------- MODULE IngressLedger ---------------------------
(***************************************************************************)
(* What a connector may rely on, as if there were no transactions, locks   *)
(* and crashes: a delivery takes effect at once or not at all, entering    *)
(* its task if the key is new and itself in the log, and is answered, if   *)
(* at all, after that and by what the log says of it.                      *)
(***************************************************************************)
CONSTANTS Request, Key, SourceOf(_)

VARIABLES tasks, log, status

vars == <<tasks, log, status>>

Init ==
  /\ tasks = {}
  /\ log = {}
  /\ status = [r \in Request |-> "none"]

Entry(r, k, outcome, id) ==
  [request |-> r, key |-> k, outcome |-> outcome, task |-> id]

Create(r, k) ==
  /\ \A task \in tasks : task.key # k
  /\ tasks' = tasks \cup {[id |-> r, key |-> k, by |-> SourceOf(k)]}
  /\ log' = log \cup {Entry(r, k, "created", r)}

Repeat(r, k) ==
  /\ \E task \in tasks :
       task.key = k /\ log' = log \cup {Entry(r, k, "duplicate", task.id)}
  /\ UNCHANGED tasks

Deliver(r, k) ==
  /\ \A entry \in log : entry.request # r
  /\ Create(r, k) \/ Repeat(r, k)
  /\ UNCHANGED status

Answer(r) ==
  /\ status[r] = "none"
  /\ \E entry \in log :
       /\ entry.request = r
       /\ status' = [status EXCEPT
                       ![r] = IF entry.outcome = "created" THEN "201" ELSE "200"]
  /\ UNCHANGED <<tasks, log>>

Next == \E r \in Request : Answer(r) \/ \E k \in Key : Deliver(r, k)

Spec == Init /\ [][Next]_vars
=============================================================================

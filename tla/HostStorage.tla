---------------------------- MODULE HostStorage ----------------------------
(***************************************************************************)
(* The database file over the life of the host: opened and upgraded by the *)
(* host and by a tool beside it, written to by the event loop (ingress)    *)
(* and by the worker thread (a degraded trace, whose NULLs an old table    *)
(* refuses), through crashes and restarts of either process.               *)
(***************************************************************************)
EXTENDS SchemaMigration, TaskIngress

CONSTANTS NullRow,  \* the rows the worker writes
          MaxCrash  \* bound on crashes

ASSUME StorageConstantsOK ==
  /\ MaxCrash \in Nat
  /\ Starter = {"loop", "tool"}
  /\ NoOne \notin {"loop", "worker", "tool"}

VARIABLES saving,  \* the row the worker is writing
          saved,   \* rows of decision_trace that were committed
          crashes

workerVars == <<saving, saved>>
vars == <<dbVars, start, ingressVars, workerVars, crashes>>

Up == start["loop"] = "up"

\* The write lock is held by a thread that is inside a transaction, and only
\* a host that is up answers requests or writes traces.
TypeOK ==
  /\ writer \in {NoOne, "loop", "worker", "tool"}
  /\ start \in [Starter -> Steps]
  /\ saving \in NullRow \cup {None}
  /\ crashes \in 0..MaxCrash
  /\ \A r \in Request : req[r] \in Storing => Up
  /\ saving # None => Up /\ writer = "worker"
  /\ writer = "loop" => ~LoopFree \/ start["loop"] \in Steps \ {"up", "down"}

Init ==
  /\ StartInit
  /\ IngressInit
  /\ saving = None
  /\ saved = file.trace.rows
  /\ crashes = 0

\* The worker's INSERT, one transaction; NOT NULL would refuse it.
WorkerWrites(w) ==
  /\ Up
  /\ saving = None
  /\ w \notin saved
  /\ ~file.trace.strict
  /\ FirstWrite("worker", [file EXCEPT !.trace.rows = @ \cup {w}])
  /\ saving' = w
  /\ UNCHANGED <<start, ingressVars, saved, crashes>>

WorkerCommits ==
  /\ saving # None
  /\ Commit("worker")
  /\ saved' = saved \cup {saving}
  /\ saving' = None
  /\ UNCHANGED <<start, ingressVars, crashes>>

Starting(p) ==
  /\ StartStep(p)
  /\ UNCHANGED <<ingressVars, workerVars, crashes>>

Failing(p) ==
  /\ StartFails(p)
  /\ UNCHANGED <<ingressVars, workerVars, crashes>>

Opening(p) ==
  /\ Open(p)
  /\ UNCHANGED <<ingressVars, workerVars, crashes>>

Ingesting(r) ==
  /\ Up
  /\ IngestStep(r) \/ IngestFails(r)
  /\ UNCHANGED <<start, workerVars, crashes>>

Arriving(r) ==
  /\ Up
  /\ \E s \in Source, k \in Key : Arrive(r, s, k)
  /\ UNCHANGED <<start, workerVars, crashes>>

CrashTool ==
  /\ crashes < MaxCrash
  /\ start["tool"] # "down"
  /\ GoTo("tool", "down")
  /\ Rollback("tool")
  /\ crashes' = crashes + 1
  /\ UNCHANGED <<ingressVars, workerVars>>

\* Both threads of the host go, and whichever held the lock.
CrashHost ==
  /\ crashes < MaxCrash
  /\ start["loop"] # "down"
  /\ GoTo("loop", "down")
  /\ writer' = IF writer \in {"loop", "worker"} THEN NoOne ELSE writer
  /\ UNCHANGED <<file, draft>>
  /\ IngressCrash
  /\ saving' = None
  /\ crashes' = crashes + 1
  /\ UNCHANGED saved

Next ==
  \/ \E p \in Starter : Opening(p) \/ Starting(p) \/ Failing(p)
  \/ \E r \in Request : Arriving(r) \/ Ingesting(r)
  \/ \E w \in NullRow : WorkerWrites(w)
  \/ WorkerCommits \/ CrashTool \/ CrashHost

Spec == Init /\ [][Next]_vars

-----------------------------------------------------------------------------
\* ingress.py:41: however often, and however interrupted, a task is delivered,
\* there is one row for it.
OneTaskPerKey ==
  \A a, b \in file.tasks : a.key = b.key => a = b

\* What a connector was told holds from then on, through crashes: the task it
\* was answered is in the table, entered by a token of its source, the log has
\* that answer, and of all the answers for a key, however many were lost, one
\* is the creation.
AnswersStand ==
  /\ \A r \in Request : req[r] \in Accepted =>
       /\ [id |-> answer[r], key |-> key[r], by |-> SourceOf(key[r])] \in file.tasks
       /\ \E e \in file.log :
            /\ e.request = r
            /\ e.task = answer[r]
            /\ e.outcome = IF req[r] = "201" THEN "created" ELSE "duplicate"
  /\ \A row \in file.tasks :
       \E e \in file.log : e.outcome = "created" /\ e.task = row.id
  /\ \A e, f \in file.log :
       e.key = f.key => e.task = f.task
                        /\ (e.outcome = "created" /\ f.outcome = "created" => e = f)

\* Transactions, locks and crashes are invisible to connectors: every delivery
\* takes effect at once, task and log entry together, or not at all.
Ledger == INSTANCE IngressLedger
  WITH tasks <- file.tasks, log <- file.log,
       status <- [r \in Request |-> IF req[r] \in Accepted THEN req[r] ELSE None]

LedgerSpec == Ledger!Spec

\* schema.py:196, 240: no row that was ever committed to decision_trace is
\* missing from it, at any moment another process may look, and the table the
\* worker writes to takes the NULLs of a degraded trace, although two
\* processes may rebuild it one after the other and either may die.
TraceSurvives ==
  /\ saved \subseteq file.trace.rows
  /\ ~file.aside.there
  /\ Up => file.trace.there /\ ~file.trace.strict
=============================================================================

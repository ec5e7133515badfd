-------------------------- MODULE SchemaMigration --------------------------
(***************************************************************************)
(* initialize_schema, which every process that opens the store runs: the   *)
(* host at start-up and any tool beside it.  A decision_trace table from   *)
(* before degraded traces is rebuilt in one transaction, decided on by a   *)
(* check outside of it; then the script creates what is missing, one       *)
(* statement at a time, each committed by itself.                          *)
(***************************************************************************)
EXTENDS Database, Naturals, Sequences

CONSTANTS Starter,  \* processes that open the store
          OldRow    \* rows an existing decision_trace holds

VARIABLE start      \* where each of them is in initialize_schema

\* A decision_trace table; strict: intent and affect_level are NOT NULL.
NoTable == [there |-> FALSE, strict |-> FALSE, rows |-> {}]
Table(s, r) == [there |-> TRUE, strict |-> s, rows |-> r]

\* The tables and indexes of SCHEMA_SQL the other modules speak of, in order.
\* Those left out are created in the same way.
Script == <<"users", "tasks", "ux_tasks", "decision_trace", "ingress_event_log">>
Object == {Script[i] : i \in DOMAIN Script}

Content(trace, objects, keyed) ==
  [trace |-> trace,
   aside |-> NoTable,    \* decision_trace__pre_migration
   objects |-> objects,
   keyed |-> keyed,      \* tasks has the columns source and external_id
   tasks |-> {}, log |-> {}]

\* No file, a current one, and older ones: before degraded traces, and before
\* task ingress.
InitialFile ==
  {Content(NoTable, {}, FALSE), Content(Table(FALSE, OldRow), Object, TRUE)}
  \cup {Content(Table(TRUE, OldRow), {"users", "tasks", "decision_trace"}, keyed)
        : keyed \in BOOLEAN}

Steps == {"down", "check", "rename", "create", "copy", "drop", "commit", "up"}
         \cup Object

\* What follows a statement of the script.
After(object) ==
  LET i == CHOOSE i \in DOMAIN Script : Script[i] = object IN
    IF i = Len(Script) THEN "up" ELSE Script[i + 1]

StartInit ==
  /\ file \in InitialFile
  /\ writer = NoOne
  /\ draft = file
  /\ start = [p \in Starter |-> "down"]

At(p, s) == start[p] = s
GoTo(p, s) == start' = [start EXCEPT ![p] = s]

Open(p) ==
  /\ At(p, "down")
  /\ GoTo(p, "check")
  /\ UNCHANGED dbVars

Check(p) ==
  /\ At(p, "check")
  /\ GoTo(p, IF file.trace.there /\ file.trace.strict THEN "rename" ELSE "users")
  /\ UNCHANGED dbVars

\* Fault: the statements of the rebuild commit one by one.
StatementCommitted(p, content) ==
  /\ Free \/ writer = p
  /\ file' = content
  /\ draft' = content
  /\ writer' = p

\* The rebuild: BEGIN and the first statement take the lock.
Statement(p, content) ==
  IF writer = p THEN Write(p, content) ELSE FirstWrite(p, content)

Rename(p) ==
  /\ At(p, "rename")
  /\ Free
  /\ Statement(p, [file EXCEPT !.aside = file.trace, !.trace = NoTable])
  /\ GoTo(p, "create")

Create(p) ==
  /\ At(p, "create")
  /\ Statement(p, [draft EXCEPT !.trace = Table(FALSE, {})])
  /\ GoTo(p, "copy")

Copy(p) ==
  /\ At(p, "copy")
  /\ Statement(p, [draft EXCEPT !.trace.rows = draft.aside.rows])
  /\ GoTo(p, "drop")

Drop(p) ==
  /\ At(p, "drop")
  /\ Statement(p, [draft EXCEPT !.aside = NoTable])
  /\ GoTo(p, "commit")

Committed(p) ==
  /\ At(p, "commit")
  /\ Commit(p)
  /\ GoTo(p, "users")

\* CREATE TABLE or INDEX IF NOT EXISTS.
Created(object) ==
  [file EXCEPT
     !.objects = @ \cup {object},
     !.keyed = @ \/ object = "tasks",
     !.trace = IF object = "decision_trace" THEN Table(FALSE, {}) ELSE @]

\* An index on columns the table of an older file does not have.
Impossible(object) == object = "ux_tasks" /\ ~file.keyed

RunScript(p) ==
  /\ start[p] \in Object
  /\ IF start[p] \in file.objects THEN UNCHANGED dbVars
     ELSE ~Impossible(start[p]) /\ WriteThrough(Created(start[p]))
  /\ GoTo(p, After(start[p]))

\* A statement raises and the start with it: the lock was not free in time,
\* the index cannot be made, or anything else within the rebuild.
StartFails(p) ==
  /\ \/ start[p] = "rename" /\ Locked(p)
     \/ start[p] \in {"create", "copy", "drop", "commit"}
     \/ /\ start[p] \in Object \ file.objects
        /\ Locked(p) \/ Impossible(start[p])
  /\ Rollback(p)
  /\ GoTo(p, "down")

StartStep(p) ==
  \/ Check(p) \/ Rename(p) \/ Create(p) \/ Copy(p) \/ Drop(p)
  \/ Committed(p) \/ RunScript(p)
=============================================================================

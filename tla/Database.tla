------------------------------ MODULE Database ------------------------------
(***************************************************************************)
(* The SQLite file as the host uses it (storage/database.py): a connection *)
(* per call, write-ahead log, so that readers see what is committed and    *)
(* one connection at a time has the write lock from its first write to its *)
(* commit.  Who finds the lock taken waits busy_timeout for it.            *)
(***************************************************************************)
CONSTANT NoOne

VARIABLES
  file,   \* what is committed
  writer, \* who has the write lock
  draft   \* the file as the writer sees it

dbVars == <<file, writer, draft>>

Free == writer = NoOne

\* The first write of a transaction.
FirstWrite(p, content) ==
  /\ Free
  /\ writer' = p
  /\ draft' = content
  /\ UNCHANGED file

Write(p, content) ==
  /\ writer = p
  /\ draft' = content
  /\ UNCHANGED <<file, writer>>

Commit(p) ==
  /\ writer = p
  /\ writer' = NoOne
  /\ file' = draft
  /\ UNCHANGED draft

\* A transaction of one statement.
WriteThrough(content) ==
  /\ Free
  /\ file' = content
  /\ UNCHANGED <<writer, draft>>

\* Fault: the exception path leaves the transaction open.
LeftOpen(p) == UNCHANGED <<file, writer, draft>>

\* The exception path of the context manager, and what the next connection
\* finds after the process died.
Rollback(p) ==
  /\ writer' = IF writer = p THEN NoOne ELSE writer
  /\ UNCHANGED <<file, draft>>

\* busy_timeout has passed: "database is locked".
Locked(p) == writer \notin {NoOne, p}
=============================================================================

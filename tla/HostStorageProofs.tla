------------------------- MODULE HostStorageProofs -------------------------
(***************************************************************************)
(* The safety properties of HostStorage for every set of requests, sources *)
(* and keys, every content of an old database and any number of crashes.   *)
(***************************************************************************)
EXTENDS HostStorage, TLAPS

-----------------------------------------------------------------------------
(* The script.                                                             *)

\* The statements of the script, and what follows each.
LEMMA ScriptIs ==
  /\ Object = {"users", "tasks", "ux_tasks", "decision_trace", "ingress_event_log"}
  /\ After("users") = "tasks"
  /\ After("tasks") = "ux_tasks"
  /\ After("ux_tasks") = "decision_trace"
  /\ After("decision_trace") = "ingress_event_log"
  /\ After("ingress_event_log") = "up"
  <1>1. /\ Len(Script) = 5 /\ DOMAIN Script = 1..5
        /\ Script[1] = "users" /\ Script[2] = "tasks" /\ Script[3] = "ux_tasks"
        /\ Script[4] = "decision_trace" /\ Script[5] = "ingress_event_log"
    BY DEF Script
  <1>2. 1..5 = {1, 2, 3, 4, 5}
    OBVIOUS
  <1>3. Object = {Script[1], Script[2], Script[3], Script[4], Script[5]}
    BY <1>1, <1>2 DEF Object
  <1>4. ASSUME NEW i \in 1..5
        PROVE  After(Script[i]) = IF i = 5 THEN "up" ELSE Script[i + 1]
    <2> DEFINE j == CHOOSE j \in DOMAIN Script : Script[j] = Script[i]
    <2>1. j \in DOMAIN Script /\ Script[j] = Script[i]
      BY <1>1
    <2>2. j = i
      BY <1>1, <1>2, <2>1
    <2>3. QED
      BY <1>1, <2>2 DEF After
  <1>5. QED
    BY <1>1, <1>3, <1>4

-----------------------------------------------------------------------------
(* Types.                                                                  *)

TraceRow == OldRow \cup NullRow
TableType == [there : BOOLEAN, strict : BOOLEAN, rows : SUBSET TraceRow]
TaskRow == [id : Request, key : Key, by : {SourceOf(k) : k \in Key}]
Entry == [request : Request, key : Key, outcome : {"created", "duplicate"},
          task : Request]

FileType ==
  [trace : TableType, aside : TableType, objects : SUBSET Object,
   keyed : BOOLEAN, tasks : SUBSET TaskRow, log : SUBSET Entry]

Rebuild == {"create", "copy", "drop", "commit"}
Holding == {"task", "created", "duplicate", "commit"}
Status == {"new", "body", "refused", "500", "lost"} \cup Storing \cup Accepted

\* What holds of a request by where it is.
Delivering ==
  \A r \in Request : req[r] \in Storing \cup {"body"} =>
    /\ key[r] \in Key
    /\ req[r] # "body" => bearer[r] = SourceOf(key[r])

StorageTypes ==
  /\ file \in FileType
  /\ draft \in FileType
  /\ writer \in {NoOne, "loop", "worker", "tool"}
  /\ start \in [Starter -> Steps]
  /\ req \in [Request -> Status]
  /\ DOMAIN bearer = Request /\ DOMAIN key = Request /\ DOMAIN answer = Request
  /\ saving \in NullRow \cup {None}
  /\ saved \subseteq TraceRow
  /\ crashes \in 0..MaxCrash
  /\ Delivering

\* Every action keeps the types.
LEMMA TypesStep == ASSUME StorageTypes, [Next]_vars PROVE StorageTypes'
  <1> USE StorageConstantsOK, ScriptIs
      DEF StorageTypes, Delivering, Steps, Status, Storing, Accepted,
          dbVars, ingressVars, workerVars, GoTo, At, Respond
  <1>0. /\ NoTable \in TableType
        /\ \A r \in SUBSET TraceRow : Table(FALSE, r) \in TableType
        /\ \A f \in FileType : /\ f.trace \in TableType /\ f.aside \in TableType
                               /\ f.trace.rows \in SUBSET TraceRow
                               /\ f.aside.rows \in SUBSET TraceRow
    BY DEF NoTable, Table, TableType, FileType
  <1>1. ASSUME NEW p \in Starter, Opening(p) PROVE StorageTypes'
    BY <1>1 DEF Opening, Open
  <1>2. ASSUME NEW p \in Starter, Failing(p) PROVE StorageTypes'
    BY <1>2 DEF Failing, StartFails, Rollback
  <1>3. ASSUME NEW p \in Starter, Starting(p) PROVE StorageTypes'
    <2> USE <1>3 DEF Starting, Statement, FirstWrite, Write
    <2>1. CASE Check(p)
      BY <2>1 DEF Check
    <2>2. CASE Rename(p)
      <3>1. [file EXCEPT !.aside = file.trace, !.trace = NoTable] \in FileType
        BY <1>0 DEF FileType
      <3>2. QED
        BY <2>2, <3>1 DEF Rename
    <2>3. CASE Create(p)
      <3>1. [draft EXCEPT !.trace = Table(FALSE, {})] \in FileType
        BY <1>0 DEF FileType
      <3>2. QED
        BY <2>3, <3>1 DEF Create
    <2>4. CASE Copy(p)
      <3>1. [draft EXCEPT !.trace.rows = draft.aside.rows] \in FileType
        BY <1>0 DEF FileType, TableType
      <3>2. QED
        BY <2>4, <3>1 DEF Copy
    <2>5. CASE Drop(p)
      <3>1. [draft EXCEPT !.aside = NoTable] \in FileType
        BY <1>0 DEF FileType
      <3>2. QED
        BY <2>5, <3>1 DEF Drop
    <2>6. CASE Committed(p)
      BY <2>6 DEF Committed, Commit
    <2>7. CASE RunScript(p)
      <3>1. ASSUME NEW o \in Object PROVE Created(o) \in FileType
        BY <1>0 DEF FileType, Created
      <3>2. QED
        BY <2>7, <3>1 DEF RunScript, WriteThrough
    <2>8. QED
      BY <2>1, <2>2, <2>3, <2>4, <2>5, <2>6, <2>7 DEF StartStep
  <1>4. ASSUME NEW r \in Request, Arriving(r) PROVE StorageTypes'
    <2>1. PICK x \in Source, k \in Key : Arrive(r, x, k)
      BY <1>4 DEF Arriving
    <2>2. QED
      BY <1>4, <2>1 DEF Arriving, Arrive
  <1>5. ASSUME NEW r \in Request, Ingesting(r) PROVE StorageTypes'
    <2> USE <1>5 DEF Ingesting, FirstWrite, Write
    <2>1. CASE Body(r)
      BY <2>1 DEF Body
    <2>2. CASE InsertUser(r)
      BY <2>2 DEF InsertUser
    <2>3. CASE InsertTask(r)
      <3> DEFINE row == [id |-> r, key |-> key[r], by |-> bearer[r]]
      <3>1. row \in TaskRow
        BY <2>3 DEF InsertTask, TaskRow
      <3> HIDE DEF row
      <3>2. [draft EXCEPT !.tasks = @ \cup {row}] \in FileType
        BY <3>1 DEF FileType
      <3>3. QED
        BY <2>3, <3>2 DEF InsertTask, row
    <2>4. CASE WriteLog(r)
      <3>1. PICK row \in draft.tasks :
              /\ row.key = key[r]
              /\ Write("loop", [draft EXCEPT !.log = @ \cup
                   {[request |-> r, key |-> key[r], outcome |-> req[r],
                     task |-> row.id]}])
              /\ answer' = [answer EXCEPT ![r] = row.id]
        BY <2>4 DEF WriteLog
      <3>2. row \in TaskRow
        BY DEF FileType
      <3> DEFINE entry == [request |-> r, key |-> key[r], outcome |-> req[r],
                           task |-> row.id]
      <3>3. entry \in Entry
        BY <2>4, <3>2 DEF WriteLog, Entry, TaskRow
      <3> HIDE DEF entry
      <3>4. [draft EXCEPT !.log = @ \cup {entry}] \in FileType
        BY <3>3 DEF FileType
      <3>5. QED
        BY <2>4, <3>1, <3>4 DEF WriteLog, entry
    <2>5. CASE CommitTask(r)
      BY <2>5 DEF CommitTask, Commit
    <2>6. CASE Reply(r)
      BY <2>6 DEF Reply
    <2>7. CASE IngestFails(r)
      BY <2>7 DEF IngestFails, Rollback
    <2>8. QED
      BY <2>1, <2>2, <2>3, <2>4, <2>5, <2>6, <2>7 DEF IngestStep
  <1>6. ASSUME NEW w \in NullRow, WorkerWrites(w) PROVE StorageTypes'
    <2>1. [file EXCEPT !.trace.rows = @ \cup {w}] \in FileType
      BY <1>0 DEF FileType, TableType, TraceRow
    <2>2. QED
      BY <1>6, <2>1 DEF WorkerWrites, FirstWrite
  <1>7. CASE WorkerCommits
    BY <1>7 DEF WorkerCommits, Commit, TraceRow
  <1>8. CASE CrashTool
    BY <1>8 DEF CrashTool, Rollback
  <1>9. CASE CrashHost
    BY <1>9 DEF CrashHost, IngressCrash
  <1>10. CASE UNCHANGED vars
    BY <1>10 DEF vars
  <1>11. QED
    BY <1>1, <1>2, <1>3, <1>4, <1>5, <1>6, <1>7, <1>8, <1>9, <1>10 DEF Next

-----------------------------------------------------------------------------
(* The write lock.                                                         *)

\* Who may be inside a transaction: one request of a host that is up, a process
\* that rebuilds the table, or the worker thread with a row.
LockInv ==
  /\ \A r \in Request : req[r] \in Storing => Up
  /\ \A r, q \in Request : req[r] \in Storing /\ req[q] \in Storing => r = q
  /\ \A r \in Request : req[r] \in Holding => writer = "loop"
  /\ \A p \in Starter : start[p] \in Rebuild => writer = p
  /\ writer = "loop" => \/ start["loop"] \in Rebuild
                        \/ \E r \in Request : req[r] \in Holding
  /\ saving # None => Up /\ writer = "worker"

\* Every action keeps LockInv.
LEMMA LockStep == ASSUME StorageTypes, LockInv, [Next]_vars PROVE LockInv'
  <1> USE StorageConstantsOK, ScriptIs
      DEF StorageTypes, LockInv, Steps, Status, Storing, Accepted, Holding,
          Rebuild, Up, dbVars, ingressVars, workerVars, GoTo, At, Respond, Free
  <1>1. ASSUME NEW p \in Starter, Opening(p) PROVE LockInv'
    BY <1>1 DEF Opening, Open
  <1>2. ASSUME NEW p \in Starter, Failing(p) PROVE LockInv'
    BY <1>2 DEF Failing, StartFails, Rollback, Locked
  <1>3. ASSUME NEW p \in Starter, Starting(p) PROVE LockInv'
    <2> USE <1>3 DEF Starting, Statement, FirstWrite, Write
    <2>1. CASE Check(p)
      BY <2>1 DEF Check
    <2>2. CASE Rename(p)
      BY <2>2 DEF Rename
    <2>3. CASE Create(p)
      BY <2>3 DEF Create
    <2>4. CASE Copy(p)
      BY <2>4 DEF Copy
    <2>5. CASE Drop(p)
      BY <2>5 DEF Drop
    <2>6. CASE Committed(p)
      BY <2>6 DEF Committed, Commit
    <2>7. CASE RunScript(p)
      BY <2>7 DEF RunScript, WriteThrough
    <2>8. QED
      BY <2>1, <2>2, <2>3, <2>4, <2>5, <2>6, <2>7 DEF StartStep
  <1>4. ASSUME NEW r \in Request, Arriving(r) PROVE LockInv'
    <2>1. PICK x \in Source, k \in Key : Arrive(r, x, k)
      BY <1>4 DEF Arriving
    <2>2. QED
      BY <1>4, <2>1 DEF Arriving, Arrive
  <1>5. ASSUME NEW r \in Request, Ingesting(r) PROVE LockInv'
    <2> USE <1>5 DEF Ingesting, FirstWrite, Write
    <2>1. CASE Body(r)
      BY <2>1 DEF Body, LoopFree
    <2>2. CASE InsertUser(r)
      BY <2>2 DEF InsertUser
    <2>3. CASE InsertTask(r)
      BY <2>3 DEF InsertTask
    <2>4. CASE WriteLog(r)
      BY <2>4 DEF WriteLog
    <2>5. CASE CommitTask(r)
      BY <2>5 DEF CommitTask, Commit
    <2>6. CASE Reply(r)
      BY <2>6 DEF Reply
    <2>7. CASE IngestFails(r)
      BY <2>7 DEF IngestFails, Rollback, Locked
    <2>8. QED
      BY <2>1, <2>2, <2>3, <2>4, <2>5, <2>6, <2>7 DEF IngestStep
  <1>6. ASSUME NEW w \in NullRow, WorkerWrites(w) PROVE LockInv'
    BY <1>6 DEF WorkerWrites, FirstWrite
  <1>7. CASE WorkerCommits
    BY <1>7 DEF WorkerCommits, Commit
  <1>8. CASE CrashTool
    BY <1>8 DEF CrashTool, Rollback
  <1>9. CASE CrashHost
    BY <1>9 DEF CrashHost, IngressCrash
  <1>10. CASE UNCHANGED vars
    BY <1>10 DEF vars
  <1>11. QED
    BY <1>1, <1>2, <1>3, <1>4, <1>5, <1>6, <1>7, <1>8, <1>9, <1>10 DEF Next

\* The constants' part of Init.
LEMMA InitTypes == ASSUME Init PROVE StorageTypes /\ LockInv
  <1> USE StorageConstantsOK, ScriptIs DEF Init, StartInit, IngressInit
  <1>1. /\ NoTable \in TableType
        /\ \A x \in BOOLEAN : Table(x, OldRow) \in TableType
    BY DEF NoTable, Table, TableType, TraceRow
  <1>2. ASSUME NEW trace \in TableType, NEW objects \in SUBSET Object,
               NEW keyed \in BOOLEAN
        PROVE  Content(trace, objects, keyed) \in FileType
    BY <1>1 DEF Content, FileType
  <1>3. InitialFile \subseteq FileType
    <2>1. Content(NoTable, {}, FALSE) \in FileType
      BY <1>1, <1>2
    <2>2. Content(Table(FALSE, OldRow), Object, TRUE) \in FileType
      BY <1>1, <1>2
    <2>3. \A keyed \in BOOLEAN :
            Content(Table(TRUE, OldRow), {"users", "tasks", "decision_trace"}, keyed)
              \in FileType
      BY <1>1, <1>2
    <2>4. QED
      BY <2>1, <2>2, <2>3 DEF InitialFile
  <1>4. file.trace.rows \subseteq TraceRow
    BY <1>3 DEF FileType, TableType
  <1>5. StorageTypes
    BY <1>3, <1>4 DEF StorageTypes, Delivering, Steps, Status, Storing
  <1>6. LockInv
    BY DEF LockInv, Storing, Holding, Rebuild
  <1>7. QED
    BY <1>5, <1>6

\* Whoever writes holds the file lock, at every step.
LEMMA LockAlways == Spec => [](StorageTypes /\ LockInv)
  BY InitTypes, TypesStep, LockStep, PTL DEF Spec

\* Whoever is inside a transaction has the write lock, and only a host that is
\* up answers requests or writes traces.
THEOREM TypeCorrect == Spec => []TypeOK
  <1>1. StorageTypes /\ LockInv => TypeOK
    BY StorageConstantsOK
    DEF StorageTypes, LockInv, TypeOK, Rebuild, Holding, Storing, Steps, LoopFree, Up
  <1>2. QED
    BY <1>1, LockAlways, PTL

-----------------------------------------------------------------------------
(* The decision_trace table.                                               *)

\* What is committed: the table is never aside, and once it is there it has
\* all the rows that were saved.
TableInv ==
  /\ ~file.aside.there
  /\ "decision_trace" \in file.objects <=> file.trace.there
  /\ ~file.trace.there => file.trace.rows = {} /\ ~file.trace.strict
  /\ saved \subseteq file.trace.rows

\* What a transaction has made of it, statement by statement.
DraftInv ==
  /\ \A r \in Request : req[r] \in Holding =>
       draft.trace = file.trace /\ draft.aside = file.aside
       /\ draft.objects = file.objects
  /\ saving # None =>
       /\ draft.trace.there = file.trace.there
       /\ draft.trace.strict = file.trace.strict
       /\ draft.trace.rows = file.trace.rows \cup {saving}
       /\ file.trace.there
       /\ draft.aside = file.aside /\ draft.objects = file.objects
  /\ \A p \in Starter : start[p] \in Rebuild =>
       /\ file.trace.there
       /\ draft.objects = file.objects
       /\ start[p] \in {"create", "copy"} => draft.aside.rows = file.trace.rows
       /\ start[p] = "copy" => draft.trace.there /\ ~draft.trace.strict
       /\ start[p] \in {"drop", "commit"} =>
            /\ draft.trace.there /\ ~draft.trace.strict
            /\ draft.trace.rows = file.trace.rows
       /\ start[p] = "commit" => ~draft.aside.there

\* What a start has seen or done by the time it is where it is.
StartInv ==
  \A p \in Starter :
    /\ start[p] = "rename" => file.trace.there
    /\ start[p] \in Object \cup {"up"} => ~file.trace.strict
    /\ start[p] \in {"decision_trace", "ingress_event_log", "up"} =>
         "ux_tasks" \in file.objects
    /\ start[p] \in {"ingress_event_log", "up"} =>
         "decision_trace" \in file.objects

SchemaInv == TableInv /\ DraftInv /\ StartInv

\* The fields of a table and of a file after an update of some.
LEMMA Fields ==
  ASSUME NEW f \in FileType
  PROVE  /\ f.trace \in TableType /\ f.aside \in TableType
         /\ LET g == [f EXCEPT !.aside = f.trace, !.trace = NoTable]
            IN  g.aside = f.trace /\ g.trace = NoTable /\ g.objects = f.objects
                /\ g.tasks = f.tasks /\ g.log = f.log
         /\ \A t \in TableType :
              LET g == [f EXCEPT !.trace = t]
              IN  g.trace = t /\ g.aside = f.aside /\ g.objects = f.objects
                  /\ g.tasks = f.tasks /\ g.log = f.log
         /\ \A t \in TableType :
              LET g == [f EXCEPT !.aside = t]
              IN  g.trace = f.trace /\ g.aside = t /\ g.objects = f.objects
                  /\ g.tasks = f.tasks /\ g.log = f.log
         /\ \A rows :
              LET g == [f EXCEPT !.trace.rows = rows]
              IN  /\ g.trace.there = f.trace.there
                  /\ g.trace.strict = f.trace.strict
                  /\ g.trace.rows = rows
                  /\ g.aside = f.aside /\ g.objects = f.objects
                  /\ g.tasks = f.tasks /\ g.log = f.log
         /\ \A tasks :
              LET g == [f EXCEPT !.tasks = tasks]
              IN  g.trace = f.trace /\ g.aside = f.aside
                  /\ g.objects = f.objects /\ g.tasks = tasks /\ g.log = f.log
         /\ \A log :
              LET g == [f EXCEPT !.log = log]
              IN  g.trace = f.trace /\ g.aside = f.aside
                  /\ g.objects = f.objects /\ g.tasks = f.tasks /\ g.log = log
  BY DEF FileType, TableType

\* CREATE TABLE IF NOT EXISTS, when it does not.
LEMMA CreatedFields ==
  ASSUME StorageTypes, NEW o \in Object
  PROVE  /\ Created(o).trace = IF o = "decision_trace" THEN Table(FALSE, {})
                               ELSE file.trace
         /\ Created(o).aside = file.aside
         /\ Created(o).objects = file.objects \cup {o}
         /\ Created(o).tasks = file.tasks
         /\ Created(o).log = file.log
  BY DEF StorageTypes, FileType, Created

\* The two tables the schema scripts make from nothing.
LEMMA Tables ==
  /\ NoTable \in TableType /\ ~NoTable.there /\ ~NoTable.strict
  /\ NoTable.rows = {}
  /\ Table(FALSE, {}) \in TableType
  /\ Table(FALSE, {}).there /\ ~Table(FALSE, {}).strict
  /\ Table(FALSE, {}).rows = {}
  BY DEF NoTable, Table, TableType

\* Every action keeps SchemaInv: only a rebuild changes the table as a whole,
\* and none of its statements is committed before the last.
LEMMA SchemaStep ==
  ASSUME StorageTypes, LockInv, SchemaInv, [Next]_vars PROVE SchemaInv'
  <1> USE StorageConstantsOK, ScriptIs
      DEF StorageTypes, LockInv, SchemaInv, TableInv, DraftInv, StartInv, Steps,
          Status, Storing, Accepted, Holding, Rebuild, Up, dbVars, ingressVars,
          workerVars, GoTo, At, Respond, Free
  <1>1. ASSUME NEW p \in Starter, Opening(p) PROVE SchemaInv'
    BY <1>1 DEF Opening, Open
  <1>2. ASSUME NEW p \in Starter, Failing(p) PROVE SchemaInv'
    BY <1>2 DEF Failing, StartFails, Rollback, Locked
  <1>3. ASSUME NEW p \in Starter, Starting(p) PROVE SchemaInv'
    <2> USE <1>3 DEF Starting, Statement, FirstWrite, Write
    <2>1. CASE Check(p)
      BY <2>1 DEF Check
    <2>2. CASE Rename(p)
      <3>1. /\ writer = NoOne /\ writer' = p /\ start[p] = "rename"
            /\ start' = [start EXCEPT ![p] = "create"]
            /\ draft' = [file EXCEPT !.aside = file.trace, !.trace = NoTable]
            /\ UNCHANGED <<file, req, saving, saved>>
        BY <2>2 DEF Rename
      <3>2. draft'.aside = file.trace /\ draft'.objects = file.objects
        BY <3>1, Fields
      <3>3. QED
        BY <3>1, <3>2
    <2>3. CASE Create(p)
      <3>1. /\ writer = p /\ writer' = p /\ start[p] = "create"
            /\ start' = [start EXCEPT ![p] = "copy"]
            /\ draft' = [draft EXCEPT !.trace = Table(FALSE, {})]
            /\ UNCHANGED <<file, req, saving, saved>>
        BY <2>3 DEF Create
      <3>2. /\ draft'.trace = Table(FALSE, {}) /\ draft'.aside = draft.aside
            /\ draft'.objects = draft.objects
        BY <3>1, Fields, Tables
      <3>3. QED
        BY <3>1, <3>2, Tables
    <2>4. CASE Copy(p)
      <3>1. /\ writer = p /\ writer' = p /\ start[p] = "copy"
            /\ start' = [start EXCEPT ![p] = "drop"]
            /\ draft' = [draft EXCEPT !.trace.rows = draft.aside.rows]
            /\ UNCHANGED <<file, req, saving, saved>>
        BY <2>4 DEF Copy
      <3>2. /\ draft'.trace.there = draft.trace.there
            /\ draft'.trace.strict = draft.trace.strict
            /\ draft'.trace.rows = draft.aside.rows
            /\ draft'.objects = draft.objects
        BY <3>1, Fields
      <3>3. QED
        BY <3>1, <3>2
    <2>5. CASE Drop(p)
      <3>1. /\ writer = p /\ writer' = p /\ start[p] = "drop"
            /\ start' = [start EXCEPT ![p] = "commit"]
            /\ draft' = [draft EXCEPT !.aside = NoTable]
            /\ UNCHANGED <<file, req, saving, saved>>
        BY <2>5 DEF Drop
      <3>2. /\ draft'.trace = draft.trace /\ draft'.aside = NoTable
            /\ draft'.objects = draft.objects
        BY <3>1, Fields, Tables
      <3>3. QED
        BY <3>1, <3>2, Tables
    <2>6. CASE Committed(p)
      BY <2>6 DEF Committed, Commit
    <2>7. CASE RunScript(p)
      <3>1. /\ start[p] \in Object /\ start' = [start EXCEPT ![p] = After(start[p])]
            /\ UNCHANGED <<req, saving, saved, writer, draft>>
        BY <2>7 DEF RunScript, WriteThrough
      <3>2. After(start[p]) \in Object \cup {"up"}
        BY <3>1
      <3>3. CASE start[p] \in file.objects
        BY <2>7, <3>1, <3>2, <3>3 DEF RunScript
      <3>4. CASE start[p] \notin file.objects
        <4>1. writer = NoOne /\ file' = Created(start[p])
          BY <2>7, <3>4 DEF RunScript, WriteThrough
        <4>2. /\ file'.trace = IF start[p] = "decision_trace" THEN Table(FALSE, {})
                               ELSE file.trace
              /\ file'.aside = file.aside
              /\ file'.objects = file.objects \cup {start[p]}
          BY <3>1, <4>1, CreatedFields
        <4>3. TableInv'
          BY <3>1, <3>4, <4>2, Tables
        <4>4. DraftInv'
          BY <3>1, <3>2, <4>1
        <4>5. StartInv'
          BY <3>1, <3>2, <4>2, Tables
        <4>6. QED
          BY <4>3, <4>4, <4>5
      <3>5. QED
        BY <3>3, <3>4
    <2>8. QED
      BY <2>1, <2>2, <2>3, <2>4, <2>5, <2>6, <2>7 DEF StartStep
  <1>4. ASSUME NEW r \in Request, Arriving(r) PROVE SchemaInv'
    <2>1. PICK x \in Source, k \in Key : Arrive(r, x, k)
      BY <1>4 DEF Arriving
    <2>2. QED
      BY <1>4, <2>1 DEF Arriving, Arrive
  <1>5. ASSUME NEW r \in Request, Ingesting(r) PROVE SchemaInv'
    <2> USE <1>5 DEF Ingesting, FirstWrite, Write
    <2>1. CASE Body(r)
      BY <2>1 DEF Body
    <2>2. CASE InsertUser(r)
      BY <2>2 DEF InsertUser
    <2>3. CASE InsertTask(r)
      <3> DEFINE tasks == draft.tasks \cup
                     {[id |-> r, key |-> key[r], by |-> bearer[r]]}
      <3>1. /\ writer = "loop" /\ req[r] = "task"
            /\ draft' = draft \/ draft' = [draft EXCEPT !.tasks = tasks]
            /\ \/ req' = [req EXCEPT ![r] = "duplicate"]
               \/ req' = [req EXCEPT ![r] = "created"]
            /\ UNCHANGED <<file, writer, start, saving, saved>>
        BY <2>3 DEF InsertTask
      <3> HIDE DEF tasks
      <3>2. /\ draft'.trace = draft.trace /\ draft'.aside = draft.aside
            /\ draft'.objects = draft.objects
        <4>1. CASE draft' = [draft EXCEPT !.tasks = tasks]
          BY <4>1, Fields
        <4>2. QED
          BY <3>1, <4>1
      <3>3. QED
        BY <3>1, <3>2
    <2>4. CASE WriteLog(r)
      <3>1. PICK row \in draft.tasks :
              Write("loop", [draft EXCEPT !.log = draft.log \cup
                {[request |-> r, key |-> key[r], outcome |-> req[r],
                  task |-> row.id]}])
        BY <2>4 DEF WriteLog
      <3> DEFINE log == draft.log \cup
                   {[request |-> r, key |-> key[r], outcome |-> req[r],
                     task |-> row.id]}
      <3>2. /\ writer = "loop" /\ req[r] \in {"created", "duplicate"}
            /\ draft' = [draft EXCEPT !.log = log]
            /\ req' = [req EXCEPT ![r] = "commit"]
            /\ UNCHANGED <<file, writer, start, saving, saved>>
        BY <2>4, <3>1 DEF WriteLog
      <3> HIDE DEF log
      <3>3. /\ draft'.trace = draft.trace /\ draft'.aside = draft.aside
            /\ draft'.objects = draft.objects
        BY <3>2, Fields
      <3>4. QED
        BY <3>2, <3>3
    <2>5. CASE CommitTask(r)
      BY <2>5 DEF CommitTask, Commit
    <2>6. CASE Reply(r)
      BY <2>6 DEF Reply
    <2>7. CASE IngestFails(r)
      BY <2>7 DEF IngestFails, Rollback
    <2>8. QED
      BY <2>1, <2>2, <2>3, <2>4, <2>5, <2>6, <2>7 DEF IngestStep
  <1>6. ASSUME NEW w \in NullRow, WorkerWrites(w) PROVE SchemaInv'
    <2>1. /\ Up /\ saving = None /\ writer = NoOne /\ writer' = "worker"
          /\ draft' = [file EXCEPT !.trace.rows = file.trace.rows \cup {w}]
          /\ saving' = w
          /\ UNCHANGED <<file, start, req, saved>>
      BY <1>6 DEF WorkerWrites, FirstWrite
    <2>2. /\ draft'.trace.there = file.trace.there
          /\ draft'.trace.strict = file.trace.strict
          /\ draft'.trace.rows = file.trace.rows \cup {w}
          /\ draft'.aside = file.aside /\ draft'.objects = file.objects
      <3> DEFINE rows == file.trace.rows \cup {w}
      <3>1. draft' = [file EXCEPT !.trace.rows = rows]
        BY <2>1
      <3> HIDE DEF rows
      <3>2. /\ draft'.trace.there = file.trace.there
            /\ draft'.trace.strict = file.trace.strict
            /\ draft'.trace.rows = rows
            /\ draft'.aside = file.aside /\ draft'.objects = file.objects
        BY <3>1, Fields
      <3>3. QED
        BY <3>2 DEF rows
    <2>3. file.trace.there
      BY <2>1
    <2>4. QED
      BY <2>1, <2>2, <2>3
  <1>7. CASE WorkerCommits
    BY <1>7 DEF WorkerCommits, Commit
  <1>8. CASE CrashTool
    BY <1>8 DEF CrashTool, Rollback
  <1>9. CASE CrashHost
    BY <1>9 DEF CrashHost, IngressCrash
  <1>10. CASE UNCHANGED vars
    BY <1>10 DEF vars
  <1>11. QED
    BY <1>1, <1>2, <1>3, <1>4, <1>5, <1>6, <1>7, <1>8, <1>9, <1>10 DEF Next

\* The files a host may find are in order.
LEMMA InitSchema == ASSUME Init PROVE SchemaInv
  <1> USE StorageConstantsOK, ScriptIs, Tables DEF Init, StartInit, IngressInit
  <1>1. /\ ~file.aside.there
        /\ "decision_trace" \in file.objects <=> file.trace.there
        /\ ~file.trace.there => file.trace.rows = {} /\ ~file.trace.strict
    <2>1. CASE file = Content(NoTable, {}, FALSE)
      BY <2>1 DEF Content
    <2>2. CASE file = Content(Table(FALSE, OldRow), Object, TRUE)
      BY <2>2 DEF Content, Table
    <2>3. ASSUME NEW keyed \in BOOLEAN,
                 file = Content(Table(TRUE, OldRow),
                                {"users", "tasks", "decision_trace"}, keyed)
          PROVE  /\ ~file.aside.there
                 /\ "decision_trace" \in file.objects /\ file.trace.there
      BY <2>3 DEF Content, Table
    <2>4. QED
      BY <2>1, <2>2, <2>3 DEF InitialFile
  <1>2. QED
    BY <1>1 DEF SchemaInv, TableInv, DraftInv, StartInv, Holding, Rebuild

\* What the stored tables, drafts and starts look like at every step.
LEMMA SchemaAlways == Spec => []SchemaInv
  BY InitSchema, SchemaStep, LockAlways, PTL DEF Spec

\* No row that was ever saved is missing at any moment another process may
\* look, and a host that is up has a table that takes a degraded trace.
THEOREM TraceKept == Spec => []TraceSurvives
  <1>1. StorageTypes /\ SchemaInv => TraceSurvives
    BY StorageConstantsOK
    DEF StorageTypes, SchemaInv, TableInv, StartInv, TraceSurvives, Up
  <1>2. QED
    BY <1>1, LockAlways, SchemaAlways, PTL

-----------------------------------------------------------------------------
(* Tasks and log.                                                          *)

TaskOf(r) == [id |-> r, key |-> key[r], by |-> bearer[r]]
EntryOf(r, outcome, id) ==
  [request |-> r, key |-> key[r], outcome |-> outcome, task |-> id]

\* What is committed: one task for each key, each created by one entry of the
\* log, and every entry is about a task.
ContentInv ==
  /\ OneTaskPerKey
  /\ \A row \in file.tasks :
       /\ row.by = SourceOf(row.key)
       /\ \E e \in file.log : e.outcome = "created" /\ e.task = row.id
  /\ \A e \in file.log :
       /\ [id |-> e.task, key |-> e.key, by |-> SourceOf(e.key)] \in file.tasks
       /\ e.outcome = "created" => e.task = e.request

\* A request is in the log, once, from its commit on, and what it was answered
\* is what the log says.
RequestInv ==
  /\ \A e \in file.log :
       /\ req[e.request] \in {"reply", "lost"} \cup Accepted
       /\ e.key = key[e.request]
       /\ req[e.request] # "lost" => e.task = answer[e.request]
       /\ req[e.request] = "201" => e.outcome = "created"
       /\ req[e.request] = "200" => e.outcome = "duplicate"
  /\ \A e, f \in file.log : e.request = f.request => e = f
  /\ \A r \in Request : req[r] \in {"reply"} \cup Accepted =>
       \E e \in file.log : e.request = r

\* What the transaction of a delivery has written.
Unchanged == draft.tasks = file.tasks /\ draft.log = file.log

IsNew(r) == \A row \in file.tasks : row.key # key[r]

WroteNew(r) ==
  /\ IsNew(r)
  /\ answer[r] = r
  /\ draft.tasks = file.tasks \cup {TaskOf(r)}
  /\ draft.log = file.log \cup {EntryOf(r, "created", r)}

WroteRepeat(r) ==
  \E row \in file.tasks :
    /\ row.key = key[r]
    /\ answer[r] = row.id
    /\ draft.tasks = file.tasks
    /\ draft.log = file.log \cup {EntryOf(r, "duplicate", row.id)}

DeliveryInv ==
  /\ \A r \in Request :
       /\ req[r] = "task" => Unchanged
       /\ req[r] = "created" => /\ IsNew(r) /\ draft.log = file.log
                                /\ draft.tasks = file.tasks \cup {TaskOf(r)}
       /\ req[r] = "duplicate" => Unchanged /\ ~IsNew(r)
       /\ req[r] = "commit" => WroteNew(r) \/ WroteRepeat(r)
  /\ saving # None => Unchanged
  /\ \A p \in Starter : start[p] \in Rebuild => Unchanged

LedgerInv == ContentInv /\ RequestInv /\ DeliveryInv

\* The commit of a delivery: its task, if it is new, and its entry at once.
LEMMA CommitKeeps ==
  ASSUME StorageTypes, LockInv, LedgerInv, NEW r \in Request, CommitTask(r)
  PROVE  ContentInv' /\ RequestInv'
  <1> USE DEF StorageTypes, Status, Storing, Accepted
  <1>1. /\ req[r] = "commit" /\ req' = [req EXCEPT ![r] = "reply"]
        /\ file' = draft /\ UNCHANGED <<bearer, key, answer>>
    BY DEF CommitTask, Commit, Respond
  <1>2. key[r] \in Key /\ bearer[r] = SourceOf(key[r])
    BY <1>1 DEF Delivering
  <1>3. \A e \in file.log : /\ e.request # r /\ e.request \in Request
                            /\ e.key \in Key /\ e.task \in Request
    BY <1>1 DEF LedgerInv, RequestInv, FileType, Entry
  <1>4. \A row \in file.tasks :
          row = [id |-> row.id, key |-> row.key, by |-> row.by]
    BY DEF FileType, TaskRow
  <1>5. CASE WroteNew(r)
    <2>1. /\ file'.tasks = file.tasks \cup {TaskOf(r)}
          /\ file'.log = file.log \cup {EntryOf(r, "created", r)}
          /\ IsNew(r) /\ answer[r] = r
      BY <1>1, <1>5 DEF WroteNew
    <2>2. /\ TaskOf(r).id = r /\ TaskOf(r).key = key[r]
          /\ TaskOf(r).by = SourceOf(key[r])
      BY <1>2 DEF TaskOf
    <2>3. LET e == EntryOf(r, "created", r)
          IN  /\ e.request = r /\ e.key = key[r] /\ e.outcome = "created"
              /\ e.task = r
              /\ [id |-> e.task, key |-> e.key, by |-> SourceOf(e.key)] = TaskOf(r)
      BY <1>2 DEF EntryOf, TaskOf
    <2>4. ContentInv'
      BY <2>1, <2>2, <2>3 DEF LedgerInv, ContentInv, OneTaskPerKey, IsNew
    <2>5. RequestInv'
      BY <1>1, <1>3, <2>1, <2>3 DEF LedgerInv, RequestInv
    <2>6. QED
      BY <2>4, <2>5
  <1>6. CASE WroteRepeat(r)
    <2>1. PICK row \in file.tasks :
            /\ row.key = key[r] /\ answer[r] = row.id
            /\ file'.tasks = file.tasks
            /\ file'.log = file.log \cup {EntryOf(r, "duplicate", row.id)}
      BY <1>1, <1>6 DEF WroteRepeat
    <2>2. row.by = SourceOf(key[r])
      BY <2>1 DEF LedgerInv, ContentInv
    <2>3. LET e == EntryOf(r, "duplicate", row.id)
          IN  /\ e.request = r /\ e.key = key[r] /\ e.outcome = "duplicate"
              /\ e.task = row.id
              /\ [id |-> e.task, key |-> e.key, by |-> SourceOf(e.key)] = row
      BY <1>4, <2>1, <2>2 DEF EntryOf
    <2>4. ContentInv'
      BY <2>1, <2>3 DEF LedgerInv, ContentInv, OneTaskPerKey
    <2>5. RequestInv'
      BY <1>1, <1>3, <2>1, <2>3 DEF LedgerInv, RequestInv
    <2>6. QED
      BY <2>4, <2>5
  <1>7. QED
    BY <1>1, <1>5, <1>6 DEF LedgerInv, DeliveryInv

\* Whatever leaves the requests alone and the lock with whom it was, or takes
\* it with a copy of what is committed.
LEMMA OthersKeep ==
  ASSUME StorageTypes, LockInv, LedgerInv,
         UNCHANGED <<req, key, bearer, answer>>,
         file'.tasks = file.tasks, file'.log = file.log,
         \/ draft'.tasks = draft.tasks /\ draft'.log = draft.log
         \/ /\ draft'.tasks = file.tasks /\ draft'.log = file.log
            /\ \A r \in Request : req[r] \notin Holding,
         saving' # None => Unchanged',
         \A p \in Starter : start'[p] \in Rebuild => Unchanged'
  PROVE  LedgerInv'
  <1>1. ContentInv'
    BY DEF LedgerInv, ContentInv, OneTaskPerKey
  <1>2. RequestInv'
    BY DEF LedgerInv, RequestInv
  <1>3. \A r : TaskOf(r)' = TaskOf(r) /\ (IsNew(r)' <=> IsNew(r))
    BY DEF TaskOf, IsNew
  <1>4. \A r, o, id : EntryOf(r, o, id)' = EntryOf(r, o, id)
    BY DEF EntryOf
  <1>5. DeliveryInv'
    BY <1>3, <1>4
    DEF LedgerInv, DeliveryInv, Unchanged, WroteNew, WroteRepeat, Holding
  <1>6. QED
    BY <1>1, <1>2, <1>5 DEF LedgerInv

\* Everything beside the ingress leaves tasks and log alone.
LEMMA StartKeeps ==
  ASSUME StorageTypes, LockInv, LedgerInv, NEW p \in Starter, Starting(p)
  PROVE  LedgerInv' /\ file'.tasks = file.tasks /\ file'.log = file.log
  <1> USE ScriptIs, StorageConstantsOK
      DEF StorageTypes, Starting, Statement, FirstWrite, Write, workerVars,
          ingressVars, dbVars, GoTo, At, Free
  <1>0. /\ UNCHANGED <<req, key, bearer, answer, saving>>
        /\ saving # None => Unchanged
        /\ \A q \in Starter : start[q] \in Rebuild => Unchanged
        /\ \A q \in Starter : start[q] \in Rebuild => writer = q
        /\ saving # None => writer = "worker"
        /\ \A r \in Request : req[r] \in Holding => writer = "loop"
    BY DEF LedgerInv, DeliveryInv, LockInv
  <1>1. CASE UNCHANGED <<file, draft>> /\ start'[p] \notin Rebuild
             /\ \A q \in Starter : q # p => start'[q] = start[q]
    BY <1>0, <1>1, OthersKeep DEF Unchanged
  <1>2. CASE Check(p)
    BY <1>1, <1>2 DEF Check, Rebuild
  <1>3. CASE Rename(p)
    <2>1. /\ draft' = [file EXCEPT !.aside = file.trace, !.trace = NoTable]
          /\ file' = file /\ writer = NoOne
      BY <1>3 DEF Rename
    <2>2. draft'.tasks = file.tasks /\ draft'.log = file.log
      BY <2>1, Fields
    <2>3. QED
      BY <1>0, <2>1, <2>2, OthersKeep DEF Unchanged
  <1>4. CASE Create(p) \/ Copy(p) \/ Drop(p)
    <2>1. file' = file /\ start[p] \in Rebuild
      BY <1>4 DEF Create, Copy, Drop, Rebuild
    <2>2. writer = p
      BY <1>0, <2>1
    <2>3. \/ draft' = [draft EXCEPT !.trace = Table(FALSE, {})]
          \/ draft' = [draft EXCEPT !.trace.rows = draft.aside.rows]
          \/ draft' = [draft EXCEPT !.aside = NoTable]
      BY <1>4, <2>2 DEF Create, Copy, Drop
    <2>4. draft'.tasks = draft.tasks /\ draft'.log = draft.log
      <3>1. CASE draft' = [draft EXCEPT !.trace = Table(FALSE, {})]
        BY <3>1, Fields, Tables
      <3>2. CASE draft' = [draft EXCEPT !.trace.rows = draft.aside.rows]
        BY <3>2 DEF FileType
      <3>3. CASE draft' = [draft EXCEPT !.aside = NoTable]
        BY <3>3, Fields, Tables
      <3>4. QED
        BY <2>3, <3>1, <3>2, <3>3
    <2>5. QED
      BY <1>0, <2>1, <2>2, <2>4, OthersKeep DEF Unchanged
  <1>5. CASE Committed(p)
    <2>1. /\ file' = draft /\ draft' = draft /\ start[p] \in Rebuild /\ writer = p
          /\ start' = [start EXCEPT ![p] = "users"]
      BY <1>5 DEF Committed, Commit, Rebuild
    <2>2. Unchanged
      BY <1>0, <2>1
    <2>3. QED
      BY <1>0, <2>1, <2>2, OthersKeep DEF Unchanged
  <1>6. CASE RunScript(p)
    <2>1. /\ start[p] \in Object
          /\ draft' = draft /\ start' = [start EXCEPT ![p] = After(start[p])]
          /\ file' = file \/ file' = Created(start[p])
      BY <1>6 DEF RunScript, WriteThrough
    <2>2. start'[p] \notin Rebuild
      BY <2>1 DEF Rebuild
    <2>3. file'.tasks = file.tasks /\ file'.log = file.log
      BY <2>1, CreatedFields
    <2>4. QED
      BY <1>0, <2>1, <2>2, <2>3, OthersKeep DEF Unchanged
  <1>7. QED
    BY <1>2, <1>3, <1>4, <1>5, <1>6 DEF StartStep

\* A request that is in no entry of the log, and stays in none.
LEMMA MovesKeep ==
  ASSUME StorageTypes, LedgerInv, NEW r \in Request, NEW s \in Status,
         req[r] \notin {"reply", "lost"} \cup Accepted,
         s \notin {"reply"} \cup Accepted,
         req' = [req EXCEPT ![r] = s],
         \A q \in Request : q # r => key'[q] = key[q] /\ answer'[q] = answer[q],
         file'.tasks = file.tasks, file'.log = file.log
  PROVE  ContentInv' /\ RequestInv'
  <1>1. \A e \in file.log : e.request \in Request /\ e.request # r
    BY DEF StorageTypes, LedgerInv, RequestInv, FileType, Entry
  <1>2. ContentInv'
    BY DEF LedgerInv, ContentInv, OneTaskPerKey
  <1>3. RequestInv'
    BY <1>1 DEF StorageTypes, LedgerInv, RequestInv, Accepted
  <1>4. QED
    BY <1>2, <1>3

\* While no delivery is in its transaction, only the others' are to be
\* looked at.
LEMMA IdleKeeps ==
  ASSUME StorageTypes, LedgerInv, UNCHANGED <<start, saving>>,
         \A q \in Request : req'[q] \notin Holding,
         saving # None => Unchanged',
         \A p \in Starter : start[p] \in Rebuild => Unchanged'
  PROVE  DeliveryInv'
  BY DEF DeliveryInv, Holding

\* A token and a key arrive, or nothing of use.
LEMMA ArrivingKeeps ==
  ASSUME StorageTypes, LockInv, LedgerInv, NEW r \in Request, Arriving(r)
  PROVE  LedgerInv'
  <1>1. PICK x \in Source, k \in Key : Arrive(r, x, k)
    BY DEF Arriving
  <1>2. /\ req[r] = "new" /\ LoopFree
        /\ UNCHANGED <<file, draft, answer, start, saving>>
        /\ \/ req' = [req EXCEPT ![r] = "body"] /\ key' = [key EXCEPT ![r] = k]
           \/ req' = [req EXCEPT ![r] = "refused"] /\ key' = key
    BY <1>1 DEF Arriving, Arrive, Respond, dbVars, workerVars
  <1>3. \A q \in Request : q # r => key'[q] = key[q] /\ answer'[q] = answer[q]
    BY <1>2 DEF StorageTypes
  <1>4. ContentInv' /\ RequestInv'
    BY <1>2, <1>3, MovesKeep DEF Status, Storing, Accepted
  <1>5. \A q \in Request : req'[q] \notin Holding
    BY <1>2 DEF StorageTypes, LoopFree, Storing, Holding
  <1>6. DeliveryInv'
    BY <1>2, <1>5, IdleKeeps DEF LedgerInv, DeliveryInv, Unchanged
  <1>7. QED
    BY <1>4, <1>6 DEF LedgerInv

\* Every step of a delivery: the first writes nothing of the ledger, the next
\* two write the draft, the commit makes it the file, and the answer is read
\* from there.
LEMMA IngestKeeps ==
  ASSUME StorageTypes, LockInv, SchemaInv, LedgerInv, NEW r \in Request,
         Ingesting(r)
  PROVE  LedgerInv'
  <1>1. Up /\ UNCHANGED <<start, saving>>
    BY DEF Ingesting, workerVars
  <1>2. ASSUME req[r] \in Holding
        PROVE  /\ saving = None /\ \A p \in Starter : start[p] \notin Rebuild
               /\ \A q \in Request : q # r => req[q] \notin Storing
    BY <1>1, <1>2, StorageConstantsOK
    DEF LockInv, Holding, Storing, Up, Rebuild, StorageTypes
  <1>3. CASE Body(r)
    <2>1. /\ req[r] = "body" /\ LoopFree
          /\ UNCHANGED <<file, draft, bearer, key, answer>>
          /\ \/ req' = [req EXCEPT ![r] = "refused"]
             \/ req' = [req EXCEPT ![r] = "users"]
      BY <1>3 DEF Body, Respond, dbVars
    <2>2. ContentInv' /\ RequestInv'
      BY <2>1, MovesKeep DEF Status, Storing, Accepted
    <2>3. \A q \in Request : req'[q] \notin Holding
      BY <2>1 DEF StorageTypes, LoopFree, Storing, Holding
    <2>4. DeliveryInv'
      BY <1>1, <2>1, <2>3, IdleKeeps DEF LedgerInv, DeliveryInv, Unchanged
    <2>5. QED
      BY <2>2, <2>4 DEF LedgerInv
  <1>4. CASE InsertUser(r)
    <2>1. /\ req[r] = "users" /\ writer = NoOne
          /\ file' = file /\ draft' = file
          /\ UNCHANGED <<bearer, key, answer>>
          /\ req' = [req EXCEPT ![r] = "task"]
      BY <1>4 DEF InsertUser, Respond, FirstWrite, Free
    <2>2. ContentInv' /\ RequestInv'
      BY <2>1, MovesKeep DEF Status, Storing, Accepted
    <2>3. \A q \in Request : q # r => req'[q] \notin Holding
      BY <2>1 DEF StorageTypes, LockInv, Storing, Holding
    <2>4. Unchanged' /\ req'[r] = "task"
      BY <2>1 DEF Unchanged, StorageTypes
    <2>5. DeliveryInv'
      BY <2>3, <2>4 DEF DeliveryInv, Holding
    <2>6. QED
      BY <2>2, <2>5 DEF LedgerInv
  <1>5. CASE InsertTask(r)
    <2>1. /\ req[r] = "task" /\ UNCHANGED <<file, bearer, key, answer>>
          /\ \E s \in {"created", "duplicate"} : req' = [req EXCEPT ![r] = s]
      BY <1>5 DEF InsertTask, Respond, Write
    <2>2. ContentInv' /\ RequestInv'
      BY <2>1, MovesKeep DEF Status, Storing, Accepted
    <2>3. /\ saving' = None /\ \A p \in Starter : start'[p] \notin Rebuild
          /\ \A q \in Request : q # r => req'[q] \notin Holding
      BY <1>1, <1>2, <2>1 DEF StorageTypes, Storing, Holding
    <2>4. "ux_tasks" \in draft.objects /\ Unchanged
      BY <1>1, <2>1, StorageConstantsOK
      DEF SchemaInv, DraftInv, StartInv, Holding, Up, LedgerInv, DeliveryInv
    <2>5. CASE ~IsNew(r)
      <3>1. draft' = draft /\ req' = [req EXCEPT ![r] = "duplicate"]
        BY <1>5, <2>4, <2>5 DEF InsertTask, IsNew, Unchanged, Write, Respond
      <3>2. Unchanged' /\ (~IsNew(r))' /\ req'[r] = "duplicate"
        BY <2>1, <2>4, <2>5, <3>1 DEF Unchanged, IsNew, StorageTypes
      <3>3. QED
        BY <2>2, <2>3, <3>2 DEF LedgerInv, DeliveryInv, Holding
    <2>6. CASE IsNew(r)
      <3> DEFINE tasks == draft.tasks \cup {TaskOf(r)}
      <3>1. /\ draft' = [draft EXCEPT !.tasks = tasks]
            /\ req' = [req EXCEPT ![r] = "created"]
        BY <1>5, <2>4, <2>6
        DEF InsertTask, IsNew, Unchanged, Write, Respond, TaskOf
      <3>2. tasks = file.tasks \cup {TaskOf(r)}
        BY <2>4 DEF Unchanged
      <3> HIDE DEF tasks
      <3>3. draft'.tasks = tasks /\ draft'.log = draft.log
        BY <3>1, Fields DEF StorageTypes
      <3>4. TaskOf(r)' = TaskOf(r) /\ IsNew(r)' /\ req'[r] = "created"
        BY <2>1, <2>6, <3>1 DEF TaskOf, IsNew, StorageTypes
      <3>5. /\ draft'.tasks = file'.tasks \cup {TaskOf(r)'}
            /\ draft'.log = file'.log
        BY <2>1, <2>4, <3>2, <3>3, <3>4 DEF Unchanged
      <3>6. QED
        BY <2>2, <2>3, <3>4, <3>5 DEF LedgerInv, DeliveryInv, Holding
    <2>7. QED
      BY <2>5, <2>6
  <1>6. CASE WriteLog(r)
    <2>1. PICK row \in draft.tasks :
            /\ row.key = key[r]
            /\ Write("loop", [draft EXCEPT !.log = draft.log \cup
                 {EntryOf(r, req[r], row.id)}])
            /\ answer' = [answer EXCEPT ![r] = row.id]
      BY <1>6 DEF WriteLog, EntryOf
    <2> DEFINE log == draft.log \cup {EntryOf(r, req[r], row.id)}
    <2>2. /\ req[r] \in {"created", "duplicate"}
          /\ UNCHANGED <<file, bearer, key>>
          /\ req' = [req EXCEPT ![r] = "commit"]
          /\ draft' = [draft EXCEPT !.log = log]
      BY <1>6, <2>1 DEF WriteLog, Respond, Write
    <2> HIDE DEF log
    <2>3. draft'.tasks = draft.tasks /\ draft'.log = log
      BY <2>2, Fields DEF StorageTypes
    <2>4. \A q \in Request : q # r => answer'[q] = answer[q]
      BY <2>1
    <2>5. ContentInv' /\ RequestInv'
      BY <2>2, <2>4, MovesKeep DEF Status, Storing, Accepted
    <2>6. /\ saving' = None /\ \A p \in Starter : start'[p] \notin Rebuild
          /\ \A q \in Request : q # r => req'[q] \notin Holding
      BY <1>1, <1>2, <2>2 DEF StorageTypes, Storing, Holding
    <2>7. req'[r] = "commit" /\ answer'[r] = row.id
      BY <2>1, <2>2 DEF StorageTypes
    <2>8. CASE req[r] = "created"
      <3>1. /\ IsNew(r) /\ draft.log = file.log
            /\ draft.tasks = file.tasks \cup {TaskOf(r)}
        BY <2>8 DEF LedgerInv, DeliveryInv
      <3>2. row = TaskOf(r)
        BY <2>1, <3>1 DEF IsNew
      <3>3. row.id = r
        BY <3>2 DEF TaskOf
      <3>4. /\ TaskOf(r)' = TaskOf(r) /\ IsNew(r)'
            /\ EntryOf(r, "created", r)' = EntryOf(r, "created", r)
        BY <2>2, <3>1 DEF TaskOf, IsNew, EntryOf
      <3>5. log = file.log \cup {EntryOf(r, "created", r)}
        BY <2>8, <3>1, <3>3 DEF log
      <3>6. WroteNew(r)'
        BY <2>2, <2>3, <2>7, <3>1, <3>3, <3>4, <3>5 DEF WroteNew
      <3>7. QED
        BY <2>5, <2>6, <2>7, <3>6 DEF LedgerInv, DeliveryInv, Holding
    <2>9. CASE req[r] = "duplicate"
      <3>1. Unchanged
        BY <2>9 DEF LedgerInv, DeliveryInv
      <3>2. EntryOf(r, "duplicate", row.id)' = EntryOf(r, "duplicate", row.id)
        BY <2>2 DEF EntryOf
      <3>3. log = file.log \cup {EntryOf(r, "duplicate", row.id)}
        BY <2>9, <3>1 DEF log, Unchanged
      <3>4. WroteRepeat(r)'
        BY <2>1, <2>2, <2>3, <2>7, <3>1, <3>2, <3>3 DEF WroteRepeat, Unchanged
      <3>5. QED
        BY <2>5, <2>6, <2>7, <3>4 DEF LedgerInv, DeliveryInv, Holding
    <2>10. QED
      BY <2>2, <2>8, <2>9
  <1>7. CASE CommitTask(r)
    <2>1. /\ req[r] = "commit" /\ req' = [req EXCEPT ![r] = "reply"]
          /\ file' = draft /\ draft' = draft
      BY <1>7 DEF CommitTask, Commit, Respond
    <2>2. \A q \in Request : req'[q] \notin Holding
      BY <1>2, <2>1 DEF StorageTypes, Storing, Holding
    <2>3. DeliveryInv'
      BY <1>1, <2>1, <2>2, IdleKeeps DEF Unchanged
    <2>4. QED
      BY <1>7, <2>3, CommitKeeps DEF LedgerInv
  <1>8. CASE Reply(r)
    <2>1. /\ req[r] = "reply" /\ UNCHANGED <<file, draft, bearer, key, answer>>
          /\ req' = [req EXCEPT ![r] =
               IF EntryOf(r, "created", answer[r]) \in file.log
               THEN "201" ELSE "200"]
      BY <1>8 DEF Reply, Respond, EntryOf, dbVars
    <2>2. PICK e \in file.log : e.request = r
      BY <2>1 DEF LedgerInv, RequestInv
    <2>3. /\ e.key = key[r] /\ e.task = answer[r]
          /\ e \in Entry
          /\ \A f \in file.log : f.request = r => f = e
      BY <2>1, <2>2 DEF LedgerInv, RequestInv, StorageTypes, FileType
    <2>4. e = EntryOf(r, e.outcome, answer[r])
      BY <2>2, <2>3 DEF Entry, EntryOf
    <2>5. EntryOf(r, "created", answer[r]) \in file.log <=> e.outcome = "created"
      BY <2>2, <2>3, <2>4 DEF EntryOf
    <2>6. e.outcome \in {"created", "duplicate"}
      BY <2>3 DEF Entry
    <2>7. ContentInv'
      BY <2>1 DEF LedgerInv, ContentInv, OneTaskPerKey
    <2>8. RequestInv'
      <3>1. /\ req'[r] = IF e.outcome = "created" THEN "201" ELSE "200"
            /\ \A q \in Request : q # r => req'[q] = req[q]
        BY <2>1, <2>5 DEF StorageTypes
      <3>2. \A f \in file.log : f.request \in Request
        BY DEF StorageTypes, FileType, Entry
      <3>3. QED
        BY <2>1, <2>2, <2>3, <2>6, <3>1, <3>2
        DEF LedgerInv, RequestInv, Accepted
    <2>9. \A q \in Request : req'[q] \notin Holding
      BY <2>1 DEF StorageTypes, LockInv, Storing, Holding
    <2>10. DeliveryInv'
      BY <1>1, <2>1, <2>9, IdleKeeps DEF LedgerInv, DeliveryInv, Unchanged
    <2>11. QED
      BY <2>7, <2>8, <2>10 DEF LedgerInv
  <1>9. CASE IngestFails(r)
    <2>1. /\ req[r] \in Storing \ {"reply"} /\ UNCHANGED <<file, draft, key>>
          /\ req' = [req EXCEPT ![r] = "500"]
          /\ answer' = [answer EXCEPT ![r] = None]
      BY <1>9 DEF IngestFails, Rollback, Respond
    <2>2. ContentInv' /\ RequestInv'
      <3>1. \A q \in Request : q # r => key'[q] = key[q] /\ answer'[q] = answer[q]
        BY <2>1 DEF StorageTypes
      <3>2. "500" \in Status /\ "500" \notin {"reply"} \cup Accepted
            /\ req[r] \notin {"reply", "lost"} \cup Accepted
        BY <2>1 DEF Status, Storing, Accepted
      <3>3. QED
        BY <2>1, <3>1, <3>2, MovesKeep
    <2>3. \A q \in Request : req'[q] \notin Holding
      BY <2>1 DEF StorageTypes, LockInv, Storing, Holding
    <2>4. DeliveryInv'
      BY <1>1, <2>1, <2>3, IdleKeeps DEF LedgerInv, DeliveryInv, Unchanged
    <2>5. QED
      BY <2>2, <2>4 DEF LedgerInv
  <1>10. QED
    BY <1>3, <1>4, <1>5, <1>6, <1>7, <1>8, <1>9 DEF Ingesting, IngestStep

\* The host dies: nobody is in a transaction any more but, perhaps, the tool.
LEMMA CrashKeeps ==
  ASSUME StorageTypes, LockInv, LedgerInv, CrashHost
  PROVE  LedgerInv'
  <1>1. /\ UNCHANGED <<file, draft, bearer, key>> /\ saving' = None
        /\ start' = [start EXCEPT !["loop"] = "down"]
        /\ req' = [r \in Request |->
             IF req[r] \in Storing \cup {"body"} THEN "lost" ELSE req[r]]
        /\ answer' = [r \in Request |->
             IF req[r] \in Accepted THEN answer[r] ELSE None]
    BY DEF CrashHost, IngressCrash, GoTo
  <1>2. ContentInv'
    BY <1>1 DEF LedgerInv, ContentInv, OneTaskPerKey
  <1>3. \A r \in Request :
          /\ req[r] = "reply" => req'[r] = "lost"
          /\ req[r] = "lost" => req'[r] = "lost"
          /\ req[r] \in Accepted => req'[r] = req[r] /\ answer'[r] = answer[r]
          /\ req'[r] \notin {"reply"} \cup Holding
          /\ req'[r] \in Accepted => req[r] \in Accepted
    BY <1>1 DEF Storing, Holding, Accepted
  <1>4. \A e \in file.log : e.request \in Request
    BY DEF StorageTypes, FileType, Entry
  <1>5. RequestInv'
    BY <1>1, <1>3, <1>4 DEF LedgerInv, RequestInv, Accepted
  <1>6. \A p \in Starter : start'[p] \in Rebuild => start[p] \in Rebuild
    BY <1>1, StorageConstantsOK DEF StorageTypes, Rebuild
  <1>7. DeliveryInv'
    BY <1>1, <1>3, <1>6 DEF LedgerInv, DeliveryInv, Unchanged, Holding
  <1>8. QED
    BY <1>2, <1>5, <1>7 DEF LedgerInv

\* Every action keeps LedgerInv.
LEMMA LedgerStep ==
  ASSUME StorageTypes, LockInv, SchemaInv, LedgerInv, [Next]_vars
  PROVE  LedgerInv'
  <1>0. /\ saving # None => Unchanged
        /\ \A p \in Starter : start[p] \in Rebuild => Unchanged
    BY DEF LedgerInv, DeliveryInv
  <1>1. ASSUME NEW p \in Starter, Opening(p) \/ Failing(p) PROVE LedgerInv'
    <2>1. /\ UNCHANGED <<file, draft, saving, req, key, bearer, answer>>
          /\ \/ start' = [start EXCEPT ![p] = "check"]
             \/ start' = [start EXCEPT ![p] = "down"]
      BY <1>1 DEF Opening, Open, Failing, StartFails, Rollback, GoTo,
                  ingressVars, workerVars, dbVars
    <2>2. \A q \in Starter : start'[q] \in Rebuild => start[q] \in Rebuild
      BY <2>1 DEF StorageTypes, Rebuild
    <2>3. QED
      BY <1>0, <2>1, <2>2, OthersKeep DEF Unchanged
  <1>2. ASSUME NEW w \in NullRow, WorkerWrites(w) PROVE LedgerInv'
    <2>1. /\ writer = NoOne /\ UNCHANGED <<file, start, req, key, bearer, answer>>
          /\ draft' = [file EXCEPT !.trace.rows = file.trace.rows \cup {w}]
      BY <1>2 DEF WorkerWrites, FirstWrite, Free, ingressVars
    <2>2. draft'.tasks = file.tasks /\ draft'.log = file.log
      BY <2>1 DEF StorageTypes, FileType
    <2>3. \A r \in Request : req[r] \notin Holding
      BY <2>1, StorageConstantsOK DEF LockInv
    <2>4. QED
      BY <2>1, <2>2, <2>3, OthersKeep DEF Unchanged
  <1>3. CASE WorkerCommits
    <2>1. /\ saving # None /\ saving' = None /\ file' = draft /\ draft' = draft
          /\ UNCHANGED <<start, req, key, bearer, answer>>
      BY <1>3 DEF WorkerCommits, Commit, ingressVars
    <2>2. QED
      BY <1>0, <2>1, OthersKeep DEF Unchanged
  <1>4. CASE CrashTool
    <2>1. /\ UNCHANGED <<file, draft, saving, req, key, bearer, answer>>
          /\ start' = [start EXCEPT !["tool"] = "down"]
      BY <1>4 DEF CrashTool, Rollback, GoTo, ingressVars, workerVars
    <2>2. \A q \in Starter : start'[q] \in Rebuild => start[q] \in Rebuild
      BY <2>1, StorageConstantsOK DEF StorageTypes, Rebuild
    <2>3. QED
      BY <1>0, <2>1, <2>2, OthersKeep DEF Unchanged
  <1>5. CASE UNCHANGED vars
    BY <1>0, <1>5, OthersKeep DEF vars, dbVars, ingressVars, workerVars, Unchanged
  <1>6. ASSUME NEW p \in Starter, Starting(p) PROVE LedgerInv'
    BY <1>6, StartKeeps
  <1>7. ASSUME NEW r \in Request, Arriving(r) \/ Ingesting(r) PROVE LedgerInv'
    BY <1>7, ArrivingKeeps, IngestKeeps
  <1>8. CASE CrashHost
    BY <1>8, CrashKeeps
  <1>9. QED
    BY <1>1, <1>2, <1>3, <1>4, <1>5, <1>6, <1>7, <1>8 DEF Next

\* No file a host may find has tasks yet.
LEMMA InitialEmpty == \A f \in InitialFile : f.tasks = {} /\ f.log = {}
  <1>1. \A trace, objects, keyed : /\ Content(trace, objects, keyed).tasks = {}
                                   /\ Content(trace, objects, keyed).log = {}
    BY DEF Content
  <1>2. ASSUME NEW f \in InitialFile PROVE \E t, o, b : f = Content(t, o, b)
    BY Zenon DEF InitialFile
  <1>3. QED
    BY <1>1, <1>2

\* The ledger starts empty.
LEMMA InitLedger == ASSUME Init PROVE LedgerInv
  <1>1. file.tasks = {} /\ file.log = {} /\ draft = file
    BY InitialEmpty DEF Init, StartInit
  <1>2. /\ \A r \in Request : req[r] = "new"
        /\ saving = None
        /\ \A p \in Starter : start[p] = "down"
    BY DEF Init, StartInit, IngressInit
  <1>3. QED
    BY <1>1, <1>2
    DEF LedgerInv, ContentInv, OneTaskPerKey, RequestInv, DeliveryInv, Unchanged,
        Accepted

\* LedgerInv holds in every reachable state.
LEMMA LedgerAlways == Spec => []LedgerInv
  BY InitLedger, LedgerStep, LockAlways, SchemaAlways, PTL DEF Spec

\* However often, and however interrupted, a task is delivered, there is one
\* row for it.
THEOREM KeysUnique == Spec => []OneTaskPerKey
  <1>1. LedgerInv => OneTaskPerKey
    BY DEF LedgerInv, ContentInv
  <1>2. QED
    BY <1>1, LedgerAlways, PTL

\* What a connector was told of its task is in the table and in the log, and
\* stays there through crashes and restarts.
THEOREM AnswersKept == Spec => []AnswersStand
  <1>1. ASSUME StorageTypes, LedgerInv PROVE AnswersStand
    <2>1. ASSUME NEW r \in Request, req[r] \in Accepted
          PROVE  /\ [id |-> answer[r], key |-> key[r], by |-> SourceOf(key[r])]
                      \in file.tasks
                 /\ \E e \in file.log :
                      /\ e.request = r
                      /\ e.task = answer[r]
                      /\ e.outcome = IF req[r] = "201" THEN "created"
                                     ELSE "duplicate"
      <3>1. PICK e \in file.log : e.request = r
        BY <1>1, <2>1 DEF LedgerInv, RequestInv
      <3>2. /\ e.key = key[r] /\ e.task = answer[r]
            /\ e.outcome = IF req[r] = "201" THEN "created" ELSE "duplicate"
        BY <1>1, <2>1, <3>1 DEF LedgerInv, RequestInv, Accepted
      <3>3. [id |-> e.task, key |-> e.key, by |-> SourceOf(e.key)] \in file.tasks
        BY <1>1 DEF LedgerInv, ContentInv
      <3>4. QED
        BY <3>1, <3>2, <3>3
    <2>2. ASSUME NEW e \in file.log, NEW f \in file.log, e.key = f.key
          PROVE  /\ e.task = f.task
                 /\ e.outcome = "created" /\ f.outcome = "created" => e = f
      <3> DEFINE a == [id |-> e.task, key |-> e.key, by |-> SourceOf(e.key)]
                 b == [id |-> f.task, key |-> f.key, by |-> SourceOf(f.key)]
      <3>1. a \in file.tasks /\ b \in file.tasks
        BY <1>1 DEF LedgerInv, ContentInv
      <3>2. a = b
        BY <1>1, <2>2, <3>1 DEF LedgerInv, ContentInv, OneTaskPerKey
      <3>3. e.task = f.task
        BY <3>2
      <3>4. QED
        BY <1>1, <3>3 DEF LedgerInv, ContentInv, RequestInv
    <2>3. QED
      BY <1>1, <2>1, <2>2 DEF AnswersStand, LedgerInv, ContentInv
  <1>2. QED
    BY <1>1, LockAlways, LedgerAlways, PTL

-----------------------------------------------------------------------------
(* The ledger.                                                             *)

\* The status a connector knows.
Told == [r \in Request |-> IF req[r] \in Accepted THEN req[r] ELSE None]

\* Tasks and log are what is committed, and a connector has been told nothing
\* new.
LEMMA Silent ==
  ASSUME file'.tasks = file.tasks, file'.log = file.log,
         \A r \in Request :
           req'[r] = req[r] \/ (req[r] \notin Accepted /\ req'[r] \notin Accepted)
  PROVE  UNCHANGED Ledger!vars
  <1>1. Told' = Told
    BY DEF Told
  <1>2. QED
    BY <1>1 DEF Ledger!vars, Told

\* The commit enters the task, if it is new, and the log entry in one step of
\* the ledger.
LEMMA CommitDelivers ==
  ASSUME StorageTypes, LockInv, LedgerInv, NEW r \in Request, CommitTask(r)
  PROVE  Ledger!Deliver(r, key[r]) /\ key[r] \in Key
  <1> USE DEF StorageTypes
  <1>1. /\ req[r] = "commit" /\ req' = [req EXCEPT ![r] = "reply"]
        /\ file' = draft
    BY DEF CommitTask, Commit, Respond
  <1>2. key[r] \in Key /\ bearer[r] = SourceOf(key[r])
    BY <1>1 DEF Delivering, Storing
  <1>3. \A e \in file.log : e.request # r
    BY <1>1 DEF LedgerInv, RequestInv, Accepted
  <1>4. Told' = Told
    BY <1>1 DEF Told, Accepted
  <1>5. ASSUME WroteNew(r) PROVE Ledger!Create(r, key[r])
    BY <1>1, <1>2, <1>5
    DEF WroteNew, IsNew, TaskOf, EntryOf, Ledger!Create, Ledger!Entry
  <1>6. ASSUME WroteRepeat(r) PROVE Ledger!Repeat(r, key[r])
    BY <1>1, <1>6 DEF WroteRepeat, EntryOf, Ledger!Repeat, Ledger!Entry
  <1>7. Ledger!Create(r, key[r]) \/ Ledger!Repeat(r, key[r])
    BY <1>1, <1>5, <1>6 DEF LedgerInv, DeliveryInv
  <1>8. QED
    BY <1>2, <1>3, <1>4, <1>7 DEF Ledger!Deliver, Told

\* The reply tells what the entry of the delivery says.
LEMMA ReplyAnswers ==
  ASSUME StorageTypes, LedgerInv, NEW r \in Request, Reply(r)
  PROVE  Ledger!Answer(r)
  <1>1. /\ req[r] = "reply" /\ file' = file
        /\ req' = [req EXCEPT ![r] =
             IF EntryOf(r, "created", answer[r]) \in file.log THEN "201" ELSE "200"]
    BY DEF Reply, Respond, EntryOf, dbVars
  <1>2. PICK e \in file.log : e.request = r
    BY <1>1 DEF LedgerInv, RequestInv
  <1>3. /\ e.key = key[r] /\ e.task = answer[r]
        /\ e \in Entry
        /\ \A f \in file.log : f.request = r => f = e
    BY <1>1, <1>2 DEF LedgerInv, RequestInv, StorageTypes, FileType
  <1>4. e = EntryOf(r, e.outcome, answer[r])
    BY <1>2, <1>3 DEF Entry, EntryOf
  <1>5. EntryOf(r, "created", answer[r]) \in file.log <=> e.outcome = "created"
    BY <1>2, <1>3, <1>4 DEF EntryOf
  <1>6. req'[r] = (IF e.outcome = "created" THEN "201" ELSE "200")
        /\ \A q \in Request : q # r => req'[q] = req[q]
    BY <1>1, <1>5 DEF StorageTypes
  <1>7. Told' = [Told EXCEPT ![r] =
                   IF e.outcome = "created" THEN "201" ELSE "200"]
    BY <1>6 DEF Told, Accepted
  <1>8. Told[r] = "none"
    BY <1>1 DEF Told, Accepted, None
  <1>9. QED
    BY <1>1, <1>2, <1>7, <1>8 DEF Ledger!Answer, Told

\* Every step is one of the ledger or none at all.
LEMMA StepsOfLedger ==
  ASSUME StorageTypes, LockInv, LedgerInv, [Next]_vars
  PROVE  [Ledger!Next]_Ledger!vars
  <1> USE DEF ingressVars, workerVars, dbVars
  <1>1. ASSUME NEW r \in Request, Ingesting(r) PROVE [Ledger!Next]_Ledger!vars
    <2>1. CASE CommitTask(r)
      BY <2>1, CommitDelivers DEF Ledger!Next
    <2>2. CASE Reply(r)
      BY <2>2, ReplyAnswers DEF Ledger!Next
    <2>3. CASE Body(r) \/ InsertUser(r) \/ InsertTask(r) \/ WriteLog(r)
               \/ IngestFails(r)
      <3>1. /\ req[r] \notin Accepted
            /\ \E s \in Status \ Accepted : req' = [req EXCEPT ![r] = s]
            /\ file' = file
        BY <2>3 DEF Body, InsertUser, InsertTask, WriteLog, IngestFails, Respond,
           Rollback, FirstWrite, Write, Storing, Accepted, Status
      <3>2. QED
        BY <3>1, Silent DEF StorageTypes
    <2>4. QED
      BY <1>1, <2>1, <2>2, <2>3 DEF Ingesting, IngestStep
  <1>2. ASSUME NEW p \in Starter, Opening(p) \/ Failing(p)
        PROVE  UNCHANGED Ledger!vars
    BY <1>2, Silent DEF Opening, Open, Failing, StartFails, Rollback
  <1>3. ASSUME NEW p \in Starter, Starting(p) PROVE UNCHANGED Ledger!vars
    BY <1>3, StartKeeps, Silent DEF Starting
  <1>4. ASSUME NEW r \in Request, Arriving(r) PROVE UNCHANGED Ledger!vars
    BY <1>4, Silent DEF Arriving, Arrive, Respond, Accepted, StorageTypes
  <1>5. ASSUME NEW w \in NullRow, WorkerWrites(w) PROVE UNCHANGED Ledger!vars
    BY <1>5, Silent DEF WorkerWrites, FirstWrite
  <1>6. CASE WorkerCommits
    BY <1>6, Silent DEF WorkerCommits, Commit, LedgerInv, DeliveryInv, Unchanged
  <1>7. CASE CrashTool
    BY <1>7, Silent DEF CrashTool, Rollback
  <1>8. CASE CrashHost
    <2>1. \A r \in Request : \/ req'[r] = req[r]
                             \/ req[r] \notin Accepted /\ req'[r] \notin Accepted
      BY <1>8 DEF CrashHost, IngressCrash, Accepted, Storing
    <2>2. QED
      BY <1>8, <2>1, Silent DEF CrashHost
  <1>9. CASE UNCHANGED vars
    BY <1>9, Silent DEF vars
  <1>10. QED
    BY <1>1, <1>2, <1>3, <1>4, <1>5, <1>6, <1>7, <1>8, <1>9 DEF Next

\* Transactions, locks and crashes are invisible to connectors: the host with
\* its file is the ledger of IngressLedger.
THEOREM ImplementsLedger == Spec => LedgerSpec
  <1>1. Init => Ledger!Init
    <2>1. ASSUME Init PROVE Told = [r \in Request |-> "none"]
      BY <2>1 DEF Init, IngressInit, Told, Accepted, None
    <2>2. ASSUME Init PROVE file.tasks = {} /\ file.log = {}
      BY <2>2, InitialEmpty DEF Init, StartInit
    <2>3. QED
      BY <2>1, <2>2 DEF Ledger!Init, Told
  <1>2. StorageTypes /\ LockInv /\ LedgerInv /\ [Next]_vars
          => [Ledger!Next]_Ledger!vars
    BY StepsOfLedger
  <1>3. QED
    BY <1>1, <1>2, LockAlways, LedgerAlways, PTL DEF Spec, LedgerSpec, Ledger!Spec
=============================================================================

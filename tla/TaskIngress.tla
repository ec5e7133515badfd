---------------------------- MODULE TaskIngress ----------------------------
(***************************************************************************)
(* POST /v1/tasks/ingest: the handler on the event loop and the one        *)
(* transaction of IngressRepository.ingest_task.  The handler suspends to  *)
(* read the body and nowhere else: the transaction, waiting for the lock   *)
(* included, holds the event loop.  A delivery that is repeated, because   *)
(* its answer was lost or its connector sent it twice, is another request  *)
(* with the same key.                                                      *)
(***************************************************************************)
EXTENDS Database

CONSTANTS Request, Source, Key, SourceOf(_)

VARIABLES
  req,    \* where each request is, or the status it was answered with
  bearer, \* the source its token belongs to
  key,    \* its (source, external_id)
  answer  \* the task id it was answered

ingressVars == <<req, bearer, key, answer>>

None == "none"
Storing == {"users", "task", "created", "duplicate", "commit", "reply"}
Accepted == {"201", "200"}

IngressInit ==
  /\ req = [r \in Request |-> "new"]
  /\ bearer = [r \in Request |-> None]
  /\ key = [r \in Request |-> None]
  /\ answer = [r \in Request |-> None]

\* The event loop is in nobody's transaction.
LoopFree == \A r \in Request : req[r] \notin Storing

Respond(r, status) == req' = [req EXCEPT ![r] = status]

\* _authenticate, before the body is there; "refused" is 400, 401 or 422.
Arrive(r, s, k) ==
  /\ req[r] = "new"
  /\ LoopFree
  /\ \/ /\ Respond(r, "body")
        /\ bearer' = [bearer EXCEPT ![r] = s]
        /\ key' = [key EXCEPT ![r] = k]
     \/ /\ Respond(r, "refused")
        /\ UNCHANGED <<bearer, key>>
  /\ UNCHANGED <<dbVars, answer>>

\* Fault: any valid token may write as any source.
BodyOfAnySource(r) ==
  /\ req[r] = "body"
  /\ LoopFree
  /\ Respond(r, "users")
  /\ UNCHANGED <<dbVars, bearer, key, answer>>

\* The body: refused as it is (400), by its fields (422) or, if its source is
\* not the token's, in any case (401).
Body(r) ==
  /\ req[r] = "body"
  /\ LoopFree
  /\ \/ Respond(r, "refused")
     \/ SourceOf(key[r]) = bearer[r] /\ Respond(r, "users")
  /\ UNCHANGED <<dbVars, bearer, key, answer>>

\* The sentinel user exists from the first delivery on; it is left out of the
\* content, this is where the lock is taken.
InsertUser(r) ==
  /\ req[r] = "users"
  /\ FirstWrite("loop", file)
  /\ Respond(r, "task")
  /\ UNCHANGED <<bearer, key, answer>>

\* Fault: whether the key is new was looked up before, without the index.
InsertTaskUnchecked(r) ==
  /\ req[r] = "task"
  /\ Write("loop", [draft EXCEPT
       !.tasks = @ \cup {[id |-> r, key |-> key[r], by |-> bearer[r]]}])
  /\ Respond(r, "created")
  /\ UNCHANGED <<bearer, key, answer>>

\* Fault: the task is committed before it is logged.
InsertTaskAlone(r) ==
  /\ req[r] = "task"
  /\ writer = "loop"
  /\ IF \E row \in draft.tasks : row.key = key[r]
     THEN /\ UNCHANGED <<file, draft>>
          /\ Respond(r, "duplicate")
     ELSE /\ draft' = [draft EXCEPT
               !.tasks = @ \cup {[id |-> r, key |-> key[r], by |-> bearer[r]]}]
          /\ file' = draft'
          /\ Respond(r, "created")
  /\ UNCHANGED <<writer, bearer, key, answer>>

\* ON CONFLICT DO NOTHING on the unique index ux_tasks; rowcount tells.
InsertTask(r) ==
  /\ req[r] = "task"
  /\ IF "ux_tasks" \in draft.objects /\ \E row \in draft.tasks : row.key = key[r]
     THEN /\ Write("loop", draft)
          /\ Respond(r, "duplicate")
     ELSE /\ Write("loop", [draft EXCEPT
               !.tasks = @ \cup {[id |-> r, key |-> key[r], by |-> bearer[r]]}])
          /\ Respond(r, "created")
  /\ UNCHANGED <<bearer, key, answer>>

\* Fault: only new tasks are logged.
WriteLogOfNew(r) ==
  /\ req[r] \in {"created", "duplicate"}
  /\ \E row \in draft.tasks :
       /\ row.key = key[r]
       /\ Write("loop", IF req[r] = "duplicate" THEN draft ELSE
            [draft EXCEPT !.log = @ \cup
               {[request |-> r, key |-> key[r], outcome |-> req[r],
                 task |-> row.id]}])
       /\ answer' = [answer EXCEPT ![r] = row.id]
  /\ Respond(r, "commit")
  /\ UNCHANGED <<bearer, key>>

\* The row of this key is read back and logged.
WriteLog(r) ==
  /\ req[r] \in {"created", "duplicate"}
  /\ \E row \in draft.tasks :
       /\ row.key = key[r]
       /\ Write("loop", [draft EXCEPT !.log = @ \cup
            {[request |-> r, key |-> key[r], outcome |-> req[r],
              task |-> row.id]}])
       /\ answer' = [answer EXCEPT ![r] = row.id]
  /\ Respond(r, "commit")
  /\ UNCHANGED <<bearer, key>>

CommitTask(r) ==
  /\ req[r] = "commit"
  /\ Commit("loop")
  /\ Respond(r, "reply")
  /\ UNCHANGED <<bearer, key, answer>>

\* The process may still die before the answer leaves it.
Reply(r) ==
  /\ req[r] = "reply"
  /\ Respond(r, IF [request |-> r, key |-> key[r], outcome |-> "created",
                    task |-> answer[r]] \in file.log THEN "201" ELSE "200")
  /\ UNCHANGED <<dbVars, bearer, key, answer>>

\* Any statement raises: rolled back, and answered with an internal error.
IngestFails(r) ==
  /\ req[r] \in Storing \ {"reply"}
  /\ req[r] = "users" => Locked("loop")
  /\ Rollback("loop")
  /\ Respond(r, "500")
  /\ answer' = [answer EXCEPT ![r] = None]
  /\ UNCHANGED <<bearer, key>>

IngestStep(r) ==
  \/ Body(r) \/ InsertUser(r) \/ InsertTask(r) \/ WriteLog(r)
  \/ CommitTask(r) \/ Reply(r)

\* The process dies: requests in flight are never answered.
IngressCrash ==
  /\ req' = [r \in Request |->
               IF req[r] \in Storing \cup {"body"} THEN "lost" ELSE req[r]]
  /\ answer' = [r \in Request |-> IF req[r] \in Accepted THEN answer[r] ELSE None]
  /\ UNCHANGED <<bearer, key>>
=============================================================================

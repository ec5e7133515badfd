# A verification project for the SYNCRO host

TLA+ models of `syncro-robot-host`: the host process that edge units (robots)
connect to over a WebSocket, that transcribes an utterance, decides on an
answer, speaks it and keeps a decision trace.

## 1. The system

One Python process: one asyncio event loop (WebSocket handlers, one reaper task
per connection, HTTP handlers, the lifespan), one *interaction worker* thread,
one *TTS executor* thread, one SQLite file.

| component | state it keeps | operations | interacts through |
|---|---|---|---|
| stream sessions `api/ws/stream.py` | per connection `_in_flight` (id, `submitted`, last activity, buffer) | `start_audio`, frames, `end_audio`, `clock_sync_request`, disconnect; reaper poll | awaits sends on its socket, `worker.submit`, `wrap_future`, registry, runner (transport traces) |
| `Connection` `api/ws/connection.py` | identity, clock offset, in-flight id | `authenticate`, `record_clock_sync`, `start_session`, `end_session` | called by the handler |
| `SessionRegistry` | session id -> connection | `start`, `end` | shared by all handlers |
| `InteractionWorker` `pipeline/worker.py` | bounded queue, `_accepting`, thread | `start`, `submit`, `stop`, `_run` | futures to the handlers, calls the runner |
| `InteractionRunner` `pipeline/interaction.py` | TTS executor, `_tts_future` | `run`, `persist_transport_degraded_trace`, `close` | graph, TTS, store |
| dialogue graph and nodes `pipeline/graph.py`, `pipeline/nodes/` | the state of one turn | two parallel branches, a barrier at the policy node | adapters, store (context, R5 suppression) |
| storage `storage/` | SQLite tables | traces, users, context, ingress, migration | one transaction per call, from any thread |
| task ingress `api/http/tasks.py` | source tokens | `POST` of a task, idempotent by (source, external id) | storage |
| lifespan and composition `api/app.py`, `composition/` | the components | build, start; `stop`, `close` | everything above |
| local host pipeline, audio, adapters, settings | local devices, external services | sequential calls | - |
| `ml/affect`, scripts | files | offline | - |

What makes each correct:

- **stream sessions**: the three records of "who has which session" agree at
  every suspension point; an answer reaches only the edge that asked, and not
  after that edge was told the session ended; one trace row per session; every
  session is freed.
- **worker**: no interaction kills the thread; accepted items are served in
  order, once; `stop()` leaves nobody waiting.
- **runner**: one synthesis at a time, no turn speaks another's text, a stuck
  synthesis holds up no turn, the trace says what happened.
- **graph and policy**: the policy node sees both branches, no node fails for
  want of another's result, row and answer tell the same decision, R5
  suppresses the other pending reminders and nothing else.
- **reply guard, context retrieval**: no claim of a mutation leaves the guard,
  whatever words stand before or inside it; "imminent" means that an open task is
  due within the window, and the limits drop the tasks due last.
- **ingress, schema**: one row per external id however often it is delivered;
  an answer stands through crashes; migration is restartable and loses nothing.
- **lifespan**: what is served has a thread behind it; a shutdown gets through
  and leaves no accepted turn unsettled unless it ran out of time.

The hard behaviour: coroutines that suspend in the middle of a state change,
two threads and a loop, timeouts racing late answers, a store that may fail at
each of several writes, a database file that several processes open and that
outlives each of them. `PROJECT.json` lists the hazards line by line.

## 2. Modules

| module | models |
|---|---|
| `StreamSession` | the handlers, reapers and registry of all connections, the queue, the worker as seen from the loop |
| `SessionLifecycle` | abstract: the life of a session id - free, held by one connection, submitted once, processed, freed |
| `StreamSessionProofs` | the theorems about `StreamSession` and their proofs |
| `InteractionWorker` | `submit`, `cancel`, `stop` and the thread's loop, step by step |
| `SerialService` | abstract: a line served in order, one at a time, each answered once |
| `InteractionRunner` | `run()` on the worker thread, the TTS executor, `close()` |
| `RunPromise` | abstract: a turn ends with row and answer, or raises without one, only when the store fails |
| `Dialogue` | one turn through the LangGraph graph, node by node, then row and answer; the `decision_trace` table over several turns |
| `Database` | the SQLite file with its one write lock: transactions, rollback, a lock that stays taken |
| `SchemaMigration` | `initialize_schema` in every process that opens the file, on every version a file can have |
| `TaskIngress` | `POST /v1/tasks/ingest`, from the token to the answer |
| `HostStorage` | the composition of the three with the worker's trace writes, crashes and restarts |
| `IngressLedger` | abstract: deliveries that take effect at once and are answered by what the log says |
| `ReplyGuard` | operators: the guard against claims of unexecuted mutations |
| `ContextRetrieval` | operators: which tasks a turn sees and whether a deadline is near |
| `Rules` | puts every input up to a bound to these operators |
| `InteractionWorkerProofs`, `InteractionRunnerProofs`, `DialogueProofs`, `HostStorageProofs`, `RulesProofs` | the theorems about these modules and their proofs |
| `HostLifespanProofs` | the same of the composition, from the theorems of its two parts |
| `HostLifespan` | the composition of settings, lifespan, `InteractionWorker` and `InteractionRunner` (both by `INSTANCE`) |
| `MCStreamSession`, `MCDialogue`, `MCHostStorage`, `MCRules`, `MCHostLifespan` | the sets and symmetries TLC needs (the worker and the runner are checked as they are) |

`StreamSession` contains the worker in two actions, `WorkerTake` and
`WorkerFinish`. The other two modules justify them: `InteractionWorker`
implements `SerialService` (in order, one at a time, each settled once), and
`InteractionRunner` implements `RunPromise`, which is the body of
`WorkerFinish`. `TurnEnds` justifies the worker's fairness. `Dialogue`, which
opens up what is one step of the runner, implements `RunPromise` too, and
`HostLifespan` runs worker and runner together.

Definitions marked `Fault:` are wrong variants of the definition that follows
them. They are not part of any specification; they show that the properties
notice a plausible bug.

### StreamSession and the code

An action is what runs between two suspension points of a coroutine. `pc[c]`
names where the handler of connection `c` is suspended: `recv` in
`websocket.receive()`, `await` in `wrap_future`, `gone` when there is no
connection, `closing` in the `finally` block, and one state per send named for
what follows the send (`note` nothing, `malformed`/`failed`/`ended` a release,
`overflow` the trace write and a release, `response`/`chunk` the downlink). A
send puts its message on the socket and suspends; on a closed socket it raises
at once, and one that is suspended may raise when the socket closes
(`SendRaises`).

`sid`, `submitted` and `idle` are the fields of `_in_flight`; `idle` stands for
"the last activity is at least `session_timeout_seconds` ago" and is set by
`Elapse` at any time. `bound` is `Connection._in_flight_session_id`, `registry`
the shared dictionary. `queue`, `running` and `future` are the worker's side.
`told` and `rows` are history variables: what the edge was sent about the
connection's latest session, and what was written about it. They are reset when
a new session is accepted and when the connection ends, so that they always
speak of one session.

Every frame an edge can send is offered in `recv` in every state, in any order.
Frames without effect (unparseable text, `condition_report`, `end_audio` for
another session, audio outside a session, a repeated `clock_sync_request`) are
stutters. A frame that is valid JSON but no object is `BadFrame`: `raw.get`
raises `AttributeError`, which nobody catches. `WorkerStop` is the lifespan's
`stop()`: it may come while handlers are up, as the server's grace period ends.

### InteractionWorker and the code

`Line`, what of the queue the thread still comes to, is the items before the
first sentinel; it is part of the refinement mapping and of no action.

`submit()` is `SubmitCheck` then `SubmitPut`, because nothing in the class
makes the test of `_accepting` and the put one step. `OneThread` says submit and
stop are called from one thread, which is what this program does (the loop);
from another thread an item could land behind the sentinel (a remark in
`worker.py:73` allows such a caller, none exists). `stop()` is `StopCall`,
`StopPut` (a put that blocks while the queue is full) and `StopJoin`. `future`
follows the states of `concurrent.futures.Future`; `Settle` raises on a settled
one, and an exception there ends the thread (`crashed`).

### InteractionRunner and the code

`stage` is where the worker thread is in `run()`. `job` is the executor's view
of the synthesis of each turn's text, `tracked` is `_tts_future`. The local
variable `future` in `_synthesize` is the tracked one for as long as the call
waits (a conjunct of `TypeOK`). `AwaitTimeout` may find the synthesis done
already: that is the `finally` clause looking after the timeout. Which exception
class failed is left out, since `_FAILURE_MAP` requires a trace for every one.
`close()` may come at any moment, as it does after a `stop()` that timed out.
`timed` says whether the runner was built with `tts_timeout_s`; without it
`_synthesize` calls the adapter on the worker thread (`inline`).

### Dialogue and the code

`active` are the nodes of the superstep that have not returned, `writes` what
the others returned; `Superstep` merges it into `state`, which is
`DialogueState` with exactly the keys set so far, and starts what is `Due`.
`joined` is the barrier channel LangGraph keeps for
`add_edge(["node3_llm", "affect"], "node4_policy")`. `Needs(n)` are the keys
whose absence makes node `n` raise, `Returns(n)` the updates it may return
given the state, `CallsOut(n)` says whether it calls something that may fail.
`Returned("policy")` under R5 writes to `rows` at once, in the code's own
committed transaction; `Raised("policy")` may come after that, since the lead
time is read later. `Speak` is `InteractionRunner`'s synthesis in one step.
`hit` is a history variable: which turns met a failing adapter or store.
`ended`, `told` and `rows` are what a turn leaves behind; `told[t]` is the
response payload and whether audio went with it. `Wrote(n, update)` is a
node's return: LangGraph keeps the update until the superstep is over.

Parts of LangGraph (supersteps, the barrier, that two writes to a plain key
raise) are modelled from how `graph.py` uses them and marked external in the
map.

### HostStorage and the code

`Database` has one connection per call, as `SQLiteDatabase.connection` does:
`FirstWrite` takes the lock, `Write` goes on under it, `Commit` or `Rollback`
end the transaction, `WriteThrough` is a statement by itself. Readers see
`file`. Who finds the lock taken waits; `Locked` is when `busy_timeout` has
passed.

`start[p]` is where process `p` is in `initialize_schema`: the check (outside
any transaction), the statements of the rebuild (inside one), then the objects
of `SCHEMA_SQL` one by one. A file starts absent, current, or old in one of two
ways (before degraded traces; before task ingress). An old `tasks` table without
`source` and `external_id` cannot get its index, and the host never comes up on
such a file: `SPEC.md:998-1000` says to delete it.

`req[r]` is where a delivery is. Between the body and the answer the handler
does not suspend, so that the event loop handles one at a time (`LoopFree`),
while the worker thread and a second process write beside it. `CommitTask` and
`Reply` are two steps: the process may die between them. Which outcome a
request was answered with is read from the log entry of the transaction, which
`rowcount` decided. A repeated delivery is another request with the same key.

### ReplyGuard, ContextRetrieval and the code

A draft is a sequence of words and marks, each standing for its class in the
guard's regular expressions: the words that are in the same of these expressions
("added" for the completed forms of a verb). What a word is and whether it can
close a clause are two questions: `not` and `can` are a negator and a prospective
word that cannot (`_DANGLING_TAIL`), `cannot` and `going` are such words that
can, as `none`, `nobody`, `without` and `want` are. "," stands for the breaks of
a clause, ":" for the one that also ends a complement.

A deadline is the hour its text shows and the offset of its clock; SQL compares
the text, the code after it the instant, and `Raises` says when a deadline
without offset meets an aware time.

Both modules were also compared with the Python functions themselves, outside of
this project: 1.17 million drafts (all of up to four words, a sample of the longer
ones, with other members of the classes too) and 20 000 tables, without a
difference.

### HostLifespan and the code

`host` is how far `lifespan` in `app.py` is. `W` and `R` are the worker and the
runner, whose variables this module declares; `Claim` starts a turn of the
runner when the thread has claimed a future, and `Finish` settles the future
with what the runner's turn ended with. During `stop()` and `close()` the event
loop does nothing else, so that `Submit` needs `serving`. `Exit` waits for the
executor's thread as the interpreter does, also after `shutdown(wait=False)`,
and not for the worker's, which is a daemon. `env` is a settings record; a
number an environment variable cannot hold is `Malformed`, and `NaN` is what
`float("nan")` lets in.

## 3. What is checked

All runs are small enough to be exhaustive.

| run | instance | shows |
|---|---|---|
| `StreamSafety` | 2 connections, 2 ids, queue of 1, 1 chunk, store may fail | `TypeOK`, `RegistryConsistent`, `UtterancesOwned`, `EdgeAgrees`, `OneRowPerSession`, `NoAnswerAfterEnd`, `LifecycleSpec` |
| `StreamLiveness` | 2 connections, 1 id, fairness | `SubmittedReleased`, `IdleReclaimed`, `LifecycleFair` |
| `Worker` | 4 items, queue of 2, 2 calls of `stop()`, one with a join timeout, fairness | `TypeOK`, `ThreadSurvives`, `NobodyStranded`, `ServiceSpec`, `AcceptedSettles`, `StopReturns` |
| `Runner` | 3 turns, with and without a TTS timeout, store may fail, fairness | `TypeOK`, `OneSynthesis`, `OwnAudio`, `TraceTellsOutcome`, `PromiseSpec`, `TurnEnds` |
| `Dialogue` | 3 turns of 2 users, a governed and an ungoverned intent, a stored lead time below the minimum, store may fail | `TypeOK`, `OnlyOutsideFailures`, `StagesTimed`, `AnswerMatchesRow`, `OnlyR5Rewrites`, `PromiseSpec` |
| `HostStorage` | 3 deliveries, 2 keys of 2 sources, host and tool, 2 crashes, every version of the file | `TypeOK`, `OneTaskPerKey`, `AnswersStand`, `TraceSurvives`, `LedgerSpec` |
| `Rules` | drafts of 5 words over 18 word classes; tables of 3 tasks, 4 hours around the present, 3 clocks, limits of 1 to 4 | `NoClaimLeft`, `FragmentHidesExactly`, `ParenthesisKeepsBlocker`, `RetrievalExact` |
| `HostLifespan` | 9 environments, 3 turns, queue of 1, fairness | `TypeOK`, `DrainedBeforeClose`, `ShutdownGetsThrough` |

What some of the properties say, and what they do not:

- `EdgeAgrees`: a listening handler's session is one that its edge was told of
  and not told the end of. The converse, an edge that streams into a dropped
  session, is `TimeoutReported` in `StreamTimeoutReport`.
- `OneRowPerSession`: `rows` is the set of the kinds of rows a session has; two
  rows of one kind would not be noticed.
- `SubmittedReleased` and `IdleReclaimed` are run with one id, with which the
  queue is never full: that a refused session is freed too is not exercised.
- `OnlyOutsideFailures`: whatever the branches, clarifications, intents and
  levels, no turn fails by the nodes' own doing (a key nobody set, two writers
  of one key, a record its validator refuses).
- `AnswerMatchesRow`: node 4 and the output node build row and answer apart, a
  timeout changes the row after that; the two still agree, and the row's rule
  can be recomputed from the row. A clarification of a governed intent has rule
  `n/a` and outcome `pending`, and so may be suppressed later. A synthesis that
  timed out overwrites the reason `affect_detector_failure` (`interaction.py:266`):
  the row of such a turn does not tell that its level was a fallback.
- `OnlyR5Rewrites` says which rows R5 may touch; the row of an earlier R5 is one
  of them (`SPEC.md:966`).
- `LedgerSpec`: locks, transactions and crashes are invisible to connectors.
- `NoClaimLeft` is about the reply the guard puts in a claim's place: it is none by
  the guard's own rule. What that rule makes of a draft the next two ask.
- `FragmentHidesExactly`: a verbless fragment and a break before a claim ("No
  problem, I added it"). It says which fragments take the claim back: one that
  opens a question, one that tells of another time, and one with a negator or
  modal that ends on a word of `_DANGLING_TAIL`; every other leaves the claim a
  claim. A marker that is a negator alone ("No, I added it to your list.") is of
  the third kind, against `llm.py:117` (below). Claims that
  have no subject of their own, and participles that close a short sentence, are
  exempt: what stands before those is part of them (`ClaimsForItself`).
- `ParenthesisKeepsBlocker`: a parenthesis put into an honest clause does not turn
  it into a claim, wherever one of the two repairs of `llm.py:126-133` applies
  (`SeenWhole`), however far before it the negator or modal stands. It says nothing
  where neither applies, and the repairs do not reach every negator ("I cannot,
  however, say it was added.", below).
- `RetrievalExact` is claimed for tables whose deadlines are in UTC, and for
  every limit: a task that is left out has at least `top_k` returned ones before
  it that are due no later. An overdue task may be such a task, against
  `SPEC.md:225-228` (below). With other offsets the text
  comparison and the time comparison disagree, and a task may be in both lists
  or in neither; without an offset the comparison raises. The run's tables
  contain such deadlines, the property does not speak of them, and no property
  covers those two hazards (`context.py:59`, `context.py:103`): the repository
  promises nothing there. Ingested tasks, whose offsets are a connector's, belong
  to a user of their own and meet no turn.
- `TypeOK` of `HostLifespan` carries the budget check of the settings; it is
  claimed for numbers, since a sum with NaN in it passes the check.

**Bounds.** Two connections and two ids are what a collision between
connections, a collision within one and a busy connection need; with a queue of
one, the third place (running, queued, refused) is reached by re-use of a
connection after release. `MaxChunks` (the length of a response) distinguishes a
response without audio, and one suspended before and after a chunk. Four items
on a queue of two fill the queue while one runs and one is refused. Three turns
give a stuck synthesis, a turn that finds it busy and a turn that finds it
finished. In `Dialogue` three turns are what a suppressed row, the R5 turn that
suppressed it and a failing or second R5 turn need, two users whose row must
not be touched. In `HostStorage` three deliveries on two keys give a creation,
its repetition and another key in between; with two crashes each process can
die, or the host twice, in the middle of the migration and of a delivery. Five
words hold a fragment with a negator, a break, and a claim behind it, or a
subject, a blocker and a passive; a parenthesis adds three. Left out of the
vocabulary are four words of the module: `if` and `going`, which the guard treats
as `not` and `cannot`, and `in` and `yet`, which only combine what `up` (a
particle) and `to` (which cannot close a clause) have. Three tasks and limits of one to
four rows give lists that are cut and lists that are not; the hours lie before
the present, within the window and beyond it. A queue of one fills with three turns. Symmetry is used in
`StreamSafety`, `Dialogue` and `HostStorage` only, which check no liveness
(`PromiseSpec` and `LedgerSpec` are safety). Deadlock checking is
off in all runs but the stream's: turns, requests or words may be used up
there, the process may have ended, and the system stops.

**Fairness.** `StreamSession`: weak fairness of each handler's continuation and
of each reaper (the loop runs every ready callback; a send either completes or
raises when the socket is closed) and of the worker (`TurnEnds`). Nothing is
assumed of the edge or of time, so `IdleReclaimed` starts from a session that
has been idle for the timeout. `InteractionWorker`: the lifespan starts the
thread, the thread runs, and a pending `stop()` goes on when it can.
`InteractionRunner`: the worker thread goes on, since the adapters the graph
calls have timeouts of their own or compute; *nothing* is assumed of the
synthesis, neither on the executor nor inline. `HostLifespan`: the worker's
thread goes on, and so does the event loop in `stop()` and `close()`; nothing
is assumed of the synthesis, which is why `ShutdownGetsThrough` ends at
`exiting`: the end of the process waits for a hung Piper. For the storage no
liveness is claimed: a lock may stay taken for as long as its holder likes, and
then callers fail.

**Disagreements found** (each the one property of a run TLC violates):

| run | what happens |
|---|---|
| `StreamOverflowTrace` | the overflow error is sent before its row is written; a lost socket loses the row `SPEC.md:1405` asks for |
| `StreamTimeoutReport` | the reaper releases, then writes, then sends: a failing write leaves the edge streaming into a dropped session (`SPEC.md:810`) |
| `DialogueSuppression` | R5 commits its suppression in the policy node; when the lead-time read, the output node, the synthesis or the trace write fails, the reminder is not delivered and the others stay suppressed for it (`policy.py:93`) |
| `RunnerRawFailure` | a failing degraded trace leaves `run()` as a raw exception (`interaction.py:213` says every failure is translated), and the handler then drops the connection |

Met while modelling, and not made into a run: a second `start_audio` for the
running session is answered with an error that names it, and the session is
answered all the same (`messages.py:116` says an error ends it); the reaper may
add a `session_timeout` error while a `malformed_audio` error is being sent;
`lead_time_min` and `lead_time_max` come from the settings, where nothing checks
them, so that the bound of 5 to 60 minutes `policy.py:21` speaks of holds for the
defaults; two sources may be configured with one token, and the last one wins.

The rules differ from what is said of them in three more places. The properties
of `Rules` state what the code does there, and the functions themselves were
called with the sentences below:

- "No, I added it to your list." leaves the guard as it is: `no` cannot close a
  clause by `_DANGLING_TAIL` (`llm.py:298`), so that the marker counts as part of
  the claim's clause. `llm.py:117-120` says its negator cannot reach the verb
  "however few words away it sits", and `test_llm.py:65` tries only markers that go
  on behind it. `FragmentHidesExactly` has the marker among what takes back.
- "I cannot, however, say it was added." is replaced by the safe reply, "I cannot
  say it was added." is not: `cannot`, `none`, `nobody`, `nothing` and `without`
  are in `_NEGATION` (`llm.py:251`) and not in `_DANGLING_TAIL`, while
  `llm.py:126-130` says a segment that ends on a negator is part of the next.
  `ParenthesisKeepsBlocker` leaves the case out.
- With more overdue tasks than `top_k` the later ones are not returned
  (`context.py:50`), as `test_overdue_context_is_bounded` wants it; FR-H5
  (`SPEC.md:225-228`, which `context.py:34` cites) returns "any overdue tasks" and
  has a limit for the upcoming ones only. `RetrievalExact` says which may go.

## 4. What is proved

Every safety property of the passing runs, invariant, action property or
refinement, is also a theorem, for every value of the constants.

| module | theorem | property |
|---|---|---|
| `StreamSessionProofs` | `TypeCorrect` | `TypeOK` |
| | `RegistryCorrect` | `RegistryConsistent` |
| | `OwnershipCorrect` | `UtterancesOwned` |
| | `EdgeView` | `EdgeAgrees` |
| | `OneRow` | `OneRowPerSession` |
| | `NoLateAnswer` | `NoAnswerAfterEnd` |
| | `Implements` | `LifecycleSpec` |
| `InteractionWorkerProofs` | `TypeCorrect` | `TypeOK` |
| | `ThreadLives` | `ThreadSurvives` |
| | `NobodyLeftBehind` | `NobodyStranded`, if `OneThread` |
| | `ImplementsService` | `ServiceSpec`, if `OneThread` |
| `InteractionRunnerProofs` | `TypeCorrect` | `TypeOK` |
| | `PiperAlone` | `OneSynthesis` |
| | `NoForeignAudio` | `OwnAudio` |
| | `TruthfulTrace` | `TraceTellsOutcome` |
| | `KeepsPromise` | `PromiseSpec` |
| `DialogueProofs` | `TypeCorrect` | `TypeOK` |
| | `FailsFromOutside` | `OnlyOutsideFailures` |
| | `EveryStageTimed` | `StagesTimed` |
| | `AnswersAudited` | `AnswerMatchesRow`, if `LeadMin <= LeadMax` |
| | `R5Only` | `OnlyR5Rewrites` |
| | `KeepsPromise` | `PromiseSpec` |
| `HostStorageProofs` | `TypeCorrect` | `TypeOK` |
| | `TraceKept` | `TraceSurvives` |
| | `KeysUnique` | `OneTaskPerKey` |
| | `AnswersKept` | `AnswersStand` |
| | `ImplementsLedger` | `LedgerSpec` |
| `HostLifespanProofs` | `TypeCorrect` | `TypeOK` |
| | `DrainedFirst` | `DrainedBeforeClose` |
| | `PartsKeepPromises` | `ServiceSpec` and `PromiseSpec` of the two parts, in the composition |
| `RulesProofs` | `NothingClaimed` | `NoClaimLeft` |
| | `FragmentsHide` | `FragmentHidesExactly` |
| | `ParenthesisBlocks` | `ParenthesisKeepsBlocker` |
| | `RetrievesExactly` | `RetrievalExact` |

**Assumptions.** Each module's own (`ConstantsOK`, `WorkerConstantsOK`,
`RunnerConstantsOK`, `DialogueConstantsOK`, `StorageConstantsOK`,
`LifespanConstantsOK`, `RulesConstantsOK`): marks such as `NoTurn` are no
turns, bounds are numbers, the queue holds at least one. TLC evaluates them in
every run. Two theorems of the worker have the hypothesis `OneThread`, which is
how this program uses the class (a submission from a second thread may land
behind the sentinel) and which `HostLifespan` fixes to `TRUE`. `AnswersAudited`
has `LeadMin <= LeadMax`: `clamp_lead_time` returns the lower bound when the
two are the wrong way round, the answer's lead time is then outside of them,
and no check of the settings forbids it.

### StreamSession

`Inv1 == TypeOK /\ RegistryConsistent /\ UtterancesOwned` is
inductive. The last two need each other and nothing else: releasing a session
keeps ownership because only handlers outside `await`, or the reaper on an
unsubmitted session, release (`OutsideWorker`), and an unsubmitted session has
no utterance in the worker by `UtterancesOwned` itself. `SidInjective` (no two
connections hold one id) follows from `RegistryConsistent` and gives that the
worker never holds two utterances of a session.

The next three properties are about the history of one session, and are not
inductive: that no second row is written has to be known from where the handler
stands. `Inv2` adds, for each connection, what `told` and `rows` can be at each
`pc` (`HandlerInv`: a handler waiting for the worker has told `ready` or
`refused` and written nothing, one about to write the overflow row has written
nothing, an unsubmitted session has no row, ...). Its proof splits into the
actions of the connection itself and a frame lemma for the others
(`OthersUntouched`).

`Inv3` (`EdgeInv`) is the strengthening of `EdgeAgrees`: a connection that is
gone has no session, and what a listening handler's edge was told also holds
while a message without consequences is being sent.

`Implements` maps every action to a step of `SessionLifecycle` or to a stutter
(`SimOpen`, `SimSubmit`, `SimTake`, `SimFinish`, `SimFree`, then `Simulation`).

### InteractionWorker

That the thread never settles a settled future has to be known from where the
item is. `ThreadInv` says it: what the thread holds (`HeldInv`: between claim
and settling the item is `running`, and no other is), what the queue holds
(`QueueInv`: items not begun, each once, none of them the one in hand) and what
a sentinel means (`SentinelInv`: one is queued or on its way only when
submissions are turned away). It is inductive without `OneThread`.

`OrderInv` adds what `OneThread` buys: no submission is between its check and
its put when `_accepting` falls, so nothing is queued behind a sentinel, and a
pending future is in the queue or in the thread's hand. With both, `Line`
(`AheadIs`, `JoinLine`, `TakeFirst`) grows at the back, shrinks at the front, and every action is
a step of `SerialService` or a stutter.

### InteractionRunner

`OneSynthesis` counts; `OnlyTracked` (an unfinished job is the tracked one)
says which one, and is inductive, because `_synthesize` submits only when the
tracked future is done. `OwnAudio` follows the local future through the wait.
`TraceInv` adds to `TraceTellsOutcome` that the turn in hand has no outcome yet.
`KeepsPromise` maps `SaveTrace` and `Degrade` to the end of the turn and the
rest to stutters.

### Dialogue

`OnlyOutsideFailures` holds because of what each node finds in `state`.
`InGraph` spells out the six supersteps (`AtStart` ... `AtOutput`): which nodes
are active or have returned, what the barrier has seen, which keys are set, and
what is known of their values - the level behind the rule, the rule behind the
action, a lead time within its bounds. Then no `Needs(n)` is missing, no two
`Returns` write one key, and the record `output` builds passes its validator
(`AnswerSet`). `FlowInv` carries this to `speak` and `save`, `RowsInv` says that
the rows are those of turns that have ended. `AnswersAudited` is the same
strengthening followed into `rows`, where a later R5 may change the action and
nothing else; that is `R5Only`, proved per action.

### HostStorage

Everything rests on who holds the lock (`LockInv`): a delivery under way, a
rebuild or a trace write, one at a time, and with it on what the uncommitted
`draft` is at each statement.

- `SchemaInv`: `TableInv` of the committed file, `DraftInv` of the transaction
  (until a rebuild has copied, all rows are in the renamed table, from then on
  in the new one, ...), `StartInv` of what a start has seen when it is where
  it is. A crash throws the draft away, and `TableInv` is all that is left.
- `LedgerInv`: `ContentInv` of tasks and log, `RequestInv` of what each request
  was answered, `DeliveryInv` of what its transaction has written. The commit
  turns `WroteNew` or `WroteRepeat` into the one step of `IngressLedger` that
  takes effect.

### HostLifespan

The module includes worker and runner by `INSTANCE`, and so does the proof their
theorems (`WP`, `RP`). `SameWorker` and `SameRunner` relate the two instances;
`WorkerStep` and `RunnerStep` show that a step of the host is a step of each
part or leaves it alone, so that all that is proved of the parts holds here
(`WorkerAlways`, `RunnerAlways`; `PartsKeepPromises` for their abstract
specifications). What remains is between them: `PhaseInv` (how far the lifespan
is tells what the parts have been told), `SettingsInv`, `RunInv` (the runner is
inside the interaction that the thread runs, and the future gets its outcome)
and `DrainInv` (one sentinel, put by the one `stop()`, is the last thing the
thread takes). Their conjunction is inductive and gives `DrainedFirst`.

### Rules

The four properties are true of every input, not of reachable ones, so the
proofs need only `Inputs` (a draft is a sequence of words, a table one of
tasks) and not the bounds on their lengths. They rest on facts about least and
greatest elements (`MinIs`, `MaxIs`), which the clauses of the guard and the
limits of the queries are cut by.

- `NothingClaimed`: the replacement is one sentence and no claim (`ReplyIs`,
  `ReplyIsSafe`), and otherwise the draft goes through as it is.
- `ParenthesisBlocks`: behind the parenthesis every verb has the blocker in its
  scope, because the word before the comma cannot close a clause (`StillBlocks`)
  or because what is left of the clause has no subject, which lets the scope
  reach back to the start (`ReachesBack`).
- `FragmentsHide`: a draft behind a fragment is the draft shifted (`Behind`).
  Clause, scope, lead and rest of every verb shift with it (`ShiftedHanging`,
  `ShiftedStands`, `ShiftedMin`, `ShiftedElliptical`, `ShiftedClaim`). A harmless
  fragment is in no verb's scope (`Harmless`); conversely a fragment that takes
  back blocks each of them (`TakenBack`), which makes it an equivalence.
- `RetrievesExactly`: with one offset the order of the texts is the order of the
  instants (`Order`, `StrictOrder`), so that a limit cuts from the far end only
  (`FirstOf`, `FirstStays`): whatever is cut is behind `top_k` that are not
  (`CutBehind`).

### Model-checked only

Liveness (`SubmittedReleased`, `IdleReclaimed`, `LifecycleFair`,
`AcceptedSettles`, `StopReturns`, `TurnEnds`, `ShutdownGetsThrough`): the prover
does not do fairness and `ENABLED`. The four disagreements of section 3 are
counterexamples, which TLC finds.

## 5. What is not modelled, and the plan

Abstracted in the modules above: audio, texts and prompts, JSON parsing of the
model's output, latencies, the arithmetic of the clock offset, frame counts (a
mismatch is only logged), identities and authentication of edges (a refused
connection touches no state), payload validation, the read-only queries of the
store, tables nothing here depends on.

Not modelled, and why:

- *Local host pipeline* (`host_pipeline.py`, capture, playback, wake word): a
  sequential loop over local devices on one thread, which calls the runner as
  the worker does. All of its state is the devices'.
- *Latency computation and failure classes* of the runner: functions of clocks
  and of exception classes. Every class leads to the same control flow (a
  degraded row, then an `InteractionError`), which is modelled.
- *Audio conversion*: numerical; that a response has some number of chunks is
  what the sessions depend on.
- *The protocols of Ollama, Whisper and Piper*: external; they succeed, fail or
  (Piper) hang.
- `ml/affect`: offline training, evaluation and reports over files, without
  concurrency and without state shared with the host.
- Scripts: manual drivers and measurements. Health endpoint: a constant reply.

What the proofs leave open, next in this order:

1. That `WorkerTake` and `WorkerFinish` of `StreamSession` are what
   `InteractionWorker` and `InteractionRunner` amount to is argued from their
   abstract specifications; a mapping of the one onto the other would prove it.
2. `NobodyLeftBehind` for other callers than the loop: which order of `submit()`
   and `stop()` in two threads is enough.
3. What `RetrievesExactly` becomes for deadlines of one common offset other than
   UTC.

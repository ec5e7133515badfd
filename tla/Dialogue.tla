------------------------------ MODULE Dialogue ------------------------------
(***************************************************************************)
(* A turn on the worker thread: the dialogue graph, node by node, then the *)
(* synthesis and the decision_trace table it leaves behind.                *)
(*                                                                         *)
(* The graph runs in supersteps: the nodes that are due run side by side   *)
(* on the state as it was, and what they return is merged when the last of *)
(* them is done.  The policy node writes to the table itself: rule R5      *)
(* suppresses the user's pending reminders, in a transaction of its own,   *)
(* before the turn has been spoken or traced.                              *)
(***************************************************************************)
EXTENDS Naturals, Sequences, FiniteSets

CONSTANTS Turn, NoTurn, User,
          Intent,       \* the intents turns are classified as
          StoredLead,   \* lead times lead_time_state may hold, in minutes
          LeadMin, LeadMax, \* settings.lead_time_min, lead_time_max
          StoreMayFail  \* whether a SQLite call may raise

ASSUME DialogueConstantsOK ==
  /\ NoTurn \notin Turn
  /\ StoredLead \subseteq Nat
  /\ LeadMin \in Nat
  /\ LeadMax \in Nat
  /\ StoreMayFail \in BOOLEAN

VARIABLES
  turn,    \* the turn run() is in
  phase,   \* "graph", then what run() does with its result
  active,  \* nodes of this superstep that have not returned
  writes,  \* what the others returned, by node
  joined,  \* the branches that reached the barrier before the policy node
  state,   \* DialogueState: the keys set so far
  timed,   \* the stages in stage_timings_s
  heard,   \* whether the answer was synthesized in time
  rows,    \* the decision_trace table, oldest row first
  told,    \* what each turn was answered with
  ended,   \* how run() ended for each turn
  hit      \* turns that met a failing adapter or store

graphVars == <<active, writes, joined, state, timed>>
vars == <<turn, phase, graphVars, heard, rows, told, ended, hit>>

Node == {"stt", "affect", "intent", "context", "llm", "policy", "output"}
Level == {"Low", "Moderate", "High"}
Governed == {"dismiss_reminder", "snooze_reminder"}
Nothing == <<>>

TypeOK ==
  /\ turn \in Turn \cup {NoTurn}
  /\ phase \in {"idle", "graph", "speak", "save", "degrade"}
  /\ phase = "idle" <=> turn = NoTurn
  /\ active \subseteq Node
  /\ DOMAIN writes \subseteq Node \ active
  /\ joined \subseteq Node
  /\ timed \subseteq Node
  /\ heard \in BOOLEAN
  /\ ended \in [Turn -> {"none", "ok", "error", "raised"}]
  /\ hit \subseteq Turn
  /\ \A i \in DOMAIN rows : rows[i].turn \in Turn /\ rows[i].user \in User

Init ==
  /\ turn = NoTurn
  /\ phase = "idle"
  /\ active = {}
  /\ writes = Nothing
  /\ joined = {}
  /\ state = Nothing
  /\ timed = {}
  /\ heard = FALSE
  /\ rows = <<>>
  /\ told = [t \in Turn |-> Nothing]
  /\ ended = [t \in Turn |-> "none"]
  /\ hit = {}

-----------------------------------------------------------------------------
(* What the nodes read and return.                                         *)

Get(key, default) == IF key \in DOMAIN state THEN state[key] ELSE default

Clarifying == Get("proposed_action", "respond") = "clarify"

\* The keys whose absence makes a node raise.
Needs(n) ==
  CASE n = "intent" -> {"transcript"}
    [] n = "context" -> {"user_id"}
    [] n = "llm" -> IF Clarifying THEN {"final_response"}
                    ELSE {"intent", "transcript"}
    [] n = "policy" -> {"intent", "affect_level", "draft_response"}
    [] n = "output" -> {"user_id", "final_response", "intent", "affect_level"}
    [] OTHER -> {}

Transcribe == {[transcript |-> "words"]}

\* A level, or anything else: an exception, a word that is none.
Detected == Level \cup {"failure"}

\* Whatever the detector does wrong, the turn goes on with the fallback.
DetectAffect ==
  {IF d \in Level
   THEN [affect_level |-> d, degradation_reason |-> "none"]
   ELSE [affect_level |-> "Low",
         degradation_reason |-> "affect_detector_failure"]
   : d \in Detected}

\* Below the confidence threshold the turn becomes a clarification.
ClassifyIntent ==
  {[intent |-> i] : i \in Intent}
  \cup {[intent |-> i, final_response |-> "say it another way",
         proposed_action |-> "clarify"] : i \in Intent}

Retrieve ==
  {[deadline_proximity |-> p] :
     p \in IF Clarifying THEN {"n/a"} ELSE {"imminent", "not_imminent"}}

Draft ==
  {IF Clarifying
   THEN [draft_response |-> state["final_response"],
         proposed_action |-> "clarify"]
   ELSE [draft_response |-> "reply", proposed_action |-> "respond"]}

POLICY_RULES ==
  [Moderate |-> [not_imminent |-> "R2", imminent |-> "R3"],
   High     |-> [not_imminent |-> "R4", imminent |-> "R5"]]

apply_policy(level, proximity) ==
  IF proximity = "n/a" THEN "n/a"
  ELSE IF level = "Low" THEN "R1"
  ELSE POLICY_RULES[level][proximity]

InPolicyDomain == state["intent"] \in Governed

Rule ==
  IF InPolicyDomain
  THEN apply_policy(state["affect_level"], Get("deadline_proximity", "n/a"))
  ELSE "n/a"

ActionOf(rule) ==
  CASE rule = "R2" -> "defer"
    [] rule = "R3" -> "soften"
    [] rule = "R4" -> "break_prompt"
    [] OTHER -> "deliver"

\* Fault: the lead time is bounded from above only.
ClampAbove(minutes) == IF minutes > LeadMax THEN LeadMax ELSE minutes

\* min(max(minutes, lo), hi): nothing checks that the two are in order.
clamp_lead_time(minutes) ==
  LET raised == IF minutes < LeadMin THEN LeadMin ELSE minutes IN
    IF raised > LeadMax THEN LeadMax ELSE raised

Decide ==
  {[final_response |-> state["draft_response"],
    deadline_proximity |->
      IF InPolicyDomain THEN Get("deadline_proximity", "n/a") ELSE "n/a",
    policy_rule |-> Rule,
    action_taken |-> ActionOf(Rule),
    lead_time_min |-> clamp_lead_time(lead),
    reminder_outcome |-> IF InPolicyDomain THEN "pending" ELSE "n/a"]
   : lead \in StoredLead}

StateTag(action) ==
  CASE action = "break_prompt" -> "break_prompt"
    [] action = "defer" -> "deferred"
    [] OTHER -> "speaking"

Assemble ==
  {[response_payload |->
      [tag |-> StateTag(state["action_taken"]),
       rule |-> state["policy_rule"],
       lead |-> state["lead_time_min"]],
    pending_trace |->
      [turn |-> turn, user |-> state["user_id"],
       rule |-> state["policy_rule"],
       level |-> state["affect_level"],
       proximity |-> IF state["policy_rule"] = "n/a" THEN "n/a"
                     ELSE state["deadline_proximity"],
       action |-> state["action_taken"],
       lead |-> state["lead_time_min"],
       outcome |-> state["reminder_outcome"],
       reason |-> state["degradation_reason"]]]}

Returns(n) ==
  CASE n = "stt" -> Transcribe
    [] n = "affect" -> DetectAffect
    [] n = "intent" -> ClassifyIntent
    [] n = "context" -> Retrieve
    [] n = "llm" -> Draft
    [] n = "policy" -> Decide
    [] n = "output" -> Assemble

\* What a node calls that may fail: Whisper, Ollama twice, the store.
Hears(n) == n = "stt"
Classifies(n) == n = "intent"
Reasons(n) == n = "llm" /\ ~Clarifying
Queries(n) == StoreMayFail /\ (n = "policy" \/ (n = "context" /\ ~Clarifying))

CallsOut(n) == Hears(n) \/ Classifies(n) \/ Reasons(n) \/ Queries(n)

-----------------------------------------------------------------------------
(* The graph.                                                              *)

Edge == {<<"stt", "intent">>, <<"intent", "context">>, <<"context", "llm">>,
         <<"policy", "output">>}
Branches == {"llm", "affect"}

Finished == DOMAIN writes

Successors(done) == {m \in Node : \E n \in done : <<n, m>> \in Edge}

\* Fault: two edges instead of the barrier, so each branch starts the policy.
DueUnjoined ==
  Successors(Finished)
  \cup IF Branches \cap Finished # {} THEN {"policy"} ELSE {}

\* The policy node is due once both branches have arrived, in whatever
\* supersteps.
Due ==
  Successors(Finished)
  \cup IF Branches \subseteq joined \cup Finished /\ Branches \cap Finished # {}
       THEN {"policy"} ELSE {}

NewKeys == UNION {DOMAIN writes[n] : n \in Finished}

\* Two nodes of one superstep may not write one plain key: LangGraph raises.
Clash ==
  \E m, n \in Finished : m # n /\ DOMAIN writes[m] \cap DOMAIN writes[n] # {}

Merged ==
  [k \in DOMAIN state \cup NewKeys |->
     IF k \in NewKeys
     THEN writes[CHOOSE n \in Finished : k \in DOMAIN writes[n]][k]
     ELSE state[k]]

\* Fault: a plain key, the last node of the superstep wins.
LastTiming == {CHOOSE n \in Finished : TRUE}

\* The reducer keeps what the supersteps before and the nodes beside wrote.
merge_stage_timings == timed \cup Finished

\* Fault: a superstep's writes stay and are applied again after the next.
Rewrite == UNCHANGED writes

Apply == writes' = Nothing

\* An exception leaves the graph, or run()'s own checks.
Fail(outside) ==
  /\ phase' = "degrade"
  /\ hit' = IF outside THEN hit \cup {turn} ELSE hit

Begin(t, u) ==
  /\ turn = NoTurn
  /\ ended[t] = "none"
  /\ turn' = t
  /\ phase' = "graph"
  /\ active' = {"stt", "affect"}
  /\ writes' = Nothing
  /\ joined' = {}
  /\ state' = [user_id |-> u]
  /\ timed' = {}
  /\ heard' = FALSE
  /\ UNCHANGED <<rows, told, ended, hit>>

\* Fault: everybody's reminders.
SuppressedAll ==
  [i \in DOMAIN rows |->
     IF rows[i].outcome = "pending" THEN [rows[i] EXCEPT !.action = "suppress"]
     ELSE rows[i]]

\* suppress_pending_reminder_traces, one UPDATE in its own transaction.
Suppressed ==
  [i \in DOMAIN rows |->
     IF rows[i].user = state["user_id"] /\ rows[i].outcome = "pending"
     THEN [rows[i] EXCEPT !.action = "suppress"]
     ELSE rows[i]]

Wrote(n, update) ==
  writes' = [m \in Finished \cup {n} |-> IF m = n THEN update ELSE writes[m]]

\* Fault: the output node saves the trace itself, before anything was spoken.
ReturnedSaving(n) ==
  /\ phase = "graph"
  /\ n \in active
  /\ Needs(n) \subseteq DOMAIN state
  /\ active' = active \ {n}
  /\ \E update \in Returns(n) :
       /\ Wrote(n, update)
       /\ rows' = IF n = "output" THEN Append(rows, update.pending_trace) ELSE rows
  /\ UNCHANGED <<turn, phase, joined, state, timed, heard, told, ended, hit>>

Returned(n) ==
  /\ phase = "graph"
  /\ n \in active
  /\ Needs(n) \subseteq DOMAIN state
  /\ active' = active \ {n}
  /\ \E update \in Returns(n) : Wrote(n, update)
  /\ rows' = IF n = "policy" /\ Rule = "R5" THEN Suppressed ELSE rows
  /\ UNCHANGED <<turn, phase, joined, state, timed, heard, told, ended, hit>>

\* A node raises: for want of a key, or because what it calls failed.  The
\* policy node may do so before the suppression and, reading the lead time,
\* after it.
Raised(n) ==
  /\ phase = "graph"
  /\ n \in active
  /\ \/ /\ ~(Needs(n) \subseteq DOMAIN state)
        /\ Fail(FALSE)
        /\ UNCHANGED rows
     \/ /\ Needs(n) \subseteq DOMAIN state
        /\ CallsOut(n)
        /\ Fail(TRUE)
        /\ \/ UNCHANGED rows
           \/ n = "policy" /\ Rule = "R5" /\ rows' = Suppressed
  /\ UNCHANGED <<turn, graphVars, heard, told, ended>>

Superstep ==
  /\ phase = "graph"
  /\ active = {}
  /\ IF Clash \/ (Due = {} /\ "response_payload" \notin NewKeys)
     THEN /\ Fail(FALSE)
          /\ UNCHANGED graphVars
     ELSE /\ state' = Merged
          /\ timed' = merge_stage_timings
          /\ active' = Due
          /\ Apply
          /\ joined' = IF "policy" \in Due THEN {}
                       ELSE joined \cup (Finished \cap Branches)
          /\ phase' = IF Due = {} THEN "speak" ELSE "graph"
          /\ UNCHANGED hit
  /\ UNCHANGED <<turn, heard, rows, told, ended>>

-----------------------------------------------------------------------------
(* After the graph, in run().  The synthesis is InteractionRunner's, here  *)
(* one step with its three ends.                                           *)

Speak ==
  /\ phase = "speak"
  /\ \/ /\ phase' = "save"
        /\ heard' \in BOOLEAN
        /\ UNCHANGED hit
     \/ /\ Fail(TRUE)
        /\ UNCHANGED heard
  /\ UNCHANGED <<turn, graphVars, rows, told, ended>>

\* Fault: the row says what was planned, not that nothing was heard.
RowAsPlanned == state["pending_trace"]

\* A timeout overwrites whatever reason the affect branch gave.
FinalRow ==
  [state["pending_trace"] EXCEPT !.reason = IF heard THEN @ ELSE "tts_timeout"]

\* DecisionTraceRecord: rule and proximity are n/a together.
Valid(row) == row.rule = "n/a" <=> row.proximity = "n/a"

DegradedRow ==
  [turn |-> turn, user |-> state["user_id"], rule |-> "n/a", level |-> "n/a",
   proximity |-> "n/a", action |-> "n/a", lead |-> 0, outcome |-> "n/a",
   reason |-> "pipeline_failure"]

End(how, newRows) ==
  /\ ended' = [ended EXCEPT ![turn] = how]
  /\ rows' = newRows
  /\ turn' = NoTurn
  /\ phase' = "idle"
  /\ active' = {}
  /\ writes' = Nothing
  /\ joined' = {}
  /\ state' = Nothing
  /\ timed' = {}
  /\ heard' = FALSE

Save ==
  /\ phase = "save"
  /\ IF Valid(FinalRow)
     THEN \/ /\ End("ok", Append(rows, FinalRow))
             /\ told' = [told EXCEPT ![turn] =
                           [payload |-> state["response_payload"],
                            audio |-> heard]]
             /\ UNCHANGED hit
          \/ /\ StoreMayFail
             /\ Fail(TRUE)
             /\ UNCHANGED <<turn, graphVars, heard, rows, told, ended>>
     ELSE /\ Fail(FALSE)
          /\ UNCHANGED <<turn, graphVars, heard, rows, told, ended>>

Degrade ==
  /\ phase = "degrade"
  /\ \/ End("error", Append(rows, DegradedRow)) /\ UNCHANGED hit
     \/ StoreMayFail /\ End("raised", rows) /\ hit' = hit \cup {turn}
  /\ UNCHANGED told

Next ==
  \/ \E t \in Turn, u \in User : Begin(t, u)
  \/ \E n \in Node : Returned(n) \/ Raised(n)
  \/ Superstep \/ Speak \/ Save \/ Degrade

Spec == Init /\ [][Next]_vars

-----------------------------------------------------------------------------
\* The nodes fit together: no turn fails on a key an earlier node should have
\* set, a state two nodes write at once, or a record its own validator
\* refuses.  Every failed turn met an adapter or a store that failed.
OnlyOutsideFailures ==
  \A t \in Turn : ended[t] \in {"error", "raised"} => t \in hit

\* graph.py:27, state.py:8: a turn that came through the graph has the time
\* of every stage, the parallel ones included, exactly those that ran.
StagesTimed == phase \in {"speak", "save"} => timed = Node

\* What the edge was told and what the table keeps are the same decision, one
\* row per answered turn, and the row's rule follows from the row's own level
\* and proximity (the audit of SPEC 8.3); only the action may have become
\* "suppress" since.  A turn answered without audio says so.
Audited(row) ==
  row.rule # "n/a" => row.rule = apply_policy(row.level, row.proximity)

RowsOf(t) == {i \in DOMAIN rows : rows[i].turn = t}

AnswerMatchesRow ==
  \A t \in Turn : ended[t] = "ok" =>
    /\ Cardinality(RowsOf(t)) = 1
    /\ \A i \in RowsOf(t) :
         /\ Audited(rows[i])
         /\ told[t].payload.rule = rows[i].rule
         /\ told[t].payload.lead = rows[i].lead
         /\ told[t].payload.lead \in LeadMin..LeadMax
         /\ told[t].payload.tag = StateTag(ActionOf(rows[i].rule))
         /\ rows[i].action \in {ActionOf(rows[i].rule), "suppress"}
         /\ ~told[t].audio <=> rows[i].reason = "tts_timeout"

\* The table is append-only but for R5, which turns the action of pending
\* rows of its own user into "suppress" and touches nothing else: no other
\* user's row, no resolved or degraded one, never the row it triggers itself.
OnlyR5Rewrites ==
  [][\A i \in DOMAIN rows :
       /\ i \in DOMAIN rows'
       /\ rows'[i] # rows[i] =>
            /\ Rule = "R5"
            /\ rows[i].user = state["user_id"]
            /\ rows[i].outcome = "pending"
            /\ rows[i].turn # turn
            /\ rows'[i] = [rows[i] EXCEPT !.action = "suppress"]]_vars

\* policy.py:93: the triggering reminder is delivered, the other pending ones
\* are suppressed.  So a reminder is suppressed only for a delivered one.
SuppressedForDelivered ==
  turn = NoTurn =>
    \A i \in DOMAIN rows : rows[i].action = "suppress" =>
      \E t \in Turn : /\ ended[t] = "ok"
                      /\ told[t].payload.rule = "R5"
                      /\ \E j \in RowsOf(t) : j > i /\ rows[j].user = rows[i].user

\* The turn as InteractionRunner and StreamSession have it: whatever happens
\* in the graph, a turn that ends with an answer or a translated error has its
\* row, and has it no earlier than that.
Promise == INSTANCE RunPromise
  WITH busy <- turn, done <- ended,
       traced <- {t \in Turn : RowsOf(t) # {}}

PromiseSpec == Promise!Spec
=============================================================================

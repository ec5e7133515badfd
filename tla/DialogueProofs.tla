--------------------------- MODULE DialogueProofs ---------------------------
(***************************************************************************)
(* The safety properties of Dialogue for every set of turns, users and     *)
(* intents, any stored lead times and a store that may or may not fail.    *)
(***************************************************************************)
EXTENDS Dialogue, FiniteSetTheorems, TLAPS

-----------------------------------------------------------------------------
(* Policy.                                                                 *)

Proximity == {"imminent", "not_imminent", "n/a"}
RuleName == {"R1", "R2", "R3", "R4", "R5", "n/a"}
Action == {"defer", "soften", "break_prompt", "deliver"}

\* The matrix has a rule for every level and every proximity, and only the
\* proximity can be why there is none.
LEMMA MatrixTotal ==
  ASSUME NEW level \in Level, NEW proximity \in Proximity
  PROVE  /\ apply_policy(level, proximity) \in RuleName
         /\ apply_policy(level, proximity) = "n/a" <=> proximity = "n/a"
  BY DEF Level, Proximity, RuleName, apply_policy, POLICY_RULES

\* With the bounds in order, the clamp keeps to both.
LEMMA ClampBounds ==
  ASSUME NEW minutes \in Nat
  PROVE  /\ clamp_lead_time(minutes) \in Nat
         /\ LeadMin <= LeadMax => clamp_lead_time(minutes) \in LeadMin..LeadMax
  BY DialogueConstantsOK DEF clamp_lead_time

-----------------------------------------------------------------------------
(* Merging.                                                                *)

\* The merge takes all that the nodes returned and keeps the rest.
LEMMA MergeTakes ==
  ASSUME ~Clash
  PROVE  /\ DOMAIN Merged = DOMAIN state \cup NewKeys
         /\ \A k \in DOMAIN state \ NewKeys : Merged[k] = state[k]
         /\ \A n \in Finished : \A k \in DOMAIN writes[n] : Merged[k] = writes[n][k]
  <1>1. ASSUME NEW n \in Finished, NEW k \in DOMAIN writes[n]
        PROVE  Merged[k] = writes[n][k]
    <2> DEFINE m == CHOOSE m \in Finished : k \in DOMAIN writes[m]
    <2>1. m \in Finished /\ k \in DOMAIN writes[m]
      OBVIOUS
    <2>2. m = n
      BY <1>1, <2>1 DEF Clash
    <2>3. k \in NewKeys
      BY <1>1 DEF NewKeys
    <2>4. QED
      BY <2>2, <2>3 DEF Merged
  <1>2. QED
    BY <1>1 DEF Merged

\* A node alone in its superstep clashes with nothing.
LEMMA OneMerges ==
  ASSUME NEW n, Finished = {n}
  PROVE  ~Clash /\ NewKeys = DOMAIN writes[n]
  BY DEF Clash, NewKeys

-----------------------------------------------------------------------------
(* The supersteps.                                                         *)

\* What the keys hold once they are set.
AffectSet(s) ==
  /\ s["affect_level"] \in Level
  /\ s["degradation_reason"] \in {"none", "affect_detector_failure"}

DecisionSet(s, level) ==
  /\ s["policy_rule"] \in RuleName
  /\ s["policy_rule"] # "n/a" =>
       /\ s["policy_rule"] = apply_policy(level, s["deadline_proximity"])
       /\ s["deadline_proximity"] # "n/a"
  /\ s["deadline_proximity"] \in Proximity
  /\ s["action_taken"] = ActionOf(s["policy_rule"])
  /\ s["lead_time_min"] \in Nat
  /\ LeadMin <= LeadMax => s["lead_time_min"] \in LeadMin..LeadMax
  /\ s["reminder_outcome"] \in {"pending", "n/a"}

Reason ==
  {"none", "affect_detector_failure", "tts_timeout", "pipeline_failure"}

Row ==
  [turn : Turn, user : User, rule : RuleName, level : Level \cup {"n/a"},
   proximity : Proximity, action : Action \cup {"suppress", "n/a"}, lead : Nat,
   outcome : {"pending", "n/a"}, reason : Reason]

\* The answer and the row that is to be kept of it are one decision.
AnswerSet(s) ==
  /\ s["pending_trace"] \in Row
  /\ s["pending_trace"].turn = turn
  /\ Audited(s["pending_trace"])
  /\ Valid(s["pending_trace"])
  /\ s["pending_trace"].action = ActionOf(s["pending_trace"].rule)
  /\ s["pending_trace"].reason # "tts_timeout"
  /\ LeadMin <= LeadMax => s["pending_trace"].lead \in LeadMin..LeadMax
  /\ s["response_payload"].rule = s["pending_trace"].rule
  /\ s["response_payload"].lead = s["pending_trace"].lead
  /\ s["response_payload"].tag = StateTag(s["pending_trace"].action)

HeardKeys == {"user_id", "transcript", "affect_level", "degradation_reason"}
IntentKeys(clarify) ==
  IF clarify THEN {"intent", "final_response", "proposed_action"} ELSE {"intent"}
PolicyKeys == {"final_response", "deadline_proximity", "policy_rule",
               "action_taken", "lead_time_min", "reminder_outcome"}
AnswerKeys == {"response_payload", "pending_trace"}

ClarifySet(s) == "proposed_action" \in DOMAIN s => s["proposed_action"] = "clarify"

\* A superstep of these nodes, after those in past.
Step(nodes, past, branches) ==
  /\ active \cup Finished = nodes
  /\ active \cap Finished = {}
  /\ timed = past
  /\ joined = branches

AtStart ==
  /\ Step({"stt", "affect"}, {}, {})
  /\ DOMAIN state = {"user_id"}
  /\ "stt" \in Finished => DOMAIN writes["stt"] = {"transcript"}
  /\ "affect" \in Finished =>
       /\ DOMAIN writes["affect"] = {"affect_level", "degradation_reason"}
       /\ AffectSet(writes["affect"])

AtIntent ==
  /\ Step({"intent"}, {"stt", "affect"}, {"affect"})
  /\ DOMAIN state = HeardKeys
  /\ AffectSet(state)
  /\ "intent" \in Finished =>
       /\ \E clarify \in BOOLEAN : DOMAIN writes["intent"] = IntentKeys(clarify)
       /\ ClarifySet(writes["intent"])

AtContext ==
  /\ Step({"context"}, {"stt", "affect", "intent"}, {"affect"})
  /\ \E clarify \in BOOLEAN : DOMAIN state = HeardKeys \cup IntentKeys(clarify)
  /\ AffectSet(state)
  /\ ClarifySet(state)
  /\ "context" \in Finished =>
       /\ DOMAIN writes["context"] = {"deadline_proximity"}
       /\ writes["context"]["deadline_proximity"] \in Proximity

AtLlm ==
  /\ Step({"llm"}, {"stt", "affect", "intent", "context"}, {"affect"})
  /\ \E clarify \in BOOLEAN :
       DOMAIN state = HeardKeys \cup IntentKeys(clarify) \cup {"deadline_proximity"}
  /\ AffectSet(state)
  /\ ClarifySet(state)
  /\ state["deadline_proximity"] \in Proximity
  /\ "llm" \in Finished =>
       DOMAIN writes["llm"] = {"draft_response", "proposed_action"}

AtPolicy ==
  /\ Step({"policy"}, {"stt", "affect", "intent", "context", "llm"}, {})
  /\ HeardKeys \cup {"intent", "deadline_proximity", "draft_response"}
       \subseteq DOMAIN state
  /\ AffectSet(state)
  /\ state["deadline_proximity"] \in Proximity
  /\ "policy" \in Finished =>
       /\ DOMAIN writes["policy"] = PolicyKeys
       /\ DecisionSet(writes["policy"], state["affect_level"])

AtOutput ==
  /\ Step({"output"}, Node \ {"output"}, {})
  /\ HeardKeys \cup {"intent"} \cup PolicyKeys \subseteq DOMAIN state
  /\ AffectSet(state)
  /\ DecisionSet(state, state["affect_level"])
  /\ "output" \in Finished =>
       /\ DOMAIN writes["output"] = AnswerKeys
       /\ AnswerSet(writes["output"])

InGraph ==
  /\ "user_id" \in DOMAIN state
  /\ state["user_id"] \in User
  /\ AtStart \/ AtIntent \/ AtContext \/ AtLlm \/ AtPolicy \/ AtOutput

\* No node that is due lacks a key.
LEMMA NeedsMet ==
  ASSUME InGraph, NEW n \in active PROVE Needs(n) \subseteq DOMAIN state
  <1> USE DEF Step, Needs, HeardKeys, IntentKeys
  <1>1. CASE AtStart
    BY <1>1 DEF AtStart
  <1>2. CASE AtIntent
    BY <1>2 DEF AtIntent
  <1>3. CASE AtContext
    BY <1>3 DEF AtContext
  <1>4. CASE AtLlm
    BY <1>4 DEF AtLlm, ClarifySet, Clarifying, Get
  <1>5. CASE AtPolicy
    BY <1>5 DEF AtPolicy
  <1>6. CASE AtOutput
    BY <1>6 DEF AtOutput, PolicyKeys
  <1>7. QED
    BY <1>1, <1>2, <1>3, <1>4, <1>5, <1>6 DEF InGraph

\* What the nodes return is what the next ones read.
LEMMA NodeReturns ==
  ASSUME InGraph, turn \in Turn, NEW n \in active, NEW u \in Returns(n)
  PROVE  /\ n = "stt" => DOMAIN u = {"transcript"}
         /\ n = "affect" => /\ DOMAIN u = {"affect_level", "degradation_reason"}
                            /\ AffectSet(u)
         /\ n = "intent" =>
              /\ \E clarify \in BOOLEAN : DOMAIN u = IntentKeys(clarify)
              /\ ClarifySet(u)
         /\ n = "context" => /\ DOMAIN u = {"deadline_proximity"}
                             /\ u["deadline_proximity"] \in Proximity
         /\ n = "llm" => DOMAIN u = {"draft_response", "proposed_action"}
         /\ n = "policy" => /\ DOMAIN u = PolicyKeys
                            /\ DecisionSet(u, state["affect_level"])
         /\ n = "output" => DOMAIN u = AnswerKeys /\ AnswerSet(u)
  <1>1. CASE n = "stt"
    BY <1>1 DEF Returns, Transcribe
  <1>2. CASE n = "affect"
    BY <1>2 DEF Returns, DetectAffect, Detected, Level, AffectSet
  <1>3. CASE n = "intent"
    <2>1. PICK i \in Intent :
            \/ u = [intent |-> i]
            \/ u = [intent |-> i, final_response |-> "say it another way",
                    proposed_action |-> "clarify"]
      BY <1>3 DEF Returns, ClassifyIntent
    <2>2. CASE u = [intent |-> i]
      <3>1. DOMAIN u = IntentKeys(FALSE)
        BY <2>2 DEF IntentKeys
      <3>2. QED
        BY <1>3, <2>2, <3>1 DEF ClarifySet
    <2>3. CASE u = [intent |-> i, final_response |-> "say it another way",
                    proposed_action |-> "clarify"]
      <3>1. DOMAIN u = IntentKeys(TRUE)
        BY <2>3 DEF IntentKeys
      <3>2. QED
        BY <1>3, <2>3, <3>1 DEF ClarifySet
    <2>4. QED
      BY <2>1, <2>2, <2>3
  <1>4. CASE n = "context"
    BY <1>4 DEF Returns, Retrieve, Proximity
  <1>5. CASE n = "llm"
    BY <1>5 DEF Returns, Draft
  <1>6. CASE n = "policy"
    <2>1. /\ state["affect_level"] \in Level
          /\ "deadline_proximity" \in DOMAIN state
          /\ state["deadline_proximity"] \in Proximity
      BY <1>6 DEF InGraph, Step, AtStart, AtIntent, AtContext, AtLlm, AtPolicy,
                  AtOutput, AffectSet
    <2>2. Get("deadline_proximity", "n/a") = state["deadline_proximity"]
      BY <2>1 DEF Get
    <2>3. PICK lead \in StoredLead :
            u = [final_response |-> state["draft_response"],
                 deadline_proximity |->
                   IF InPolicyDomain THEN state["deadline_proximity"] ELSE "n/a",
                 policy_rule |-> Rule,
                 action_taken |-> ActionOf(Rule),
                 lead_time_min |-> clamp_lead_time(lead),
                 reminder_outcome |->
                   IF InPolicyDomain THEN "pending" ELSE "n/a"]
      BY <1>6, <2>2 DEF Returns, Decide
    <2>4. lead \in Nat
      BY DialogueConstantsOK
    <2>5. /\ Rule \in RuleName
          /\ Rule # "n/a" =>
               /\ InPolicyDomain
               /\ Rule = apply_policy(state["affect_level"],
                                      state["deadline_proximity"])
               /\ state["deadline_proximity"] # "n/a"
      BY <2>1, <2>2, MatrixTotal DEF Rule, RuleName
    <2>6. "n/a" \in Proximity
      BY DEF Proximity
    <2>7. QED
      BY <1>6, <2>1, <2>3, <2>4, <2>5, <2>6, ClampBounds
      DEF PolicyKeys, DecisionSet
  <1>7. CASE n = "output"
    <2>1. /\ AffectSet(state)
          /\ DecisionSet(state, state["affect_level"])
      BY <1>7 DEF InGraph, Step, AtStart, AtIntent, AtContext, AtLlm, AtPolicy,
                  AtOutput
    <2>2. /\ DOMAIN u = AnswerKeys
          /\ u["response_payload"] =
                [tag |-> StateTag(state["action_taken"]),
                 rule |-> state["policy_rule"],
                 lead |-> state["lead_time_min"]]
          /\ u["pending_trace"] =
                [turn |-> turn, user |-> state["user_id"],
                 rule |-> state["policy_rule"],
                 level |-> state["affect_level"],
                 proximity |-> IF state["policy_rule"] = "n/a" THEN "n/a"
                               ELSE state["deadline_proximity"],
                 action |-> state["action_taken"],
                 lead |-> state["lead_time_min"],
                 outcome |-> state["reminder_outcome"],
                 reason |-> state["degradation_reason"]]
      BY <1>7 DEF Returns, Assemble, AnswerKeys
    <2>3. ActionOf(state["policy_rule"]) \in Action
      BY DEF ActionOf, Action
    <2>4. u["pending_trace"] \in Row
      <3>1. state["degradation_reason"] \in Reason
        BY <2>1 DEF AffectSet, Reason
      <3>2. state["user_id"] \in User
        BY DEF InGraph
      <3>3. "n/a" \in Proximity
        BY DEF Proximity
      <3>4. QED
        BY <2>1, <2>2, <2>3, <3>1, <3>2, <3>3
        DEF Row, AffectSet, DecisionSet
    <2>5. /\ Audited(u["pending_trace"])
          /\ Valid(u["pending_trace"])
      BY <2>1, <2>2 DEF Audited, Valid, DecisionSet
    <2>6. QED
      BY <1>7, <2>1, <2>2, <2>4, <2>5 DEF AnswerSet, DecisionSet, AffectSet
  <1>8. QED
    BY <1>1, <1>2, <1>3, <1>4, <1>5, <1>6, <1>7

\* A node that returns leaves its superstep as it is but for its own writes.
LEMMA ReturnedKeeps ==
  ASSUME InGraph, turn \in Turn, NEW n \in Node, Returned(n) PROVE InGraph'
  <1>1. PICK u \in Returns(n) :
          writes' = [m \in Finished \cup {n} |-> IF m = n THEN u ELSE writes[m]]
    BY DEF Returned, Wrote
  <1>2. /\ n \in active /\ active' = active \ {n}
        /\ UNCHANGED <<turn, joined, state, timed>>
    BY DEF Returned
  <1>3. /\ Finished' = Finished \cup {n}
        /\ writes'[n] = u
        /\ \A m \in Finished : m # n => writes'[m] = writes[m]
    BY <1>1 DEF Finished
  <1>4. ASSUME NEW nodes, NEW past, NEW branches, Step(nodes, past, branches)
        PROVE  /\ Step(nodes, past, branches)' /\ n \in nodes
               /\ n \notin Finished
    BY <1>2, <1>3, <1>4 DEF Step
  <1> USE <1>2, <1>3, <1>4, NodeReturns
  <1>5. CASE AtStart
    BY <1>5 DEF AtStart, AffectSet, InGraph
  <1>6. CASE AtIntent
    BY <1>6 DEF AtIntent, AffectSet, ClarifySet, InGraph
  <1>7. CASE AtContext
    BY <1>7 DEF AtContext, AffectSet, ClarifySet, InGraph
  <1>8. CASE AtLlm
    BY <1>8 DEF AtLlm, AffectSet, ClarifySet, InGraph
  <1>9. CASE AtPolicy
    BY <1>9 DEF AtPolicy, AffectSet, DecisionSet, InGraph
  <1>10. CASE AtOutput
    BY <1>10 DEF AtOutput, AffectSet, DecisionSet, AnswerSet, InGraph
  <1>11. QED
    BY <1>5, <1>6, <1>7, <1>8, <1>9, <1>10 DEF InGraph

-----------------------------------------------------------------------------
(* From superstep to superstep.                                            *)

\* The next node after each superstep, and the barrier before the policy.
LEMMA NextDue ==
  /\ Finished = {"stt", "affect"} /\ joined = {} => Due = {"intent"}
  /\ Finished = {"intent"} => Due = {"context"}
  /\ Finished = {"context"} => Due = {"llm"}
  /\ Finished = {"llm"} /\ joined = {"affect"} => Due = {"policy"}
  /\ Finished = {"policy"} => Due = {"output"}
  /\ Finished = {"output"} => Due = {}
  BY DEF Due, Successors, Edge, Branches, Node

\* When a superstep is done the next one finds what it needs, and the graph
\* comes to its end with an answer.
LEMMA SuperstepMoves ==
  ASSUME InGraph, turn \in Turn, Superstep
  PROVE  /\ UNCHANGED hit
         /\ \/ phase' = "graph" /\ InGraph'
            \/ /\ phase' = "speak" /\ timed' = Node /\ AnswerSet(state)'
               /\ state'["user_id"] \in User
  <1>1. active = {} /\ UNCHANGED turn
    BY DEF Superstep
  <1>2. ASSUME ~Clash, Due # {} \/ "response_payload" \in NewKeys
        PROVE  /\ UNCHANGED hit
               /\ DOMAIN state' = DOMAIN state \cup NewKeys
               /\ \A k \in DOMAIN state \ NewKeys : state'[k] = state[k]
               /\ \A n \in Finished : \A k \in DOMAIN writes[n] :
                    state'[k] = writes[n][k]
               /\ timed' = timed \cup Finished
               /\ active' = Due
               /\ Finished' = {}
               /\ joined' = IF "policy" \in Due THEN {}
                            ELSE joined \cup (Finished \cap Branches)
               /\ phase' = IF Due = {} THEN "speak" ELSE "graph"
    <2>1. /\ UNCHANGED hit
          /\ state' = Merged
          /\ timed' = timed \cup Finished
          /\ active' = Due
          /\ writes' = <<>>
          /\ joined' = IF "policy" \in Due THEN {}
                       ELSE joined \cup (Finished \cap Branches)
          /\ phase' = IF Due = {} THEN "speak" ELSE "graph"
      BY <1>2 DEF Superstep, merge_stage_timings, Apply, Nothing
    <2>2. Finished' = {}
      BY <2>1 DEF Finished
    <2>3. QED
      BY <1>2, <2>1, <2>2, MergeTakes
  <1>3. CASE AtStart
    <2>1. Finished = {"stt", "affect"} /\ Due = {"intent"}
      BY <1>1, <1>3, NextDue DEF AtStart, Step
    <2>2. /\ NewKeys = {"transcript", "affect_level", "degradation_reason"}
          /\ ~Clash
      BY <1>3, <2>1 DEF AtStart, NewKeys, Clash
    <2>3. AtIntent'
      BY <1>2, <1>3, <2>1, <2>2
      DEF AtStart, AtIntent, Step, AffectSet, Branches, HeardKeys
    <2>4. QED
      BY <1>1, <1>2, <1>3, <2>1, <2>2, <2>3 DEF InGraph
  <1>4. CASE AtIntent
    <2>1. Finished = {"intent"} /\ Due = {"context"}
      BY <1>1, <1>4, NextDue DEF AtIntent, Step
    <2>2. ~Clash /\ NewKeys = DOMAIN writes["intent"]
      BY <2>1, OneMerges
    <2>3. AtContext'
      BY <1>2, <1>4, <2>1, <2>2
      DEF AtIntent, AtContext, Step, AffectSet, ClarifySet, Branches,
          HeardKeys, IntentKeys
    <2>4. "user_id" \notin NewKeys
      BY <1>4, <2>1, <2>2 DEF AtIntent, IntentKeys
    <2>5. QED
      BY <1>1, <1>2, <1>4, <2>1, <2>2, <2>3, <2>4 DEF InGraph
  <1>5. CASE AtContext
    <2>1. Finished = {"context"} /\ Due = {"llm"}
      BY <1>1, <1>5, NextDue DEF AtContext, Step
    <2>2. ~Clash /\ NewKeys = {"deadline_proximity"}
      BY <1>5, <2>1, OneMerges DEF AtContext
    <2>3. AtLlm'
      BY <1>2, <1>5, <2>1, <2>2
      DEF AtContext, AtLlm, Step, AffectSet, ClarifySet, Branches,
          HeardKeys, IntentKeys
    <2>4. QED
      BY <1>1, <1>2, <2>1, <2>2, <2>3 DEF InGraph
  <1>6. CASE AtLlm
    <2>1. Finished = {"llm"} /\ Due = {"policy"}
      BY <1>1, <1>6, NextDue DEF AtLlm, Step
    <2>2. ~Clash /\ NewKeys = {"draft_response", "proposed_action"}
      BY <1>6, <2>1, OneMerges DEF AtLlm
    <2>3. AtPolicy'
      BY <1>2, <1>6, <2>1, <2>2
      DEF AtLlm, AtPolicy, Step, AffectSet, Branches, HeardKeys, IntentKeys
    <2>4. QED
      BY <1>1, <1>2, <2>1, <2>2, <2>3 DEF InGraph
  <1>7. CASE AtPolicy
    <2>1. Finished = {"policy"} /\ Due = {"output"}
      BY <1>1, <1>7, NextDue DEF AtPolicy, Step
    <2>2. ~Clash /\ NewKeys = PolicyKeys
      BY <1>7, <2>1, OneMerges DEF AtPolicy
    <2>3. AtOutput'
      BY <1>2, <1>7, <2>1, <2>2
      DEF AtPolicy, AtOutput, Step, AffectSet, DecisionSet, Branches,
          HeardKeys, PolicyKeys, Node
    <2>4. QED
      BY <1>1, <1>2, <2>1, <2>2, <2>3 DEF InGraph, PolicyKeys
  <1>8. CASE AtOutput
    <2>1. Finished = {"output"} /\ Due = {}
      BY <1>1, <1>8, NextDue DEF AtOutput, Step
    <2>2. ~Clash /\ NewKeys = AnswerKeys
      BY <1>8, <2>1, OneMerges DEF AtOutput
    <2>3. timed' = Node
      BY <1>2, <1>8, <2>1, <2>2 DEF AtOutput, Step, AnswerKeys, Node
    <2>4. AnswerSet(state)'
      BY <1>1, <1>2, <1>8, <2>1, <2>2 DEF AtOutput, AnswerSet, AnswerKeys
    <2>5. QED
      BY <1>1, <1>2, <2>1, <2>2, <2>3, <2>4 DEF AnswerKeys, InGraph
  <1>9. QED
    BY <1>3, <1>4, <1>5, <1>6, <1>7, <1>8 DEF InGraph

-----------------------------------------------------------------------------
(* The turn.                                                               *)

\* The table: every row is that of a turn that has ended.
RowsInv ==
  /\ rows \in Seq(Row)
  /\ DOMAIN told = Turn
  /\ \A i \in DOMAIN rows : ended[rows[i].turn] # "none"
  /\ turn # NoTurn => ended[turn] = "none"

\* Where the turn is, what its state holds there, and that it has met a
\* failing adapter or store if it is about to fail.
FlowInv ==
  /\ phase = "graph" => InGraph
  /\ phase \in {"speak", "save"} =>
       timed = Node /\ AnswerSet(state) /\ state["user_id"] \in User
  /\ phase = "degrade" => turn \in hit /\ state["user_id"] \in User
  /\ OnlyOutsideFailures

TurnInv == TypeOK /\ RowsInv /\ FlowInv

\* R5 rewrites the action of pending rows of the turn's user, and no more.
LEMMA SuppressedRows ==
  ASSUME rows \in Seq(Row)
  PROVE  /\ Suppressed \in Seq(Row)
         /\ DOMAIN Suppressed = DOMAIN rows
         /\ \A i \in DOMAIN rows :
              \/ Suppressed[i] = rows[i]
              \/ /\ rows[i].user = state["user_id"]
                 /\ rows[i].outcome = "pending"
                 /\ Suppressed[i] = [rows[i] EXCEPT !.action = "suppress"]
         /\ \A i \in DOMAIN rows :
              /\ rows[i] \in Row /\ Suppressed[i] \in Row
              /\ Suppressed[i].turn = rows[i].turn
              /\ Suppressed[i].user = rows[i].user
              /\ Suppressed[i].rule = rows[i].rule
              /\ Suppressed[i].level = rows[i].level
              /\ Suppressed[i].proximity = rows[i].proximity
              /\ Suppressed[i].lead = rows[i].lead
              /\ Suppressed[i].reason = rows[i].reason
              /\ Suppressed[i].action \in {rows[i].action, "suppress"}
  <1>1. \A i \in DOMAIN rows : rows[i] \in Row
    OBVIOUS
  <1>2. \A i \in DOMAIN rows : [rows[i] EXCEPT !.action = "suppress"] \in Row
    BY <1>1 DEF Row
  <1>3. Suppressed = [i \in 1..Len(rows) |-> Suppressed[i]]
    BY DEF Suppressed
  <1>4. \A i \in DOMAIN rows : Suppressed[i] \in Row
    BY <1>1, <1>2 DEF Suppressed
  <1>5. \A i \in DOMAIN rows :
              \/ Suppressed[i] = rows[i]
              \/ /\ rows[i].user = state["user_id"]
                 /\ rows[i].outcome = "pending"
                 /\ Suppressed[i] = [rows[i] EXCEPT !.action = "suppress"]
    BY DEF Suppressed
  <1>6. DOMAIN Suppressed = DOMAIN rows
    BY DEF Suppressed
  <1>7. Suppressed \in Seq(Row)
    <2>1. DOMAIN rows = 1..Len(rows) /\ Len(rows) \in Nat
      OBVIOUS
    <2>2. [i \in 1..Len(rows) |-> Suppressed[i]] \in Seq(Row)
      BY <1>4, <2>1
    <2>3. QED
      BY <1>3, <2>2
  <1>8. QED
    BY <1>1, <1>4, <1>5, <1>6, <1>7 DEF Row

\* Whose row it is.
LEMMA RowTypes ==
  ASSUME NEW r \in Seq(Row), NEW i \in DOMAIN r
  PROVE  r[i].turn \in Turn /\ r[i].user \in User
  <1>1. r[i] \in Row
    OBVIOUS
  <1>2. QED
    BY <1>1 DEF Row

\* A row that is added, behind those there are.
LEMMA AppendedRow ==
  ASSUME rows \in Seq(Row), NEW row \in Row
  PROVE  LET r == Append(rows, row)
         IN  /\ r \in Seq(Row)
             /\ DOMAIN rows = 1..Len(rows)
             /\ DOMAIN r = DOMAIN rows \cup {Len(rows) + 1}
             /\ Len(rows) + 1 \notin DOMAIN rows
             /\ r[Len(rows) + 1] = row
             /\ \A i \in DOMAIN rows : r[i] = rows[i]
  OBVIOUS

\* A degraded turn's row.
LEMMA DegradedRowOK ==
  ASSUME turn \in Turn, state["user_id"] \in User PROVE DegradedRow \in Row
  BY DEF DegradedRow, Row, RuleName, Proximity, Reason

\* An answered turn's row is that of the output node, with the reason of the
\* missing audio in it.
LEMMA FinalRowOK ==
  ASSUME AnswerSet(state)
  PROVE  /\ FinalRow \in Row
         /\ FinalRow.turn = turn
         /\ FinalRow.rule = state["pending_trace"].rule
         /\ FinalRow.level = state["pending_trace"].level
         /\ FinalRow.proximity = state["pending_trace"].proximity
         /\ FinalRow.action = state["pending_trace"].action
         /\ FinalRow.lead = state["pending_trace"].lead
         /\ FinalRow.reason =
              IF heard THEN state["pending_trace"].reason ELSE "tts_timeout"
         /\ Valid(FinalRow)
         /\ Audited(FinalRow)
  <1> DEFINE row == state["pending_trace"]
  <1>1. row \in Row /\ row.turn = turn /\ Valid(row) /\ Audited(row)
    BY DEF AnswerSet
  <1>2. FinalRow = [row EXCEPT !.reason = IF heard THEN row.reason ELSE "tts_timeout"]
    BY <1>1 DEF FinalRow, Row
  <1> HIDE DEF row
  <1>3. /\ FinalRow \in Row
        /\ FinalRow.turn = row.turn /\ FinalRow.rule = row.rule
        /\ FinalRow.level = row.level /\ FinalRow.proximity = row.proximity
        /\ FinalRow.action = row.action /\ FinalRow.lead = row.lead
        /\ FinalRow.reason = IF heard THEN row.reason ELSE "tts_timeout"
    BY <1>1, <1>2 DEF Row, Reason
  <1>4. QED
    BY <1>1, <1>3 DEF Valid, Audited, row

\* The trace of a step on the table while a turn is in the graph.
LEMMA SuppressKeeps ==
  ASSUME RowsInv, rows' \in {rows, Suppressed}, UNCHANGED <<turn, ended, told>>
  PROVE  RowsInv'
  BY SuppressedRows DEF RowsInv

\* The end of a turn, with a row of its own or with none.
LEMMA EndKeeps ==
  ASSUME TurnInv, turn \in Turn, NEW how \in {"ok", "error", "raised"},
         DOMAIN told' = Turn, hit' \subseteq Turn, NEW newRows,
         End(how, newRows),
         \/ newRows = rows
         \/ \E row \in Row : row.turn = turn /\ newRows = Append(rows, row)
  PROVE  RowsInv' /\ TypeOK'
  <1>1. /\ ended' = [ended EXCEPT ![turn] = how] /\ rows' = newRows
        /\ turn' = NoTurn /\ phase' = "idle" /\ active' = {} /\ writes' = <<>>
        /\ joined' = {} /\ timed' = {} /\ heard' = FALSE
    BY DEF End, Nothing
  <1> USE DEF TurnInv, TypeOK, RowsInv
  <1>2. /\ rows' \in Seq(Row)
        /\ \A i \in DOMAIN rows' : ended'[rows'[i].turn] # "none"
    <2>1. CASE newRows = rows
      BY <1>1, <2>1 DEF Row
    <2>2. ASSUME NEW row \in Row, row.turn = turn, newRows = Append(rows, row)
          PROVE  /\ rows' \in Seq(Row)
                 /\ \A i \in DOMAIN rows' : ended'[rows'[i].turn] # "none"
      BY <1>1, <2>2, AppendedRow DEF Row
    <2>3. QED
      BY <2>1, <2>2
  <1>3. \A i \in DOMAIN rows' : rows'[i] \in Row
    BY <1>2
  <1>4. \A i \in DOMAIN rows' : rows'[i].turn \in Turn /\ rows'[i].user \in User
    BY <1>3 DEF Row
  <1>5. ended' \in [Turn -> {"none", "ok", "error", "raised"}]
    BY <1>1
  <1>6. DOMAIN writes' = {}
    BY <1>1
  <1>7. TypeOK'
    BY <1>1, <1>4, <1>5, <1>6
  <1>8. RowsInv'
    BY <1>1, <1>2
  <1>9. QED
    BY <1>7, <1>8

\* Every action keeps TurnInv: no node lacks a key, no two nodes clash, the
\* graph ends with an answer and its row is valid.
LEMMA TurnStep == ASSUME TurnInv, [Next]_vars PROVE TurnInv'
  <1> USE DialogueConstantsOK
  <1>1. ASSUME NEW t \in Turn, NEW u \in User, Begin(t, u) PROVE TurnInv'
    <2>1. /\ turn = NoTurn /\ ended[t] = "none" /\ turn' = t
          /\ phase' = "graph" /\ active' = {"stt", "affect"} /\ writes' = <<>>
          /\ joined' = {} /\ state' = [user_id |-> u] /\ timed' = {}
          /\ heard' = FALSE /\ UNCHANGED <<rows, told, ended, hit>>
      BY <1>1 DEF Begin, Nothing
    <2>2. DOMAIN writes' = {}
      BY <2>1
    <2>3. DOMAIN state' = {"user_id"} /\ state'["user_id"] \in User
      BY <2>1
    <2>4. InGraph'
      BY <2>1, <2>2, <2>3 DEF InGraph, AtStart, Step, Finished
    <2>5. TypeOK'
      BY <2>1, <2>2 DEF TurnInv, TypeOK, Node
    <2>6. QED
      BY <2>1, <2>4, <2>5 DEF TurnInv, RowsInv, FlowInv, OnlyOutsideFailures
  <1>2. ASSUME NEW n \in Node, Returned(n) PROVE TurnInv'
    <2>1. /\ phase = "graph" /\ n \in active /\ active' = active \ {n}
          /\ rows' \in {rows, Suppressed}
          /\ UNCHANGED <<turn, phase, joined, state, timed, heard, told, ended, hit>>
      BY <1>2 DEF Returned
    <2>2. turn \in Turn /\ InGraph
      BY <2>1 DEF TurnInv, TypeOK, FlowInv
    <2>3. InGraph'
      BY <1>2, <2>2, ReturnedKeeps
    <2>4. RowsInv'
      BY <2>1, SuppressKeeps DEF TurnInv
    <2>5. \A i \in DOMAIN rows' : rows'[i].turn \in Turn /\ rows'[i].user \in User
      BY <2>4, RowTypes DEF RowsInv
    <2>6. DOMAIN writes' = DOMAIN writes \cup {n}
      BY <1>2 DEF Returned, Wrote, Finished
    <2>7. TypeOK'
      BY <2>1, <2>5, <2>6 DEF TurnInv, TypeOK
    <2>8. QED
      BY <2>1, <2>3, <2>4, <2>7 DEF TurnInv, FlowInv, OnlyOutsideFailures
  <1>3. ASSUME NEW n \in Node, Raised(n) PROVE TurnInv'
    <2>1. phase = "graph" /\ n \in active
      BY <1>3 DEF Raised
    <2>2. turn \in Turn /\ InGraph
      BY <2>1 DEF TurnInv, TypeOK, FlowInv
    <2>3. Needs(n) \subseteq DOMAIN state
      BY <2>1, <2>2, NeedsMet
    <2>4. /\ phase' = "degrade" /\ hit' = hit \cup {turn}
          /\ rows' \in {rows, Suppressed}
          /\ UNCHANGED <<turn, graphVars, heard, told, ended>>
      BY <1>3, <2>3 DEF Raised, Fail
    <2>5. RowsInv'
      BY <2>4, SuppressKeeps DEF TurnInv
    <2>6. \A i \in DOMAIN rows' : rows'[i].turn \in Turn /\ rows'[i].user \in User
      BY <2>5, RowTypes DEF RowsInv
    <2>7. TypeOK'
      BY <2>1, <2>2, <2>4, <2>6 DEF TurnInv, TypeOK, graphVars
    <2>8. QED
      BY <2>2, <2>4, <2>5, <2>7
      DEF TurnInv, FlowInv, OnlyOutsideFailures, InGraph, graphVars
  <1>4. CASE Superstep
    <2>1. phase = "graph" /\ UNCHANGED <<turn, heard, rows, told, ended>>
      BY <1>4 DEF Superstep
    <2>2. turn \in Turn /\ InGraph
      BY <2>1 DEF TurnInv, TypeOK, FlowInv
    <2>3. /\ UNCHANGED hit
          /\ \/ phase' = "graph" /\ InGraph'
             \/ /\ phase' = "speak" /\ timed' = Node /\ AnswerSet(state)'
                /\ state'["user_id"] \in User
      BY <1>4, <2>2, SuperstepMoves
    <2>4. active' \subseteq Node /\ timed' \subseteq Node /\ joined' \subseteq Node
          /\ DOMAIN writes' \subseteq Node \ active'
      <3>1. Due \subseteq Node /\ Branches \subseteq Node
        BY DEF Due, Successors, Edge, Branches, Node
      <3>2. \/ UNCHANGED graphVars
            \/ /\ active' = Due /\ timed' = timed \cup Finished /\ writes' = <<>>
               /\ joined' \in {{}, joined \cup (Finished \cap Branches)}
        BY <1>4 DEF Superstep, merge_stage_timings, Apply, Nothing
      <3>3. writes' = <<>> => DOMAIN writes' = {}
        OBVIOUS
      <3>4. QED
        BY <3>1, <3>2, <3>3 DEF TurnInv, TypeOK, graphVars, Finished
    <2>5. TypeOK'
      BY <2>1, <2>2, <2>3, <2>4 DEF TurnInv, TypeOK
    <2>6. QED
      BY <2>1, <2>3, <2>5 DEF TurnInv, RowsInv, FlowInv, OnlyOutsideFailures
  <1>5. CASE Speak
    <2>1. turn \in Turn /\ phase = "speak"
      BY <1>5 DEF Speak, TurnInv, TypeOK
    <2>2. QED
      BY <1>5, <2>1
      DEF Speak, Fail, TurnInv, TypeOK, RowsInv, FlowInv, OnlyOutsideFailures,
          graphVars, AnswerSet
  <1>6. CASE Save
    <2>1. turn \in Turn /\ phase = "save" /\ AnswerSet(state)
      BY <1>6 DEF Save, TurnInv, TypeOK, FlowInv
    <2>2. FinalRow \in Row /\ FinalRow.turn = turn /\ Valid(FinalRow)
      BY <2>1, FinalRowOK
    <2>3. CASE End("ok", Append(rows, FinalRow)) /\ UNCHANGED hit
      <3>1. DOMAIN told' = Turn
        BY <1>6, <2>2 DEF Save, TurnInv, RowsInv
      <3>2. TypeOK' /\ RowsInv'
        BY <2>1, <2>2, <2>3, <3>1, EndKeeps DEF TurnInv, TypeOK
      <3>3. QED
        BY <2>1, <2>3, <3>2
        DEF TurnInv, TypeOK, FlowInv, OnlyOutsideFailures, End
    <2>4. CASE /\ Fail(TRUE)
               /\ UNCHANGED <<turn, graphVars, heard, rows, told, ended>>
      BY <2>1, <2>4
      DEF Fail, TurnInv, TypeOK, RowsInv, FlowInv, OnlyOutsideFailures, graphVars
    <2>5. QED
      BY <1>6, <2>2, <2>3, <2>4 DEF Save
  <1>7. CASE Degrade
    <2>1. /\ turn \in Turn /\ turn \in hit /\ state["user_id"] \in User
          /\ phase = "degrade" /\ UNCHANGED told
      BY <1>7 DEF Degrade, TurnInv, TypeOK, FlowInv
    <2>2. PICK how \in {"error", "raised"}, newRows \in {rows, Append(rows, DegradedRow)} :
            End(how, newRows)
      BY <1>7 DEF Degrade
    <2>3. hit' = hit
      BY <1>7, <2>1 DEF Degrade
    <2>4. DegradedRow \in Row /\ DegradedRow.turn = turn
      BY <2>1, DegradedRowOK DEF DegradedRow
    <2>5. TypeOK' /\ RowsInv'
      BY <2>1, <2>2, <2>3, <2>4, EndKeeps DEF TurnInv, TypeOK, RowsInv
    <2>6. QED
      BY <2>1, <2>2, <2>3, <2>5
      DEF TurnInv, TypeOK, FlowInv, OnlyOutsideFailures, End
  <1>8. CASE UNCHANGED vars
    BY <1>8
    DEF vars, graphVars, TurnInv, TypeOK, RowsInv, FlowInv, OnlyOutsideFailures,
        InGraph, AtStart, AtIntent, AtContext, AtLlm, AtPolicy, AtOutput, Step,
        Finished, AnswerSet
  <1>9. QED
    BY <1>1, <1>2, <1>3, <1>4, <1>5, <1>6, <1>7, <1>8 DEF Next

\* The three parts hold of every turn, whatever its stages do.
LEMMA TurnAlways == Spec => []TurnInv
  <1>1. ASSUME Init PROVE TurnInv
    <2>1. /\ rows \in Seq(Row) /\ DOMAIN rows = {} /\ DOMAIN writes = {}
          /\ DOMAIN told = Turn
      BY <1>1 DEF Init, Nothing
    <2>2. QED
      BY <1>1, <2>1, DialogueConstantsOK
      DEF Init, TurnInv, TypeOK, RowsInv, FlowInv, OnlyOutsideFailures
  <1>2. QED
    BY <1>1, TurnStep, PTL DEF Spec

\* The graph's bookkeeping is that of one superstep of one turn.
THEOREM TypeCorrect == Spec => []TypeOK
  BY TurnAlways, PTL DEF TurnInv

\* The nodes fit together whatever they return: a turn fails only when an
\* adapter or the store did.
THEOREM FailsFromOutside == Spec => []OnlyOutsideFailures
  BY TurnAlways, PTL DEF TurnInv, FlowInv

\* No superstep loses the time of a stage, the parallel ones included.
THEOREM EveryStageTimed == Spec => []StagesTimed
  <1>1. TurnInv => StagesTimed
    BY DEF TurnInv, FlowInv, StagesTimed
  <1>2. QED
    BY <1>1, TurnAlways, PTL

-----------------------------------------------------------------------------
(* The table.                                                              *)

\* Whatever R5 touches is a pending row of the turn's own user and of an
\* earlier turn.
THEOREM R5Only == Spec => OnlyR5Rewrites
  <1>1. ASSUME TurnInv, [Next]_vars
        PROVE  [\A i \in DOMAIN rows :
                  /\ i \in DOMAIN rows'
                  /\ rows'[i] # rows[i] =>
                       /\ Rule = "R5"
                       /\ rows[i].user = state["user_id"]
                       /\ rows[i].outcome = "pending"
                       /\ rows[i].turn # turn
                       /\ rows'[i] = [rows[i] EXCEPT !.action = "suppress"]]_vars
    <2>1. rows \in Seq(Row)
      BY <1>1 DEF TurnInv, RowsInv
    <2>2. CASE UNCHANGED rows
      BY <2>2
    <2>3. CASE Rule = "R5" /\ rows' = Suppressed /\ phase = "graph"
      <3>1. \A i \in DOMAIN rows : rows[i].turn # turn
        BY <1>1, <2>3, DialogueConstantsOK DEF TurnInv, TypeOK, RowsInv
      <3>2. QED
        BY <2>1, <2>3, <3>1, SuppressedRows
    <2>4. ASSUME NEW row \in Row, rows' = Append(rows, row)
          PROVE  \A i \in DOMAIN rows : i \in DOMAIN rows' /\ rows'[i] = rows[i]
      BY <2>1, <2>4, AppendedRow
    <2>5. CASE Save \/ Degrade
      <3>1. turn \in Turn
        BY <1>1, <2>5 DEF Save, Degrade, TurnInv, TypeOK
      <3>2. phase = "save" => FinalRow \in Row
        BY <1>1, FinalRowOK DEF TurnInv, FlowInv
      <3>3. phase = "degrade" => DegradedRow \in Row
        BY <1>1, <3>1, DegradedRowOK DEF TurnInv, FlowInv
      <3>4. UNCHANGED rows \/ \E row \in Row : rows' = Append(rows, row)
        BY <2>5, <3>2, <3>3 DEF Save, Degrade, End
      <3>5. QED
        BY <2>4, <3>4
    <2>6. ASSUME NEW n \in Node, Returned(n) \/ Raised(n)
          PROVE  UNCHANGED rows \/ (Rule = "R5" /\ rows' = Suppressed /\ phase = "graph")
      BY <2>6 DEF Returned, Raised
    <2>7. QED
      BY <1>1, <2>2, <2>3, <2>5, <2>6
      DEF Next, vars, Begin, Superstep, Speak
  <1>2. QED
    BY <1>1, TurnAlways, PTL DEF Spec, OnlyR5Rewrites

\* What AnswerMatchesRow says of an answer and its row.
Agree(answer, row) ==
  /\ Audited(row)
  /\ answer.payload.rule = row.rule
  /\ answer.payload.lead = row.lead
  /\ answer.payload.lead \in LeadMin..LeadMax
  /\ answer.payload.tag = StateTag(ActionOf(row.rule))
  /\ row.action \in {ActionOf(row.rule), "suppress"}
  /\ ~answer.audio <=> row.reason = "tts_timeout"

\* The property of the answer, turn by turn and row by row.
LEMMA AgreeIs ==
  AnswerMatchesRow <=>
    \A t \in Turn : ended[t] = "ok" =>
      /\ Cardinality(RowsOf(t)) = 1
      /\ \A i \in RowsOf(t) : Agree(told[t], rows[i])
  BY DEF AnswerMatchesRow, Agree

\* R5 leaves an answer and its row in agreement.
LEMMA SuppressAgrees ==
  ASSUME rows \in Seq(Row), NEW i \in DOMAIN rows, NEW answer,
         Agree(answer, rows[i])
  PROVE  Agree(answer, Suppressed[i])
  BY SuppressedRows DEF Agree, Audited

\* The answer that is given and the row that is saved with it agree.
LEMMA AnswerAgrees ==
  ASSUME LeadMin <= LeadMax, AnswerSet(state), heard \in BOOLEAN
  PROVE  Agree([payload |-> state["response_payload"], audio |-> heard], FinalRow)
  BY FinalRowOK DEF Agree, AnswerSet

\* The rows of the other turns when one is added.
LEMMA OtherRows ==
  ASSUME rows \in Seq(Row), NEW row \in Row, rows' = Append(rows, row)
  PROVE  /\ \A t : t # row.turn => RowsOf(t)' = RowsOf(t)
         /\ \A t : \A i \in RowsOf(t) : rows'[i] = rows[i]
         /\ RowsOf(row.turn)' = RowsOf(row.turn) \cup {Len(rows) + 1}
         /\ rows'[Len(rows) + 1] = row
  BY AppendedRow DEF RowsOf

\* With the bounds of the lead time in order, an answer, its one row and the
\* matrix agree for good.
THEOREM AnswersAudited == LeadMin <= LeadMax /\ Spec => []AnswerMatchesRow
  <1> SUFFICES ASSUME LeadMin <= LeadMax PROVE Spec => []AnswerMatchesRow
    OBVIOUS
  <1>1. Init => AnswerMatchesRow
    BY DEF Init, AnswerMatchesRow
  <1>2. ASSUME TurnInv, AnswerMatchesRow, [Next]_vars PROVE AnswerMatchesRow'
    <2> DEFINE Good(t) == /\ Cardinality(RowsOf(t)) = 1
                          /\ \A i \in RowsOf(t) : Agree(told[t], rows[i])
    <2>1. rows \in Seq(Row) /\ DOMAIN told = Turn
      BY <1>2 DEF TurnInv, RowsInv
    <2>2. \A t \in Turn : ended[t] = "ok" => Good(t)
      BY <1>2, AgreeIs
    <2>3. SUFFICES ASSUME NEW t \in Turn, ended'[t] = "ok" PROVE Good(t)'
      BY DEF AnswerMatchesRow, Agree
    <2>4. CASE UNCHANGED <<rows, told, ended>>
      BY <2>2, <2>3, <2>4 DEF RowsOf
    <2>5. CASE rows' = Suppressed /\ UNCHANGED <<told, ended>>
      <3>1. RowsOf(t)' = RowsOf(t)
        BY <2>1, <2>5, SuppressedRows DEF RowsOf
      <3>2. \A i \in RowsOf(t) : Agree(told[t], Suppressed[i])
        BY <2>1, <2>2, <2>3, <2>5, SuppressAgrees DEF RowsOf
      <3>3. QED
        BY <2>2, <2>3, <2>5, <3>1, <3>2 DEF Agree, Audited
    <2>6. ASSUME NEW how \in {"ok", "error", "raised"}, NEW row \in Row,
                 turn \in Turn, row.turn = turn,
                 rows' = rows \/ rows' = Append(rows, row),
                 ended' = [ended EXCEPT ![turn] = how],
                 t # turn, told'[t] = told[t]
          PROVE  Good(t)'
      <3>1. ended[t] = "ok"
        BY <1>2, <2>3, <2>6 DEF TurnInv, TypeOK
      <3>2. RowsOf(t)' = RowsOf(t) /\ \A i \in RowsOf(t) : rows'[i] = rows[i]
        BY <2>1, <2>6, OtherRows DEF RowsOf
      <3>3. QED
        BY <2>2, <2>6, <3>1, <3>2 DEF Agree, Audited
    <2>7. CASE Save /\ turn' # turn
      <3>1. turn \in Turn /\ AnswerSet(state) /\ heard \in BOOLEAN
        BY <1>2, <2>7 DEF Save, TurnInv, TypeOK, FlowInv
      <3>2. /\ ended' = [ended EXCEPT ![turn] = "ok"]
            /\ rows' = Append(rows, FinalRow)
            /\ told' = [told EXCEPT ![turn] =
                          [payload |-> state["response_payload"],
                           audio |-> heard]]
        BY <2>7 DEF Save, End
      <3>3. FinalRow \in Row /\ FinalRow.turn = turn
        BY <3>1, FinalRowOK
      <3>4. CASE t # turn
        BY <2>1, <2>6, <3>1, <3>2, <3>3, <3>4
      <3>5. CASE t = turn
        <4>1. RowsOf(t) = {}
          BY <1>2, <3>1, <3>5, DialogueConstantsOK
          DEF TurnInv, RowsInv, RowsOf
        <4>2. /\ RowsOf(t)' = {Len(rows) + 1}
              /\ rows'[Len(rows) + 1] = FinalRow
          BY <2>1, <3>2, <3>3, <3>5, <4>1, OtherRows
        <4>3. Cardinality({Len(rows) + 1}) = 1
          BY FS_Singleton
        <4>4. told'[t] = [payload |-> state["response_payload"], audio |-> heard]
          BY <2>1, <3>2, <3>5
        <4>5. Agree([payload |-> state["response_payload"], audio |-> heard],
                    FinalRow)
          BY <3>1, AnswerAgrees
        <4>6. Agree(told'[t], rows'[Len(rows) + 1])
          BY <4>2, <4>4, <4>5
        <4>7. QED
          BY <4>2, <4>3, <4>6 DEF Agree, Audited
      <3>6. QED
        BY <3>4, <3>5
    <2>8. CASE Save /\ turn' = turn
      BY <1>2, <2>4, <2>8 DEF Save, End, TurnInv, TypeOK
    <2>9. CASE Degrade
      <3>1. turn \in Turn /\ state["user_id"] \in User
        BY <1>2, <2>9 DEF Degrade, TurnInv, TypeOK, FlowInv
      <3>2. PICK how \in {"error", "raised"} :
              /\ ended' = [ended EXCEPT ![turn] = how]
              /\ rows' = rows \/ rows' = Append(rows, DegradedRow)
        BY <2>9 DEF Degrade, End
      <3>3. DegradedRow \in Row /\ DegradedRow.turn = turn /\ told' = told
        BY <2>9, <3>1, DegradedRowOK DEF Degrade, DegradedRow
      <3>4. t # turn
        BY <1>2, <2>3, <3>1, <3>2 DEF TurnInv, TypeOK
      <3>5. QED
        BY <2>6, <3>1, <3>2, <3>3, <3>4
    <2>10. QED
      BY <1>2, <2>4, <2>5, <2>7, <2>8, <2>9
      DEF Next, vars, Begin, Returned, Raised, Superstep, Speak
  <1>3. QED
    BY <1>1, <1>2, TurnAlways, PTL DEF Spec

-----------------------------------------------------------------------------
(* The promise made to the worker and to the stream sessions.              *)

Traced == {t \in Turn : RowsOf(t) # {}}

\* A turn with its graph, its supersteps and its table is the turn of one
\* step.
THEOREM KeepsPromise == Spec => PromiseSpec
  <1>1. Init => Promise!Init
    <2> SUFFICES ASSUME Init PROVE Promise!Init
      OBVIOUS
    <2>1. DOMAIN rows = {}
      BY DEF Init
    <2>2. QED
      BY <2>1 DEF Init, Promise!Init, RowsOf
  <1>2. ASSUME TurnInv, [Next]_vars PROVE [Promise!Next]_(Promise!vars)
    <2>1. rows \in Seq(Row)
      BY <1>2 DEF TurnInv, RowsInv
    <2>2. ASSUME NEW t \in Turn, NEW u \in User, Begin(t, u) PROVE Promise!Next
      BY <2>2 DEF Begin, Promise!Next, Promise!Begin, RowsOf
    <2>3. CASE rows' \in {rows, Suppressed} /\ UNCHANGED <<turn, ended>>
      <3>1. \A t : RowsOf(t)' = RowsOf(t)
        BY <2>1, <2>3, SuppressedRows DEF RowsOf
      <3>2. QED
        BY <2>3, <3>1 DEF Promise!vars
    <2>4. ASSUME NEW t \in Turn, turn = t, turn' = NoTurn,
                 NEW how \in {"ok", "error"}, NEW row \in Row, row.turn = t,
                 ended' = [ended EXCEPT ![t] = how], rows' = Append(rows, row)
          PROVE  Promise!Next
      <3>1. Traced' = Traced \cup {t}
        BY <2>1, <2>4, OtherRows DEF Traced
      <3>2. Promise!End(t)
        BY <2>4, <3>1 DEF Promise!End, Traced
      <3>3. QED
        BY <3>2 DEF Promise!Next
    <2>5. ASSUME NEW t \in Turn, turn = t, turn' = NoTurn, StoreMayFail,
                 ended' = [ended EXCEPT ![t] = "raised"], rows' = rows
          PROVE  Promise!Next
      <3>1. Promise!End(t)
        BY <2>5 DEF Promise!End, RowsOf
      <3>2. QED
        BY <3>1 DEF Promise!Next
    <2>6. CASE Save
      <3>1. PICK t \in Turn : turn = t
        BY <1>2, <2>6 DEF Save, TurnInv, TypeOK
      <3>2. FinalRow \in Row /\ FinalRow.turn = turn
        BY <1>2, <2>6, FinalRowOK DEF Save, TurnInv, FlowInv
      <3>3. CASE End("ok", Append(rows, FinalRow))
        BY <2>4, <3>1, <3>2, <3>3 DEF End
      <3>4. CASE UNCHANGED <<turn, ended, rows>>
        BY <2>3, <3>4
      <3>5. QED
        BY <2>6, <3>3, <3>4 DEF Save
    <2>7. CASE Degrade
      <3>1. PICK t \in Turn : turn = t
        BY <1>2, <2>7 DEF Degrade, TurnInv, TypeOK
      <3>2. DegradedRow \in Row /\ DegradedRow.turn = turn
        BY <1>2, <2>7, <3>1, DegradedRowOK
        DEF Degrade, DegradedRow, TurnInv, FlowInv
      <3>3. CASE End("error", Append(rows, DegradedRow))
        BY <2>4, <3>1, <3>2, <3>3 DEF End
      <3>4. CASE StoreMayFail /\ End("raised", rows)
        BY <2>5, <3>1, <3>4 DEF End
      <3>5. QED
        BY <2>7, <3>3, <3>4 DEF Degrade
    <2>8. QED
      BY <1>2, <2>2, <2>3, <2>6, <2>7
      DEF Next, vars, Returned, Raised, Superstep, Speak
  <1>3. QED
    BY <1>1, <1>2, TurnAlways, PTL DEF Spec, PromiseSpec, Promise!Spec
=============================================================================

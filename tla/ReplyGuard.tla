----------------------------- MODULE ReplyGuard -----------------------------
(***************************************************************************)
(* The mutation-claim guard of the reasoning node: a drafted reply may     *)
(* propose a mutation, never assert that one has happened.  A draft is a   *)
(* sequence of words and marks, each standing for its class: the words     *)
(* that are in the same ones of the guard's patterns.                      *)
(*   added    the completed forms of the intent's verb                     *)
(*   not      never, no, neither, nor, n't                                 *)
(*   cannot   none, nothing, nobody, without: may close a clause           *)
(*   can      could, will, may ...    if  must, whether, unless            *)
(*   going    let, about, plan, want, prefer, once: may close a clause     *)
(*   was      is, are ...             have  has, had                       *)
(*   it       its, your, a, two ...   to  for, from, by, at                *)
(*   ","      ";" and a spaced dash   "."  "!" and a line break            *)
(*   task     any word that is in none of them                             *)
(***************************************************************************)
EXTENDS Naturals, Sequences, FiniteSetsExt

Colons == {":"}
Breaks == {","} \cup Colons
Enders == {".", "?"}
Marks == Breaks \cup Enders

Verbs == {"added"}
Auxiliaries == {"was", "have"}
Fillers == {"have", "already", "and"}
Coordinators == {"and"}
Negators == {"not", "cannot"}
Prospective == {"can", "if", "going"}
Openers == {"was", "have", "can"}     \* first word of a question
Distancing == {"yesterday"}
Completion == {"already"}
Objects == {"it"}
Adjuncts == {"to", "already"}
Particles == {"in", "up"}
ParticleTail == {"to"}
Dangling == {"was", "have", "not", "can", "if", "and", "yet", "to", "in"}

SAFE_REPLY ==
  <<"i", "have", "not", "added", "it", "yet", ",", "and", "i", "can", "task",
    "it", "to", "it", "task", "if", "it", "can", "task", ".">>

Mutations == {"add_task", "reschedule_task", "snooze_reminder", "dismiss_reminder"}

-----------------------------------------------------------------------------
(* One sentence s, by positions.                                           *)

Spoken(s) == {i \in DOMAIN s : s[i] \notin Marks}
Between(s, a, b) == {i \in Spoken(s) : a < i /\ i < b}
Occurrences(s) == {i \in DOMAIN s : s[i] \in Verbs}

\* Fault: every earlier segment is in scope, not only those left hanging.
ReachBack(s, i) == TRUE

\* The segment i is in ends on a word that cannot close a clause.
LeftHanging(s, i) ==
  LET break == Min({j \in i..Len(s) : s[j] \in Breaks}) IN
    s[break - 1] \in Dangling

\* Fault: a clause is what stands since the last break, whatever it lacks.
ScopeOfClause(s, v) ==
  Between(s, Max({0} \cup {i \in 1..(v - 1) : s[i] \in Breaks}), v)

\* The words that may block the verb at v: its clause, the segments before it
\* that were left hanging and, when the clause has auxiliaries but no subject,
\* everything before it.
Scope(s, v) ==
  LET break == Max({0} \cup {i \in 1..(v - 1) : s[i] \in Breaks})
      clause == Between(s, break, v)
  IN IF clause # {} /\ \A i \in clause : s[i] \in Auxiliaries
     THEN Between(s, 0, v)
     ELSE clause \cup {i \in Between(s, 0, break) : LeftHanging(s, i)}

leaves_claim_standing(s, v) ==
  \A i \in Scope(s, v) : s[i] \notin Negators \cup Prospective

\* A subject or auxiliary, a few fillers, the verb, and no mark among them.
Leads(s, heads, fillers, v) ==
  \E i \in 1..(v - 1) :
    /\ s[i] \in heads
    /\ v - i <= fillers + 1
    /\ \A j \in (i + 1)..(v - 1) : s[j] \in Fillers

FirstPerson(s, v) == Leads(s, {"i"}, 3, v)
Passive(s, v) == Leads(s, Auxiliaries, 2, v)

Rest(s, v) == Between(s, v, Len(s) + 1)

BareParticiple(s, v) == Cardinality(Between(s, 0, v)) <= 3 /\ Rest(s, v) = {}

ClauseHeads(s) ==
  {0} \cup {i \in DOMAIN s : s[i] \in Breaks \cup Coordinators}

\* What only a finite verb takes: the end of the sentence or one word more, an
\* object or adjunct, a particle before one, or one word and a colon.
Complement(s, v) ==
  LET rest == Rest(s, v)
      first == Min(rest)
      second == Min(rest \ {first})
  IN \/ Cardinality(rest) <= 1
     \/ s[first] \in Objects \cup Adjuncts
     \/ s[first] \in Particles /\ s[second] \in Objects \cup ParticleTail
     \/ \E i \in (first + 1)..(second - 1) : s[i] \in Colons

Elliptical(s, v) ==
  /\ \E h \in ClauseHeads(s) : h < v /\ Cardinality(Between(s, h, v)) <= 2
  /\ Complement(s, v)

Claim(s, v) ==
  FirstPerson(s, v) \/ Passive(s, v) \/ BareParticiple(s, v) \/ Elliptical(s, v)

claims_completed_mutation(s) ==
  LET said == {s[i] : i \in Spoken(s)} IN
    /\ Occurrences(s) # {}
    /\ s[Len(s)] # "?"
    /\ s[Min(Spoken(s))] \notin Openers
    /\ said \cap Distancing = {}
    /\ \E v \in Occurrences(s) : leaves_claim_standing(s, v)
    /\ \/ said \cap Completion # {}
       \/ \E v \in Occurrences(s) : Claim(s, v)

-----------------------------------------------------------------------------
Sentences(text) ==
  LET ends == {i \in DOMAIN text : text[i] \in Enders} \cup {Len(text)} IN
    {SubSeq(text, 1 + Max({0} \cup {j \in ends : j < i}), i)
       : i \in ends \ {0}}

\* Fault: what the guard puts in its place reads like the claim itself.
BoldReply == <<"i", "have", "added", "it", ".">>

Replacement == SAFE_REPLY

reject_unexecuted_mutation_claim(intent, text) ==
  IF intent \in Mutations
     /\ \E s \in Sentences(text) : claims_completed_mutation(s)
  THEN Replacement
  ELSE text
=============================================================================

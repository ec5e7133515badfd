------------------------------- MODULE Rules --------------------------------
(***************************************************************************)
(* The rules a turn is decided by that are functions of their input alone, *)
(* put to every input up to a bound: the guard to drafts of a few words,   *)
(* the retrieval to tables of a few tasks.  An input is grown element by   *)
(* element.                                                                *)
(***************************************************************************)
EXTENDS ReplyGuard, ContextRetrieval

CONSTANTS Vocabulary, MaxWords,  \* drafts
          Hour, Zone, MaxTasks   \* tables: the deadlines tasks may have

ASSUME RulesConstantsOK ==
  /\ MaxWords \in Nat
  /\ MaxTasks \in Nat
  /\ Now \in Int
  /\ Hour \subseteq Int
  /\ Zone \subseteq Int
  /\ deadline_proximity_hours \in Nat

VARIABLES draft, table

vars == <<draft, table>>

Task ==
  [status : {"pending", "overdue", "completed"},
   deadline : {None} \cup [hour : Hour, offset : Zone]]

Init == draft = <<>> /\ table = <<>>

\* The guard splits at an ender with a space behind it: no mark follows one.
Say(w) ==
  /\ table = <<>>
  /\ Len(draft) < MaxWords
  /\ w \in Marks => draft # <<>> /\ draft[Len(draft)] \notin Enders
  /\ draft' = Append(draft, w)
  /\ UNCHANGED table

Enter(task) ==
  /\ draft = <<>>
  /\ Len(table) < MaxTasks
  /\ table' = Append(table, task)
  /\ UNCHANGED draft

Next == (\E w \in Vocabulary : Say(w)) \/ (\E task \in Task : Enter(task))

Spec == Init /\ [][Next]_vars

-----------------------------------------------------------------------------
guard(text) == reject_unexecuted_mutation_claim("add_task", text)

\* llm.py:314, 363: no sentence of what leaves the guard is a claim by the
\* guard's own rule, the reply it puts in a claim's place included.
NoClaimLeft ==
  \A s \in Sentences(guard(draft)) : ~claims_completed_mutation(s)

OneSentence(text) ==
  text # <<>> /\ \A i \in 1..(Len(text) - 1) : text[i] \notin Enders

\* Two kinds of claim change with the sentence they stand in: one without a
\* subject of its own, and a participle that closes a short sentence, behind
\* three words.  The others claim for themselves.
OwnClaim(s, v) ==
  /\ leaves_claim_standing(s, v)
  /\ LET clause == Between(s, Max({0} \cup {i \in 1..(v - 1) : s[i] \in Breaks}), v)
     IN clause = {} \/ \E i \in clause : s[i] \notin Auxiliaries

ClaimsForItself(s) ==
  /\ claims_completed_mutation(s)
  /\ \E v \in Occurrences(s) : OwnClaim(s, v)
  /\ \/ {s[i] : i \in Spoken(s)} \cap Completion # {}
     \/ \E v \in Occurrences(s) :
          FirstPerson(s, v) \/ Passive(s, v) \/ Elliptical(s, v)

\* A draft that is a verbless fragment up to a break at k, and a claim behind it.
FragmentThenClaim(k) ==
  /\ OneSentence(draft)
  /\ k > 1 /\ draft[k] \in Breaks
  /\ \A i \in 1..(k - 1) : draft[i] \notin Marks \cup Verbs
  /\ ClaimsForItself(SubSeq(draft, k + 1, Len(draft)))

\* Words that open a question, tell of another time, or break off on a word
\* that cannot close a clause after a negator or modal.
TakesBack(f) ==
  \/ f[1] \in Openers
  \/ \E i \in DOMAIN f : f[i] \in Distancing
  \/ f[Len(f)] \in Dangling /\ \E i \in DOMAIN f : f[i] \in Negators \cup Prospective

\* llm.py:117, 126: of the fragments that can stand before a claim exactly these
\* take it back; no other is in the way of it, whatever negators and modals it
\* holds.  A marker that is a negator alone ("No, I added it") is one of these,
\* although llm.py:117 says that its negator cannot reach the verb.
FragmentHidesExactly ==
  \A k \in DOMAIN draft :
    FragmentThenClaim(k) =>
      (claims_completed_mutation(draft) <=> ~TakesBack(SubSeq(draft, 1, k - 1)))

\* The draft is honest because of a negator or modal that stands, in one clause
\* with the word at k, before every verb.
BlockedBefore(k) ==
  /\ OneSentence(draft)
  /\ \E i \in 1..k :
       /\ draft[i] \in Negators \cup Prospective
       /\ \A j \in i..k : draft[j] \notin Breaks
  /\ \A v \in Occurrences(draft) : v > k

Parenthesised(k, w) ==
  SubSeq(draft, 1, k) \o <<",", w, ",">> \o SubSeq(draft, k + 1, Len(draft))

\* A clause cut in two behind the word at k is still seen as one: that word
\* cannot close it, or what follows up to the only verb are auxiliaries.
SeenWhole(k) ==
  \/ draft[k] \in Dangling
  \/ \E v \in Occurrences(draft) :
       /\ Occurrences(draft) = {v} /\ v > k + 1
       /\ \A j \in (k + 1)..(v - 1) : draft[j] \in Auxiliaries

\* llm.py:126: where one of the two repairs applies, a parenthesis does not cut
\* a negator or modal off from the verb, however far before the parenthesis it
\* stands: the draft is no claim with it either.  The repairs do not cover
\* every negator: a clause cut behind "cannot" loses it.
ParenthesisKeepsBlocker ==
  \A k \in DOMAIN draft :
    BlockedBefore(k) /\ SeenWhole(k)
    => \A w \in Vocabulary \ (Marks \cup Verbs) :
         ~claims_completed_mutation(Parenthesised(k, w))

-----------------------------------------------------------------------------
UTC == \A i \in Dated(table) : Offset(table, i) = 0

\* Of two open tasks the one is due no later than the other; without a deadline
\* a task is due last.
DueNoLater(j, i) ==
  i \in Dated(table) => j \in Dated(table) /\ Instant(table, j) <= Instant(table, i)

\* context.py:53-120: as long as deadlines are kept in UTC, retrieval never
\* raises, "imminent" is what the policy takes it for, that an open task is due
\* within the window, and the two queries with their limits, one by text and
\* one by time, pass over no task: before one that they leave out they return
\* at least top_k that are due no later.  It may be an overdue one.
RetrievalExact ==
  UTC =>
    \A top_k \in 1..(MaxTasks + 1) :
      LET returned == Upcoming(table, top_k) \cup Overdue(table, top_k) IN
        /\ ~Raises(table, top_k)
        /\ Imminent(table, top_k) <=> \E i \in Dated(table) : Near(table, i)
        /\ \A i \in Open(table) \ returned :
             Cardinality({j \in returned : DueNoLater(j, i)}) >= top_k
=============================================================================

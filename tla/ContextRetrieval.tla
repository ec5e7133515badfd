-------------------------- MODULE ContextRetrieval --------------------------
(***************************************************************************)
(* ContextRepository.retrieve: the tasks a turn is answered from, and      *)
(* whether a deadline is near, which the policy acts on.                   *)
(*                                                                         *)
(* A task is a record of its status and deadline, and its place in the     *)
(* table is its age.  A deadline is stored as text: the hour its clock     *)
(* shows, and the offset of that clock from UTC or Naive.  SQL compares    *)
(* and sorts the text, that is the hour shown first and the offset after   *)
(* it; the code below it computes with the instant.  The present is some   *)
(* fraction after the full hour Now, in UTC.                               *)
(***************************************************************************)
EXTENDS Integers, Sequences, FiniteSetsExt

CONSTANTS Now, deadline_proximity_hours

None == [hour |-> 0, offset |-> 100]  \* NULL
Naive == 99  \* an offset no clock has

Open(table) == {i \in DOMAIN table : table[i].status # "completed"}
Dated(table) == {i \in Open(table) : table[i].deadline # None}

Shown(table, i) == table[i].deadline.hour
Offset(table, i) == table[i].deadline.offset

\* The suffix in the order of its characters: none, "+00:00" and on, "-".
Suffix(offset) ==
  IF offset = Naive THEN 0 ELSE IF offset >= 0 THEN 1 + offset ELSE 20 - offset

\* Fault: the oldest tasks, not the ones due first.
BeforeByAge(table, i, j) == i < j

\* ORDER BY deadline, created_at with the undated ones last.
Before(table, i, j) ==
  IF {i, j} \subseteq Dated(table)
  THEN LET a == <<Shown(table, i), Suffix(Offset(table, i)), i>>
           b == <<Shown(table, j), Suffix(Offset(table, j)), j>>
       IN \E k \in 1..3 : a[k] < b[k] /\ \A l \in 1..(k - 1) : a[l] = b[l]
  ELSE i \in Dated(table) \/ (j \notin Dated(table) /\ i < j)

\* LIMIT; a negative one is none.
Limited(table, rows, limit) ==
  IF limit < 0 THEN rows
  ELSE {i \in rows : Cardinality({j \in rows : Before(table, j, i)}) < limit}

\* deadline IS NULL OR deadline >= now, as text.
Upcoming(table, top_k) ==
  Limited(table,
          {i \in Open(table) : i \in Dated(table) => Shown(table, i) > Now},
          top_k)

DueRows(table, top_k) ==
  Limited(table, Dated(table), IF top_k > 1 THEN top_k ELSE 1)

Instant(table, i) == Shown(table, i) - Offset(table, i)

Overdue(table, top_k) ==
  {i \in DueRows(table, top_k) :
     table[i].status = "overdue" \/ Instant(table, i) <= Now}

Near(table, i) ==
  Instant(table, i) > Now /\ Instant(table, i) - Now <= deadline_proximity_hours

\* The dated tasks in the order they are looked at, until one is near.
Visits(table, top_k) ==
  ({1} \X (Upcoming(table, top_k) \cap Dated(table)))
  \cup ({2} \X Overdue(table, top_k))

Earlier(table, p, q) ==
  p[1] < q[1] \/ (p[1] = q[1] /\ Before(table, p[2], q[2]))

\* TypeError: comparing with the present a deadline whose clock has no offset,
\* or subtracting the present from it.
Raises(table, top_k) ==
  LET naive == {i \in Dated(table) : Offset(table, i) = Naive} IN
    \/ \E i \in DueRows(table, top_k) \cap naive : table[i].status # "overdue"
    \/ \E p \in Visits(table, top_k) :
         /\ p[2] \in naive
         /\ ~\E q \in Visits(table, top_k) :
               Earlier(table, q, p) /\ q[2] \notin naive /\ Near(table, q[2])

Imminent(table, top_k) == \E p \in Visits(table, top_k) : Near(table, p[2])
=============================================================================

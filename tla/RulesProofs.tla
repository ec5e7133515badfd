---------------------------- MODULE RulesProofs -----------------------------
(***************************************************************************)
(* The properties of Rules for drafts and tables of every length, every    *)
(* vocabulary and every set of deadlines.                                  *)
(***************************************************************************)
EXTENDS Rules, FiniteSetTheorems, WellFoundedInduction, TLAPS

-----------------------------------------------------------------------------
(* Least and greatest elements.                                            *)

\* A set of positions has a least one.
LEMMA MinIs ==
  ASSUME NEW S \in SUBSET Nat, S # {}
  PROVE  Min(S) \in S /\ \A x \in S : Min(S) <= x
  <1> DEFINE Less == OpToRel(<, Nat)
  <1>1. PICK n \in S : \A m \in S : ~(<<m, n>> \in Less)
    <2>1. IsWellFoundedOn(Less, Nat)
      BY NatLessThanWellFounded
    <2> HIDE DEF Less
    <2>2. QED
      BY <2>1, WFMin
  <1>2. \A m \in S : ~(m < n)
    BY <1>1 DEF OpToRel
  <1>3. \A m \in S : n =< m
    BY <1>2
  <1>4. QED
    BY <1>3 DEF Min

\* A set of positions of a sequence has a greatest one.
LEMMA MaxIs ==
  ASSUME NEW n \in Nat, NEW S \in SUBSET (0..n), S # {}
  PROVE  Max(S) \in S /\ \A x \in S : Max(S) >= x
  <1> DEFINE R == {n - x : x \in S}
  <1>0. \A x \in S : x \in Nat /\ n - x \in Nat
    OBVIOUS
  <1>1. R \in SUBSET Nat /\ R # {}
    BY <1>0
  <1>2. Min(R) \in R /\ \A y \in R : Min(R) <= y
    BY <1>1, MinIs
  <1>3. PICK m \in S : Min(R) = n - m
    BY <1>2
  <1>4. ASSUME NEW x \in S PROVE m >= x
    <2>1. n - m <= n - x
      BY <1>2, <1>3
    <2>2. m \in Nat /\ x \in Nat
      BY <1>0
    <2>3. QED
      BY <2>1, <2>2
  <1>5. QED
    BY <1>4 DEF Max

\* There is only one least and one greatest element.
LEMMA MinUnique ==
  ASSUME NEW S \in SUBSET Nat, NEW m \in S, \A x \in S : m <= x
  PROVE  Min(S) = m
  <1>1. Min(S) \in S /\ \A x \in S : Min(S) <= x
    BY MinIs
  <1>2. Min(S) <= m /\ m <= Min(S) /\ Min(S) \in Nat /\ m \in Nat
    BY <1>1
  <1>3. QED
    BY <1>2

\* The same of the greatest.
LEMMA MaxUnique ==
  ASSUME NEW n \in Nat, NEW S \in SUBSET (0..n), NEW m \in S, \A x \in S : m >= x
  PROVE  Max(S) = m
  <1>1. Max(S) \in S /\ \A x \in S : Max(S) >= x
    BY MaxIs
  <1>2. Max(S) \in 0..n /\ m \in 0..n
    BY <1>1
  <1>3. Max(S) <= m /\ m <= Max(S)
    BY <1>1, <1>2
  <1>4. QED
    BY <1>2, <1>3

-----------------------------------------------------------------------------
(* The inputs.                                                             *)

\* Beside the vocabulary, what the properties put into a draft.
Word == Vocabulary \cup {"task", ","}

Inputs == draft \in Seq(Word) /\ table \in Seq(Task)

\* An input grows word by word or task by task.
LEMMA InputsAlways == Spec => []Inputs
  <1>1. Init => Inputs
    BY DEF Init, Inputs
  <1>2. ASSUME Inputs, [Next]_vars PROVE Inputs'
    <2>1. ASSUME NEW w \in Vocabulary, Say(w) PROVE Inputs'
      <3>1. w \in Word
        BY DEF Word
      <3>2. QED
        BY <1>2, <2>1, <3>1 DEF Inputs, Say
    <2>2. ASSUME NEW task \in Task, Enter(task) PROVE Inputs'
      BY <1>2, <2>2 DEF Inputs, Enter
    <2>3. CASE UNCHANGED vars
      BY <1>2, <2>3 DEF Inputs, vars
    <2>4. QED
      BY <1>2, <2>1, <2>2, <2>3 DEF Next
  <1>3. QED
    BY <1>1, <1>2, PTL DEF Spec

-----------------------------------------------------------------------------
(* The retrieval.                                                          *)

\* What the queries read of a table whose deadlines are in UTC.
LEMMA Rows ==
  ASSUME Inputs, UTC
  PROVE  /\ Len(table) \in Nat /\ DOMAIN table = 1..Len(table)
         /\ Open(table) \subseteq 1..Len(table)
         /\ Dated(table) \subseteq Open(table)
         /\ \A i \in Dated(table) : /\ Shown(table, i) \in Int
                                    /\ Instant(table, i) = Shown(table, i)
                                    /\ Offset(table, i) = 0
  <1>1. \A i \in Dated(table) : table[i].deadline \in [hour : Hour, offset : Zone]
    <2>1. \A i \in Dated(table) : table[i] \in Task /\ table[i].deadline # None
      BY DEF Inputs, Dated, Open
    <2>2. QED
      BY <2>1 DEF Task
  <1>2. \A i \in Dated(table) : Shown(table, i) \in Int
    BY <1>1, RulesConstantsOK DEF Shown
  <1>3. QED
    BY <1>2 DEF Inputs, Instant, Open, Dated, UTC

\* The order of the rows, where all clocks are at UTC: by deadline, then by
\* age, the undated ones last.
LEMMA Order ==
  ASSUME Inputs, UTC, NEW i \in Open(table), NEW j \in Open(table)
  PROVE  Before(table, i, j) <=>
           \/ /\ i \in Dated(table) /\ j \in Dated(table)
              /\ \/ Shown(table, i) < Shown(table, j)
                 \/ Shown(table, i) = Shown(table, j) /\ i < j
           \/ i \in Dated(table) /\ j \notin Dated(table)
           \/ i \notin Dated(table) /\ j \notin Dated(table) /\ i < j
  <1>1. i \in Int /\ j \in Int
    BY Rows
  <1>2. CASE i \in Dated(table) /\ j \in Dated(table)
    <2> DEFINE a == <<Shown(table, i), Suffix(Offset(table, i)), i>>
               b == <<Shown(table, j), Suffix(Offset(table, j)), j>>
    <2>1. Suffix(Offset(table, i)) = 1 /\ Suffix(Offset(table, j)) = 1
      BY <1>2, Rows DEF Suffix, Naive
    <2>2. Before(table, i, j) <=>
            \E k \in 1..3 : a[k] < b[k] /\ \A l \in 1..(k - 1) : a[l] = b[l]
      BY <1>2 DEF Before
    <2>3. /\ a[1] = Shown(table, i) /\ b[1] = Shown(table, j)
          /\ a[2] = 1 /\ b[2] = 1 /\ a[3] = i /\ b[3] = j
          /\ Shown(table, i) \in Int /\ Shown(table, j) \in Int
      BY <1>2, <2>1, Rows
    <2> HIDE DEF a, b
    <2>4. ASSUME NEW k \in {1, 2, 3}, a[k] < b[k],
                 \A l \in 1..(k - 1) : a[l] = b[l]
          PROVE  \/ a[1] < b[1]
                 \/ a[1] = b[1] /\ a[3] < b[3]
      <3>1. CASE k = 1
        BY <2>4, <3>1
      <3>2. CASE k = 2
        BY <2>3, <2>4, <3>2
      <3>3. CASE k = 3
        BY <2>4, <3>3
      <3>4. QED
        BY <3>1, <3>2, <3>3
    <2>5. ASSUME a[1] < b[1]
          PROVE  \E k \in 1..3 : a[k] < b[k] /\ \A l \in 1..(k - 1) : a[l] = b[l]
      <3>1. 1 \in 1..3 /\ \A l \in 1..(1 - 1) : a[l] = b[l]
        OBVIOUS
      <3>2. QED
        BY <2>5, <3>1
    <2>6. ASSUME a[1] = b[1], a[3] < b[3]
          PROVE  \E k \in 1..3 : a[k] < b[k] /\ \A l \in 1..(k - 1) : a[l] = b[l]
      <3>1. 3 \in 1..3 /\ \A l \in 1..(3 - 1) : l = 1 \/ l = 2
        OBVIOUS
      <3>2. \A l \in 1..(3 - 1) : a[l] = b[l]
        BY <2>3, <2>6, <3>1
      <3>3. QED
        BY <2>6, <3>1, <3>2
    <2>7. \A k \in 1..3 : k \in {1, 2, 3}
      OBVIOUS
    <2>8. Before(table, i, j) <=> a[1] < b[1] \/ (a[1] = b[1] /\ a[3] < b[3])
      BY <2>2, <2>4, <2>5, <2>6, <2>7
    <2>9. QED
      BY <1>2, <2>3, <2>8
  <1>3. CASE ~(i \in Dated(table) /\ j \in Dated(table))
    BY <1>1, <1>3 DEF Before
  <1>4. QED
    BY <1>2, <1>3

\* It is a strict order.
LEMMA StrictOrder ==
  ASSUME Inputs, UTC
  PROVE  /\ \A i \in Open(table) : ~Before(table, i, i)
         /\ \A i, j, k \in Open(table) :
              Before(table, i, j) /\ Before(table, j, k) => Before(table, i, k)
  <1>1. ASSUME NEW i \in Open(table) PROVE ~Before(table, i, i)
    <2>1. i \in Int /\ (i \in Dated(table) => Shown(table, i) \in Int)
      BY Rows
    <2>2. QED
      BY <2>1, Order
  <1>2. ASSUME NEW i \in Open(table), NEW j \in Open(table), NEW k \in Open(table),
               Before(table, i, j), Before(table, j, k)
        PROVE  Before(table, i, k)
    <2>1. /\ i \in Int /\ j \in Int /\ k \in Int
          /\ i \in Dated(table) => Shown(table, i) \in Int
          /\ j \in Dated(table) => Shown(table, j) \in Int
          /\ k \in Dated(table) => Shown(table, k) \in Int
      BY Rows
    <2>2. /\ j \in Dated(table) => i \in Dated(table)
          /\ i \in Dated(table) /\ j \in Dated(table) =>
               \/ Shown(table, i) < Shown(table, j)
               \/ Shown(table, i) = Shown(table, j) /\ i < j
          /\ i \notin Dated(table) => i < j
      BY <1>2, Order
    <2>3. /\ k \in Dated(table) => j \in Dated(table)
          /\ j \in Dated(table) /\ k \in Dated(table) =>
               \/ Shown(table, j) < Shown(table, k)
               \/ Shown(table, j) = Shown(table, k) /\ j < k
          /\ j \notin Dated(table) => j < k
      BY <1>2, Order
    <2>4. CASE k \in Dated(table)
      <3>1. \/ Shown(table, i) < Shown(table, k)
            \/ Shown(table, i) = Shown(table, k) /\ i < k
        BY <2>1, <2>2, <2>3, <2>4
      <3>2. QED
        BY <2>2, <2>3, <2>4, <3>1, Order
    <2>5. CASE k \notin Dated(table)
      <3>1. i \in Dated(table) \/ i < k
        BY <2>1, <2>2, <2>3, <2>5
      <3>2. QED
        BY <2>5, <3>1, Order
    <2>6. QED
      BY <2>4, <2>5
  <1>3. QED
    BY <1>1, <1>2

\* Sets of open tasks are finite.
LEMMA OpenFinite ==
  ASSUME Inputs, UTC, NEW S \in SUBSET Open(table)
  PROVE  IsFiniteSet(S) /\ Cardinality(S) \in Nat
  <1>1. S \subseteq 1..Len(table) /\ Len(table) \in Nat /\ 1 \in Int /\ Len(table) \in Int
    BY Rows
  <1>2. IsFiniteSet(1..Len(table))
    BY <1>1, FS_Interval
  <1>3. QED
    BY <1>1, <1>2, FS_Subset, FS_CardinalityType

\* Of some open tasks one comes first: the one with the fewest before it.
LEMMA FirstOf ==
  ASSUME Inputs, UTC, NEW S \in SUBSET Open(table), S # {}
  PROVE  \E m \in S : \A j \in S : ~Before(table, j, m)
  <1> DEFINE ahead(m) == {j \in S : Before(table, j, m)}
             C == {Cardinality(ahead(m)) : m \in S}
  <1>1. \A m \in S : /\ ahead(m) \in SUBSET Open(table)
                     /\ IsFiniteSet(ahead(m)) /\ Cardinality(ahead(m)) \in Nat
    <2>1. ASSUME NEW m \in S
          PROVE  /\ ahead(m) \in SUBSET Open(table)
                 /\ IsFiniteSet(ahead(m)) /\ Cardinality(ahead(m)) \in Nat
      <3>1. ahead(m) \in SUBSET Open(table)
        OBVIOUS
      <3> HIDE DEF ahead
      <3>2. QED
        BY <3>1, OpenFinite
    <2> HIDE DEF ahead
    <2>2. QED
      BY <2>1
  <1>2. C \in SUBSET Nat /\ C # {}
    BY <1>1
  <1>3. Min(C) \in C /\ \A c \in C : Min(C) <= c
    <2> HIDE DEF C
    <2>1. QED
      BY <1>2, MinIs
  <1>4. PICK m \in S : Cardinality(ahead(m)) = Min(C)
    BY <1>3
  <1>5. ASSUME NEW j \in S, Before(table, j, m) PROVE FALSE
    <2>1. j \in ahead(m)
      BY <1>5
    <2>2. ahead(j) \subseteq ahead(m) /\ j \notin ahead(j)
      BY <1>5, StrictOrder
    <2>3. Cardinality(ahead(j)) \in C
      OBVIOUS
    <2>4. Cardinality(ahead(m)) <= Cardinality(ahead(j))
      BY <1>3, <1>4, <2>3
    <2>5. /\ IsFiniteSet(ahead(m))
          /\ Cardinality(ahead(m)) \in Nat /\ Cardinality(ahead(j)) \in Nat
      BY <1>1
    <2> HIDE DEF ahead, C
    <2>6. ahead(j) # ahead(m)
      BY <2>1, <2>2
    <2>7. Cardinality(ahead(j)) < Cardinality(ahead(m))
      BY <2>2, <2>5, <2>6, FS_Subset
    <2>8. QED
      BY <2>4, <2>5, <2>7
  <1>6. QED
    BY <1>5

\* Before a row that a limit cuts off stand as many others as the limit lets
\* through.
LEMMA CutBehind ==
  ASSUME Inputs, UTC, NEW rows \in SUBSET Open(table), NEW limit \in Nat \ {0},
         NEW i \in rows, i \notin Limited(table, rows, limit)
  PROVE  Cardinality({j \in Limited(table, rows, limit) : Before(table, j, i)})
           >= limit
  <1> DEFINE P == {j \in rows : Before(table, j, i)}
             Q == {j \in Limited(table, rows, limit) : Before(table, j, i)}
  <1>1. \A j : j \in Limited(table, rows, limit) <=>
           j \in rows /\ Cardinality({k \in rows : Before(table, k, j)}) < limit
    BY DEF Limited
  <1>2. P \in SUBSET Open(table) /\ Q \in SUBSET P /\ Q \in SUBSET Open(table)
    BY <1>1
  <1>3. ~(Cardinality(P) < limit)
    BY <1>1
  <1>4. \A j \in P : j \in Q <=> Cardinality({k \in rows : Before(table, k, j)}) < limit
    BY <1>1
  <1>5. ASSUME Cardinality(Q) < limit PROVE FALSE
    <2>1. P \ Q # {}
      BY <1>2, <1>3, <1>5
    <2>2. P \ Q \in SUBSET Open(table)
      BY <1>2
    <2>3. PICK m \in P \ Q : \A j \in P \ Q : ~Before(table, j, m)
      <3> HIDE DEF P, Q
      <3>1. QED
        BY <2>1, <2>2, FirstOf
    <2> DEFINE ahead == {k \in rows : Before(table, k, m)}
    <2>4. ahead \subseteq Q
      <3>1. ASSUME NEW k \in ahead PROVE k \in Q
        <4>1. k \in Open(table) /\ m \in Open(table) /\ i \in Open(table)
          BY <1>2, <2>3
        <4>2. Before(table, k, i)
          BY <2>3, <4>1, StrictOrder
        <4>3. k \in P
          BY <4>2
        <4> HIDE DEF Q
        <4>4. QED
          BY <2>3, <4>3
      <3>2. QED
        BY <3>1
    <2>5. ~(Cardinality(ahead) < limit)
      <3> HIDE DEF P, Q
      <3>1. m \in P /\ m \notin Q
        BY <2>3
      <3>2. QED
        BY <1>4, <3>1
    <2>6. IsFiniteSet(Q) /\ Cardinality(Q) \in Nat
      <3> HIDE DEF Q
      <3>1. QED
        BY <1>2, OpenFinite
    <2> HIDE DEF Q, ahead
    <2>7. Cardinality(ahead) <= Cardinality(Q) /\ Cardinality(ahead) \in Nat
      BY <2>4, <2>6, FS_Subset, FS_CardinalityType
    <2>8. QED
      BY <1>5, <2>5, <2>6, <2>7
  <1>6. Cardinality(Q) \in Nat
    <2> HIDE DEF Q
    <2>1. QED
      BY <1>2, OpenFinite
  <1>7. Cardinality(Q) >= limit
    <2> HIDE DEF Q
    <2>1. QED
      BY <1>5, <1>6
  <1>8. QED
    BY <1>7

\* What comes first of the rows is left by any limit.
LEMMA FirstStays ==
  ASSUME NEW rows, NEW limit \in Nat \ {0}, NEW i \in rows,
         \A j \in rows : ~Before(table, j, i)
  PROVE  i \in Limited(table, rows, limit)
  <1>1. {j \in rows : Before(table, j, i)} = {}
    OBVIOUS
  <1>2. Cardinality({j \in rows : Before(table, j, i)}) = 0
    BY <1>1, FS_EmptySet
  <1>3. QED
    BY <1>2 DEF Limited

\* What comes before a task is due no later.
LEMMA BeforeIsNoLater ==
  ASSUME Inputs, UTC, NEW i \in Open(table), NEW j \in Open(table),
         Before(table, j, i)
  PROVE  DueNoLater(j, i)
  <1>1. i \in Dated(table) => j \in Dated(table)
    BY Order
  <1>2. ASSUME i \in Dated(table)
        PROVE  Instant(table, j) <= Instant(table, i)
    <2>1. /\ j \in Dated(table)
          /\ Shown(table, j) \in Int /\ Shown(table, i) \in Int
          /\ Instant(table, j) = Shown(table, j)
          /\ Instant(table, i) = Shown(table, i)
      BY <1>1, <1>2, Rows
    <2>2. Shown(table, j) < Shown(table, i) \/ Shown(table, j) = Shown(table, i)
      BY <1>2, <2>1, Order
    <2>3. QED
      BY <2>1, <2>2
  <1>3. QED
    BY <1>1, <1>2 DEF DueNoLater

\* As long as deadlines are kept in UTC, retrieval never raises, says that a
\* deadline is near exactly when an open task is due within the window, and
\* returns, before any open task its limits leave out, at least top_k that are
\* due no later.
THEOREM RetrievesExactly == Spec => []RetrievalExact
  <1>1. ASSUME Inputs PROVE RetrievalExact
    <2> SUFFICES ASSUME UTC, NEW top_k \in 1..(MaxTasks + 1)
                 PROVE  LET returned == Upcoming(table, top_k)
                                        \cup Overdue(table, top_k)
                        IN  /\ ~Raises(table, top_k)
                            /\ Imminent(table, top_k) <=>
                                 \E i \in Dated(table) : Near(table, i)
                            /\ \A i \in Open(table) \ returned :
                                 Cardinality({j \in returned : DueNoLater(j, i)})
                                   >= top_k
      BY DEF RetrievalExact
    <2> USE <1>1
    <2> DEFINE coming == {i \in Open(table) : i \in Dated(table)
                                               => Shown(table, i) > Now}
               returned == Upcoming(table, top_k) \cup Overdue(table, top_k)
    <2>1. top_k \in Nat \ {0} /\ Now \in Int /\ deadline_proximity_hours \in Int
      BY RulesConstantsOK
    <2>2. /\ Upcoming(table, top_k) = Limited(table, coming, top_k)
          /\ DueRows(table, top_k) = Limited(table, Dated(table), top_k)
      <3>1. (IF top_k > 1 THEN top_k ELSE 1) = top_k
        BY <2>1
      <3>2. QED
        BY <3>1 DEF Upcoming, DueRows
    <2>3. /\ Upcoming(table, top_k) \subseteq coming
          /\ DueRows(table, top_k) \subseteq Dated(table)
      BY <2>2 DEF Limited
    <2>4. ~Raises(table, top_k)
      <3>1. {i \in Dated(table) : Offset(table, i) = Naive} = {}
        BY DEF Naive, UTC
      <3>2. QED
        BY <3>1 DEF Raises
    <2>5. ASSUME Imminent(table, top_k)
          PROVE  \E i \in Dated(table) : Near(table, i)
      <3>1. PICK p \in Visits(table, top_k) : Near(table, p[2])
        BY <2>5 DEF Imminent
      <3>2. p[2] \in Dated(table)
        BY <2>3, <3>1 DEF Visits, Overdue
      <3>3. QED
        BY <3>1, <3>2
    <2>6. ASSUME NEW i \in Dated(table), Near(table, i)
          PROVE  Imminent(table, top_k)
      <3> DEFINE S == {j \in Dated(table) : Shown(table, j) > Now}
      <3>1. i \in S /\ S \in SUBSET Open(table)
        BY <2>6, Rows DEF Near
      <3>2. PICK m \in S : \A j \in S : ~Before(table, j, m)
        <4> HIDE DEF S
        <4>1. QED
          BY <3>1, FirstOf
      <3>3. Near(table, m)
        <4>1. /\ Instant(table, i) = Shown(table, i)
              /\ Instant(table, m) = Shown(table, m)
              /\ Shown(table, i) \in Int /\ Shown(table, m) \in Int
              /\ Shown(table, m) > Now
          BY <3>1, <3>2, Rows
        <4>2. ~(Shown(table, i) < Shown(table, m))
          BY <3>1, <3>2, Order
        <4>3. QED
          BY <2>1, <2>6, <4>1, <4>2 DEF Near
      <3>4. m \in coming /\ m \in Dated(table)
        BY <3>2, Rows
      <3>5. \A j \in coming : ~Before(table, j, m)
        <4>1. ASSUME NEW j \in coming, Before(table, j, m) PROVE FALSE
          <5>1. j \in Dated(table)
            BY <3>4, <4>1, Rows, Order
          <5>2. j \in S
            BY <5>1
          <5>3. QED
            BY <3>2, <4>1, <5>2
        <4>2. QED
          BY <4>1
      <3>6. m \in Upcoming(table, top_k)
        BY <2>1, <2>2, <3>4, <3>5, FirstStays
      <3>7. <<1, m>> \in Visits(table, top_k) /\ <<1, m>>[2] = m
        BY <3>4, <3>6 DEF Visits
      <3>8. QED
        BY <3>3, <3>7 DEF Imminent
    <2>7. ASSUME NEW i \in Open(table) \ returned
          PROVE  Cardinality({j \in returned : DueNoLater(j, i)}) >= top_k
      <3> DEFINE ahead(shown) == {j \in shown : Before(table, j, i)}
                 noLater == {j \in returned : DueNoLater(j, i)}
      <3>1. returned \in SUBSET Open(table)
        BY <2>3, Rows DEF Overdue
      <3>2. noLater \in SUBSET Open(table)
        BY <3>1
      <3>3. IsFiniteSet(noLater) /\ Cardinality(noLater) \in Nat
        <4> HIDE DEF noLater
        <4>1. QED
          BY <3>2, OpenFinite
      <3>4. ASSUME NEW shown, ahead(shown) \subseteq noLater,
                   Cardinality(ahead(shown)) >= top_k
            PROVE  Cardinality(noLater) >= top_k
        <4> DEFINE A == ahead(shown)
        <4>1. A \subseteq noLater /\ Cardinality(A) >= top_k
          BY <3>4
        <4> HIDE DEF A, noLater, ahead
        <4>2. Cardinality(A) <= Cardinality(noLater) /\ Cardinality(A) \in Nat
          BY <3>3, <4>1, FS_Subset, FS_CardinalityType
        <4>3. QED
          BY <2>1, <3>3, <4>1, <4>2
      <3>5. CASE i \in coming
        <4> DEFINE shown == Limited(table, coming, top_k)
        <4>1. coming \in SUBSET Open(table) /\ i \notin shown
          BY <2>2
        <4>2. Cardinality(ahead(shown)) >= top_k
          <5> HIDE DEF coming
          <5>1. QED
            BY <2>1, <3>5, <4>1, CutBehind
        <4>3. ahead(shown) \subseteq noLater
          <5>1. shown \subseteq returned
            BY <2>2
          <5>2. QED
            BY <3>1, <5>1, BeforeIsNoLater
        <4> HIDE DEF shown, noLater, ahead
        <4>4. Cardinality(noLater) >= top_k
          BY <3>4, <4>2, <4>3
        <4>5. QED
          BY <4>4 DEF noLater
      <3>6. CASE i \notin coming
        <4> DEFINE shown == DueRows(table, top_k)
        <4>1. /\ i \in Dated(table) /\ Shown(table, i) \in Int
              /\ Shown(table, i) <= Now /\ Instant(table, i) = Shown(table, i)
          BY <2>1, <3>6, Rows
        <4>2. i \notin shown
          BY <4>1 DEF Overdue
        <4>3. Dated(table) \in SUBSET Open(table)
          BY Rows
        <4>4. Cardinality(ahead(shown)) >= top_k
          BY <2>1, <2>2, <4>1, <4>2, <4>3, CutBehind
        <4>5. ASSUME NEW j \in ahead(shown) PROVE j \in noLater
          <5>1. j \in Dated(table) /\ j \in Open(table) /\ Before(table, j, i)
            BY <2>3, <4>3
          <5>2. DueNoLater(j, i)
            BY <5>1, BeforeIsNoLater
          <5>3. Instant(table, j) <= Instant(table, i) /\ Instant(table, j) \in Int
            BY <4>1, <5>1, <5>2, Rows DEF DueNoLater
          <5>4. Instant(table, j) <= Now
            BY <2>1, <4>1, <5>3
          <5>5. j \in Overdue(table, top_k)
            BY <5>4 DEF Overdue
          <5>6. QED
            BY <5>2, <5>5
        <4> HIDE DEF shown, noLater, ahead
        <4>6. Cardinality(noLater) >= top_k
          BY <3>4, <4>4, <4>5
        <4>7. QED
          BY <4>6 DEF noLater
      <3>7. QED
        BY <3>5, <3>6
    <2>8. QED
      BY <2>4, <2>5, <2>6, <2>7
  <1>2. QED
    BY <1>1, InputsAlways, PTL

-----------------------------------------------------------------------------
(* The guard.                                                              *)

\* All of a sequence.
LEMMA WholeSeq ==
  ASSUME NEW S, NEW s \in Seq(S) PROVE SubSeq(s, 1, Len(s)) = s
  OBVIOUS

\* The words of the safe reply that matter.
LEMMA ReplyIs ==
  /\ SAFE_REPLY \in Seq({"i", "have", "not", "added", "it", "yet", ",", "and",
                         "can", "task", "to", "if", "."})
  /\ Len(SAFE_REPLY) = 20 /\ DOMAIN SAFE_REPLY = 1..20
  /\ \A i \in 1..20 : SAFE_REPLY[i] = "added" => i = 4
  /\ \A i \in 1..20 : SAFE_REPLY[i] \in {".", "?"} => i = 20
  /\ SAFE_REPLY[1] = "i" /\ SAFE_REPLY[2] = "have" /\ SAFE_REPLY[3] = "not"
  /\ SAFE_REPLY[20] = "."
  BY DEF SAFE_REPLY

\* It is one sentence, and in that a "not" stands in the clause of its one
\* completed verb.
LEMMA ReplyIsSafe ==
  \A s \in Sentences(SAFE_REPLY) : ~claims_completed_mutation(s)
  <1> DEFINE ends == {i \in DOMAIN SAFE_REPLY : SAFE_REPLY[i] \in Enders}
                     \cup {Len(SAFE_REPLY)}
  <1>1. ends = {20}
    BY ReplyIs DEF Enders
  <1>2. {j \in ends : j < 20} = {}
    BY <1>1
  <1>3. Max({0}) = 0
    BY MaxUnique
  <1>4. {0} \cup {j \in ends : j < 20} = {0}
    BY <1>2
  <1>5. SubSeq(SAFE_REPLY, 1, 20) = SAFE_REPLY
    BY ReplyIs, WholeSeq
  <1> HIDE DEF ends
  <1>6. Sentences(SAFE_REPLY) = {SAFE_REPLY}
    <2>1. Sentences(SAFE_REPLY)
            = {SubSeq(SAFE_REPLY, 1 + Max({0} \cup {j \in ends : j < i}), i)
                 : i \in ends \ {0}}
      BY DEF Sentences, ends
    <2>2. ends \ {0} = {20}
      BY <1>1
    <2>3. SubSeq(SAFE_REPLY, 1 + Max({0} \cup {j \in ends : j < 20}), 20)
            = SAFE_REPLY
      <3>1. 1 + Max({0} \cup {j \in ends : j < 20}) = 1
        BY <1>3, <1>4
      <3>2. QED
        BY <1>5, <3>1
    <2>4. QED
      BY <2>1, <2>2, <2>3
  <1>7. ~leaves_claim_standing(SAFE_REPLY, 4)
    <2>1. {i \in 1..(4 - 1) : SAFE_REPLY[i] \in Breaks} = {}
      <3>1. 1..(4 - 1) = {1, 2, 3}
        OBVIOUS
      <3>2. "i" \notin Breaks /\ "have" \notin Breaks /\ "not" \notin Breaks
        BY Zenon DEF Breaks, Colons
      <3>3. QED
        BY <3>1, <3>2, ReplyIs
    <2>2. Max({0} \cup {i \in 1..(4 - 1) : SAFE_REPLY[i] \in Breaks}) = 0
      BY <1>3, <2>1
    <2>3. 1 \in Between(SAFE_REPLY, 0, 4) /\ 3 \in Between(SAFE_REPLY, 0, 4)
      <3>1. /\ 1 \in DOMAIN SAFE_REPLY /\ SAFE_REPLY[1] \notin Marks
            /\ 3 \in DOMAIN SAFE_REPLY /\ SAFE_REPLY[3] \notin Marks
        <4>1. "i" \notin Marks /\ "not" \notin Marks
          BY Zenon DEF Marks, Breaks, Colons, Enders
        <4>2. 1 \in 1..20 /\ 3 \in 1..20
          OBVIOUS
        <4>3. QED
          BY <4>1, <4>2, ReplyIs
      <3>2. QED
        BY <3>1 DEF Between, Spoken
    <2>4. SAFE_REPLY[1] \notin Auxiliaries
      BY ReplyIs DEF Auxiliaries
    <2>5. 3 \in Scope(SAFE_REPLY, 4)
      BY <2>2, <2>3, <2>4 DEF Scope
    <2>6. QED
      BY <2>5, ReplyIs DEF leaves_claim_standing, Negators
  <1>8. \A v \in Occurrences(SAFE_REPLY) : v = 4
    BY ReplyIs DEF Occurrences, Verbs
  <1>9. ~claims_completed_mutation(SAFE_REPLY)
    BY <1>7, <1>8 DEF claims_completed_mutation
  <1>10. QED
    BY <1>6, <1>9

\* No sentence of what leaves the guard is a claim by its own rule, whatever
\* the draft was.
THEOREM NothingClaimed == Spec => []NoClaimLeft
  <1>1. NoClaimLeft
    <2>1. CASE \E s \in Sentences(draft) : claims_completed_mutation(s)
      <3>1. guard(draft) = SAFE_REPLY
        BY <2>1 DEF guard, reject_unexecuted_mutation_claim, Mutations, Replacement
      <3>2. QED
        BY <3>1, ReplyIsSafe DEF NoClaimLeft
    <2>2. CASE ~\E s \in Sentences(draft) : claims_completed_mutation(s)
      <3>1. guard(draft) = draft
        BY <2>2 DEF guard, reject_unexecuted_mutation_claim
      <3>2. QED
        BY <2>2, <3>1 DEF NoClaimLeft
    <2>3. QED
      BY <2>1, <2>2
  <1>2. QED
    BY <1>1, PTL
Comma == ","

\* The comma breaks a clause and is no verb.
LEMMA CommaIs == Comma \in Word /\ Comma \in Breaks /\ Comma \notin Verbs
  BY Zenon DEF Comma, Word, Breaks, Verbs

\* Words of these classes are spoken.
LEMMA BlockersSpoken ==
  /\ \A w \in Negators \cup Prospective : w \notin Marks /\ w \notin Breaks
  /\ \A w \in Auxiliaries : w \notin Marks /\ w \notin Breaks
  /\ \A w \in Breaks : w \in Marks /\ w \notin Verbs
  BY Zenon DEF Negators, Prospective, Auxiliaries, Verbs, Marks, Breaks, Colons, Enders

\* A draft with a parenthesis of one word put behind its word i.
Inserted(text, i, w) ==
  SubSeq(text, 1, i) \o <<Comma, w, Comma>> \o SubSeq(text, i + 1, Len(text))

\* What a concatenation is made of.
LEMMA ConcatIs ==
  ASSUME NEW p \in Seq(Word), NEW q \in Seq(Word), NEW r, r = p \o q
  PROVE  /\ r \in Seq(Word) /\ Len(r) = Len(p) + Len(q)
         /\ \A j \in 1..Len(p) : r[j] = p[j]
         /\ \A j \in 1..Len(q) : r[Len(p) + j] = q[j]
  OBVIOUS

\* What a draft with a parenthesis is made of.
LEMMA ParenthesisIs ==
  ASSUME NEW text \in Seq(Word), NEW i \in 1..Len(text), NEW w \in Word
  PROVE  LET s == Inserted(text, i, w)
         IN  /\ s \in Seq(Word) /\ Len(s) = Len(text) + 3
             /\ \A j \in 1..i : s[j] = text[j]
             /\ s[i + 1] = Comma /\ s[i + 2] = w /\ s[i + 3] = Comma
             /\ \A j \in 1..(Len(text) - i) : s[(i + 3) + j] = text[i + j]
  <1> DEFINE a == SubSeq(text, 1, i)
             b == <<Comma, w, Comma>>
             c == SubSeq(text, i + 1, Len(text))
             d == a \o b
             s == d \o c
  <1>1. a \in Seq(Word) /\ Len(a) = i /\ \A j \in 1..i : a[j] = text[j]
    OBVIOUS
  <1>2. /\ c \in Seq(Word) /\ Len(c) = Len(text) - i
        /\ \A j \in 1..(Len(text) - i) : c[j] = text[i + j]
    OBVIOUS
  <1>3. b \in Seq(Word) /\ Len(b) = 3 /\ b[1] = Comma /\ b[2] = w /\ b[3] = Comma
    <2>1. ASSUME NEW x \in Word, NEW y \in Word
          PROVE  /\ <<x, y, x>> \in Seq(Word) /\ Len(<<x, y, x>>) = 3
                 /\ <<x, y, x>>[1] = x /\ <<x, y, x>>[2] = y /\ <<x, y, x>>[3] = x
      OBVIOUS
    <2>2. QED
      BY <2>1, CommaIs
  <1>4. i \in Nat /\ Len(text) \in Nat
    OBVIOUS
  <1>5. Inserted(text, i, w) = s /\ d = a \o b /\ s = d \o c
    BY DEF Inserted
  <1> HIDE DEF a, b, c, d, s
  <1>6. /\ d \in Seq(Word) /\ Len(d) = i + 3
        /\ \A j \in 1..i : d[j] = a[j]
        /\ \A j \in 1..3 : d[i + j] = b[j]
    <2>1. /\ d \in Seq(Word) /\ Len(d) = Len(a) + Len(b)
          /\ \A j \in 1..Len(a) : d[j] = a[j]
          /\ \A j \in 1..Len(b) : d[Len(a) + j] = b[j]
      <3>1. a \in Seq(Word) /\ b \in Seq(Word) /\ d = a \o b
        BY <1>1, <1>3, <1>5
      <3>2. QED
        BY ONLY <3>1, ConcatIs
    <2>2. QED
      BY <1>1, <1>3, <1>4, <2>1
  <1>7. /\ s \in Seq(Word) /\ Len(s) = Len(text) + 3
        /\ \A j \in 1..(i + 3) : s[j] = d[j]
        /\ \A j \in 1..(Len(text) - i) : s[(i + 3) + j] = c[j]
    <2>1. /\ s \in Seq(Word) /\ Len(s) = Len(d) + Len(c)
          /\ \A j \in 1..Len(d) : s[j] = d[j]
          /\ \A j \in 1..Len(c) : s[Len(d) + j] = c[j]
      <3>1. d \in Seq(Word) /\ c \in Seq(Word) /\ s = d \o c
        BY <1>2, <1>5, <1>6
      <3>2. QED
        BY ONLY <3>1, ConcatIs
    <2>2. QED
      BY <1>2, <1>4, <1>6, <2>1
  <1>8. \A j \in 1..i : s[j] = text[j]
    BY <1>1, <1>4, <1>6, <1>7
  <1>9. s[i + 1] = b[1] /\ s[i + 2] = b[2] /\ s[i + 3] = b[3]
    BY <1>4, <1>6, <1>7
  <1>10. \A j \in 1..(Len(text) - i) : s[(i + 3) + j] = text[i + j]
    BY <1>2, <1>7
  <1>11. QED
    BY <1>3, <1>5, <1>7, <1>8, <1>9, <1>10

\* Where the clause of the word v opens.
LastBreak(s, v) == Max({0} \cup {i \in 1..(v - 1) : s[i] \in Breaks})

\* No break before a word stands behind the last one.
LEMMA LastBreakIs ==
  ASSUME NEW s \in Seq(Word), NEW v \in 1..Len(s)
  PROVE  /\ LastBreak(s, v) \in 0..(v - 1)
         /\ LastBreak(s, v) # 0 => s[LastBreak(s, v)] \in Breaks
         /\ \A i \in 1..(v - 1) : s[i] \in Breaks => i <= LastBreak(s, v)
  <1> DEFINE breaks == {0} \cup {i \in 1..(v - 1) : s[i] \in Breaks}
  <1>1. breaks \in SUBSET (0..v) /\ 0 \in breaks /\ v \in Nat
    OBVIOUS
  <1>2. Max(breaks) \in breaks /\ \A i \in breaks : Max(breaks) >= i
    <2> HIDE DEF breaks
    <2>1. QED
      BY <1>1, MaxIs
  <1>3. LastBreak(s, v) = Max(breaks)
    BY Zenon DEF LastBreak
  <1>4. LastBreak(s, v) \in breaks /\ \A i \in breaks : LastBreak(s, v) >= i
    BY <1>2, <1>3
  <1>5. QED
    BY <1>4

\* A clause that ends on a word left hanging, with a blocker in it, blocks
\* every verb behind it.
LEMMA StillBlocks ==
  ASSUME NEW s \in Seq(Word), NEW n \in Nat, Len(s) = n,
         NEW k \in 1..n, s[k] \in Dangling,
         NEW e \in 1..n, e = k + 1, s[e] \in Breaks,
         NEW i \in 1..k, s[i] \in Negators \cup Prospective,
         \A j \in i..k : s[j] \notin Breaks,
         NEW v \in 1..n, e < v
  PROVE  ~leaves_claim_standing(s, v)
  <1> DEFINE b == LastBreak(s, v)
             after == {j \in i..Len(s) : s[j] \in Breaks}
  <1>1. b \in Nat /\ b < v /\ e <= b
    <2>1. e \in 1..(v - 1)
      OBVIOUS
    <2>2. QED
      BY <2>1, LastBreakIs
  <1>2. Min(after) = e
    <2>1. e \in after /\ after \in SUBSET Nat
      OBVIOUS
    <2>2. ASSUME NEW x \in after PROVE e <= x
      <3>1. x \in i..n /\ s[x] \in Breaks
        OBVIOUS
      <3>2. x \notin i..k
        BY <3>1
      <3>3. QED
        BY <3>1, <3>2
    <2> HIDE DEF after
    <2>3. QED
      BY <2>1, <2>2, MinUnique
  <1>3. LeftHanging(s, i)
    <2>1. LeftHanging(s, i) <=> s[Min(after) - 1] \in Dangling
      BY DEF LeftHanging
    <2>2. e - 1 = k
      OBVIOUS
    <2> HIDE DEF after
    <2>3. QED
      BY <1>2, <2>1, <2>2
  <1>4. i \in Spoken(s)
    <2>1. i \in 1..n
      OBVIOUS
    <2>2. QED
      BY <2>1, BlockersSpoken DEF Spoken
  <1>5. i \in Between(s, 0, v) /\ i \in Between(s, 0, b)
    <2> HIDE DEF b
    <2>1. 0 < i /\ i < v /\ i < b
      BY <1>1
    <2>2. QED
      BY <1>4, <2>1 DEF Between
  <1>6. i \in Scope(s, v)
    BY <1>3, <1>5 DEF Scope, LastBreak
  <1>7. QED
    BY <1>6 DEF leaves_claim_standing

\* So does one that only auxiliaries part from the verb, behind a break.
LEMMA ReachesBack ==
  ASSUME NEW s \in Seq(Word), NEW n \in Nat, Len(s) = n,
         NEW f \in 1..n, s[f] \in Breaks,
         NEW i \in 1..(f - 1), s[i] \in Negators \cup Prospective,
         NEW v \in 1..n, f + 1 < v,
         \A j \in (f + 1)..(v - 1) : s[j] \in Auxiliaries
  PROVE  ~leaves_claim_standing(s, v)
  <1>1. LastBreak(s, v) = f
    <2>1. /\ LastBreak(s, v) \in 0..(v - 1) /\ f <= LastBreak(s, v)
          /\ LastBreak(s, v) # 0 => s[LastBreak(s, v)] \in Breaks
      <3>1. f \in 1..(v - 1)
        OBVIOUS
      <3>2. QED
        BY <3>1, LastBreakIs
    <2>2. ASSUME LastBreak(s, v) \in (f + 1)..(v - 1) PROVE FALSE
      BY <2>1, <2>2, BlockersSpoken
    <2>3. QED
      BY <2>1, <2>2
  <1>2. \A j \in Between(s, f, v) : s[j] \in Auxiliaries
    BY DEF Between, Spoken
  <1>3. f + 1 \in Between(s, f, v)
    <2>1. f + 1 \in (f + 1)..(v - 1) /\ f + 1 \in 1..n
      OBVIOUS
    <2>2. s[f + 1] \notin Marks
      BY <2>1, BlockersSpoken
    <2>3. QED
      BY <2>1, <2>2 DEF Between, Spoken
  <1>4. Scope(s, v) = Between(s, 0, v)
    BY <1>1, <1>2, <1>3 DEF Scope, LastBreak
  <1>5. i \in Between(s, 0, v)
    <2>1. i \in 1..n /\ 0 < i /\ i < v
      OBVIOUS
    <2>2. QED
      BY <2>1, BlockersSpoken DEF Between, Spoken
  <1>6. QED
    BY <1>4, <1>5 DEF leaves_claim_standing

\* Where the word before a parenthesis cannot close a clause, or what follows
\* up to the verb are auxiliaries, the parenthesis cuts no negator or modal off
\* from the verb, in a draft of any length.
THEOREM ParenthesisBlocks == Spec => []ParenthesisKeepsBlocker
  <1>1. ASSUME Inputs PROVE ParenthesisKeepsBlocker
    <2> SUFFICES ASSUME NEW k \in DOMAIN draft,
                        BlockedBefore(k), SeenWhole(k),
                        NEW w \in Vocabulary, w \notin Verbs
                 PROVE  ~claims_completed_mutation(Inserted(draft, k, w))
      <3>1. \A k, w : Parenthesised(k, w) = Inserted(draft, k, w)
        BY Zenon DEF Parenthesised, Inserted, Comma
      <3>2. QED
        BY <3>1 DEF ParenthesisKeepsBlocker
    <2> DEFINE s == Inserted(draft, k, w)
               n == Len(s)
               e == k + 1
               f == k + 3
    <2>1. draft \in Seq(Word) /\ k \in 1..Len(draft) /\ Len(draft) \in Nat
          /\ DOMAIN draft = 1..Len(draft) /\ w \in Word
      <3>1. w \in Word
        BY Zenon DEF Word
      <3>2. QED
        BY <1>1, <3>1 DEF Inputs
    <2>2. /\ s \in Seq(Word) /\ Len(s) = Len(draft) + 3
          /\ \A j \in 1..k : s[j] = draft[j]
          /\ s[k + 1] = Comma /\ s[k + 2] = w /\ s[k + 3] = Comma
          /\ \A j \in 1..(Len(draft) - k) : s[(k + 3) + j] = draft[k + j]
      BY <2>1, ParenthesisIs
    <2> HIDE DEF s
    <2>3. /\ n \in Nat /\ Len(s) = n /\ n = Len(draft) + 3 /\ e = k + 1 /\ f = k + 3
          /\ k \in 1..n /\ e \in 1..n /\ f \in 1..n /\ e < f
          /\ s[e] \in Breaks /\ s[f] \in Breaks
      BY <2>1, <2>2, CommaIs
    <2>4. PICK i \in 1..k : /\ draft[i] \in Negators \cup Prospective
                            /\ \A j \in i..k : draft[j] \notin Breaks
      BY DEF BlockedBefore
    <2>5. /\ i \in 1..(f - 1) /\ s[i] \in Negators \cup Prospective
          /\ \A j \in i..k : s[j] \notin Breaks
      BY <2>1, <2>2, <2>4
    <2>6. \A v \in Occurrences(draft) : v > k
      BY DEF BlockedBefore
    <2>7. ASSUME NEW v \in Occurrences(s)
          PROVE  /\ v \in 1..n /\ f < v
                 /\ v - 3 \in Occurrences(draft)
                 /\ \A j \in (f + 1)..(v - 1) : s[j] = draft[j - 3]
      <3>1. v \in 1..(Len(draft) + 3) /\ s[v] \in Verbs
        BY <2>2 DEF Occurrences
      <3>2. v \notin 1..k
        <4>1. ASSUME v \in 1..k PROVE FALSE
          <5>1. s[v] = draft[v] /\ v \in 1..Len(draft)
            BY <2>1, <2>2, <4>1
          <5>2. v \in Occurrences(draft)
            BY <2>1, <3>1, <5>1 DEF Occurrences
          <5>3. QED
            BY <2>1, <2>6, <4>1, <5>2
        <4>2. QED
          BY <4>1
      <3>3. v # k + 1 /\ v # k + 2 /\ v # k + 3
        BY <2>2, <3>1, CommaIs
      <3>4. v \in 1..n /\ f < v
        BY <2>1, <2>3, <3>1, <3>2, <3>3
      <3>5. ASSUME NEW j \in (f + 1)..v PROVE s[j] = draft[j - 3] /\ j - 3 \in 1..Len(draft)
        <4> DEFINE m == j - (k + 3)
        <4>1. m \in 1..(Len(draft) - k) /\ (k + 3) + m = j /\ k + m = j - 3
              /\ j - 3 \in 1..Len(draft)
          BY <2>1, <3>1, <3>4
        <4> HIDE DEF m
        <4>2. s[(k + 3) + m] = draft[k + m]
          BY <2>2, <4>1
        <4>3. QED
          BY <4>1, <4>2
      <3>6. v \in (f + 1)..v
        BY <2>1, <3>4
      <3>7. v - 3 \in Occurrences(draft)
        BY <2>1, <3>1, <3>5, <3>6 DEF Occurrences
      <3>8. \A j \in (f + 1)..(v - 1) : j \in (f + 1)..v
        BY <2>1, <3>4
      <3>9. QED
        BY <3>4, <3>5, <3>7, <3>8
    <2>8. ASSUME NEW v \in Occurrences(s) PROVE ~leaves_claim_standing(s, v)
      <3>1. v \in 1..n /\ f < v /\ e < v
        BY <2>1, <2>3, <2>7
      <3>2. CASE draft[k] \in Dangling
        <4>1. s[k] \in Dangling
          BY <2>1, <2>2, <3>2
        <4> HIDE DEF n, e, f
        <4>2. QED
          BY <2>2, <2>3, <2>5, <3>1, <4>1, StillBlocks
      <3>3. ASSUME NEW u \in Occurrences(draft), Occurrences(draft) = {u}, u > k + 1,
                   \A j \in (k + 1)..(u - 1) : draft[j] \in Auxiliaries
            PROVE  ~leaves_claim_standing(s, v)
        <4>1. v - 3 = u
          BY <2>7, <3>3
        <4>2. f + 1 < v
          BY <2>1, <3>1, <3>3, <4>1
        <4>3. ASSUME NEW j \in (f + 1)..(v - 1) PROVE s[j] \in Auxiliaries
          <5>1. s[j] = draft[j - 3]
            BY <2>7
          <5>2. j - 3 \in (k + 1)..(u - 1)
            BY <2>1, <3>1, <4>1
          <5>3. QED
            BY <3>3, <5>1, <5>2
        <4> HIDE DEF n, e, f
        <4>4. QED
          BY <2>2, <2>3, <2>5, <3>1, <4>2, <4>3, ReachesBack
      <3>4. QED
        BY <3>2, <3>3 DEF SeenWhole
    <2>9. ~claims_completed_mutation(s)
      BY <2>8 DEF claims_completed_mutation
    <2>10. QED
      BY <2>9 DEF s
  <1>2. QED
    BY <1>1, InputsAlways, PTL
-----------------------------------------------------------------------------
(* A fragment put before a draft.                                          *)

\* s is t behind a fragment of n - 1 words and a break.
Behind(s, t, n) ==
  /\ s \in Seq(Word) /\ t \in Seq(Word) /\ n \in Nat /\ 1 < n
  /\ Len(t) \in Nat /\ Len(s) = n + Len(t)
  /\ \A i \in 1..Len(t) : s[i + n] = t[i]
  /\ s[n] \in Breaks
  /\ \A i \in 1..(n - 1) : s[i] \notin Marks

\* The fragment does not break off on a word that cannot close a clause behind a
\* negator or modal.
Harmless(s, n) ==
  s[n - 1] \in Dangling =>
    \A i \in 1..(n - 1) : s[i] \notin Negators \cup Prospective

\* What stands between two positions of the draft stands between the shifted
\* positions, and nothing else does.
LEMMA ShiftedBetween ==
  ASSUME NEW s, NEW t, NEW n, Behind(s, t, n), NEW a \in Nat, NEW b \in Nat
  PROVE  /\ \A x \in Between(t, a, b) :
              x + n \in Between(s, a + n, b + n) /\ s[x + n] = t[x]
         /\ \A y \in Between(s, a + n, b + n) :
              y - n \in Between(t, a, b) /\ s[y] = t[y - n]
  <1>1. ASSUME NEW x \in Between(t, a, b)
        PROVE  x + n \in Between(s, a + n, b + n) /\ s[x + n] = t[x]
    <2>1. /\ x \in 1..Len(t) /\ t[x] \notin Marks /\ a < x /\ x < b
      BY DEF Between, Spoken, Behind
    <2>2. x + n \in 1..Len(s) /\ a + n < x + n /\ x + n < b + n
      BY <2>1 DEF Behind
    <2>3. s[x + n] = t[x]
      BY <2>1 DEF Behind
    <2>4. QED
      BY <2>1, <2>2, <2>3 DEF Between, Spoken, Behind
  <1>2. ASSUME NEW y \in Between(s, a + n, b + n)
        PROVE  y - n \in Between(t, a, b) /\ s[y] = t[y - n]
    <2>1. y \in 1..Len(s) /\ s[y] \notin Marks /\ a + n < y /\ y < b + n
      BY DEF Between, Spoken, Behind
    <2>2. y - n \in 1..Len(t) /\ a < y - n /\ y - n < b /\ (y - n) + n = y
      BY <2>1 DEF Behind
    <2>3. s[y] = t[y - n]
      BY <2>2 DEF Behind
    <2>4. QED
      BY <2>1, <2>2, <2>3 DEF Between, Spoken, Behind
  <1>3. QED
    BY <1>1, <1>2

\* They are no more than they were.
LEMMA ShiftedFewer ==
  ASSUME NEW s, NEW t, NEW n, Behind(s, t, n), NEW a \in Nat, NEW b \in Nat
  PROVE  /\ Cardinality(Between(s, a + n, b + n)) \in Nat
         /\ Cardinality(Between(t, a, b)) \in Nat
         /\ Cardinality(Between(s, a + n, b + n)) <= Cardinality(Between(t, a, b))
  <1> DEFINE P == Between(t, a, b)
             Q == Between(s, a + n, b + n)
             g == [x \in P |-> x + n]
  <1>1. P \subseteq 1..Len(t) /\ Len(t) \in Int /\ 1 \in Int
    BY DEF Between, Spoken, Behind
  <1>2. IsFiniteSet(P)
    <2>1. IsFiniteSet(1..Len(t))
      BY <1>1, FS_Interval
    <2> HIDE DEF P
    <2>2. QED
      BY <1>1, <2>1, FS_Subset
  <1>3. \A x \in P : x + n \in Q
    BY ShiftedBetween
  <1>4. ASSUME NEW y \in Q PROVE \E x \in P : x + n = y
    <2>1. y - n \in P
      BY ShiftedBetween
    <2>2. y \in Nat /\ n \in Nat
      BY DEF Between, Spoken, Behind
    <2>3. (y - n) + n = y
      BY <2>2
    <2>4. QED
      BY <2>1, <2>3
  <1> HIDE DEF P, Q
  <1>5. g \in Surjection(P, Q)
    BY <1>3, <1>4 DEF Surjection
  <1>6. IsFiniteSet(Q) /\ Cardinality(Q) <= Cardinality(P)
    BY <1>2, <1>5, FS_Surjection
  <1>7. Cardinality(P) \in Nat /\ Cardinality(Q) \in Nat
    BY <1>2, <1>6, FS_CardinalityType
  <1>8. QED
    BY <1>6, <1>7 DEF P, Q

\* What is in scope of a verb whose clause is not auxiliaries alone.
LEMMA ScopeIs ==
  ASSUME NEW s, NEW v, NEW b, b = LastBreak(s, v),
         \/ Between(s, b, v) = {}
         \/ \E i \in Between(s, b, v) : s[i] \notin Auxiliaries
  PROVE  Scope(s, v) =
           Between(s, b, v) \cup {i \in Between(s, 0, b) : LeftHanging(s, i)}
  BY DEF Scope, LastBreak

\* A clause of the draft opens at the same break, or at the fragment's.
LEMMA ShiftedBreak ==
  ASSUME NEW s, NEW t, NEW n, Behind(s, t, n), NEW v \in 1..Len(t)
  PROVE  /\ LastBreak(t, v) \in Nat /\ LastBreak(t, v) < v
         /\ LastBreak(t, v) # 0 =>
              LastBreak(t, v) \in 1..Len(t) /\ t[LastBreak(t, v)] \in Breaks
         /\ LastBreak(s, v + n) = LastBreak(t, v) + n
  <1> DEFINE B == {0} \cup {i \in 1..(v - 1) : t[i] \in Breaks}
             C == {0} \cup {i \in 1..((v + n) - 1) : s[i] \in Breaks}
             b == Max(B)
  <1>1. v \in Nat /\ n \in Nat /\ 1 < n /\ 0 < v /\ v <= Len(t) /\ Len(t) \in Nat
    BY DEF Behind
  <1>2. B \in SUBSET (0..v) /\ 0 \in B
    BY <1>1
  <1>3. b \in B /\ \A x \in B : b >= x
    <2> HIDE DEF B
    <2>1. QED
      BY <1>1, <1>2, MaxIs
  <1>4. /\ b \in Nat /\ b < v
        /\ b # 0 => b \in 1..Len(t) /\ t[b] \in Breaks
    <2> HIDE DEF b
    <2>1. QED
      BY <1>1, <1>3
  <1>5. b + n \in C
    <2>1. b + n \in 1..((v + n) - 1)
      BY <1>1, <1>4
    <2>2. s[b + n] \in Breaks
      <3>1. CASE b = 0
        BY <1>1, <3>1 DEF Behind
      <3>2. CASE b # 0
        BY <1>4, <3>2 DEF Behind
      <3>3. QED
        BY <3>1, <3>2
    <2> HIDE DEF b
    <2>3. QED
      BY <2>1, <2>2
  <1>6. ASSUME NEW y \in C PROVE b + n >= y
    <2>1. CASE y \in 0..n
      BY <1>1, <1>4, <2>1
    <2>2. CASE y \notin 0..n
      <3>1. y \in 1..((v + n) - 1) /\ s[y] \in Breaks
        BY <1>1, <2>2
      <3>2. y - n \in 1..(v - 1) /\ y - n \in 1..Len(t) /\ (y - n) + n = y
        BY <1>1, <2>2, <3>1
      <3>3. t[y - n] \in Breaks
        BY <3>1, <3>2 DEF Behind
      <3>4. y - n \in B
        BY <3>2, <3>3
      <3>5. b >= y - n
        BY <1>3, <3>4
      <3> HIDE DEF b
      <3>6. QED
        BY <1>1, <1>4, <3>1, <3>5
    <2>3. QED
      BY <2>1, <2>2
  <1>7. C \in SUBSET (0..(v + n)) /\ v + n \in Nat
    BY <1>1
  <1>8. Max(C) = b + n
    <2> HIDE DEF b, C
    <2>1. QED
      BY <1>5, <1>6, <1>7, MaxUnique
  <1>9. LastBreak(t, v) = b /\ LastBreak(s, v + n) = Max(C)
    <2>1. LastBreak(t, v) = b
      BY Zenon DEF LastBreak
    <2>2. LastBreak(s, v + n) = Max(C)
      BY Zenon DEF LastBreak
    <2>3. QED
      BY <2>1, <2>2
  <1> HIDE DEF b, C
  <1>10. QED
    BY <1>4, <1>8, <1>9

\* The words of a fragment are left hanging if its last one cannot close a
\* clause.
LEMMA FragmentHanging ==
  ASSUME NEW s, NEW t, NEW n, Behind(s, t, n), NEW i \in 1..(n - 1)
  PROVE  LeftHanging(s, i) <=> s[n - 1] \in Dangling
  <1> DEFINE A == {j \in i..Len(s) : s[j] \in Breaks}
  <1>1. n \in Nat /\ 1 < n /\ Len(t) \in Nat /\ Len(s) = n + Len(t)
    BY DEF Behind
  <1>2. A \in SUBSET Nat
    BY <1>1
  <1>3. n \in A
    BY <1>1 DEF Behind
  <1>4. ASSUME NEW j \in A PROVE n <= j
    <2>1. j \in Nat /\ 0 < j /\ s[j] \in Breaks
      BY <1>1
    <2>2. s[j] \in Marks
      BY <2>1, BlockersSpoken
    <2>3. j \notin 1..(n - 1)
      BY <2>2 DEF Behind
    <2>4. QED
      BY <1>1, <2>1, <2>3
  <1>5. LeftHanging(s, i) <=> s[Min(A) - 1] \in Dangling
    BY DEF LeftHanging
  <1> HIDE DEF A
  <1>6. Min(A) = n
    BY <1>2, <1>3, <1>4, MinUnique
  <1>7. QED
    BY <1>5, <1>6

\* Behind the fragment the same words are left hanging as were.
LEMMA ShiftedHanging ==
  ASSUME NEW s, NEW t, NEW n, Behind(s, t, n),
         NEW i \in Nat, n < i, s[i] \notin Breaks, LeftHanging(s, i),
         NEW b \in Nat, i < b + n, b # 0 => b \in 1..Len(t) /\ t[b] \in Breaks
  PROVE  LeftHanging(t, i - n)
  <1> DEFINE A == {j \in i..Len(s) : s[j] \in Breaks}
             B == {j \in (i - n)..Len(t) : t[j] \in Breaks}
             m == Min(B)
  <1>1. n \in Nat /\ 1 < n /\ Len(t) \in Nat /\ Len(s) = n + Len(t)
    BY DEF Behind
  <1>2. s[Min(A) - 1] \in Dangling
    BY DEF LeftHanging
  <1>3. A \in SUBSET Nat
    BY <1>1
  <1>4. n < i
    OBVIOUS
  <1>5. i - n \in 1..Len(t) /\ b \in 1..Len(t) /\ i - n < b /\ t[b] \in Breaks
    BY <1>1, <1>4
  <1>6. t[i - n] \notin Breaks
    <2>1. (i - n) + n = i
      BY <1>1
    <2>2. s[i] = t[i - n]
      BY <1>5, <2>1 DEF Behind
    <2>3. QED
      BY <2>2
  <1>7. b \in B /\ B \in SUBSET Nat
    BY <1>5
  <1>8. m \in B /\ \A x \in B : m <= x
    <2> HIDE DEF B
    <2>1. QED
      BY <1>7, MinIs
  <1>9. m \in (i - n)..Len(t) /\ t[m] \in Breaks /\ m # i - n
    <2> HIDE DEF m
    <2>1. QED
      BY <1>6, <1>8
  <1>10. m \in 1..Len(t) /\ m - 1 \in 1..Len(t)
    <2> HIDE DEF m
    <2>1. QED
      BY <1>1, <1>5, <1>9
  <1>11. Min(A) = m + n
    <2>1. m + n \in A
      <3>1. s[m + n] = t[m]
        BY <1>10 DEF Behind
      <3>2. m + n \in i..Len(s)
        <4> HIDE DEF m
        <4>1. QED
          BY <1>1, <1>5, <1>9
      <3> HIDE DEF m
      <3>3. QED
        BY <1>9, <3>1, <3>2
    <2>2. ASSUME NEW y \in A PROVE m + n <= y
      <3>1. y \in i..Len(s) /\ s[y] \in Breaks
        OBVIOUS
      <3>2. y - n \in (i - n)..Len(t) /\ y - n \in 1..Len(t) /\ (y - n) + n = y
        BY <1>1, <1>4, <3>1
      <3>3. t[y - n] \in Breaks
        BY <3>1, <3>2 DEF Behind
      <3>4. y - n \in B
        BY <3>2, <3>3
      <3>5. m <= y - n
        BY <1>8, <3>4
      <3> HIDE DEF m
      <3>6. QED
        BY <1>1, <1>10, <3>1, <3>5
    <2> HIDE DEF A, m
    <2>3. QED
      BY <1>3, <2>1, <2>2, MinUnique
  <1>12. s[(m + n) - 1] = t[m - 1]
    <2>1. (m - 1) + n = (m + n) - 1
      <3> HIDE DEF m
      <3>1. QED
        BY <1>1, <1>10
    <2>2. s[(m - 1) + n] = t[m - 1]
      BY <1>10 DEF Behind
    <2>3. QED
      BY <2>1, <2>2
  <1>13. t[m - 1] \in Dangling
    <2> HIDE DEF A, m
    <2>1. QED
      BY <1>2, <1>11, <1>12
  <1>14. QED
    BY <1>13 DEF LeftHanging

\* A verb whose clause claims for itself still does behind a fragment.
LEMMA ShiftedStands ==
  ASSUME NEW s, NEW t, NEW n, Behind(s, t, n),
         Harmless(s, n), NEW v \in 1..Len(t), OwnClaim(t, v)
  PROVE  leaves_claim_standing(s, v + n)
  <1> DEFINE b == LastBreak(t, v)
             c == LastBreak(s, v + n)
             P == Between(t, b, v)
             Q == Between(s, c, v + n)
  <1>1. /\ b \in Nat /\ b < v /\ c = b + n
        /\ b # 0 => b \in 1..Len(t) /\ t[b] \in Breaks
    BY ShiftedBreak
  <1>2. P = {} \/ \E i \in P : t[i] \notin Auxiliaries
    BY DEF OwnClaim, LastBreak
  <1>3. Scope(t, v) = P \cup {i \in Between(t, 0, b) : LeftHanging(t, i)}
    BY <1>2, ScopeIs
  <1>4. v \in Nat /\ n \in Nat
    BY DEF Behind
  <1>5. /\ \A x \in P : x + n \in Q /\ s[x + n] = t[x]
        /\ \A y \in Q : y - n \in P /\ s[y] = t[y - n]
    <2>1. P = Between(t, b, v) /\ Q = Between(s, b + n, v + n)
      BY <1>1
    <2> HIDE DEF b, P, Q
    <2>2. QED
      BY <1>1, <1>4, <2>1, ShiftedBetween
  <1>6. Q = {} \/ \E i \in Q : s[i] \notin Auxiliaries
    <2> HIDE DEF P, Q
    <2>1. QED
      BY <1>2, <1>5
  <1>7. Scope(s, v + n) = Q \cup {i \in Between(s, 0, c) : LeftHanging(s, i)}
    BY <1>6, ScopeIs
  <1>8. \A i \in Scope(t, v) : t[i] \notin Negators \cup Prospective
    BY DEF OwnClaim, leaves_claim_standing
  <1>9. ASSUME NEW i \in Scope(s, v + n)
        PROVE  s[i] \notin Negators \cup Prospective
    <2>1. CASE i \in Q
      <3> HIDE DEF P, Q
      <3>1. i - n \in Scope(t, v) /\ s[i] = t[i - n]
        BY <1>3, <1>5, <2>1
      <3>2. QED
        BY <1>8, <3>1
    <2>2. ASSUME i \in Between(s, 0, c), LeftHanging(s, i)
          PROVE  s[i] \notin Negators \cup Prospective
      <3>1. i \in Between(s, 0, b + n)
        BY <1>1, <2>2
      <3> HIDE DEF b, c
      <3>2. i \in 1..Len(s) /\ 0 < i /\ i < b + n /\ s[i] \notin Marks
        BY <3>1 DEF Between, Spoken, Behind
      <3>3. s[i] \notin Breaks /\ i \in Nat
        BY <3>2, BlockersSpoken
      <3>4. CASE i \in 1..(n - 1)
        <4>1. s[n - 1] \in Dangling
          BY <2>2, <3>4, FragmentHanging
        <4>2. QED
          BY <3>4, <4>1 DEF Harmless
      <3>5. CASE i \notin 1..(n - 1)
        <4>1. i # n
          BY <3>3 DEF Behind
        <4>2. n < i
          BY <1>4, <3>2, <3>3, <3>5, <4>1
        <4>3. LeftHanging(t, i - n)
          BY <1>1, <2>2, <3>2, <3>3, <4>2, ShiftedHanging
        <4>4. i \in Between(s, 0 + n, b + n)
          BY <1>4, <3>1, <4>2 DEF Between
        <4>5. i - n \in Between(t, 0, b) /\ s[i] = t[i - n]
          BY <1>1, <4>4, ShiftedBetween
        <4>6. i - n \in Scope(t, v)
          BY <1>3, <4>3, <4>5
        <4>7. QED
          BY <1>8, <4>5, <4>6
      <3>6. QED
        BY <3>4, <3>5
    <2>3. QED
      BY <1>7, <2>1, <2>2
  <1>10. QED
    BY <1>9 DEF leaves_claim_standing

\* What leads to a verb leads to it behind a fragment.
LEMMA ShiftedLeads ==
  ASSUME NEW s, NEW t, NEW n, Behind(s, t, n),
         NEW v \in 1..Len(t), NEW heads, NEW k \in Nat, Leads(t, heads, k, v)
  PROVE  Leads(s, heads, k, v + n)
  <1>1. n \in Nat /\ v \in Nat /\ v <= Len(t) /\ Len(t) \in Nat
    BY DEF Behind
  <1>2. PICK i \in 1..(v - 1) :
          /\ t[i] \in heads /\ v - i <= k + 1
          /\ \A j \in (i + 1)..(v - 1) : t[j] \in Fillers
    BY DEF Leads
  <1> DEFINE w == i + n
             u == v + n
  <1>3. w \in 1..(u - 1) /\ u - w <= k + 1
    BY <1>1, <1>2
  <1>4. s[w] \in heads
    <2>1. i \in 1..Len(t)
      BY <1>1
    <2>2. QED
      BY <1>2, <2>1 DEF Behind
  <1>5. ASSUME NEW j \in (w + 1)..(u - 1) PROVE s[j] \in Fillers
    <2>1. /\ j - n \in (i + 1)..(v - 1) /\ j - n \in 1..Len(t)
          /\ (j - n) + n = j
      BY <1>1
    <2>2. QED
      BY <1>2, <2>1 DEF Behind
  <1> HIDE DEF w, u
  <1>6. Leads(s, heads, k, u)
    BY <1>3, <1>4, <1>5 DEF Leads
  <1>7. QED
    BY <1>6 DEF u

\* The first of some words of the draft is the first of the shifted ones.
LEMMA ShiftedMin ==
  ASSUME NEW n \in Nat, NEW P \in SUBSET Nat, NEW Q \in SUBSET Nat, P # {},
         \A x \in P : x + n \in Q, \A y \in Q : y - n \in P
  PROVE  /\ Min(P) \in P /\ \A x \in P : Min(P) <= x
         /\ Min(Q) = Min(P) + n
  <1>1. Min(P) \in P /\ \A x \in P : Min(P) <= x
    BY MinIs
  <1>2. Min(P) + n \in Q
    BY <1>1
  <1>3. ASSUME NEW y \in Q PROVE Min(P) + n <= y
    <2>1. Min(P) <= y - n
      BY <1>1
    <2>2. Min(P) \in Nat /\ y \in Nat
      BY <1>1
    <2>3. QED
      BY <2>1, <2>2
  <1>4. Min(Q) = Min(P) + n
    BY <1>2, <1>3, MinUnique
  <1>5. QED
    BY <1>1, <1>4

\* What follows a verb as a complement follows it behind a fragment.
LEMMA ShiftedComplement ==
  ASSUME NEW s, NEW t, NEW n, Behind(s, t, n),
         NEW v \in 1..Len(t), Complement(t, v)
  PROVE  Complement(s, v + n)
  <1> DEFINE P == Rest(t, v)
             Q == Rest(s, v + n)
             e == Len(t) + 1
             R == P \ {Min(P)}
             S == Q \ {Min(Q)}
  <1>1. n \in Nat /\ v \in Nat /\ v <= Len(t) /\ Len(t) \in Nat /\ 1 < n
    BY DEF Behind
  <1>2. e \in Nat /\ Len(s) + 1 = e + n
    BY <1>1 DEF Behind
  <1>3. P = Between(t, v, e) /\ Q = Between(s, v + n, e + n)
    BY <1>2 DEF Rest
  <1> HIDE DEF P, Q, e
  <1>4. /\ Cardinality(Q) \in Nat /\ Cardinality(P) \in Nat
        /\ Cardinality(Q) <= Cardinality(P)
    BY <1>1, <1>2, <1>3, ShiftedFewer
  <1>5. /\ \A x \in P : x + n \in Q /\ s[x + n] = t[x]
        /\ \A y \in Q : y - n \in P /\ s[y] = t[y - n]
    BY <1>1, <1>2, <1>3, ShiftedBetween
  <1>6. P \in SUBSET Nat /\ Q \in SUBSET Nat /\ P \subseteq 1..Len(t)
    BY <1>3 DEF Between, Spoken, Behind
  <1>7. CASE Cardinality(P) <= 1
    BY <1>4, <1>7 DEF Complement, Q
  <1>8. CASE ~(Cardinality(P) <= 1)
    <2>1. P # {}
      BY <1>8, FS_EmptySet
    <2>2. /\ Min(P) \in P /\ \A x \in P : Min(P) <= x
          /\ Min(Q) = Min(P) + n
      BY <1>1, <1>5, <1>6, <2>1, ShiftedMin
    <2>3. R # {}
      <3>1. ASSUME R = {} PROVE FALSE
        <4>1. P = {Min(P)}
          BY <2>2, <3>1
        <4>2. Cardinality({Min(P)}) = 1
          BY FS_Singleton
        <4>3. QED
          BY <1>8, <4>1, <4>2
      <3>2. QED
        BY <3>1
    <2>4. /\ \A x \in R : x + n \in S
          /\ \A y \in S : y - n \in R
          /\ R \in SUBSET Nat /\ S \in SUBSET Nat
      <3>1. Min(P) \in Nat /\ Min(Q) = Min(P) + n
        BY <1>6, <2>2
      <3>2. ASSUME NEW x \in P, x # Min(P) PROVE x + n \in Q /\ x + n # Min(Q)
        <4>1. x \in Nat /\ x + n \in Q
          BY <1>5, <1>6
        <4>2. QED
          BY <1>1, <3>1, <3>2, <4>1
      <3>3. ASSUME NEW y \in Q, y # Min(Q) PROVE y - n \in P /\ y - n # Min(P)
        <4>1. y \in Nat /\ y - n \in P
          BY <1>5, <1>6
        <4>2. QED
          BY <1>1, <3>1, <3>3, <4>1
      <3>4. R \in SUBSET Nat /\ S \in SUBSET Nat
        BY <1>6
      <3>5. QED
        BY <3>2, <3>3, <3>4
    <2> DEFINE first == Min(P)
               second == Min(R)
    <2> HIDE DEF R, S
    <2>5. second \in R /\ Min(S) = second + n
      BY <1>1, <2>3, <2>4, ShiftedMin
    <2>6. /\ first \in P /\ second \in P /\ Min(Q) = first + n
          /\ first \in 1..Len(t) /\ second \in 1..Len(t)
      BY <1>6, <2>2, <2>5 DEF R
    <2>7. /\ s[Min(Q)] = t[first] /\ s[Min(S)] = t[second]
      BY <1>5, <2>5, <2>6
    <2>8. \/ t[first] \in Objects \cup Adjuncts
          \/ t[first] \in Particles /\ t[second] \in Objects \cup ParticleTail
          \/ \E i \in (first + 1)..(second - 1) : t[i] \in Colons
      BY <1>8 DEF Complement, P, R
    <2> HIDE DEF first, second
    <2>9. ASSUME NEW i \in (first + 1)..(second - 1), t[i] \in Colons
          PROVE  \E j \in (Min(Q) + 1)..(Min(S) - 1) : s[j] \in Colons
      <3>1. i \in 1..Len(t) /\ i + n \in (Min(Q) + 1)..(Min(S) - 1)
        BY <1>1, <2>5, <2>6
      <3>2. s[i + n] = t[i]
        BY <3>1 DEF Behind
      <3>3. QED
        BY <2>9, <3>1, <3>2
    <2>10. \/ s[Min(Q)] \in Objects \cup Adjuncts
           \/ s[Min(Q)] \in Particles /\ s[Min(S)] \in Objects \cup ParticleTail
           \/ \E j \in (Min(Q) + 1)..(Min(S) - 1) : s[j] \in Colons
      BY <2>7, <2>8, <2>9
    <2>11. QED
      BY <2>10 DEF Complement, Q, S
  <1>9. QED
    BY <1>7, <1>8

\* So does a clause that is nothing but the verb and its complement.
LEMMA ShiftedElliptical ==
  ASSUME NEW s, NEW t, NEW n, Behind(s, t, n),
         NEW v \in 1..Len(t), Elliptical(t, v)
  PROVE  Elliptical(s, v + n)
  <1>1. n \in Nat /\ v \in Nat /\ v <= Len(t) /\ Len(t) \in Nat /\ 1 < n
    BY DEF Behind
  <1>2. PICK h \in ClauseHeads(t) : h < v /\ Cardinality(Between(t, h, v)) <= 2
    BY DEF Elliptical
  <1>3. h \in Nat
    BY <1>1 DEF ClauseHeads, Behind
  <1>4. h + n \in ClauseHeads(s) /\ h + n < v + n
    <2>1. h + n \in DOMAIN s /\ s[h + n] \in Breaks \cup Coordinators
      <3>1. CASE h = 0
        BY <1>1, <3>1 DEF Behind
      <3>2. CASE h # 0
        BY <1>1, <3>2 DEF ClauseHeads, Behind
      <3>3. QED
        BY <3>1, <3>2
    <2>2. QED
      BY <1>1, <1>2, <1>3, <2>1 DEF ClauseHeads
  <1>5. Cardinality(Between(s, h + n, v + n)) <= 2
    <2>1. /\ Cardinality(Between(s, h + n, v + n)) \in Nat
          /\ Cardinality(Between(t, h, v)) \in Nat
          /\ Cardinality(Between(s, h + n, v + n)) <= Cardinality(Between(t, h, v))
      BY <1>1, <1>3, ShiftedFewer
    <2>2. QED
      BY <1>2, <2>1
  <1>6. Complement(s, v + n)
    BY ShiftedComplement DEF Elliptical
  <1>7. QED
    BY <1>4, <1>5, <1>6 DEF Elliptical

Question == "?"
Said(s) == {s[i] : i \in Spoken(s)}

\* What a sentence must be to be a claim, part by part.
LEMMA ClaimsAre ==
  ASSUME NEW s
  PROVE  claims_completed_mutation(s) <=>
           /\ Occurrences(s) # {}
           /\ s[Len(s)] # Question
           /\ s[Min(Spoken(s))] \notin Openers
           /\ Said(s) \cap Distancing = {}
           /\ \E v \in Occurrences(s) : leaves_claim_standing(s, v)
           /\ \/ Said(s) \cap Completion # {}
              \/ \E v \in Occurrences(s) : Claim(s, v)
  BY Zenon DEF claims_completed_mutation, Question, Said

\* A claim that stands on its own is still one behind a fragment.
LEMMA ShiftedClaim ==
  ASSUME NEW s, NEW t, NEW n, Behind(s, t, n), 0 < Len(t),
         s[1] \notin Openers, \A j \in 1..(n - 1) : s[j] \notin Distancing,
         Harmless(s, n), claims_completed_mutation(t),
         \E v \in Occurrences(t) : OwnClaim(t, v),
         \/ Said(t) \cap Completion # {}
         \/ \E v \in Occurrences(t) :
              FirstPerson(t, v) \/ Passive(t, v) \/ Elliptical(t, v)
  PROVE  claims_completed_mutation(s)
  <1>1. /\ n \in Nat /\ 1 < n /\ Len(t) \in Nat /\ Len(s) = n + Len(t)
        /\ DOMAIN s = 1..Len(s) /\ DOMAIN t = 1..Len(t)
    BY DEF Behind
  <1>2. /\ \A v \in Occurrences(t) : v \in 1..Len(t) /\ v + n \in Occurrences(s)
    <2>1. ASSUME NEW v \in Occurrences(t)
          PROVE  v \in 1..Len(t) /\ v + n \in Occurrences(s)
      <3>1. v \in 1..Len(t) /\ t[v] \in Verbs
        BY <1>1 DEF Occurrences
      <3>2. v + n \in 1..Len(s) /\ s[v + n] = t[v]
        BY <1>1, <3>1 DEF Behind
      <3>3. QED
        BY <1>1, <3>1, <3>2 DEF Occurrences
    <2>2. QED
      BY <2>1
  <1>3. /\ Occurrences(t) # {} /\ t[Len(t)] # Question
        /\ Said(t) \cap Distancing = {}
    BY ClaimsAre
  <1>4. Occurrences(s) # {}
    BY <1>2, <1>3
  <1>5. s[Len(s)] # Question
    <2>1. Len(t) \in 1..Len(t) /\ Len(t) + n = Len(s)
      BY <1>1
    <2>2. s[Len(s)] = t[Len(t)]
      BY <2>1 DEF Behind
    <2>3. QED
      BY <1>3, <2>2
  <1>6. s[Min(Spoken(s))] \notin Openers
    <2>1. 1 \in 1..(n - 1) /\ 1 \in DOMAIN s
      BY <1>1
    <2>2. 1 \in Spoken(s) /\ Spoken(s) \in SUBSET Nat
      BY <1>1, <2>1 DEF Spoken, Behind
    <2>3. \A x \in Spoken(s) : 1 <= x
      BY <1>1 DEF Spoken
    <2>4. Min(Spoken(s)) = 1
      BY <2>2, <2>3, MinUnique
    <2>5. QED
      BY <2>4
  <1>7. ASSUME NEW i \in Spoken(s), i \notin 1..(n - 1)
        PROVE  i - n \in Spoken(t) /\ s[i] = t[i - n]
    <2>1. i \in 1..Len(s) /\ s[i] \notin Marks
      BY <1>1 DEF Spoken
    <2>2. i # n
      <3>1. s[n] \in Marks
        BY Zenon DEF Behind, Marks
      <3>2. QED
        BY <2>1, <3>1
    <2>3. i - n \in 1..Len(t) /\ (i - n) + n = i
      BY <1>1, <1>7, <2>1, <2>2
    <2>4. s[i] = t[i - n]
      BY <2>3 DEF Behind
    <2>5. QED
      BY <1>1, <2>1, <2>3, <2>4 DEF Spoken
  <1>8. Said(s) \cap Distancing = {}
    <2>1. ASSUME NEW i \in Spoken(s) PROVE s[i] \notin Distancing
      <3>1. CASE i \in 1..(n - 1)
        BY <3>1
      <3>2. CASE i \notin 1..(n - 1)
        <4>1. i - n \in Spoken(t) /\ s[i] = t[i - n]
          BY <1>7, <3>2
        <4>2. s[i] \in Said(t)
          BY <4>1 DEF Said
        <4>3. QED
          BY <1>3, <4>2
      <3>3. QED
        BY <3>1, <3>2
    <2>2. QED
      BY <2>1 DEF Said
  <1>9. \E v \in Occurrences(s) : leaves_claim_standing(s, v)
    <2>1. PICK v \in Occurrences(t) : OwnClaim(t, v)
      OBVIOUS
    <2>2. leaves_claim_standing(s, v + n)
      BY <1>2, <2>1, ShiftedStands
    <2>3. QED
      BY <1>2, <2>2
  <1>10. \/ Said(s) \cap Completion # {}
         \/ \E v \in Occurrences(s) : Claim(s, v)
    <2>1. ASSUME NEW w \in Said(t), w \in Completion
          PROVE  Said(s) \cap Completion # {}
      <3>1. PICK i \in Spoken(t) : w = t[i]
        BY DEF Said
      <3>2. i \in 1..Len(t) /\ t[i] \notin Marks
        BY <1>1 DEF Spoken
      <3>3. i + n \in 1..Len(s) /\ s[i + n] = t[i]
        BY <1>1, <3>2 DEF Behind
      <3>4. i + n \in Spoken(s)
        BY <1>1, <3>2, <3>3 DEF Spoken
      <3>5. w \in Said(s)
        BY <3>1, <3>3, <3>4 DEF Said
      <3>6. QED
        BY <2>1, <3>5
    <2>2. ASSUME NEW v \in Occurrences(t),
                 FirstPerson(t, v) \/ Passive(t, v) \/ Elliptical(t, v)
          PROVE  Claim(s, v + n)
      <3>1. v \in 1..Len(t) /\ 2 \in Nat /\ 3 \in Nat
        BY <1>2
      <3>2. CASE FirstPerson(t, v)
        BY <3>1, <3>2, ShiftedLeads DEF FirstPerson, Claim
      <3>3. CASE Passive(t, v)
        BY <3>1, <3>3, ShiftedLeads DEF Passive, Claim
      <3>4. CASE Elliptical(t, v)
        BY <3>1, <3>4, ShiftedElliptical DEF Claim
      <3>5. QED
        BY <2>2, <3>2, <3>3, <3>4
    <2>3. CASE Said(t) \cap Completion # {}
      BY <2>1, <2>3
    <2>4. CASE \E v \in Occurrences(t) :
                 FirstPerson(t, v) \/ Passive(t, v) \/ Elliptical(t, v)
      BY <1>2, <2>2, <2>4
    <2>5. QED
      BY <2>3, <2>4
  <1>11. QED
    BY <1>4, <1>5, <1>6, <1>8, <1>9, <1>10, ClaimsAre

\* A fragment that opens a question, tells of another time or breaks off takes
\* back whatever claim stands behind it.
LEMMA TakenBack ==
  ASSUME NEW s, NEW t, NEW n, Behind(s, t, n),
         \A j \in 1..(n - 1) : s[j] \notin Verbs,
         \/ s[1] \in Openers
         \/ \E j \in 1..(n - 1) : s[j] \in Distancing
         \/ ~Harmless(s, n)
  PROVE  ~claims_completed_mutation(s)
  <1>1. /\ n \in Nat /\ 1 < n /\ Len(t) \in Nat /\ Len(s) = n + Len(t)
        /\ s \in Seq(Word) /\ DOMAIN s = 1..Len(s)
    BY DEF Behind
  <1>2. CASE s[1] \in Openers
    <2>1. 1 \in 1..(n - 1) /\ 1 \in DOMAIN s
      BY <1>1
    <2>2. 1 \in Spoken(s) /\ Spoken(s) \in SUBSET Nat
      BY <1>1, <2>1 DEF Spoken, Behind
    <2>3. \A x \in Spoken(s) : 1 <= x
      BY <1>1 DEF Spoken
    <2>4. Min(Spoken(s)) = 1
      BY <2>2, <2>3, MinUnique
    <2>5. QED
      BY <1>2, <2>4, ClaimsAre
  <1>3. ASSUME NEW j \in 1..(n - 1), s[j] \in Distancing
        PROVE  ~claims_completed_mutation(s)
    <2>1. j \in Spoken(s)
      BY <1>1 DEF Spoken, Behind
    <2>2. s[j] \in Said(s)
      BY <2>1 DEF Said
    <2>3. QED
      BY <1>3, <2>2, ClaimsAre
  <1>4. ASSUME s[n - 1] \in Dangling,
               NEW i \in 1..(n - 1), s[i] \in Negators \cup Prospective
        PROVE  ~claims_completed_mutation(s)
    <2>1. ASSUME NEW v \in Occurrences(s) PROVE ~leaves_claim_standing(s, v)
      <3>1. v \in 1..Len(s) /\ s[v] \in Verbs
        BY <1>1 DEF Occurrences
      <3>2. v # n
        BY <3>1, BlockersSpoken DEF Behind
      <3>3. n < v
        BY <1>1, <3>1, <3>2
      <3> DEFINE k == n - 1
                 m == Len(s)
      <3>4. /\ m \in Nat /\ Len(s) = m /\ k \in 1..m /\ n \in 1..m /\ n = k + 1
            /\ s[k] \in Dangling /\ s[n] \in Breaks /\ i \in 1..k /\ v \in 1..m
        BY <1>1, <1>4, <3>1 DEF Behind
      <3>5. \A j \in i..k : s[j] \notin Breaks
        <4>1. \A j \in i..k : j \in 1..(n - 1)
          BY <1>1
        <4>2. QED
          BY <4>1, BlockersSpoken DEF Behind
      <3> HIDE DEF k, m
      <3>6. QED
        BY <1>1, <1>4, <3>3, <3>4, <3>5, StillBlocks
    <2>2. QED
      BY <2>1, ClaimsAre
  <1>5. QED
    BY <1>2, <1>3, <1>4 DEF Harmless

\* A draft that is a fragment and a claim.
LEMMA FragmentIs ==
  ASSUME Inputs, NEW n \in DOMAIN draft, FragmentThenClaim(n),
         NEW t, t = SubSeq(draft, n + 1, Len(draft)),
         NEW f, f = SubSeq(draft, 1, n - 1)
  PROVE  /\ Behind(draft, t, n)
         /\ \A j \in 1..(n - 1) : draft[j] \notin Verbs
         /\ DOMAIN f = 1..(n - 1) /\ Len(f) = n - 1
         /\ \A j \in 1..(n - 1) : f[j] = draft[j]
         /\ ClaimsForItself(t)
  <1>1. /\ draft \in Seq(Word) /\ Len(draft) \in Nat /\ n \in 1..Len(draft)
        /\ DOMAIN draft = 1..Len(draft)
    BY DEF Inputs
  <1>2. /\ n > 1 /\ draft[n] \in Breaks /\ ClaimsForItself(t)
        /\ \A i \in 1..(n - 1) : draft[i] \notin Marks \cup Verbs
    BY DEF FragmentThenClaim
  <1>3. /\ t \in Seq(Word) /\ Len(t) = Len(draft) - n
        /\ \A i \in 1..Len(t) : t[i] = draft[i + n]
    BY <1>1
  <1>4. /\ Len(f) = n - 1 /\ DOMAIN f = 1..(n - 1)
        /\ \A j \in 1..(n - 1) : f[j] = draft[j]
    BY <1>1, <1>2
  <1>5. Behind(draft, t, n)
    <2>1. Len(t) \in Nat /\ Len(draft) = n + Len(t) /\ n \in Nat /\ 1 < n
      BY <1>1, <1>2, <1>3
    <2>2. QED
      BY <1>1, <1>2, <1>3, <2>1 DEF Behind
  <1>6. QED
    BY <1>2, <1>4, <1>5

\* A verbless fragment before a break takes back the claim behind it, when that
\* claims for itself, exactly if it opens a question, tells of another time, or
\* breaks off on a word that cannot close a clause after a negator or modal: in
\* a draft of any length.
THEOREM FragmentsHide == Spec => []FragmentHidesExactly
  <1>1. ASSUME Inputs PROVE FragmentHidesExactly
    <2> SUFFICES ASSUME NEW n \in DOMAIN draft, FragmentThenClaim(n)
                 PROVE  claims_completed_mutation(draft)
                          <=> ~TakesBack(SubSeq(draft, 1, n - 1))
      BY DEF FragmentHidesExactly
    <2> DEFINE t == SubSeq(draft, n + 1, Len(draft))
               f == SubSeq(draft, 1, n - 1)
    <2>1. t = SubSeq(draft, n + 1, Len(draft)) /\ f = SubSeq(draft, 1, n - 1)
      OBVIOUS
    <2> HIDE DEF t, f
    <2>2. /\ Behind(draft, t, n)
          /\ \A j \in 1..(n - 1) : draft[j] \notin Verbs
          /\ DOMAIN f = 1..(n - 1) /\ Len(f) = n - 1
          /\ \A j \in 1..(n - 1) : f[j] = draft[j]
          /\ ClaimsForItself(t)
      BY <1>1, <2>1, FragmentIs
    <2>3. n \in Nat /\ 1 < n
      BY <2>2 DEF Behind
    <2>4. TakesBack(f) <=> \/ draft[1] \in Openers
                           \/ \E j \in 1..(n - 1) : draft[j] \in Distancing
                           \/ ~Harmless(draft, n)
      <3>1. f[1] = draft[1] /\ f[Len(f)] = draft[n - 1]
        <4>1. 1 \in 1..(n - 1) /\ n - 1 \in 1..(n - 1)
          BY <2>3
        <4>2. QED
          BY <2>2, <4>1
      <3>2. QED
        BY <2>2, <3>1 DEF TakesBack, Harmless
    <2>5. /\ claims_completed_mutation(t)
          /\ \E v \in Occurrences(t) : OwnClaim(t, v)
          /\ \/ Said(t) \cap Completion # {}
             \/ \E v \in Occurrences(t) :
                  FirstPerson(t, v) \/ Passive(t, v) \/ Elliptical(t, v)
      BY <2>2, Zenon DEF ClaimsForItself, Said
    <2>6. 0 < Len(t)
      <3>1. Occurrences(t) # {} /\ Len(t) \in Nat /\ DOMAIN t = 1..Len(t)
        BY <2>2, <2>5, ClaimsAre DEF Behind
      <3>2. QED
        BY <3>1 DEF Occurrences
    <2>7. CASE TakesBack(f)
      <3>1. ~claims_completed_mutation(draft)
        BY <2>2, <2>4, <2>7, TakenBack
      <3>2. QED
        BY <2>1, <2>7, <3>1
    <2>8. CASE ~TakesBack(f)
      <3>1. /\ draft[1] \notin Openers /\ Harmless(draft, n)
            /\ \A j \in 1..(n - 1) : draft[j] \notin Distancing
        BY <2>4, <2>8
      <3>2. claims_completed_mutation(draft)
        BY <2>2, <2>5, <2>6, <3>1, ShiftedClaim
      <3>3. QED
        BY <2>1, <2>8, <3>2
    <2>9. QED
      BY <2>7, <2>8
  <1>2. QED
    BY <1>1, InputsAlways, PTL
=============================================================================

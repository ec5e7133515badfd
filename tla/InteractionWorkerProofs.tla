---------------------- MODULE InteractionWorkerProofs ----------------------
(***************************************************************************)
(* The safety properties of InteractionWorker for every set of callers and *)
(* every size of the queue, and that it is the SerialService.              *)
(***************************************************************************)
EXTENDS InteractionWorker, WellFoundedInduction, TLAPS

-----------------------------------------------------------------------------
(* The queue.                                                              *)

Item == Task \cup {Sentinel}

\* What a put leaves in the queue.
LEMMA PutItem ==
  ASSUME NEW q \in Seq(Item), NEW item \in Item
  PROVE  LET r == Append(q, item)
         IN  /\ r \in Seq(Item)
             /\ Len(r) = Len(q) + 1
             /\ r[Len(q) + 1] = item
             /\ \A i \in 1..Len(q) : r[i] = q[i]
  OBVIOUS

\* What a get takes out of the queue, and what it leaves.
LEMMA GetItem ==
  ASSUME NEW q \in Seq(Item), q # <<>>
  PROVE  LET r == Tail(q)
         IN  /\ r \in Seq(Item)
             /\ Len(q) \in Nat \ {0}
             /\ Len(r) = Len(q) - 1
             /\ Head(q) = q[1] /\ q[1] \in Item
             /\ \A i \in 1..Len(r) : r[i] = q[i + 1]
  OBVIOUS

-----------------------------------------------------------------------------
(* Types.                                                                  *)

\* Every action keeps the types.
LEMMA TypeStep == ASSUME TypeOK, [Next]_vars PROVE TypeOK'
  <1> USE WorkerConstantsOK DEF TypeOK, Settled
  <1>1. CASE Start
    BY <1>1 DEF Start
  <1>2. ASSUME NEW t \in Task, SubmitCheck(t) PROVE TypeOK'
    BY <1>2 DEF SubmitCheck
  <1>3. ASSUME NEW t \in Task, SubmitPut(t) PROVE TypeOK'
    <2>1. CASE Len(queue) < MaxSize
      <3>1. queue \in Seq(Item) /\ t \in Item
        BY DEF Item
      <3>2. /\ queue' = Append(queue, t)
            /\ call' = [call EXCEPT ![t] = "accepted"]
            /\ future' = [future EXCEPT ![t] = "pending"]
            /\ call[t] = "checked"
            /\ UNCHANGED <<accepting, started, thread, work, stop>>
        BY <1>3, <2>1 DEF SubmitPut
      <3>3. /\ queue' \in Seq(Item)
            /\ Len(queue') = Len(queue) + 1
            /\ queue'[Len(queue) + 1] = t
            /\ \A i \in 1..Len(queue) : queue'[i] = queue[i]
        BY <3>1, <3>2, PutItem
      <3>4. QED
        BY <2>1, <3>1, <3>2, <3>3 DEF Item
    <2>2. CASE ~(Len(queue) < MaxSize)
      BY <1>3, <2>2 DEF SubmitPut
    <2>3. QED
      BY <2>1, <2>2
  <1>4. ASSUME NEW t \in Task, Cancel(t) PROVE TypeOK'
    BY <1>4 DEF Cancel
  <1>5. ASSUME NEW p \in Stopper, StopCall(p) \/ StopJoin(p) PROVE TypeOK'
    BY <1>5 DEF StopCall, StopJoin
  <1>6. ASSUME NEW p \in Stopper, StopPut(p) PROVE TypeOK'
    BY <1>6, PutItem DEF StopPut, Item
  <1>7. CASE Get
    BY <1>7, GetItem DEF Get, Take, Item
  <1>8. CASE Claim
    BY <1>8 DEF Claim
  <1>9. CASE Finish
    BY <1>9 DEF Finish, Settle
  <1>10. CASE UNCHANGED vars
    BY <1>10 DEF vars
  <1>11. QED
    BY <1>1, <1>2, <1>3, <1>4, <1>5, <1>6, <1>7, <1>8, <1>9, <1>10
    DEF Next, Thread

\* The queue never holds more than maxsize items, and its items are
\* interactions and sentinels.
THEOREM TypeCorrect == Spec => []TypeOK
  <1>1. Init => TypeOK
    <2> SUFFICES ASSUME Init PROVE TypeOK
      OBVIOUS
    <2>1. queue \in Seq(Item) /\ Len(queue) = 0
      BY DEF Init
    <2>2. Len(queue) <= MaxSize
      BY <2>1, WorkerConstantsOK
    <2>3. QED
      BY <2>1, <2>2 DEF Init, TypeOK, Settled, Item
  <1>2. QED
    BY <1>1, TypeStep, PTL DEF Spec

-----------------------------------------------------------------------------
(* The thread.                                                             *)

\* The item the thread holds, and how far it is with it.
HeldInv ==
  /\ thread = "none" <=> ~started
  /\ thread \in {"got", "run"} => work \in Task
  /\ thread \notin {"got", "run"} => work = NoTask
  /\ thread = "got" => future[work] \in {"pending", "cancelled"}
  /\ thread = "run" => future[work] = "running"
  /\ \A t \in Task : future[t] = "running" => thread = "run" /\ work = t
  /\ thread # "crashed"

\* An item in the queue was not begun, is not the one the thread holds and is
\* not in the queue twice.
QueueInv ==
  /\ \A t \in Task : call[t] = "accepted" <=> future[t] # "none"
  /\ \A i \in 1..Len(queue) : queue[i] \in Task =>
       /\ future[queue[i]] \in {"pending", "cancelled"}
       /\ queue[i] # work
       /\ \A j \in 1..Len(queue) : queue[j] = queue[i] => j = i

\* No sentinel is on its way unless submissions are turned away.
SentinelInv ==
  /\ \A p \in Stopper : stop[p] \in {"putting", "joining"} => ~accepting
  /\ \A i \in 1..Len(queue) : queue[i] = Sentinel => ~accepting
  /\ thread = "exited" => ~accepting

ThreadInv == HeldInv /\ QueueInv /\ SentinelInv

\* Every action keeps ThreadInv.
LEMMA ThreadStep == ASSUME TypeOK, ThreadInv, [Next]_vars PROVE ThreadInv'
  <1> USE WorkerConstantsOK
      DEF TypeOK, ThreadInv, HeldInv, QueueInv, SentinelInv, Settled
  <1>1. CASE Start
    BY <1>1 DEF Start
  <1>2. ASSUME NEW t \in Task, SubmitCheck(t) PROVE ThreadInv'
    BY <1>2 DEF SubmitCheck
  <1>3. ASSUME NEW t \in Task, SubmitPut(t) PROVE ThreadInv'
    <2>1. CASE Len(queue) < MaxSize
      <3>1. queue \in Seq(Item) /\ t \in Item
        BY DEF Item
      <3>2. /\ queue' = Append(queue, t)
            /\ call' = [call EXCEPT ![t] = "accepted"]
            /\ future' = [future EXCEPT ![t] = "pending"]
            /\ call[t] = "checked"
            /\ UNCHANGED <<accepting, started, thread, work, stop>>
        BY <1>3, <2>1 DEF SubmitPut
      <3>3. /\ queue' \in Seq(Item)
            /\ Len(queue') = Len(queue) + 1
            /\ queue'[Len(queue) + 1] = t
            /\ \A i \in 1..Len(queue) : queue'[i] = queue[i]
        BY <3>1, <3>2, PutItem
      <3>4. QED
        BY <2>1, <3>1, <3>2, <3>3 DEF Item
    <2>2. CASE ~(Len(queue) < MaxSize)
      BY <1>3, <2>2 DEF SubmitPut
    <2>3. QED
      BY <2>1, <2>2
  <1>4. ASSUME NEW t \in Task, Cancel(t) PROVE ThreadInv'
    BY <1>4 DEF Cancel
  <1>5. ASSUME NEW p \in Stopper, StopCall(p) \/ StopJoin(p) PROVE ThreadInv'
    BY <1>5 DEF StopCall, StopJoin
  <1>6. ASSUME NEW p \in Stopper, StopPut(p) PROVE ThreadInv'
    BY <1>6, PutItem DEF StopPut, Item
  <1>7. CASE Get
    BY <1>7, GetItem DEF Get, Take, Item
  <1>8. CASE Claim
    BY <1>8 DEF Claim
  <1>9. CASE Finish
    BY <1>9 DEF Finish, Settle
  <1>10. CASE UNCHANGED vars
    BY <1>10 DEF vars
  <1>11. QED
    BY <1>1, <1>2, <1>3, <1>4, <1>5, <1>6, <1>7, <1>8, <1>9, <1>10
    DEF Next, Thread

\* What the thread holds, and the queue, at every step.
LEMMA ThreadAlways == Spec => []ThreadInv
  <1>1. Init => ThreadInv
    BY WorkerConstantsOK
    DEF Init, ThreadInv, HeldInv, QueueInv, SentinelInv
  <1>2. QED
    BY <1>1, ThreadStep, TypeCorrect, PTL DEF Spec

\* Nothing an interaction does, and no moment at which its caller gives up,
\* ends the thread: only a stop() does.
THEOREM ThreadLives == Spec => []ThreadSurvives
  <1>1. ThreadInv => ThreadSurvives
    BY DEF ThreadInv, HeldInv, SentinelInv, ThreadSurvives
  <1>2. QED
    BY <1>1, ThreadAlways, PTL

-----------------------------------------------------------------------------
(* The order of the queue, when submit() and stop() share a thread.        *)

\* What the other invariants lack for NobodyStranded: a submission that passed
\* the test will not find a sentinel in the queue, so sentinels are last in
\* it, and what was not begun is still ahead of them.
OrderInv ==
  /\ \A t \in Task : call[t] = "checked" => accepting
  /\ \A i, j \in 1..Len(queue) :
       i < j /\ queue[i] = Sentinel => queue[j] = Sentinel
  /\ thread = "exited" => \A i \in 1..Len(queue) : queue[i] = Sentinel
  /\ \A t \in Task : future[t] = "pending" =>
       \/ thread = "got" /\ work = t
       \/ \E i \in 1..Len(queue) : queue[i] = t

\* Every action keeps OrderInv.
LEMMA OrderStep ==
  ASSUME OneThread, TypeOK, ThreadInv, OrderInv, [Next]_vars PROVE OrderInv'
  <1> USE WorkerConstantsOK DEF TypeOK, OrderInv, Settled
  <1>1. CASE Start
    BY <1>1 DEF Start, ThreadInv, HeldInv
  <1>2. ASSUME NEW t \in Task, SubmitCheck(t) PROVE OrderInv'
    BY <1>2 DEF SubmitCheck
  <1>3. ASSUME NEW t \in Task, SubmitPut(t) PROVE OrderInv'
    <2>1. CASE Len(queue) < MaxSize
      <3>1. queue \in Seq(Item) /\ t \in Item
        BY DEF Item
      <3>2. /\ queue' = Append(queue, t)
            /\ call' = [call EXCEPT ![t] = "accepted"]
            /\ future' = [future EXCEPT ![t] = "pending"]
            /\ call[t] = "checked"
            /\ UNCHANGED <<accepting, started, thread, work, stop>>
        BY <1>3, <2>1 DEF SubmitPut
      <3>3. /\ queue' \in Seq(Item)
            /\ Len(queue') = Len(queue) + 1
            /\ queue'[Len(queue) + 1] = t
            /\ \A i \in 1..Len(queue) : queue'[i] = queue[i]
        BY <3>1, <3>2, PutItem
      <3>4. /\ accepting /\ thread # "exited"
            /\ \A i \in 1..Len(queue) : queue[i] # Sentinel
        BY <3>2 DEF ThreadInv, SentinelInv
      <3>5. QED
        BY <2>1, <3>1, <3>2, <3>3, <3>4 DEF Item
    <2>2. CASE ~(Len(queue) < MaxSize)
      BY <1>3, <2>2 DEF SubmitPut
    <2>3. QED
      BY <2>1, <2>2
  <1>4. ASSUME NEW t \in Task, Cancel(t) PROVE OrderInv'
    BY <1>4 DEF Cancel
  <1>5. ASSUME NEW p \in Stopper, StopCall(p) \/ StopJoin(p) PROVE OrderInv'
    BY <1>5 DEF StopCall, StopJoin, Submitting
  <1>6. ASSUME NEW p \in Stopper, StopPut(p) PROVE OrderInv'
    <2>1. queue \in Seq(Item) /\ Sentinel \in Item
      BY DEF Item
    <2>2. /\ queue' \in Seq(Item)
          /\ Len(queue') = Len(queue) + 1
          /\ queue'[Len(queue) + 1] = Sentinel
          /\ \A i \in 1..Len(queue) : queue'[i] = queue[i]
      BY <1>6, <2>1, PutItem DEF StopPut
    <2>3. QED
      BY <1>6, <2>1, <2>2 DEF StopPut
  <1>7. CASE Get
    <2>1. queue \in Seq(Item) /\ queue # <<>> /\ queue' = Tail(queue)
      BY <1>7 DEF Get, Item
    <2>2. /\ queue' \in Seq(Item)
          /\ Len(queue) \in Nat \ {0}
          /\ Len(queue') = Len(queue) - 1
          /\ Head(queue) = queue[1] /\ queue[1] \in Item
          /\ \A i \in 1..Len(queue') : queue'[i] = queue[i + 1]
      BY <2>1, GetItem
    <2>3. ASSUME NEW i \in 1..Len(queue), i # 1
          PROVE  i - 1 \in 1..Len(queue') /\ queue'[i - 1] = queue[i]
      <3>1. i - 1 \in 1..Len(queue') /\ (i - 1) + 1 = i
        BY <2>2, <2>3
      <3>2. QED
        BY <2>2, <3>1
    <2>4. \A t \in Task, i \in 1..Len(queue) :
            queue[i] = t => queue[1] = t \/ \E j \in 1..Len(queue') : queue'[j] = t
      BY <2>3
    <2>5. /\ thread = "get"
          /\ queue[1] = Sentinel => thread' = "exited"
          /\ queue[1] # Sentinel => thread' = "got" /\ work' = queue[1]
          /\ UNCHANGED <<accepting, started, call, future, stop>>
      <3>1. Head(queue) = queue[1]
        BY <2>2
      <3>2. QED
        BY <1>7, <3>1 DEF Get, Take
    <2>6. \A i, j \in 1..Len(queue') :
            i < j /\ queue'[i] = Sentinel => queue'[j] = Sentinel
      <3> SUFFICES ASSUME NEW i \in 1..Len(queue'), NEW j \in 1..Len(queue'),
                          i < j, queue'[i] = Sentinel
                   PROVE  queue'[j] = Sentinel
        OBVIOUS
      <3>1. i + 1 \in 1..Len(queue) /\ j + 1 \in 1..Len(queue) /\ i + 1 < j + 1
        BY <2>2
      <3>2. QED
        BY <2>2, <3>1
    <2>7. thread' = "exited" => \A i \in 1..Len(queue') : queue'[i] = Sentinel
      BY <2>2, <2>5
    <2>8. ASSUME NEW t \in Task, future'[t] = "pending"
          PROVE  \/ thread' = "got" /\ work' = t
                 \/ \E i \in 1..Len(queue') : queue'[i] = t
      <3>1. PICK i \in 1..Len(queue) : queue[i] = t
        BY <2>5, <2>8
      <3>2. t # Sentinel
        OBVIOUS
      <3>3. QED
        BY <2>4, <2>5, <3>1, <3>2
    <2>9. QED
      BY <2>5, <2>6, <2>7, <2>8
  <1>8. CASE Claim
    BY <1>8 DEF Claim, ThreadInv, HeldInv
  <1>9. CASE Finish
    BY <1>9 DEF Finish, Settle, ThreadInv, HeldInv
  <1>10. CASE UNCHANGED vars
    BY <1>10 DEF vars
  <1>11. QED
    BY <1>1, <1>2, <1>3, <1>4, <1>5, <1>6, <1>7, <1>8, <1>9, <1>10
    DEF Next, Thread

\* With one thread, the line is served in the order it formed.
LEMMA OrderAlways == OneThread /\ Spec => []OrderInv
  <1> SUFFICES ASSUME OneThread PROVE Spec => []OrderInv
    OBVIOUS
  <1>1. Init => OrderInv
    BY WorkerConstantsOK DEF Init, OrderInv
  <1>2. QED
    BY <1>1, OrderStep, TypeCorrect, ThreadAlways, PTL DEF Spec

\* Once the thread has ended, nobody waits for an interaction left in the
\* queue, because submit() and stop() run on the event loop alone.
THEOREM NobodyLeftBehind == OneThread /\ Spec => []NobodyStranded
  <1>1. ASSUME TypeOK, ThreadInv, OrderInv PROVE NobodyStranded
    BY <1>1, WorkerConstantsOK
    DEF TypeOK, ThreadInv, HeldInv, QueueInv, OrderInv, NobodyStranded, Settled
  <1>2. QED
    BY <1>1, TypeCorrect, ThreadAlways, OrderAlways, PTL

-----------------------------------------------------------------------------
(* The service.                                                            *)

\* The thread comes to some number of items before it comes to a sentinel.
LEMMA AheadIs ==
  ASSUME NEW q \in Seq(Item)
  PROVE  /\ Ahead(q) \in 0..Len(q)
         /\ \A i \in 1..Ahead(q) : q[i] # Sentinel
         /\ Ahead(q) = Len(q) \/ q[Ahead(q) + 1] = Sentinel
  <1> DEFINE S == {i \in 1..Len(q) : q[i] = Sentinel} \cup {Len(q) + 1}
             Less == OpToRel(<, Nat)
  <1>1. S \subseteq Nat /\ S # {}
    OBVIOUS
  <1>2. PICK n \in S : \A m \in S : ~(<<m, n>> \in Less)
    <2>1. IsWellFoundedOn(Less, Nat)
      BY NatLessThanWellFounded
    <2> HIDE DEF S, Less
    <2>2. QED
      BY <1>1, <2>1, WFMin
  <1>3. \A m \in S : ~(m < n)
    BY <1>1, <1>2 DEF OpToRel
  <1>4. n - 1 \in 0..Len(q) /\ (n - 1) + 1 = n
    OBVIOUS
  <1>5. /\ \A i \in 1..(n - 1) : q[i] # Sentinel
        /\ n - 1 = Len(q) \/ q[(n - 1) + 1] = Sentinel
    BY <1>3
  <1>6. QED
    BY <1>4, <1>5 DEF Ahead

\* There is only one such number.
LEMMA AheadUnique ==
  ASSUME NEW q \in Seq(Item), NEW n \in 0..Len(q),
         \A i \in 1..n : q[i] # Sentinel,
         n = Len(q) \/ q[n + 1] = Sentinel
  PROVE  Ahead(q) = n
  <1> DEFINE a == Ahead(q)
  <1>1. /\ a \in 0..Len(q)
        /\ \A i \in 1..a : q[i] # Sentinel
        /\ a = Len(q) \/ q[a + 1] = Sentinel
    BY AheadIs
  <1>2. ~(a < n)
    <2>1. ASSUME a < n PROVE a + 1 \in 1..n /\ a # Len(q)
      BY <1>1, <2>1
    <2>2. QED
      BY <1>1, <2>1
  <1>3. ~(n < a)
    <2>1. ASSUME n < a PROVE n + 1 \in 1..a /\ n # Len(q)
      BY <1>1, <2>1
    <2>2. QED
      BY <1>1, <2>1
  <1>4. QED
    BY <1>1, <1>2, <1>3

\* What is first in line stays first when something is put behind it.
LEMMA PutBehind ==
  ASSUME NEW q \in Seq(Item), NEW item \in Item, NEW n \in 0..Len(q)
  PROVE  SubSeq(Append(q, item), 1, n) = SubSeq(q, 1, n)
  OBVIOUS

\* A put at the end of the line.
LEMMA JoinLine ==
  ASSUME NEW p \in Seq(Item), NEW q \in Seq(Item), NEW item \in Item
  PROVE  p \o SubSeq(Append(q, item), 1, Len(q) + 1)
           = Append(p \o SubSeq(q, 1, Len(q)), item)
  OBVIOUS

\* What the thread takes is still first in line.
LEMMA TakeFirst ==
  ASSUME NEW q \in Seq(Item), NEW n \in 1..Len(q)
  PROVE  <<>> \o SubSeq(q, 1, n) = <<q[1]>> \o SubSeq(Tail(q), 1, n - 1)
  OBVIOUS

\* The first in line, and the rest.
LEMMA FirstOfLine ==
  ASSUME NEW q \in Seq(Item), NEW item \in Item, NEW n \in 0..Len(q)
  PROVE  LET line == <<item>> \o SubSeq(q, 1, n)
         IN  /\ line # <<>>
             /\ Head(line) = item
             /\ Tail(line) = <<>> \o SubSeq(q, 1, n)
  OBVIOUS

\* Every step of the worker is a step of the service, or none.
LEMMA ServiceStep ==
  ASSUME OneThread, TypeOK, ThreadInv, OrderInv, [Next]_vars
  PROVE  [Service!Next]_(Service!vars)
  <1> DEFINE Held == IF thread = "got" THEN <<work>> ELSE <<>>
  <1>1. queue \in Seq(Item) /\ Held \in Seq(Item)
    <2>1. queue \in Seq(Item)
      BY DEF TypeOK, Item
    <2>2. thread = "got" => work \in Item
      BY DEF ThreadInv, HeldInv, Item
    <2>3. \A item \in Item : <<item>> \in Seq(Item)
      OBVIOUS
    <2>4. <<>> \in Seq(Item)
      OBVIOUS
    <2>5. QED
      BY <2>1, <2>2, <2>3, <2>4
  <1>2. ASSUME UNCHANGED <<queue, future, work, thread>>
        PROVE  UNCHANGED Service!vars
    BY <1>2 DEF Service!vars, Line
  <1>3. CASE Start
    <2>1. thread = "none" /\ thread' = "get"
      BY <1>3 DEF Start, ThreadInv, HeldInv
    <2>2. QED
      BY <1>3, <2>1 DEF Start, Service!vars, Line
  <1>4. ASSUME NEW t \in Task, SubmitPut(t) PROVE [Service!Next]_(Service!vars)
    <2>1. CASE ~(Len(queue) < MaxSize)
      BY <1>2, <1>4, <2>1 DEF SubmitPut
    <2>2. CASE Len(queue) < MaxSize
      <3>1. /\ queue' = Append(queue, t) /\ call[t] = "checked"
            /\ future' = [future EXCEPT ![t] = "pending"]
            /\ UNCHANGED <<thread, work>>
        BY <1>4, <2>2 DEF SubmitPut
      <3>2. t \in Item
        BY DEF Item
      <3>3. /\ queue' \in Seq(Item)
            /\ Len(queue') = Len(queue) + 1
            /\ queue'[Len(queue) + 1] = t
            /\ \A i \in 1..Len(queue) : queue'[i] = queue[i]
        BY <1>1, <3>1, <3>2, PutItem
      <3>4. \A i \in 1..Len(queue) : queue[i] # Sentinel
        BY <3>1 DEF OrderInv, ThreadInv, SentinelInv
      <3>5. Ahead(queue) = Len(queue)
        BY <1>1, <3>4, AheadUnique
      <3>6. Ahead(queue') = Len(queue')
        <4>1. \A i \in 1..Len(queue') : queue'[i] # Sentinel
          BY <1>1, <3>3, <3>4, WorkerConstantsOK
        <4>2. QED
          BY <3>3, <4>1, AheadUnique
      <3>7. Line' = Append(Line, t)
        <4>1. Line = Held \o SubSeq(queue, 1, Len(queue))
          BY <3>5 DEF Line
        <4>2. Line' = Held \o SubSeq(Append(queue, t), 1, Len(queue) + 1)
          BY <3>1, <3>3, <3>6 DEF Line
        <4> HIDE DEF Held
        <4>3. QED
          BY <1>1, <3>2, <4>1, <4>2, JoinLine
      <3>8. future[t] = "none"
        BY <3>1 DEF ThreadInv, QueueInv, TypeOK, Settled
      <3>9. Service!Join(t)
        BY <3>1, <3>7, <3>8 DEF Service!Join
      <3>10. QED
        BY <3>9 DEF Service!Next
    <2>3. QED
      BY <2>1, <2>2
  <1>5. ASSUME NEW t \in Task, Cancel(t) PROVE [Service!Next]_(Service!vars)
    BY <1>5 DEF Cancel, Line, Service!Withdraw, Service!Next
  <1>6. ASSUME NEW p \in Stopper, StopPut(p) PROVE UNCHANGED Service!vars
    <2>1. /\ queue' = Append(queue, Sentinel)
          /\ UNCHANGED <<future, thread, work>>
      BY <1>6 DEF StopPut
    <2>2. Sentinel \in Item
      BY DEF Item
    <2>3. /\ queue' \in Seq(Item)
          /\ Len(queue') = Len(queue) + 1
          /\ queue'[Len(queue) + 1] = Sentinel
          /\ \A i \in 1..Len(queue) : queue'[i] = queue[i]
      BY <1>1, <2>1, <2>2, PutItem
    <2>4. /\ Ahead(queue) \in 0..Len(queue)
          /\ \A i \in 1..Ahead(queue) : queue[i] # Sentinel
          /\ Ahead(queue) = Len(queue) \/ queue[Ahead(queue) + 1] = Sentinel
      BY <1>1, AheadIs
    <2>5. Ahead(queue') = Ahead(queue)
      <3> DEFINE n == Ahead(queue)
      <3>1. n \in 0..Len(queue') /\ \A i \in 1..n : queue'[i] # Sentinel
        BY <1>1, <2>3, <2>4
      <3>2. n = Len(queue') \/ queue'[n + 1] = Sentinel
        BY <1>1, <2>3, <2>4
      <3> HIDE DEF n
      <3>3. Ahead(queue') = n
        BY <2>3, <3>1, <3>2, AheadUnique
      <3>4. QED
        BY <3>3 DEF n
    <2>6. Line' = Line
      BY <1>1, <2>1, <2>2, <2>4, <2>5, PutBehind DEF Line
    <2>7. QED
      BY <2>1, <2>6 DEF Service!vars
  <1>7. CASE Get
    <2>1. /\ thread = "get" /\ queue # <<>> /\ queue' = Tail(queue)
          /\ future' = future
      BY <1>7 DEF Get
    <2>2. /\ queue' \in Seq(Item)
          /\ Len(queue) \in Nat \ {0}
          /\ Len(queue') = Len(queue) - 1
          /\ Head(queue) = queue[1] /\ queue[1] \in Item
          /\ \A i \in 1..Len(queue') : queue'[i] = queue[i + 1]
      BY <1>1, <2>1, GetItem
    <2>3. /\ Ahead(queue) \in 0..Len(queue)
          /\ \A i \in 1..Ahead(queue) : queue[i] # Sentinel
          /\ Ahead(queue) = Len(queue) \/ queue[Ahead(queue) + 1] = Sentinel
      BY <1>1, AheadIs
    <2>4. CASE queue[1] = Sentinel
      <3>1. thread' = "exited"
        BY <1>7, <2>2, <2>4 DEF Get, Take
      <3>2. Ahead(queue) = 0
        BY <2>2, <2>3, <2>4
      <3>3. Ahead(queue') = 0
        <4>1. \A i \in 1..Len(queue') : queue'[i] = Sentinel
          BY <1>7, <3>1, OrderStep, WorkerConstantsOK DEF OrderInv, Next, Thread
        <4>2. 0 = Len(queue') \/ queue'[0 + 1] = Sentinel
          BY <2>2, <4>1
        <4>3. QED
          BY <2>2, <4>2, AheadUnique
      <3>4. Line = <<>> \o SubSeq(queue, 1, 0)
        BY <2>1, <3>2 DEF Line
      <3>5. Line' = <<>> \o SubSeq(queue', 1, 0)
        BY <3>1, <3>3 DEF Line
      <3>6. Line' = Line
        BY <1>1, <2>2, <3>4, <3>5
      <3>7. QED
        BY <2>1, <3>1, <3>6 DEF Service!vars
    <2>5. CASE queue[1] # Sentinel
      <3>1. thread' = "got" /\ work' = queue[1]
        BY <1>7, <2>2, <2>5 DEF Get, Take
      <3>2. Ahead(queue) \in 1..Len(queue)
        BY <2>2, <2>3, <2>5
      <3>3. Ahead(queue') = Ahead(queue) - 1
        <4> DEFINE n == Ahead(queue) - 1
        <4>1. n \in 0..Len(queue')
          BY <2>2, <3>2
        <4>2. \A i \in 1..n : queue'[i] # Sentinel
          <5>1. \A i \in 1..n : i + 1 \in 1..Ahead(queue) /\ i \in 1..Len(queue')
            BY <2>2, <3>2
          <5>2. QED
            BY <2>2, <2>3, <5>1
        <4>3. n = Len(queue') \/ queue'[n + 1] = Sentinel
          BY <2>2, <2>3, <3>2
        <4> HIDE DEF n
        <4>4. Ahead(queue') = n
          BY <2>2, <4>1, <4>2, <4>3, AheadUnique
        <4>5. QED
          BY <4>4 DEF n
      <3>4. Line' = Line
        BY <1>1, <2>1, <3>1, <3>2, <3>3, TakeFirst DEF Line
      <3>5. QED
        BY <2>1, <3>1, <3>4 DEF Service!vars
    <2>6. QED
      BY <2>4, <2>5
  <1>8. CASE Claim
    <2>1. thread = "got" /\ queue' = queue /\ work \in Task /\ work # NoTask
      BY <1>8, WorkerConstantsOK DEF Claim, ThreadInv, HeldInv
    <2>2. Ahead(queue) \in 0..Len(queue) /\ work \in Item
      BY <1>1, <2>1, AheadIs DEF Item
    <2>3. Line = <<work>> \o SubSeq(queue, 1, Ahead(queue))
      BY <2>1 DEF Line
    <2>4. Line # <<>> /\ Head(Line) = work
          /\ Tail(Line) = <<>> \o SubSeq(queue, 1, Ahead(queue))
      BY <1>1, <2>2, <2>3, FirstOfLine
    <2>5. thread' # "got"
      BY <1>8 DEF Claim
    <2>6. Line' = Tail(Line)
      BY <2>1, <2>4, <2>5 DEF Line
    <2>7. Service!Serve
      BY <1>8, <2>1, <2>4, <2>6 DEF Claim, Service!Serve
    <2>8. QED
      BY <2>7 DEF Service!Next
  <1>9. CASE Finish
    <2>1. /\ thread = "run" /\ thread' = "get" /\ work \in Task
          /\ work # NoTask /\ queue' = queue
          /\ \E answer \in {"result", "error"} :
               future' = [future EXCEPT ![work] = answer]
      BY <1>9, WorkerConstantsOK DEF Finish, Settle, Settled, ThreadInv, HeldInv
    <2>2. Line' = Line
      BY <2>1 DEF Line
    <2>3. Service!Answer
      BY <2>1, <2>2 DEF Service!Answer
    <2>4. QED
      BY <2>3 DEF Service!Next
  <1>10. QED
    BY <1>2, <1>3, <1>4, <1>5, <1>6, <1>7, <1>8, <1>9
    DEF Next, Thread, vars, SubmitCheck, StopCall, StopJoin

\* Interactions are served in the order of their submission, one at a time,
\* and each is answered once or was withdrawn before its turn.
THEOREM ImplementsService == OneThread /\ Spec => ServiceSpec
  <1> SUFFICES ASSUME OneThread PROVE Spec => ServiceSpec
    OBVIOUS
  <1>1. Init => Service!Init
    <2> SUFFICES ASSUME Init PROVE Service!Init
      OBVIOUS
    <2>1. Line = <<>>
      <3>1. <<>> \in Seq(Item) /\ Len(<<>>) = 0
        OBVIOUS
      <3>2. Ahead(<<>>) = 0
        <4>1. Ahead(<<>>) \in 0..Len(<<>>)
          BY <3>1, AheadIs
        <4>2. QED
          BY <3>1, <4>1
      <3>3. QED
        BY <3>2 DEF Init, Line
    <2>2. QED
      BY <2>1 DEF Init, Service!Init
  <1>2. QED
    BY <1>1, ServiceStep, TypeCorrect, ThreadAlways, OrderAlways, PTL
    DEF Spec, ServiceSpec, Service!Spec
=============================================================================

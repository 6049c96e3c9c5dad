-------------------------- MODULE TaskManagerProofs --------------------------
(***************************************************************************)
(* Proofs about TaskManager, for any tasks, futex words, timeouts and      *)
(* bounds.                                                                 *)
(***************************************************************************)
EXTENDS TaskManager, FiniteSetTheorems, NaturalsInduction, WellFoundedInduction, TLAPS

\* The part of TypeOK that FUTEX_QUEUE depends on.
FutexTypes ==
  /\ fqKeys \subseteq Addrs
  /\ waiters \in [Addrs -> Nat]
  /\ chain \in [Addrs -> Seq(Waiter)]
  /\ clearTid \in [Tasks -> Addrs \union {NoAddr}]
  /\ now \in Nat

\* futex_wake and futex_requeue pop as many waiters as the counter says, so the counter
\* and the chain have to be followed together.
IInv == FutexTypes /\ WaitersCounted

-----------------------------------------------------------------------------

\* Popping n waiters leaves the rest of a chain.
LEMMA DropFrontType ==
  ASSUME NEW c \in Seq(Waiter), NEW n \in 0..Len(c)
  PROVE  DropFront(c, n) \in Seq(Waiter) /\ Len(DropFront(c, n)) = Len(c) - n
BY DEF DropFront

\* A piece of a chain.
LEMMA SubSeqType ==
  ASSUME NEW c \in Seq(Waiter), NEW i \in 1..(Len(c) + 1), NEW j \in (i - 1)..Len(c)
  PROVE  SubSeq(c, i, j) \in Seq(Waiter) /\ Len(SubSeq(c, i, j)) = j - i + 1
OBVIOUS

\* Putting two chains together.
LEMMA ConcatType ==
  ASSUME NEW c \in Seq(Waiter), NEW d \in Seq(Waiter)
  PROVE  c \o d \in Seq(Waiter) /\ Len(c \o d) = Len(c) + Len(d)
OBVIOUS

\* Removing one waiter that expired.
LEMMA RemoveAtType ==
  ASSUME NEW c \in Seq(Waiter), NEW i \in 1..Len(c)
  PROVE  RemoveAt(c, i) \in Seq(Waiter) /\ Len(RemoveAt(c, i)) = Len(c) - 1
<1>1. PICK u \in Seq(Waiter) : u = SubSeq(c, 1, i - 1) /\ Len(u) = i - 1
  <2>1. 1 \in 1..(Len(c) + 1) /\ i - 1 \in (1 - 1)..Len(c) /\ (i - 1) - 1 + 1 = i - 1
    OBVIOUS
  <2>. QED
    BY <2>1, SubSeqType
<1>2. PICK v \in Seq(Waiter) : v = SubSeq(c, i + 1, Len(c)) /\ Len(v) = Len(c) - i
  <2>1. /\ i + 1 \in 1..(Len(c) + 1) /\ Len(c) \in ((i + 1) - 1)..Len(c)
        /\ Len(c) - (i + 1) + 1 = Len(c) - i
    OBVIOUS
  <2>. QED
    BY <2>1, SubSeqType
<1>3. RemoveAt(c, i) = u \o v
  BY <1>1, <1>2 DEF RemoveAt
<1>4. u \o v \in Seq(Waiter) /\ Len(u \o v) = Len(u) + Len(v)
  BY ConcatType
<1>5. Len(c) \in Nat /\ (i - 1) + (Len(c) - i) = Len(c) - 1
  OBVIOUS
<1>. QED
  BY <1>1, <1>2, <1>3, <1>4, <1>5

\* futex_wake keeps counter and chain together.
LEMMA FutexWakeKeeps ==
  ASSUME IInv, NEW a \in Addrs, NEW nr \in Nat, FutexWakeEffect(a, nr), UNCHANGED <<clearTid, now>>
  PROVE  IInv'
<1>1. CASE a \notin fqKeys \/ waiters[a] = 0
  BY <1>1 DEF FutexWakeEffect, IInv, FutexTypes, WaitersCounted
<1>2. CASE a \in fqKeys /\ waiters[a] # 0
  <2>1. AtMost(nr, waiters[a]) \in 0..Len(chain[a])
    BY <1>2 DEF IInv, FutexTypes, WaitersCounted, AtMost
  <2>2. PICK n \in 0..Len(chain[a]) : n = AtMost(nr, waiters[a])
    BY <2>1
  <2>3. /\ chain' = [chain EXCEPT ![a] = DropFront(chain[a], n)]
        /\ waiters' = [waiters EXCEPT ![a] = waiters[a] - n]
        /\ fqKeys' \subseteq fqKeys
    BY <1>2, <2>2 DEF FutexWakeEffect
  <2>4. DropFront(chain[a], n) \in Seq(Waiter) /\ Len(DropFront(chain[a], n)) = Len(chain[a]) - n
    BY DropFrontType DEF IInv, FutexTypes
  <2>5. waiters[a] = Len(chain[a]) /\ waiters[a] - n \in Nat
    BY <1>2 DEF IInv, FutexTypes, WaitersCounted
  <2>. QED
    BY <2>3, <2>4, <2>5 DEF IInv, FutexTypes, WaitersCounted
<1>. QED
  BY <1>1, <1>2

\* The clear_child_tid wake-up of a task that exits.
LEMMA ExitKeeps ==
  ASSUME IInv, NEW t \in Tasks, ExitCurrent(t)
  PROVE  IInv'
<1>1. CASE clearTid[t] # NoAddr
  <2>1. clearTid[t] \in Addrs
    BY <1>1 DEF IInv, FutexTypes
  <2>. QED
    BY <1>1, <2>1, FutexWakeKeeps DEF ExitCurrent
<1>2. CASE clearTid[t] = NoAddr
  BY <1>2 DEF ExitCurrent, IInv, FutexTypes, WaitersCounted
<1>. QED
  BY <1>1, <1>2

\* futex_wait that blocks: one more waiter, one more in the counter.
LEMMA FutexWaitKeeps ==
  ASSUME IInv, NEW t \in Tasks, NEW a \in Addrs, NEW timeout \in Timeouts, FutexWait(t, a, timeout)
  PROVE  IInv'
<1>. DEFINE w == [task |-> t, expire_time |-> SaturatingAdd(now, timeout)]
<1>1. timeout \in Nat /\ UsizeMax \in Nat
  BY TimeAssumption
<1>2. w \in Waiter
  BY <1>1 DEF Waiter, SaturatingAdd, IInv, FutexTypes
<1>3. <<w>> \in Seq(Waiter) /\ Len(<<w>>) = 1
  BY <1>2
<1>4. Append(chain[a], w) \in Seq(Waiter) /\ Len(Append(chain[a], w)) = Len(chain[a]) + 1
  BY <1>2 DEF IInv, FutexTypes
<1>5. /\ chain' = [chain EXCEPT ![a] = IF a \notin fqKeys THEN <<w>> ELSE Append(chain[a], w)]
      /\ waiters' = [waiters EXCEPT ![a] = IF a \notin fqKeys THEN 1 ELSE waiters[a] + 1]
      /\ fqKeys' = fqKeys \union {a}
      /\ UNCHANGED <<clearTid, now>>
  BY DEF FutexWait
<1>. HIDE DEF w
<1>. QED
  BY <1>3, <1>4, <1>5 DEF IInv, FutexTypes, WaitersCounted

\* futex_requeue: what leaves one queue and is not woken arrives at the other, also when
\* the two are the same.
LEMMA FutexRequeueKeeps ==
  ASSUME IInv, NEW t \in Tasks, NEW a \in Addrs, NEW b \in Addrs, NEW nr \in Nat,
         NEW limit \in Nat, FutexRequeue(t, a, nr, b, limit)
  PROVE  IInv'
<1>1. CASE a \notin fqKeys \/ waiters[a] = 0
  BY <1>1 DEF FutexRequeue, futexes, IInv, FutexTypes, WaitersCounted
<1>2. CASE a \in fqKeys /\ waiters[a] # 0
  <2>1. PICK len \in Nat : len = waiters[a] /\ len = Len(chain[a]) /\ chain[a] \in Seq(Waiter)
    BY <1>2 DEF IInv, FutexTypes, WaitersCounted
  <2>2. PICK n \in 0..len : n = AtMost(nr, waiters[a])
    BY <2>1 DEF AtMost
  <2>3. PICK m \in 0..(len - n) : m = AtMost(limit, waiters[a] - n)
    BY <2>1, <2>2 DEF AtMost
  <2>4. PICK rest \in Seq(Waiter) : rest = DropFront(chain[a], n + m) /\ Len(rest) = len - (n + m)
    <3>1. n + m \in 0..Len(chain[a])
      BY <2>1
    <3>. QED
      BY <2>1, <3>1, DropFrontType
  <2>5. PICK moved \in Seq(Waiter) : moved = SubSeq(chain[a], n + 1, n + m) /\ Len(moved) = m
    <3>1. /\ n + 1 \in 1..(Len(chain[a]) + 1) /\ n + m \in ((n + 1) - 1)..Len(chain[a])
          /\ (n + m) - (n + 1) + 1 = m
      BY <2>1
    <3>2. /\ SubSeq(chain[a], n + 1, n + m) \in Seq(Waiter)
          /\ Len(SubSeq(chain[a], n + 1, n + m)) = (n + m) - (n + 1) + 1
      BY <2>1, <3>1, SubSeqType
    <3>. QED
      BY <3>1, <3>2
  <2>6. PICK keys1 \in SUBSET fqKeys : keys1 = IF waiters[a] = n + m THEN fqKeys \ {a} ELSE fqKeys
    OBVIOUS
  <2>. DEFINE chain1 == [chain EXCEPT ![a] = rest]
              waiters1 == [waiters EXCEPT ![a] = waiters[a] - (n + m)]
  <2>7. /\ chain1 \in [Addrs -> Seq(Waiter)] /\ waiters1 \in [Addrs -> Nat]
        /\ \A k \in fqKeys : waiters1[k] = Len(chain1[k])
    <3>1. waiters[a] - (n + m) \in Nat /\ waiters[a] - (n + m) = Len(rest)
      BY <2>1, <2>4
    <3>. QED
      BY <2>4, <3>1 DEF IInv, FutexTypes, WaitersCounted
  <2>8. UNCHANGED <<clearTid, now>>
    BY DEF FutexRequeue
  <2>9. CASE m = 0
    <3>1. fqKeys' = keys1 /\ chain' = chain1 /\ waiters' = waiters1
      BY <1>2, <2>2, <2>3, <2>4, <2>6, <2>9 DEF FutexRequeue
    <3>. QED
      BY <2>6, <2>7, <2>8, <3>1 DEF IInv, FutexTypes, WaitersCounted
  <2>10. CASE m # 0
    <3>1. /\ fqKeys' = keys1 \union {b}
          /\ chain' = [chain1 EXCEPT ![b] = IF b \in keys1 THEN chain1[b] \o moved ELSE moved]
          /\ waiters' = [waiters1 EXCEPT ![b] = IF b \in keys1 THEN waiters1[b] + m ELSE m]
      BY <1>2, <2>2, <2>3, <2>4, <2>5, <2>6, <2>10 DEF FutexRequeue
    <3>. HIDE DEF chain1, waiters1
    <3>2. chain1[b] \in Seq(Waiter) /\ waiters1[b] \in Nat
      BY <2>7
    <3>3. /\ chain1[b] \o moved \in Seq(Waiter)
          /\ Len(chain1[b] \o moved) = Len(chain1[b]) + m
      <4>1. /\ chain1[b] \o moved \in Seq(Waiter)
            /\ Len(chain1[b] \o moved) = Len(chain1[b]) + Len(moved)
        BY <3>2, ConcatType
      <4>. QED
        BY <2>5, <4>1
    <3>4. chain' \in [Addrs -> Seq(Waiter)] /\ waiters' \in [Addrs -> Nat]
      BY <2>5, <2>7, <3>1, <3>2, <3>3
    <3>5. \A k \in keys1 \union {b} : waiters'[k] = Len(chain'[k])
      BY <2>5, <2>6, <2>7, <3>1, <3>2, <3>3 DEF IInv, FutexTypes
    <3>. QED
      BY <2>6, <2>8, <3>1, <3>4, <3>5 DEF IInv, FutexTypes, WaitersCounted
  <2>. QED
    BY <2>9, <2>10
<1>. QED
  BY <1>1, <1>2

\* pop_expire_waiter takes one waiter and decrements the counter.
LEMMA ExpireKeeps ==
  ASSUME IInv, UnblockExpired
  PROVE  IInv'
<1>1. PICK a \in Addrs : \E i \in 1..Len(chain[a]) :
        /\ Expired(a, i)
        /\ chain' = [chain EXCEPT ![a] = RemoveAt(chain[a], i)]
        /\ waiters' = [waiters EXCEPT ![a] = waiters[a] - 1]
        /\ UNCHANGED <<clearTid, now>>
  BY DEF UnblockExpired, Unblock
<1>2. PICK i \in 1..Len(chain[a]) :
        /\ Expired(a, i)
        /\ chain' = [chain EXCEPT ![a] = RemoveAt(chain[a], i)]
        /\ waiters' = [waiters EXCEPT ![a] = waiters[a] - 1]
        /\ UNCHANGED <<clearTid, now>>
  BY <1>1
<1>3. a \in fqKeys /\ waiters[a] = Len(chain[a]) /\ chain[a] \in Seq(Waiter)
  BY <1>2 DEF Expired, IInv, FutexTypes, WaitersCounted
<1>4. RemoveAt(chain[a], i) \in Seq(Waiter) /\ Len(RemoveAt(chain[a], i)) = Len(chain[a]) - 1
  BY <1>3, RemoveAtType
<1>5. fqKeys' = fqKeys
  BY DEF UnblockExpired
<1>. QED
  BY <1>2, <1>3, <1>4, <1>5 DEF IInv, FutexTypes, WaitersCounted

-----------------------------------------------------------------------------

\* Initially no futex queue exists, so no counter can be wrong.
LEMMA InitIInv == Init => IInv
BY DEF Init, IInv, FutexTypes, WaitersCounted

\* A step that leaves FUTEX_QUEUE, the clear_child_tid words and the clock alone.
LEMMA Elsewhere ==
  ASSUME IInv, UNCHANGED <<fqKeys, waiters, chain, clearTid, now>>
  PROVE  IInv'
BY DEF IInv, FutexTypes, WaitersCounted

\* Every system call and every turn of the idle loop keeps the counters right.
LEMMA StepIInv == IInv /\ [Next]_vars => IInv'
<1>. SUFFICES ASSUME IInv, [Next]_vars PROVE IInv'
  OBVIOUS
<1>1. CASE UNCHANGED vars
  BY <1>1, Elsewhere DEF vars
<1>2. CASE run_tasks
  <2>1. CASE UnblockExpired
    BY <2>1, ExpireKeeps
  <2>2. CASE RunHanging \/ UnblockInterrupted \/ RunReady \/ Spin
    BY <2>2, Elsewhere DEF RunHanging, UnblockInterrupted, Unblock, RunReady, Spin, futexes
  <2>. QED
    BY <1>2, <2>1, <2>2 DEF run_tasks
<1>3. CASE Tick
  BY <1>3 DEF Tick, futexes, IInv, FutexTypes, WaitersCounted
<1>4. ASSUME NEW t \in Tasks, NEW f, Suspend(t, f) PROVE IInv'
  BY <1>4, ExitKeeps, Elsewhere DEF Suspend, futexes
<1>5. ASSUME NEW t \in Tasks, Kernel(t) PROVE IInv'
  BY <1>5, ExitKeeps, Elsewhere DEF Kernel, TrapReturn, LoopReturn, FutexWaitReturn, futexes
<1>6. ASSUME NEW t \in Tasks, Yield(t) \/ LoopSuspend(t) \/ Exit(t) PROVE IInv'
  BY <1>4, <1>6, ExitKeeps DEF Yield, LoopSuspend, Exit
<1>7. ASSUME NEW t \in Tasks, NEW d \in Durations, Nanosleep(t, d) PROVE IInv'
  BY <1>7, Elsewhere DEF Nanosleep, futexes
<1>8. ASSUME NEW t \in Tasks, NEW c \in Tasks, NEW ctid \in Ctids, Fork(t, c, ctid) PROVE IInv'
  BY <1>8, AddrsAssumption DEF Fork, futexes, IInv, FutexTypes, WaitersCounted
<1>9. ASSUME NEW t \in Tasks, NEW p \in Tasks, NEW sig \in Sigs, Kill(t, p, sig) PROVE IInv'
  BY <1>9, Elsewhere DEF Kill, futexes
<1>10. ASSUME NEW t \in Tasks, NEW a \in Addrs, FutexWaitAgain(t, a) PROVE IInv'
  BY <1>10 DEF FutexWaitAgain, IInv, FutexTypes, WaitersCounted
<1>11. ASSUME NEW t \in Tasks, NEW a \in Addrs, NEW nr \in 0..2, FutexWake(t, a, nr) PROVE IInv'
  BY <1>11, FutexWakeKeeps DEF FutexWake
<1>12. CASE Panicked
  BY <1>12, Elsewhere DEF Panicked, vars
<1>. QED
  BY <1>1, <1>2, <1>3, <1>5, <1>6, <1>7, <1>8, <1>9, <1>10, <1>11, <1>12, FutexWaitKeeps,
     FutexRequeueKeeps
  DEF Next, User

\* The counter of every futex queue is the length of its chain, so pop_front().unwrap()
\* in futex_wake and futex_requeue never panics, whatever is woken, requeued, expired or
\* interrupted in between.
THEOREM CountersAreRight == Spec => []WaitersCounted
<1>1. IInv => WaitersCounted
  BY DEF IInv
<1>. QED
  BY <1>1, InitIInv, StepIInv, PTL DEF Spec

-----------------------------------------------------------------------------
(* The queues of TASK_MANAGER *)

\* A task is in a queue.
Holds(s, t) == \E i \in 1..Len(s) : s[i] = t

\* No task is in a queue twice.
Distinct(s) == \A i, j \in 1..Len(s) : s[i] = s[j] => i = j

\* The waiting and the ready queue: no task is twice in one or in both.
Apart(w, r) ==
  /\ w \in Seq(Tasks) /\ r \in Seq(Tasks)
  /\ Distinct(w) /\ Distinct(r)
  /\ \A t \in Tasks : ~ (Holds(w, t) /\ Holds(r, t))

\* A task at the back of a queue.
LEMMA AppendHolds ==
  ASSUME NEW s \in Seq(Tasks), NEW t \in Tasks
  PROVE  /\ Append(s, t) \in Seq(Tasks)
         /\ \A u \in Tasks : Holds(Append(s, t), u) <=> Holds(s, u) \/ u = t
         /\ Distinct(s) /\ ~ Holds(s, t) => Distinct(Append(s, t))
<1>. DEFINE r == Append(s, t)
<1>1. /\ r \in Seq(Tasks) /\ Len(r) = Len(s) + 1 /\ Len(s) \in Nat
      /\ \A i \in 1..Len(s) : r[i] = s[i]
      /\ r[Len(s) + 1] = t
  OBVIOUS
<1>. HIDE DEF r
<1>2. \A i \in 1..Len(r) : i \in 1..Len(s) \/ i = Len(s) + 1
  BY <1>1
<1>3. \A i \in 1..Len(s) : i \in 1..Len(r)
  BY <1>1
<1>4. Len(s) + 1 \in 1..Len(r)
  BY <1>1
<1>5. \A u \in Tasks : Holds(r, u) <=> Holds(s, u) \/ u = t
  BY <1>1, <1>2, <1>3, <1>4 DEF Holds
<1>6. ASSUME Distinct(s), ~ Holds(s, t) PROVE Distinct(r)
  BY <1>1, <1>2, <1>6 DEF Distinct, Holds
<1>. QED
  BY <1>1, <1>5, <1>6 DEF r

\* What RemoveAt leaves where.
LEMMA RemoveAtElements ==
  ASSUME NEW S, NEW s \in Seq(S), NEW i \in 1..Len(s)
  PROVE  /\ RemoveAt(s, i) \in Seq(S) /\ Len(RemoveAt(s, i)) = Len(s) - 1 /\ Len(s) \in Nat
         /\ \A k \in 1..Len(RemoveAt(s, i)) :
              RemoveAt(s, i)[k] = IF k < i THEN s[k] ELSE s[k + 1]
<1>1. PICK a : a = SubSeq(s, 1, i - 1)
  OBVIOUS
<1>2. PICK b : b = SubSeq(s, i + 1, Len(s))
  OBVIOUS
<1>3. a \in Seq(S) /\ Len(a) = i - 1 /\ \A k \in 1..Len(a) : a[k] = s[k]
  BY <1>1
<1>4. b \in Seq(S) /\ Len(b) = Len(s) - i /\ \A k \in 1..Len(b) : b[k] = s[i + k]
  BY <1>2
<1>5. PICK r : r = a \o b
  OBVIOUS
<1>6. /\ r \in Seq(S) /\ Len(r) = Len(s) - 1 /\ Len(s) \in Nat
      /\ \A k \in 1..Len(r) : r[k] = IF k <= Len(a) THEN a[k] ELSE b[k - Len(a)]
  BY <1>3, <1>4, <1>5
<1>7. ASSUME NEW k \in 1..Len(r) PROVE r[k] = IF k < i THEN s[k] ELSE s[k + 1]
  <2>1. CASE k < i
    BY <1>3, <1>6, <2>1
  <2>2. CASE ~ (k < i)
    <3>1. k - Len(a) \in 1..Len(b) /\ i + (k - Len(a)) = k + 1 /\ ~ (k <= Len(a))
      BY <1>3, <1>4, <1>6, <2>2
    <3>. QED
      BY <1>4, <1>6, <2>2, <3>1
  <2>. QED
    BY <2>1, <2>2
<1>8. r = RemoveAt(s, i)
  BY <1>1, <1>2, <1>5 DEF RemoveAt
<1>. QED
  BY <1>6, <1>7, <1>8

\* A queue without one of its tasks.
LEMMA RemoveAtHolds ==
  ASSUME NEW s \in Seq(Tasks), NEW i \in 1..Len(s), Distinct(s)
  PROVE  /\ RemoveAt(s, i) \in Seq(Tasks)
         /\ Distinct(RemoveAt(s, i))
         /\ \A u \in Tasks : Holds(RemoveAt(s, i), u) <=> Holds(s, u) /\ u # s[i]
<1>. DEFINE r == RemoveAt(s, i)
<1>1. /\ r \in Seq(Tasks) /\ Len(r) = Len(s) - 1 /\ Len(s) \in Nat
      /\ \A k \in 1..Len(r) : r[k] = IF k < i THEN s[k] ELSE s[k + 1]
  BY RemoveAtElements
<1>. HIDE DEF r
<1>2. Distinct(r)
  BY <1>1 DEF Distinct
<1>3. ASSUME NEW u \in Tasks PROVE Holds(r, u) <=> Holds(s, u) /\ u # s[i]
  <2>1. ASSUME Holds(r, u) PROVE Holds(s, u) /\ u # s[i]
    BY <1>1, <2>1 DEF Holds, Distinct
  <2>2. ASSUME Holds(s, u), u # s[i] PROVE Holds(r, u)
    <3>1. PICK k \in 1..Len(s) : s[k] = u
      BY <2>2 DEF Holds
    <3>2. CASE k < i
      BY <1>1, <3>1, <3>2 DEF Holds
    <3>3. CASE k > i
      <4>1. k - 1 \in 1..Len(r) /\ ~ (k - 1 < i) /\ (k - 1) + 1 = k
        BY <1>1, <3>3
      <4>. QED
        BY <1>1, <3>1, <4>1 DEF Holds
    <3>. QED
      BY <2>2, <3>1, <3>2, <3>3
  <2>. QED
    BY <2>1, <2>2
<1>. QED
  BY <1>1, <1>2, <1>3 DEF r

\* The two queues q after the tasks of S were unblocked: those of them that waited are ready.
Queues == [waiting : Seq(Tasks), ready : Seq(Tasks)]

Woken(q, S, p) ==
  /\ p \in Queues /\ Apart(p.waiting, p.ready)
  /\ \A u \in Tasks : /\ Holds(p.waiting, u) <=> Holds(q.waiting, u) /\ u \notin S
                      /\ Holds(p.ready, u) <=> Holds(q.ready, u) \/ (Holds(q.waiting, u) /\ u \in S)

\* unblock_task moves a task that waits, and leaves any other alone.
LEMMA UnblockOne ==
  ASSUME NEW q \in Queues, Apart(q.waiting, q.ready), NEW t \in Tasks
  PROVE  Woken(q, {t}, unblock_task(q, t))
<1>1. q.waiting \in Seq(Tasks) /\ q.ready \in Seq(Tasks)
  BY DEF Queues
<1>2. t \in ToSet(q.waiting) <=> Holds(q.waiting, t)
  BY <1>1 DEF ToSet, Holds
<1>3. CASE Holds(q.waiting, t)
  <2>1. PICK i \in 1..Len(q.waiting) : q.waiting[i] = t
    BY <1>3 DEF Holds
  <2>2. \A j \in 1..(i - 1) : q.waiting[j] # t
    <3>1. \A j \in 1..(i - 1) : j \in 1..Len(q.waiting) /\ j # i
      BY <1>1
    <3>. QED
      BY <2>1, <3>1 DEF Apart, Distinct
  <2>3. \E k \in 1..Len(q.waiting) : q.waiting[k] = t /\ \A j \in 1..(k - 1) : q.waiting[j] # t
    BY <2>1, <2>2
  <2>4. IndexOf(q.waiting, t) \in 1..Len(q.waiting) /\ q.waiting[IndexOf(q.waiting, t)] = t
    BY <2>3 DEF IndexOf
  <2>5. PICK k \in 1..Len(q.waiting) : k = IndexOf(q.waiting, t) /\ q.waiting[k] = t
    BY <2>4
  <2>6. PICK w : w = RemoveAt(q.waiting, k)
    OBVIOUS
  <2>7. w \in Seq(Tasks) /\ Distinct(w) /\ \A u \in Tasks : Holds(w, u) <=> Holds(q.waiting, u) /\ u # t
    BY <1>1, <2>5, <2>6, RemoveAtHolds DEF Apart
  <2>8. PICK r : r = Append(q.ready, t)
    OBVIOUS
  <2>9. /\ r \in Seq(Tasks) /\ Distinct(r)
        /\ \A u \in Tasks : Holds(r, u) <=> Holds(q.ready, u) \/ u = t
    BY <1>1, <1>3, <2>8, AppendHolds DEF Apart
  <2>10. unblock_task(q, t) = [waiting |-> w, ready |-> r]
    BY <1>2, <1>3, <2>5, <2>6, <2>8 DEF unblock_task
  <2>11. PICK p : p = [waiting |-> w, ready |-> r]
    OBVIOUS
  <2>12. p \in Queues /\ p.waiting = w /\ p.ready = r
    BY <2>7, <2>9, <2>11 DEF Queues
  <2>13. Apart(w, r)
    BY <2>7, <2>9 DEF Apart
  <2>14. Woken(q, {t}, p)
    BY <1>3, <2>7, <2>9, <2>12, <2>13 DEF Woken
  <2>. QED
    BY <2>10, <2>11, <2>14
<1>4. CASE ~ Holds(q.waiting, t)
  <2>1. unblock_task(q, t) = q
    BY <1>2, <1>4 DEF unblock_task
  <2>2. Woken(q, {t}, q)
    BY <1>4 DEF Woken
  <2>. QED
    BY <2>1, <2>2
<1>. QED
  BY <1>3, <1>4

\* A nonempty set of numbers has a least one: what replaces an induction below.
LEMMA LeastOf ==
  ASSUME NEW S \in SUBSET Nat, S # {}
  PROVE  \E x \in S : \A y \in S : x <= y
<1>. DEFINE R == {ss \in Nat \X Nat : ss[1] < ss[2]}
<1>1. IsWellFoundedOn(R, Nat)
  BY NatLessThanWellFounded DEF OpToRel
<1>2. PICK x \in S : \A y \in S : ~ (<<y, x>> \in R)
  <2>. HIDE DEF R
  <2>. QED
    BY <1>1, WFMin
<1>3. ASSUME NEW y \in S
      PROVE  x <= y
  <2>1. <<y, x>> \in Nat \X Nat /\ <<y, x>>[1] = y /\ <<y, x>>[2] = x
    OBVIOUS
  <2>2. ~ (y < x)
    BY <1>2, <2>1
  <2>. QED
    BY <2>2
<1>. QED
  BY <1>3

\* g is the list of the queues after each of the first n tasks of ts was unblocked.
Steps(q, ts, n, g) ==
  g = [k \in 0..n |-> IF k = 0 THEN q ELSE unblock_task(g[k - 1], ts[k])]

\* Such a list exists, so UnblockAll is its end.
LEMMA StepsExist ==
  ASSUME NEW q, NEW ts \in Seq(Tasks)
  PROVE  \E g : Steps(q, ts, Len(ts), g)
<1>. DEFINE bad == {n \in 0..Len(ts) : ~ \E g : Steps(q, ts, n, g)}
<1>0. Len(ts) \in 0..Len(ts)
  OBVIOUS
<1>1. SUFFICES ASSUME bad # {} PROVE FALSE
  BY <1>0
<1>2. bad \in SUBSET Nat
  OBVIOUS
<1>3. PICK m \in bad : \A y \in bad : m <= y
  BY <1>1, <1>2, LeastOf
<1>4. m \in 0..Len(ts) /\ ~ \E g : Steps(q, ts, m, g)
  BY <1>3 DEF bad
<1>5. CASE m = 0
  <2>1. Steps(q, ts, 0, [k \in 0..0 |-> q])
    BY DEF Steps
  <2>. QED
    BY <1>4, <1>5, <2>1
<1>6. CASE m # 0
  <2>1. m - 1 \in 0..Len(ts) /\ m - 1 \notin bad
    BY <1>2, <1>3, <1>4, <1>6
  <2>2. PICK g : Steps(q, ts, m - 1, g)
    BY <2>1
  <2>3. PICK h : h = [k \in 0..m |-> IF k = m THEN unblock_task(g[m - 1], ts[m]) ELSE g[k]]
    OBVIOUS
  <2>4. \A k \in 0..(m - 1) : g[k] = IF k = 0 THEN q ELSE unblock_task(g[k - 1], ts[k])
    BY <2>2 DEF Steps
  <2>5. ASSUME NEW k \in 0..m PROVE h[k] = IF k = 0 THEN q ELSE unblock_task(h[k - 1], ts[k])
    <3>1. k # 0 => k - 1 \in 0..m /\ k - 1 # m /\ k - 1 \in 0..(m - 1)
      BY <1>4
    <3>2. k # m => k \in 0..(m - 1)
      BY <1>4
    <3>3. k # 0 => h[k - 1] = g[k - 1]
      BY <2>3, <3>1
    <3>4. h[k] = IF k = m THEN unblock_task(g[m - 1], ts[m]) ELSE g[k]
      BY <2>3
    <3>. QED
      BY <1>6, <2>4, <3>2, <3>3, <3>4
  <2>6. Steps(q, ts, m, h)
    <3>1. h = [k \in 0..m |-> h[k]]
      BY <2>3
    <3>. QED
      BY <2>5, <3>1 DEF Steps
  <2>. QED
    BY <1>4, <2>6
<1>. QED
  BY <1>5, <1>6

\* UnblockAll is unblock_task on each task of the list in order.
LEMMA UnblockMany ==
  ASSUME NEW q \in Queues, Apart(q.waiting, q.ready), NEW ts \in Seq(Tasks)
  PROVE  Woken(q, {ts[i] : i \in 1..Len(ts)}, UnblockAll(q, ts))
<1>. DEFINE after[n \in 0..Len(ts)] == IF n = 0 THEN q ELSE unblock_task(after[n - 1], ts[n])
<1>1. UnblockAll(q, ts) = after[Len(ts)]
  BY DEF UnblockAll
<1>2. Steps(q, ts, Len(ts), after)
  BY StepsExist DEF Steps
<1>. HIDE DEF after
<1>3. \A n \in 0..Len(ts) : after[n] = IF n = 0 THEN q ELSE unblock_task(after[n - 1], ts[n])
  BY <1>2 DEF Steps
<1>. DEFINE first(n) == {ts[i] : i \in 1..n}
            bad == {n \in 0..Len(ts) : ~ Woken(q, first(n), after[n])}
<1>4. bad = {}
  <2>1. SUFFICES ASSUME bad # {} PROVE FALSE
    OBVIOUS
  <2>2. bad \in SUBSET Nat
    OBVIOUS
  <2>3. PICK m \in bad : \A y \in bad : m <= y
    BY <2>1, <2>2, LeastOf
  <2>4. m \in 0..Len(ts) /\ ~ Woken(q, first(m), after[m])
    BY <2>3 DEF bad
  <2>5. CASE m = 0
    <3>1. first(0) = {} /\ after[0] = q
      BY <1>3, <2>4, <2>5
    <3>. HIDE DEF first
    <3>2. Woken(q, first(0), q)
      BY <3>1 DEF Woken
    <3>. QED
      BY <2>4, <2>5, <3>1, <3>2
  <2>6. CASE m # 0
    <3>1. m - 1 \in 0..Len(ts) /\ m - 1 \notin bad
      <4>1. m - 1 \in 0..Len(ts) /\ ~ (m <= m - 1)
        BY <2>4, <2>6
      <4>. HIDE DEF bad
      <4>. QED
        BY <2>3, <4>1
    <3>2. Woken(q, first(m - 1), after[m - 1])
      BY <3>1
    <3>3. first(m) = first(m - 1) \union {ts[m]} /\ ts[m] \in Tasks
      <4>1. 1..m = (1..(m - 1)) \union {m} /\ m \in 1..Len(ts)
        BY <2>4, <2>6
      <4>. QED
        BY <4>1
    <3>. HIDE DEF first
    <3>4. PICK p \in Queues : p = after[m - 1] /\ Apart(p.waiting, p.ready) /\ Woken(q, first(m - 1), p)
      BY <3>2 DEF Woken
    <3>5. PICK r : r = unblock_task(p, ts[m])
      OBVIOUS
    <3>6. Woken(p, {ts[m]}, r)
      BY <3>3, <3>4, <3>5, UnblockOne
    <3>7. Woken(q, first(m), r)
      BY <3>3, <3>4, <3>6 DEF Woken
    <3>8. after[m] = r
      BY <1>3, <2>4, <2>6, <3>4, <3>5
    <3>. QED
      BY <2>4, <3>7, <3>8
  <2>. QED
    BY <2>5, <2>6
<1>5. Len(ts) \in 0..Len(ts)
  OBVIOUS
<1>. QED
  BY <1>1, <1>4, <1>5

-----------------------------------------------------------------------------
(* Wake-ups: what they do to the queues and to the chains *)

\* A chain has a waiter of a task; some chain of FUTEX_QUEUE has one.
Has(c, u) == \E j \in 1..Len(c) : c[j].task = u
Waits(u) == \E k \in fqKeys : Has(chain[k], u)

\* A step that unblocks the tasks of S, as far as they wait.
Roused(S) ==
  /\ Apart(waiting', ready')
  /\ \A u \in Tasks : /\ Holds(waiting', u) <=> Holds(waiting, u) /\ u \notin S
                      /\ Holds(ready', u) <=> Holds(ready, u) \/ (Holds(waiting, u) /\ u \in S)

\* The waiters behind the first n, and two chains in a row.
LEMMA HasRest ==
  ASSUME NEW c \in Seq(Waiter), NEW n \in 0..Len(c), NEW m \in 0..(Len(c) - n), NEW u,
         Has(c, u), \A i \in 1..n : c[i].task # u
  PROVE  Has(SubSeq(c, n + 1, n + m), u) \/ Has(DropFront(c, n + m), u)
<1>1. PICK j \in 1..Len(c) : c[j].task = u
  BY DEF Has
<1>2. j > n
  BY <1>1
<1>3. CASE j <= n + m
  <2>1. PICK d : d = SubSeq(c, n + 1, n + m)
    OBVIOUS
  <2>2. Len(d) = m /\ \A i \in 1..Len(d) : d[i] = c[n + i]
    BY <2>1
  <2>3. j - n \in 1..Len(d) /\ n + (j - n) = j
    BY <1>2, <1>3, <2>2
  <2>4. d[j - n].task = u
    BY <1>1, <2>2, <2>3
  <2>. QED
    BY <2>1, <2>3, <2>4 DEF Has
<1>4. CASE j > n + m
  <2>1. PICK d : d = SubSeq(c, (n + m) + 1, Len(c))
    OBVIOUS
  <2>2. Len(d) = Len(c) - (n + m) /\ \A i \in 1..Len(d) : d[i] = c[(n + m) + i]
    BY <2>1
  <2>3. j - (n + m) \in 1..Len(d) /\ (n + m) + (j - (n + m)) = j
    BY <1>4, <2>2
  <2>4. d[j - (n + m)].task = u
    BY <1>1, <2>2, <2>3
  <2>. QED
    BY <2>1, <2>3, <2>4 DEF Has, DropFront
<1>. QED
  BY <1>3, <1>4

LEMMA HasConcat ==
  ASSUME NEW c \in Seq(Waiter), NEW d \in Seq(Waiter), NEW u, Has(c, u) \/ Has(d, u)
  PROVE  Has(c \o d, u)
<1>1. PICK e : e = c \o d
  OBVIOUS
<1>2. /\ Len(e) = Len(c) + Len(d) /\ Len(c) \in Nat /\ Len(d) \in Nat
      /\ \A i \in 1..Len(c) : e[i] = c[i]
      /\ \A i \in 1..Len(d) : e[Len(c) + i] = d[i]
  BY <1>1
<1>3. CASE Has(c, u)
  <2>1. PICK j \in 1..Len(c) : c[j].task = u
    BY <1>3 DEF Has
  <2>2. j \in 1..Len(e)
    BY <1>2
  <2>. QED
    BY <1>1, <1>2, <2>1, <2>2 DEF Has
<1>4. CASE Has(d, u)
  <2>1. PICK j \in 1..Len(d) : d[j].task = u
    BY <1>4 DEF Has
  <2>2. Len(c) + j \in 1..Len(e)
    BY <1>2
  <2>. QED
    BY <1>1, <1>2, <2>1, <2>2 DEF Has
<1>. QED
  BY <1>3, <1>4

\* Unblocking the tasks of the first n waiters of a chain.
LEMMA FrontRouses ==
  ASSUME Apart(waiting, ready), NEW c \in Seq(Waiter), NEW n \in 0..Len(c),
         waiting' = UnblockAll([waiting |-> waiting, ready |-> ready], FrontTasks(c, n)).waiting,
         ready' = UnblockAll([waiting |-> waiting, ready |-> ready], FrontTasks(c, n)).ready
  PROVE  Roused({c[i].task : i \in 1..n})
<1>1. PICK q : q = [waiting |-> waiting, ready |-> ready]
  OBVIOUS
<1>2. q \in Queues /\ q.waiting = waiting /\ q.ready = ready
  BY <1>1 DEF Queues, Apart
<1>3. PICK ts : ts = FrontTasks(c, n)
  OBVIOUS
<1>4. ts \in Seq(Tasks) /\ Len(ts) = n /\ \A i \in 1..n : ts[i] = c[i].task
  <2>1. ASSUME NEW i \in 1..n PROVE c[i].task \in Tasks
    <3>1. i \in 1..Len(c)
      OBVIOUS
    <3>2. c[i] \in Waiter
      BY <3>1
    <3>. QED
      BY <3>2 DEF Waiter
  <2>2. n \in Nat /\ ts = [i \in 1..n |-> c[i].task]
    BY <1>3 DEF FrontTasks
  <2>3. PICK f : f = [i \in 1..n |-> c[i].task]
    OBVIOUS
  <2>4. f \in [1..n -> Tasks]
    BY <2>1, <2>3
  <2>5. f \in Seq(Tasks) /\ Len(f) = n
    BY <2>2, <2>4
  <2>. QED
    BY <2>2, <2>3, <2>5
<1>5. Woken(q, {ts[i] : i \in 1..Len(ts)}, UnblockAll(q, ts))
  BY <1>2, <1>4, UnblockMany
<1>6. {ts[i] : i \in 1..Len(ts)} = {c[i].task : i \in 1..n}
  BY <1>4
<1>7. PICK S : S = {c[i].task : i \in 1..n}
  OBVIOUS
<1>8. Roused(S)
  BY <1>1, <1>2, <1>3, <1>5, <1>6, <1>7 DEF Roused, Woken
<1>. QED
  BY <1>7, <1>8

\* A wake-up of some waiters: no task that still waits lost its last waiter.
Rouses == \E S : Roused(S) /\ \A u \in Tasks : u \notin S /\ Waits(u) => Waits(u)'

LEMMA NothingRouses ==
  ASSUME Apart(waiting, ready), UNCHANGED <<waiting, ready, fqKeys, chain>>
  PROVE  Rouses
<1>1. Roused({})
  BY DEF Roused, Apart
<1>2. \A u \in Tasks : Waits(u) => Waits(u)'
  BY DEF Waits
<1>. QED
  BY <1>1, <1>2 DEF Rouses

\* futex_wake: the key goes only with the last waiter.
LEMMA WakeRouses ==
  ASSUME IInv, Apart(waiting, ready), NEW a \in Addrs, NEW nr \in Nat, FutexWakeEffect(a, nr)
  PROVE  Rouses
<1>1. CASE a \notin fqKeys \/ waiters[a] = 0
  BY <1>1, NothingRouses DEF FutexWakeEffect
<1>2. CASE a \in fqKeys /\ waiters[a] # 0
  <2>1. PICK n \in 0..Len(chain[a]) : n = AtMost(nr, waiters[a])
    BY <1>2 DEF IInv, FutexTypes, WaitersCounted, AtMost
  <2>2. /\ chain' = [chain EXCEPT ![a] = DropFront(chain[a], n)]
        /\ fqKeys' = IF waiters[a] = n THEN fqKeys \ {a} ELSE fqKeys
        /\ waiting' = UnblockAll([waiting |-> waiting, ready |-> ready], FrontTasks(chain[a], n)).waiting
        /\ ready' = UnblockAll([waiting |-> waiting, ready |-> ready], FrontTasks(chain[a], n)).ready
    BY <1>2, <2>1 DEF FutexWakeEffect
  <2>3. chain \in [Addrs -> Seq(Waiter)] /\ waiters[a] = Len(chain[a]) /\ chain[a] \in Seq(Waiter)
    BY <1>2 DEF IInv, FutexTypes, WaitersCounted
  <2>4. PICK S : S = {chain[a][i].task : i \in 1..n}
    OBVIOUS
  <2>5. Roused(S)
    BY <2>2, <2>3, <2>4, FrontRouses
  <2>6. ASSUME NEW u \in Tasks, u \notin S, Waits(u) PROVE Waits(u)'
    <3>1. PICK k \in fqKeys : Has(chain[k], u)
      BY <2>6 DEF Waits
    <3>2. CASE k = a
      <4>1. \A i \in 1..n : chain[a][i].task # u
        BY <2>4, <2>6
      <4>2. 0 \in 0..(Len(chain[a]) - n) /\ n + 0 = n
        BY <2>3
      <4>3. Has(SubSeq(chain[a], n + 1, n), u) \/ Has(DropFront(chain[a], n), u)
        BY <2>3, <3>1, <3>2, <4>1, <4>2, HasRest
      <4>4. Len(SubSeq(chain[a], n + 1, n)) = 0
        BY <2>3
      <4>5. Has(DropFront(chain[a], n), u)
        BY <4>3, <4>4 DEF Has
      <4>6. waiters[a] # n
        <5>1. PICK j \in 1..Len(chain[a]) : chain[a][j].task = u
          BY <3>1, <3>2 DEF Has
        <5>. QED
          BY <2>3, <4>1, <5>1
      <4>7. a \in fqKeys' /\ chain'[a] = DropFront(chain[a], n)
        BY <1>2, <2>2, <2>3, <4>6
      <4>. QED
        BY <4>5, <4>7 DEF Waits
    <3>3. CASE k # a
      <4>1. k \in Addrs
        BY DEF IInv, FutexTypes
      <4>2. k \in fqKeys' /\ chain'[k] = chain[k]
        BY <2>2, <2>3, <3>3, <4>1
      <4>. QED
        BY <3>1, <4>2 DEF Waits
    <3>. QED
      BY <3>2, <3>3
  <2>. QED
    BY <2>5, <2>6 DEF Rouses
<1>. QED
  BY <1>1, <1>2

\* futex_requeue: a waiter of a is woken, moved to b or left where it is.
LEMMA RequeueRouses ==
  ASSUME IInv, Apart(waiting, ready), NEW t \in Tasks, NEW a \in Addrs, NEW b \in Addrs,
         NEW nr \in Nat, NEW limit \in Nat, FutexRequeue(t, a, nr, b, limit)
  PROVE  Rouses
<1>1. CASE a \notin fqKeys \/ waiters[a] = 0
  BY <1>1, NothingRouses DEF FutexRequeue, futexes
<1>2. CASE a \in fqKeys /\ waiters[a] # 0
  <2>1. PICK len \in Nat : len = waiters[a] /\ len = Len(chain[a])
    BY <1>2 DEF IInv, FutexTypes, WaitersCounted
  <2>2. PICK n \in 0..len : n = AtMost(nr, waiters[a])
    BY <2>1 DEF AtMost
  <2>3. PICK m \in 0..(len - n) : m = AtMost(limit, waiters[a] - n)
    BY <2>1, <2>2 DEF AtMost
  <2>4. chain \in [Addrs -> Seq(Waiter)] /\ chain[a] \in Seq(Waiter) /\ fqKeys \subseteq Addrs
    BY DEF IInv, FutexTypes
  <2>5. PICK rest : rest = DropFront(chain[a], n + m)
    OBVIOUS
  <2>6. PICK moved : moved = SubSeq(chain[a], n + 1, n + m)
    OBVIOUS
  <2>7. PICK keys1 : keys1 = IF waiters[a] = n + m THEN fqKeys \ {a} ELSE fqKeys
    OBVIOUS
  <2>8. PICK chain1 : chain1 = [chain EXCEPT ![a] = rest]
    OBVIOUS
  <2>9. /\ waiting' = UnblockAll([waiting |-> waiting, ready |-> ready], FrontTasks(chain[a], n)).waiting
        /\ ready' = UnblockAll([waiting |-> waiting, ready |-> ready], FrontTasks(chain[a], n)).ready
        /\ m = 0 => fqKeys' = keys1 /\ chain' = chain1
        /\ m # 0 => /\ fqKeys' = keys1 \union {b}
                    /\ chain' = [chain1 EXCEPT ![b] = IF b \in keys1 THEN chain1[b] \o moved ELSE moved]
    BY <1>2, <2>2, <2>3, <2>5, <2>6, <2>7, <2>8 DEF FutexRequeue
  <2>10. rest \in Seq(Waiter) /\ Len(rest) = len - (n + m)
    <3>1. n + m \in 0..Len(chain[a])
      BY <2>1
    <3>. QED
      BY <2>1, <2>4, <2>5, <3>1, DropFrontType
  <2>11. moved \in Seq(Waiter) /\ (m = 0 => Len(moved) = 0)
    <3>1. /\ n + 1 \in 1..(Len(chain[a]) + 1) /\ n + m \in ((n + 1) - 1)..Len(chain[a])
          /\ (n + m) - (n + 1) + 1 = m
      BY <2>1
    <3>2. /\ SubSeq(chain[a], n + 1, n + m) \in Seq(Waiter)
          /\ Len(SubSeq(chain[a], n + 1, n + m)) = (n + m) - (n + 1) + 1
      BY <2>4, <3>1, SubSeqType
    <3>. QED
      BY <2>6, <3>1, <3>2
  <2>12. chain1 \in [Addrs -> Seq(Waiter)] /\ chain1[a] = rest /\ \A k \in Addrs : k # a => chain1[k] = chain[k]
    BY <2>4, <2>8, <2>10
  <2>13. PICK S : S = {chain[a][i].task : i \in 1..n}
    OBVIOUS
  <2>14. Roused(S)
    <3>1. n \in 0..Len(chain[a])
      BY <2>1
    <3>. QED
      BY <2>4, <2>9, <2>13, <3>1, FrontRouses
  <2>15. ASSUME NEW u \in Tasks, u \notin S, Waits(u) PROVE Waits(u)'
    <3>1. \A k \in keys1 : Has(chain1[k], u) => Waits(u)'
      <4>. SUFFICES ASSUME NEW k \in keys1, Has(chain1[k], u) PROVE Waits(u)'
        OBVIOUS
      <4>1. k \in Addrs /\ chain1[k] \in Seq(Waiter)
        BY <2>4, <2>7, <2>12
      <4>2. CASE m = 0
        BY <2>9, <4>2 DEF Waits
      <4>3. CASE m # 0 /\ k = b
        <5>1. chain'[b] = chain1[b] \o moved /\ b \in fqKeys'
          BY <2>9, <2>12, <4>3
        <5>2. Has(chain1[b] \o moved, u)
          BY <2>11, <4>1, <4>3, HasConcat
        <5>. QED
          BY <5>1, <5>2 DEF Waits
      <4>4. CASE m # 0 /\ k # b
        <5>1. chain'[k] = chain1[k] /\ k \in fqKeys'
          BY <2>9, <2>12, <4>1, <4>4
        <5>. QED
          BY <5>1 DEF Waits
      <4>. QED
        BY <4>2, <4>3, <4>4
    <3>2. Has(moved, u) => Waits(u)'
      <4>. SUFFICES ASSUME Has(moved, u) PROVE Waits(u)'
        OBVIOUS
      <4>1. m # 0
        BY <2>11 DEF Has
      <4>2. chain'[b] = IF b \in keys1 THEN chain1[b] \o moved ELSE moved
        BY <2>9, <2>12, <4>1
      <4>3. chain1[b] \in Seq(Waiter)
        BY <2>12
      <4>4. Has(chain1[b] \o moved, u)
        BY <2>11, <4>3, HasConcat
      <4>5. Has(chain'[b], u) /\ b \in fqKeys'
        BY <2>9, <4>1, <4>2, <4>4
      <4>. QED
        BY <4>5 DEF Waits
    <3>3. PICK k \in fqKeys : Has(chain[k], u)
      BY <2>15 DEF Waits
    <3>4. CASE k # a
      BY <2>4, <2>7, <2>12, <3>1, <3>3, <3>4
    <3>5. CASE k = a
      <4>1. \A i \in 1..n : chain[a][i].task # u
        BY <2>13, <2>15
      <4>2. n \in 0..Len(chain[a]) /\ m \in 0..(Len(chain[a]) - n)
        BY <2>1
      <4>3. Has(moved, u) \/ Has(rest, u)
        BY <2>4, <2>5, <2>6, <3>3, <3>5, <4>1, <4>2, HasRest
      <4>4. ASSUME Has(rest, u) PROVE a \in keys1
        <5>1. Len(rest) # 0
          BY <2>10, <4>4 DEF Has
        <5>2. waiters[a] # n + m
          BY <2>1, <2>10, <5>1
        <5>. QED
          BY <1>2, <2>7, <5>2
      <4>. QED
        BY <2>12, <3>1, <3>2, <4>3, <4>4
    <3>. QED
      BY <3>4, <3>5
  <2>. QED
    BY <2>14, <2>15 DEF Rouses
<1>. QED
  BY <1>1, <1>2

-----------------------------------------------------------------------------
(* Where the tasks are *)

\* The rest of TypeOK.
QueueTypes ==
  /\ status \in [Tasks -> Statuses]
  /\ current \in Tasks \union {NoTask}
  /\ idle \in BOOLEAN
  /\ hanging \subseteq [task : Tasks, wake_up_time : Nat]
  /\ pid2tcb \subseteq Tasks
  /\ pending \in [Tasks -> SUBSET Signals]
  /\ frame \in [Tasks -> Frames]
  /\ now \in 0..MaxTime
  /\ panicked \in BOOLEAN

\* Where a task is follows from its status, except that a blocked task whose wake-up came
\* is still called Blocking while it is in the ready queue, and that a suspended task is
\* on the processor until the idle loop puts it back.
Seated ==
  /\ Apart(waiting, ready)
  /\ \A t \in Tasks :
       /\ Holds(ready, t) => status[t] \in {"Ready", "Blocking"} /\ t # current
       /\ Holds(waiting, t) => status[t] = "Blocking"
       /\ status[t] = "Ready" => t = current \/ Holds(ready, t)
       /\ status[t] = "Blocking" => Holds(waiting, t) \/ Holds(ready, t)
       /\ status[t] = "Hanging" <=> \E h \in hanging : h.task = t
       /\ status[t] = "Running" <=> t = current /\ ~idle
  /\ \A g, h \in hanging : g.task = h.task => g = h
  /\ ~idle => current # NoTask
  /\ current # NoTask => status[current] \in {"Running", "Ready", "Blocking"}
  /\ current # NoTask /\ status[current] = "Blocking" => Holds(waiting, current)

\* Every task in the waiting queue has a waiter.
Reachable == \A u \in Tasks : Holds(waiting, u) => Waits(u)

QInv == QueueTypes /\ Seated /\ Reachable

\* The three invariants that follow.
LEMMA QInvMeans ==
  ASSUME IInv, QInv
  PROVE  TypeOK /\ ExactlyOnePlace /\ BlockedHasWaiter
<1>1. waiting \in Seq(Tasks) /\ ready \in Seq(Tasks)
  BY DEF QInv, Seated, Apart
<1>2. TypeOK
  BY <1>1 DEF TypeOK, IInv, FutexTypes, QInv, QueueTypes
<1>3. BlockedHasWaiter
  <2>1. ASSUME NEW i \in 1..Len(waiting)
        PROVE  \E a \in fqKeys : \E j \in 1..Len(chain[a]) : chain[a][j].task = waiting[i]
    <3>1. waiting[i] \in Tasks /\ Holds(waiting, waiting[i])
      BY <1>1 DEF Holds
    <3>. QED
      BY <3>1 DEF QInv, Reachable, Waits, Has
  <2>. QED
    BY <2>1 DEF BlockedHasWaiter
<1>4. ASSUME NEW s \in Seq(Tasks), Distinct(s), NEW t \in Tasks
      PROVE  Count(s, t) = IF Holds(s, t) THEN 1 ELSE 0
  <2>1. CASE Holds(s, t)
    <3>1. PICK i \in 1..Len(s) : s[i] = t
      BY <2>1 DEF Holds
    <3>2. {j \in 1..Len(s) : s[j] = t} = {i}
      BY <1>4, <3>1 DEF Distinct
    <3>. QED
      BY <2>1, <3>2, FS_Singleton DEF Count
  <2>2. CASE ~ Holds(s, t)
    <3>1. {j \in 1..Len(s) : s[j] = t} = {}
      BY <2>2 DEF Holds
    <3>. QED
      BY <2>2, <3>1, FS_EmptySet DEF Count
  <2>. QED
    BY <2>1, <2>2
<1>5. ASSUME NEW t \in Tasks
      PROVE  Cardinality({h \in hanging : h.task = t}) = IF status[t] = "Hanging" THEN 1 ELSE 0
  <2>1. CASE status[t] = "Hanging"
    <3>1. PICK h \in hanging : h.task = t
      BY <2>1 DEF QInv, Seated
    <3>2. {g \in hanging : g.task = t} = {h}
      BY <3>1 DEF QInv, Seated
    <3>. QED
      BY <2>1, <3>2, FS_Singleton
  <2>2. CASE status[t] # "Hanging"
    <3>1. {g \in hanging : g.task = t} = {}
      BY <2>2 DEF QInv, Seated
    <3>. QED
      BY <2>2, <3>1, FS_EmptySet
  <2>. QED
    BY <2>1, <2>2
<1>6. ASSUME NEW t \in Tasks PROVE Places(t) = IF t \in Live THEN 1 ELSE 0
  <2>1. /\ Count(ready, t) = IF Holds(ready, t) THEN 1 ELSE 0
        /\ Count(waiting, t) = IF Holds(waiting, t) THEN 1 ELSE 0
    BY <1>1, <1>4 DEF QInv, Seated, Apart
  <2>2. status[t] \in Statuses
    BY DEF QInv, QueueTypes
  <2>3. CASE status[t] \in {"Absent", "Zombie"}
    <3>1. ~ Holds(ready, t) /\ ~ Holds(waiting, t) /\ status[t] # "Hanging" /\ t \notin Live
      BY <2>3 DEF QInv, Seated, Live
    <3>2. ~ (current = t /\ status[t] \in {"Running", "Ready"})
      BY <2>3
    <3>. QED
      BY <1>5, <2>1, <3>1, <3>2 DEF Places
  <2>4. CASE status[t] = "Hanging"
    <3>1. ~ Holds(ready, t) /\ ~ Holds(waiting, t) /\ t \in Live
      BY <2>4 DEF QInv, Seated, Live
    <3>2. ~ (current = t /\ status[t] \in {"Running", "Ready"})
      BY <2>4
    <3>. QED
      BY <1>5, <2>1, <2>4, <3>1, <3>2 DEF Places
  <2>5. CASE status[t] = "Blocking"
    <3>1. /\ Holds(ready, t) \/ Holds(waiting, t)
          /\ ~ (Holds(ready, t) /\ Holds(waiting, t))
          /\ t \in Live
      BY <2>5 DEF QInv, Seated, Apart, Live
    <3>2. ~ (current = t /\ status[t] \in {"Running", "Ready"}) /\ status[t] # "Hanging"
      BY <2>5
    <3>. QED
      BY <1>5, <2>1, <3>1, <3>2 DEF Places
  <2>6. CASE status[t] \in {"Running", "Ready"}
    <3>1. ~ Holds(waiting, t) /\ t \in Live /\ status[t] # "Hanging"
      BY <2>6 DEF QInv, Seated, Live
    <3>2. CASE current = t
      <4>1. ~ Holds(ready, t)
        BY <3>2 DEF QInv, Seated
      <4>. QED
        BY <1>5, <2>1, <2>6, <3>1, <3>2, <4>1 DEF Places
    <3>3. CASE current # t
      <4>1. Holds(ready, t)
        BY <2>6, <3>3 DEF QInv, Seated
      <4>. QED
        BY <1>5, <2>1, <2>6, <3>1, <3>3, <4>1 DEF Places
    <3>. QED
      BY <3>2, <3>3
  <2>. QED
    BY <2>2, <2>3, <2>4, <2>5, <2>6 DEF Statuses
<1>. QED
  BY <1>2, <1>3, <1>6 DEF ExactlyOnePlace

\* A step that leaves the two queues and FUTEX_QUEUE alone.
LEMMA SameReachable ==
  ASSUME Reachable, UNCHANGED <<waiting, fqKeys, chain>>
  PROVE  Reachable'
BY DEF Reachable, Waits

\* The running task wakes waiters.
LEMMA RouseKeeps ==
  ASSUME QueueTypes, Seated, Reachable, ~idle, Rouses, UNCHANGED <<status, current, idle, hanging>>
  PROVE  Seated' /\ Reachable'
<1>1. PICK S : Roused(S) /\ \A u \in Tasks : u \notin S /\ Waits(u) => Waits(u)'
  BY DEF Rouses
<1>2. status[current] = "Running" /\ current \in Tasks
  BY DEF Seated, QueueTypes
<1>3. Seated'
  BY <1>1, <1>2 DEF Seated, Roused
<1>4. Reachable'
  BY <1>1 DEF Reachable, Roused
<1>. QED
  BY <1>3, <1>4

\* The running task exits, with or without the clear_child_tid wake-up.
LEMMA ExitSeats ==
  ASSUME IInv, QueueTypes, Seated, Reachable, NEW t \in Tasks, ~idle, current = t, ExitCurrent(t)
  PROVE  Seated' /\ Reachable'
<1>1. Rouses
  <2>1. CASE clearTid[t] # NoAddr
    <3>1. clearTid[t] \in Addrs
      BY <2>1 DEF IInv, FutexTypes
    <3>. QED
      BY <2>1, <3>1, WakeRouses DEF ExitCurrent, Seated
  <2>2. CASE clearTid[t] = NoAddr
    BY <2>2, NothingRouses DEF ExitCurrent, Seated
  <2>. QED
    BY <2>1, <2>2
<1>2. PICK S : Roused(S) /\ \A u \in Tasks : u \notin S /\ Waits(u) => Waits(u)'
  BY <1>1 DEF Rouses
<1>3. status[t] = "Running" /\ t # NoTask
  BY TasksAssumption DEF Seated
<1>4. /\ status' = [status EXCEPT ![t] = "Zombie"] /\ current' = NoTask /\ idle' = TRUE
      /\ hanging' = hanging
  BY DEF ExitCurrent, Schedule
<1>5. ASSUME NEW u \in Tasks
      PROVE  /\ status'[u] = IF u = t THEN "Zombie" ELSE status[u]
             /\ u = t => ~ Holds(ready, u) /\ ~ Holds(waiting, u)
             /\ u # NoTask
             /\ u # t => status[u] # "Running"
  BY <1>3, <1>4, TasksAssumption DEF Seated, QueueTypes
<1>6. Seated'
  BY <1>2, <1>3, <1>4, <1>5 DEF Seated, Roused
<1>7. Reachable'
  BY <1>2 DEF Reachable, Roused
<1>. QED
  BY <1>6, <1>7

\* The types after an exit.
LEMMA ExitTypes ==
  ASSUME QueueTypes, NEW t \in Tasks, ExitCurrent(t), pending' \in [Tasks -> SUBSET Signals]
  PROVE  QueueTypes'
BY DEF QueueTypes, ExitCurrent, Schedule, Statuses

\* suspend_current_and_run_next.
LEMMA SuspendKeeps ==
  ASSUME IInv, QInv, NEW t \in Tasks, OnCpu(t), NEW f \in Frames, Suspend(t, f)
  PROVE  QInv'
<1>1. ~idle /\ current = t
  BY DEF OnCpu
<1>2. CASE pending' = [pending EXCEPT ![t] = @ \ {"KILL"}] /\ ExitCurrent(t)
  <2>1. pending' \in [Tasks -> SUBSET Signals]
    BY <1>2 DEF QInv, QueueTypes
  <2>. QED
    BY <1>1, <1>2, <2>1, ExitSeats, ExitTypes DEF QInv
<1>3. CASE /\ pending' = [pending EXCEPT ![t] = @ \ {"USR"}]
           /\ status' = [status EXCEPT ![t] = "Ready"]
           /\ frame' = [frame EXCEPT ![t] = f]
           /\ Schedule
           /\ UNCHANGED <<current, queues, futexes, clearTid, now, panicked>>
  <2>1. /\ pending' = [pending EXCEPT ![t] = @ \ {"USR"}]
        /\ status' = [status EXCEPT ![t] = "Ready"]
        /\ frame' = [frame EXCEPT ![t] = f]
        /\ idle' = TRUE
        /\ UNCHANGED <<current, ready, hanging, waiting, pid2tcb, fqKeys, chain, now, panicked>>
    BY <1>3 DEF Schedule, queues, futexes
  <2>2. QueueTypes'
    BY <2>1 DEF QInv, QueueTypes, Statuses
  <2>3. status[t] = "Running" /\ t # NoTask
    BY <1>1, TasksAssumption DEF QInv, Seated
  <2>4. \A u \in Tasks : /\ status'[u] = IF u = t THEN "Ready" ELSE status[u]
                         /\ u # t => status[u] # "Running"
    BY <1>1, <2>1 DEF QInv, QueueTypes, Seated
  <2>5. Seated'
    BY <1>1, <2>1, <2>3, <2>4 DEF QInv, Seated, Apart
  <2>6. Reachable'
    BY <2>1, SameReachable DEF QInv
  <2>. QED
    BY <2>2, <2>5, <2>6 DEF QInv
<1>. QED
  BY <1>2, <1>3 DEF Suspend

\* A step that leaves the places alone.
LEMMA PlacesSame ==
  ASSUME QInv, QueueTypes', UNCHANGED <<status, current, idle, ready, waiting, hanging, fqKeys, chain>>
  PROVE  QInv'
<1>1. Seated'
  BY DEF QInv, Seated, Apart
<1>2. Reachable'
  BY SameReachable DEF QInv
<1>. QED
  BY <1>1, <1>2 DEF QInv

\* The tail of a trap.
LEMMA KernelKeeps ==
  ASSUME IInv, QInv, NEW t \in Tasks, Kernel(t)
  PROVE  QInv'
<1>1. CASE TrapReturn(t)
  <2>1. ~idle /\ current = t
    BY <1>1 DEF TrapReturn, OnCpu
  <2>2. CASE pending' = [pending EXCEPT ![t] = @ \ {"KILL"}] /\ ExitCurrent(t)
    <3>1. pending' \in [Tasks -> SUBSET Signals]
      BY <2>2 DEF QInv, QueueTypes
    <3>. QED
      BY <2>1, <2>2, <3>1, ExitSeats, ExitTypes DEF QInv
  <2>3. CASE /\ pending' = [pending EXCEPT ![t] = @ \ {"USR"}]
             /\ frame' = [frame EXCEPT ![t] = "user"]
             /\ UNCHANGED <<status, current, idle, queues, futexes, clearTid, now, panicked>>
    <3>1. QueueTypes'
      BY <2>3 DEF queues, QInv, QueueTypes, Frames
    <3>. QED
      BY <2>3, <3>1, PlacesSame DEF queues, futexes
  <2>. QED
    BY <1>1, <2>2, <2>3 DEF TrapReturn
<1>2. CASE LoopReturn(t) \/ FutexWaitReturn(t)
  <2>1. QueueTypes'
    BY <1>2 DEF LoopReturn, FutexWaitReturn, queues, QInv, QueueTypes, Frames
  <2>. QED
    BY <1>2, <2>1, PlacesSame DEF LoopReturn, FutexWaitReturn, queues, futexes
<1>. QED
  BY <1>1, <1>2 DEF Kernel

\* The running task goes to sleep.
LEMMA NanosleepKeeps ==
  ASSUME QInv, NEW t \in Tasks, NEW d \in Durations, Nanosleep(t, d)
  PROVE  QInv'
<1>1. ~idle /\ current = t
  BY DEF Nanosleep, InUser, OnCpu
<1>2. PICK e : e = [task |-> t, wake_up_time |-> now + d]
  OBVIOUS
<1>3. /\ status' = [status EXCEPT ![t] = "Hanging"]
      /\ hanging' = hanging \union {e}
      /\ current' = NoTask /\ idle' = TRUE
      /\ frame' = [frame EXCEPT ![t] = "ret"]
      /\ UNCHANGED <<ready, waiting, pid2tcb, fqKeys, chain, pending, now, panicked>>
  BY <1>2 DEF Nanosleep, Schedule, futexes
<1>4. e \in [task : Tasks, wake_up_time : Nat] /\ e.task = t
  <2>1. d \in Nat /\ now \in Nat
    BY TimeAssumption DEF QInv, QueueTypes
  <2>. QED
    BY <1>2, <2>1
<1>5. QueueTypes'
  BY <1>3, <1>4 DEF QInv, QueueTypes, Statuses, Frames
<1>6. status[t] = "Running" /\ t # NoTask /\ ~ Holds(ready, t) /\ ~ Holds(waiting, t)
  BY <1>1, TasksAssumption DEF QInv, Seated
<1>7. \A u \in Tasks : /\ status'[u] = IF u = t THEN "Hanging" ELSE status[u]
                       /\ u # t => status[u] # "Running"
                       /\ u # NoTask
  BY <1>1, <1>3, TasksAssumption DEF QInv, QueueTypes, Seated
<1>8. \A h \in hanging : h.task # t /\ h.task \in Tasks
  BY <1>6 DEF QInv, QueueTypes, Seated
<1>9. \A u \in Tasks : (\E h \in hanging' : h.task = u) <=> (\E h \in hanging : h.task = u) \/ u = t
  BY <1>3, <1>4
<1>10. \A g, h \in hanging' : g.task = h.task => g = h
  BY <1>3, <1>4, <1>8 DEF QInv, Seated
<1>11. Seated'
  BY <1>1, <1>3, <1>6, <1>7, <1>9, <1>10 DEF QInv, Seated, Apart
<1>12. Reachable'
  BY <1>3, SameReachable DEF QInv
<1>. QED
  BY <1>5, <1>11, <1>12 DEF QInv

\* A new task goes to the ready queue.
LEMMA ForkKeeps ==
  ASSUME QInv, NEW t \in Tasks, NEW c \in Tasks, NEW ctid \in Ctids, Fork(t, c, ctid)
  PROVE  QInv'
<1>1. /\ ~idle /\ current = t /\ status[c] = "Absent"
      /\ status' = [status EXCEPT ![c] = "Ready"]
      /\ ready' = Append(ready, c) /\ pid2tcb' = pid2tcb \union {c}
      /\ frame' = [frame EXCEPT ![t] = "ret"]
      /\ UNCHANGED <<current, idle, hanging, waiting, fqKeys, chain, pending, now, panicked>>
  BY DEF Fork, InUser, OnCpu, add_task, futexes
<1>2. QueueTypes'
  BY <1>1 DEF QInv, QueueTypes, Statuses, Frames
<1>3. ~ Holds(ready, c) /\ ~ Holds(waiting, c) /\ c # current /\ status[current] = "Running"
  BY <1>1, TasksAssumption DEF QInv, Seated
<1>4. /\ ready' \in Seq(Tasks) /\ Distinct(ready')
      /\ \A u \in Tasks : Holds(ready', u) <=> Holds(ready, u) \/ u = c
  BY <1>1, <1>3, AppendHolds DEF QInv, Seated, Apart
<1>5. \A u \in Tasks : status'[u] = IF u = c THEN "Ready" ELSE status[u]
  BY <1>1 DEF QInv, QueueTypes
<1>6. Apart(waiting', ready')
  BY <1>1, <1>3, <1>4 DEF QInv, Seated, Apart
<1>7. Seated'
  BY <1>1, <1>3, <1>4, <1>5, <1>6 DEF QInv, Seated
<1>8. Reachable'
  BY <1>1, SameReachable DEF QInv
<1>. QED
  BY <1>2, <1>7, <1>8 DEF QInv

\* futex_wait that blocks: the task and its waiter are queued together.
LEMMA FutexWaitSeats ==
  ASSUME IInv, QInv, NEW t \in Tasks, NEW a \in Addrs, NEW timeout \in Timeouts, FutexWait(t, a, timeout)
  PROVE  QInv'
<1>1. PICK w : w = [task |-> t, expire_time |-> SaturatingAdd(now, timeout)]
  OBVIOUS
<1>2. /\ ~idle /\ current = t
      /\ fqKeys' = fqKeys \union {a}
      /\ chain' = [chain EXCEPT ![a] = IF a \notin fqKeys THEN <<w>> ELSE Append(chain[a], w)]
      /\ status' = [status EXCEPT ![t] = "Blocking"]
      /\ waiting' = Append(waiting, t)
      /\ frame' = [frame EXCEPT ![t] = "futex"]
      /\ idle' = TRUE
      /\ UNCHANGED <<current, ready, hanging, pid2tcb, pending, now, panicked>>
  BY <1>1 DEF FutexWait, InUser, OnCpu, Schedule
<1>3. QueueTypes'
  BY <1>2 DEF QInv, QueueTypes, Statuses, Frames
<1>4. ~ Holds(ready, t) /\ ~ Holds(waiting, t) /\ status[t] = "Running"
  BY <1>2, TasksAssumption DEF QInv, Seated
<1>5. /\ waiting' \in Seq(Tasks) /\ Distinct(waiting')
      /\ \A u \in Tasks : Holds(waiting', u) <=> Holds(waiting, u) \/ u = t
  BY <1>2, <1>4, AppendHolds DEF QInv, Seated, Apart
<1>6. \A u \in Tasks : /\ status'[u] = IF u = t THEN "Blocking" ELSE status[u]
                       /\ u # t => status[u] # "Running"
  BY <1>2 DEF QInv, QueueTypes, Seated
<1>7. Apart(waiting', ready')
  BY <1>2, <1>4, <1>5 DEF QInv, Seated, Apart
<1>8. Seated'
  BY <1>2, <1>4, <1>5, <1>6, <1>7 DEF QInv, Seated
<1>9. w \in Waiter /\ w.task = t
  <2>1. timeout \in Nat /\ UsizeMax \in Nat /\ now \in Nat
    BY TimeAssumption DEF QInv, QueueTypes
  <2>. QED
    BY <1>1, <2>1 DEF Waiter, SaturatingAdd
<1>10. chain \in [Addrs -> Seq(Waiter)] /\ fqKeys \subseteq Addrs /\ chain[a] \in Seq(Waiter)
  BY DEF IInv, FutexTypes
<1>11. PICK c : c = IF a \notin fqKeys THEN <<w>> ELSE Append(chain[a], w)
  OBVIOUS
<1>12. chain'[a] = c /\ \A k \in fqKeys : k # a => chain'[k] = chain[k]
  BY <1>2, <1>10, <1>11
<1>13. Has(c, t)
  <2>1. CASE a \notin fqKeys
    <3>1. Len(<<w>>) = 1 /\ <<w>>[1].task = t /\ c = <<w>>
      BY <1>9, <1>11, <2>1
    <3>. QED
      BY <3>1 DEF Has
  <2>2. CASE a \in fqKeys
    <3>1. Len(c) = Len(chain[a]) + 1 /\ c[Len(chain[a]) + 1] = w /\ Len(chain[a]) \in Nat
      BY <1>9, <1>10, <1>11, <2>2
    <3>. QED
      BY <1>9, <3>1 DEF Has
  <2>. QED
    BY <2>1, <2>2
<1>14. ASSUME NEW u, a \in fqKeys, Has(chain[a], u) PROVE Has(c, u)
  <2>1. c \in Seq(Waiter) /\ Len(c) = Len(chain[a]) + 1 /\ \A i \in 1..Len(chain[a]) : c[i] = chain[a][i]
    BY <1>9, <1>10, <1>11, <1>14
  <2>2. PICK j \in 1..Len(chain[a]) : chain[a][j].task = u
    BY <1>14 DEF Has
  <2>3. j \in 1..Len(c)
    BY <1>10, <2>1
  <2>. QED
    BY <2>1, <2>2, <2>3 DEF Has
<1>15. \A u \in Tasks : Waits(u) \/ u = t => Waits(u)'
  <2>1. ASSUME NEW u \in Tasks, Waits(u) PROVE Waits(u)'
    <3>1. PICK k \in fqKeys : Has(chain[k], u)
      BY <2>1 DEF Waits
    <3>2. Has(chain'[k], u) /\ k \in fqKeys'
      BY <1>2, <1>12, <1>14, <3>1
    <3>. QED
      BY <3>2 DEF Waits
  <2>2. Waits(t)'
    BY <1>2, <1>12, <1>13 DEF Waits
  <2>. QED
    BY <2>1, <2>2
<1>16. Reachable'
  BY <1>5, <1>15 DEF QInv, Reachable
<1>. QED
  BY <1>3, <1>8, <1>16 DEF QInv

\* The other operations on futexes.
LEMMA OtherCallsKeep ==
  ASSUME IInv, QInv, NEW t \in Tasks, NEW a \in Addrs
  PROVE  /\ FutexWaitAgain(t, a) => QInv'
         /\ \A nr \in Nat : FutexWake(t, a, nr) => QInv'
         /\ \A b \in Addrs, nr \in Nat, limit \in Nat : FutexRequeue(t, a, nr, b, limit) => QInv'
<1>2. ASSUME FutexWaitAgain(t, a) PROVE QInv'
  <2>1. QueueTypes'
    BY <1>2 DEF FutexWaitAgain, queues, QInv, QueueTypes, Frames
  <2>2. Seated'
    BY <1>2 DEF FutexWaitAgain, queues, QInv, Seated, Apart
  <2>3. ASSUME NEW u \in Tasks, Waits(u) PROVE Waits(u)'
    <3>1. PICK k \in fqKeys : Has(chain[k], u)
      BY <2>3 DEF Waits
    <3>2. Len(chain[k]) # 0
      BY <3>1 DEF Has
    <3>3. waiters[k] # 0 /\ waiters[k] \in Nat
      BY <3>2 DEF IInv, FutexTypes, WaitersCounted
    <3>4. k \in fqKeys' /\ chain' = chain
      BY <1>2, <3>3 DEF FutexWaitAgain
    <3>. QED
      BY <3>1, <3>4 DEF Waits
  <2>4. Reachable'
    BY <1>2, <2>3 DEF FutexWaitAgain, queues, QInv, Reachable
  <2>. QED
    BY <2>1, <2>2, <2>4 DEF QInv
<1>3. ASSUME NEW nr \in Nat, FutexWake(t, a, nr) PROVE QInv'
  <2>1. QueueTypes'
    BY <1>3 DEF FutexWake, QInv, QueueTypes, Frames
  <2>2. Rouses
    BY <1>3, WakeRouses DEF FutexWake, QInv, Seated
  <2>. QED
    BY <1>3, <2>1, <2>2, RouseKeeps DEF FutexWake, InUser, OnCpu, QInv
<1>4. ASSUME NEW b \in Addrs, NEW nr \in Nat, NEW limit \in Nat, FutexRequeue(t, a, nr, b, limit)
      PROVE  QInv'
  <2>1. QueueTypes'
    BY <1>4 DEF FutexRequeue, QInv, QueueTypes, Frames
  <2>2. Rouses
    BY <1>4, RequeueRouses DEF QInv, Seated
  <2>3. ~idle /\ UNCHANGED <<status, current, idle, hanging>>
    BY <1>4 DEF FutexRequeue, InUser, OnCpu
  <2>. QED
    BY <2>1, <2>2, <2>3, RouseKeeps DEF QInv
<1>. QED
  BY <1>2, <1>3, <1>4

-----------------------------------------------------------------------------
(* The idle loop *)

\* The ready queue once the suspended task is back: only a blocked task, which waits, is
\* dropped from the processor.
LEMMA ReadyQueueHolds ==
  ASSUME QInv, idle
  PROVE  /\ Apart(waiting, ReadyQueue)
         /\ \A u \in Tasks : Holds(ReadyQueue, u) <=> Holds(ready, u) \/ (u = current /\ status[u] = "Ready")
         /\ Pid2Tcb \subseteq Tasks
<1>1. CASE Requeued
  <2>1. current \in Tasks /\ status[current] = "Ready" /\ ~ Holds(ready, current) /\ ~ Holds(waiting, current)
    BY <1>1, TasksAssumption DEF Requeued, QInv, QueueTypes, Seated
  <2>2. ready \in Seq(Tasks) /\ Distinct(ready)
    BY DEF QInv, Seated, Apart
  <2>3. PICK r : r = Append(ready, current)
    OBVIOUS
  <2>4. /\ r \in Seq(Tasks) /\ Distinct(r)
        /\ \A u \in Tasks : Holds(r, u) <=> Holds(ready, u) \/ u = current
    BY <2>1, <2>2, <2>3, AppendHolds
  <2>5. Apart(waiting, r)
    BY <2>1, <2>4 DEF QInv, Seated, Apart
  <2>6. ReadyQueue = r /\ Pid2Tcb = pid2tcb \union {current}
    BY <1>1, <2>3 DEF ReadyQueue, Pid2Tcb
  <2>. QED
    BY <2>1, <2>4, <2>5, <2>6 DEF QInv, QueueTypes
<1>2. CASE ~ Requeued
  <2>1. ReadyQueue = ready /\ Pid2Tcb = pid2tcb
    BY <1>2 DEF ReadyQueue, Pid2Tcb
  <2>. QED
    BY <1>2, <2>1, TasksAssumption DEF QInv, QueueTypes, Seated, Requeued
<1>. QED
  BY <1>1, <1>2

\* The front of a queue.
LEMMA TailHolds ==
  ASSUME NEW s \in Seq(Tasks), s # <<>>, Distinct(s)
  PROVE  /\ Head(s) \in Tasks /\ Holds(s, Head(s)) /\ Tail(s) \in Seq(Tasks) /\ Distinct(Tail(s))
         /\ \A u \in Tasks : Holds(Tail(s), u) <=> Holds(s, u) /\ u # Head(s)
<1>1. PICK r : r = Tail(s)
  OBVIOUS
<1>2. /\ r \in Seq(Tasks) /\ Len(r) = Len(s) - 1 /\ Len(s) \in Nat \ {0} /\ Head(s) = s[1]
      /\ \A k \in 1..Len(r) : r[k] = s[k + 1]
  BY <1>1
<1>3. Head(s) \in Tasks /\ Holds(s, Head(s))
  BY <1>2 DEF Holds
<1>4. Distinct(r)
  BY <1>2 DEF Distinct
<1>5. ASSUME NEW u \in Tasks PROVE Holds(r, u) <=> Holds(s, u) /\ u # s[1]
  <2>1. ASSUME Holds(r, u) PROVE Holds(s, u) /\ u # s[1]
    <3>1. PICK k \in 1..Len(r) : r[k] = u
      BY <2>1 DEF Holds
    <3>2. k + 1 \in 1..Len(s) /\ s[k + 1] = u /\ 1 \in 1..Len(s) /\ k + 1 # 1
      BY <1>2, <3>1
    <3>. QED
      BY <3>2 DEF Holds, Distinct
  <2>2. ASSUME Holds(s, u), u # s[1] PROVE Holds(r, u)
    <3>1. PICK k \in 1..Len(s) : s[k] = u
      BY <2>2 DEF Holds
    <3>2. k - 1 \in 1..Len(r) /\ (k - 1) + 1 = k
      BY <1>2, <2>2, <3>1
    <3>3. r[k - 1] = u
      BY <1>2, <3>1, <3>2
    <3>. QED
      BY <3>2, <3>3 DEF Holds
  <2>. QED
    BY <2>1, <2>2
<1>. QED
  BY <1>1, <1>2, <1>3, <1>4, <1>5

\* check_hanging and run_task.
LEMMA RunHangingKeeps ==
  ASSUME QInv, RunHanging
  PROVE  QInv'
<1>1. PICK h \in hanging : Due(h) /\ hanging' = hanging \ {h} /\ RunTask(h.task)
  BY DEF RunHanging
<1>2. PICK t \in Tasks : t = h.task
  BY DEF QInv, QueueTypes
<1>3. /\ idle /\ ready' = ReadyQueue /\ pid2tcb' = Pid2Tcb
      /\ status' = [status EXCEPT ![t] = "Running"] /\ current' = t /\ idle' = FALSE
      /\ UNCHANGED <<waiting, fqKeys, chain, pending, frame, now, panicked>>
  BY <1>1, <1>2 DEF RunHanging, InLoop, RunTask, futexes
<1>4. PICK r : r = ReadyQueue
  OBVIOUS
<1>5. /\ Apart(waiting, r)
      /\ \A u \in Tasks : Holds(r, u) <=> Holds(ready, u) \/ (u = current /\ status[u] = "Ready")
      /\ Pid2Tcb \subseteq Tasks
  BY <1>3, <1>4, ReadyQueueHolds
<1>6. QueueTypes'
  BY <1>1, <1>3, <1>5 DEF QInv, QueueTypes, Statuses
<1>7. status[t] = "Hanging"
  BY <1>1, <1>2 DEF QInv, Seated
<1>8. \A u \in Tasks : /\ status'[u] = IF u = t THEN "Running" ELSE status[u]
                       /\ status[u] # "Running" /\ u # NoTask
  BY <1>3, TasksAssumption DEF QInv, QueueTypes, Seated
<1>9. \A u \in Tasks : (\E g \in hanging' : g.task = u) <=> (\E g \in hanging : g.task = u) /\ u # t
  BY <1>1, <1>2 DEF QInv, Seated
<1>10. \A g, k \in hanging' : g.task = k.task => g = k
  BY <1>1 DEF QInv, Seated
<1>11. Seated'
  BY <1>3, <1>4, <1>5, <1>7, <1>8, <1>9, <1>10 DEF QInv, Seated
<1>12. Reachable'
  BY <1>3, SameReachable DEF QInv
<1>. QED
  BY <1>6, <1>11, <1>12 DEF QInv

\* fetch_task and run_task.
LEMMA RunReadyKeeps ==
  ASSUME QInv, RunReady
  PROVE  QInv'
<1>1. PICK r : r = ReadyQueue
  OBVIOUS
<1>2. PICK t : t = Head(r)
  OBVIOUS
<1>3. /\ idle /\ r # <<>> /\ ready' = Tail(r) /\ pid2tcb' = Pid2Tcb
      /\ status' = [status EXCEPT ![t] = "Running"] /\ current' = t /\ idle' = FALSE
      /\ UNCHANGED <<hanging, waiting, fqKeys, chain, pending, frame, now, panicked>>
  BY <1>1, <1>2 DEF RunReady, InLoop, RunTask, futexes
<1>4. /\ Apart(waiting, r)
      /\ \A u \in Tasks : Holds(r, u) <=> Holds(ready, u) \/ (u = current /\ status[u] = "Ready")
      /\ Pid2Tcb \subseteq Tasks
  BY <1>1, <1>3, ReadyQueueHolds
<1>5. /\ t \in Tasks /\ Holds(r, t) /\ ready' \in Seq(Tasks) /\ Distinct(ready')
      /\ \A u \in Tasks : Holds(ready', u) <=> Holds(r, u) /\ u # t
  BY <1>2, <1>3, <1>4, TailHolds DEF Apart
<1>6. QueueTypes'
  BY <1>3, <1>4, <1>5 DEF QInv, QueueTypes, Statuses
<1>7. status[t] \in {"Ready", "Blocking"} /\ ~ Holds(waiting, t)
  BY <1>4, <1>5 DEF QInv, Seated, Apart
<1>8. \A u \in Tasks : /\ status'[u] = IF u = t THEN "Running" ELSE status[u]
                       /\ status[u] # "Running" /\ u # NoTask
  BY <1>3, <1>5, TasksAssumption DEF QInv, QueueTypes, Seated
<1>9. Apart(waiting', ready')
  BY <1>3, <1>4, <1>5 DEF Apart
<1>10. Seated'
  BY <1>3, <1>4, <1>5, <1>7, <1>8, <1>9 DEF QInv, Seated
<1>11. Reachable'
  BY <1>3, SameReachable DEF QInv
<1>. QED
  BY <1>6, <1>10, <1>11 DEF QInv

\* An iteration that unblocks a task, if it waits.
LEMMA UnblockSeats ==
  ASSUME QInv, idle, NEW t \in Tasks, Unblock(t)
  PROVE  /\ QueueTypes' /\ Seated'
         /\ \A u \in Tasks : Holds(waiting', u) <=> Holds(waiting, u) /\ u # t
<1>1. PICK q : q = [waiting |-> waiting, ready |-> ReadyQueue]
  OBVIOUS
<1>2. PICK r : r = ReadyQueue
  OBVIOUS
<1>3. /\ Apart(waiting, r)
      /\ \A u \in Tasks : Holds(r, u) <=> Holds(ready, u) \/ (u = current /\ status[u] = "Ready")
      /\ Pid2Tcb \subseteq Tasks
  BY <1>2, ReadyQueueHolds
<1>4. q \in Queues /\ q.waiting = waiting /\ q.ready = r
  BY <1>1, <1>2, <1>3 DEF Queues, Apart
<1>5. PICK p : p = unblock_task(q, t)
  OBVIOUS
<1>6. Woken(q, {t}, p)
  BY <1>3, <1>4, <1>5, UnblockOne
<1>7. /\ waiting' = p.waiting /\ ready' = p.ready /\ pid2tcb' = Pid2Tcb /\ current' = NoTask
      /\ UNCHANGED <<status, idle, hanging, pending, frame, now, panicked>>
  BY <1>1, <1>5 DEF Unblock
<1>8. /\ Apart(waiting', ready')
      /\ \A u \in Tasks : /\ Holds(waiting', u) <=> Holds(waiting, u) /\ u # t
                          /\ Holds(ready', u) <=> Holds(r, u) \/ (Holds(waiting, u) /\ u = t)
  BY <1>4, <1>6, <1>7 DEF Woken
<1>9. QueueTypes'
  BY <1>3, <1>7 DEF QInv, QueueTypes
<1>10. \A u \in Tasks : u # NoTask /\ status[u] # "Running"
  BY TasksAssumption DEF QInv, Seated
<1>11. Seated'
  BY <1>3, <1>7, <1>8, <1>10 DEF QInv, Seated
<1>. QED
  BY <1>8, <1>9, <1>11

\* A signal unblocks a task and leaves its waiter in the chain.
LEMMA InterruptKeeps ==
  ASSUME QInv, UnblockInterrupted
  PROVE  QInv'
<1>1. PICK i \in 1..Len(waiting) : Unblock(waiting[i])
  BY DEF UnblockInterrupted
<1>2. waiting[i] \in Tasks
  BY DEF QInv, Seated, Apart
<1>3. idle /\ UNCHANGED <<fqKeys, chain>>
  BY DEF UnblockInterrupted, InLoop, futexes
<1>4. QueueTypes' /\ Seated' /\ \A u \in Tasks : Holds(waiting', u) => Holds(waiting, u)
  BY <1>1, <1>2, <1>3, UnblockSeats
<1>5. Reachable'
  BY <1>3, <1>4 DEF QInv, Reachable, Waits
<1>. QED
  BY <1>4, <1>5 DEF QInv

\* An expired waiter leaves its chain, and its task the waiting queue.
LEMMA ExpireSeats ==
  ASSUME IInv, QInv, UnblockExpired
  PROVE  QInv'
<1>1. PICK a \in Addrs : \E i \in 1..Len(chain[a]) :
        chain' = [chain EXCEPT ![a] = RemoveAt(chain[a], i)] /\ Unblock(chain[a][i].task)
  BY DEF UnblockExpired
<1>2. PICK i \in 1..Len(chain[a]) :
        chain' = [chain EXCEPT ![a] = RemoveAt(chain[a], i)] /\ Unblock(chain[a][i].task)
  BY <1>1
<1>3. chain \in [Addrs -> Seq(Waiter)] /\ chain[a] \in Seq(Waiter) /\ fqKeys \subseteq Addrs
  BY DEF IInv, FutexTypes
<1>4. chain[a][i] \in Waiter
  BY <1>3
<1>5. PICK t \in Tasks : t = chain[a][i].task
  BY <1>4 DEF Waiter
<1>6. idle /\ fqKeys' = fqKeys
  BY DEF UnblockExpired, InLoop
<1>7. QueueTypes' /\ Seated' /\ \A u \in Tasks : Holds(waiting', u) => Holds(waiting, u) /\ u # t
  BY <1>2, <1>5, <1>6, UnblockSeats
<1>8. ASSUME NEW u \in Tasks, u # t, Waits(u) PROVE Waits(u)'
  <2>1. PICK k \in fqKeys : Has(chain[k], u)
    BY <1>8 DEF Waits
  <2>2. CASE k # a
    <3>1. chain'[k] = chain[k]
      BY <1>2, <1>3, <2>2
    <3>. QED
      BY <1>6, <2>1, <3>1 DEF Waits
  <2>3. CASE k = a
    <3>1. PICK j \in 1..Len(chain[a]) : chain[a][j].task = u
      BY <2>1, <2>3 DEF Has
    <3>2. j # i
      BY <1>5, <1>8, <3>1
    <3>3. PICK c : c = RemoveAt(chain[a], i)
      OBVIOUS
    <3>4. /\ Len(c) = Len(chain[a]) - 1 /\ Len(chain[a]) \in Nat
          /\ \A m \in 1..Len(c) : c[m] = IF m < i THEN chain[a][m] ELSE chain[a][m + 1]
      BY <1>3, <3>3, RemoveAtElements
    <3>5. Has(c, u)
      <4>1. CASE j < i
        <5>1. j \in 1..Len(c) /\ c[j] = chain[a][j]
          BY <3>4, <4>1
        <5>. QED
          BY <3>1, <5>1 DEF Has
      <4>2. CASE j > i
        <5>1. j - 1 \in 1..Len(c) /\ ~ (j - 1 < i) /\ (j - 1) + 1 = j
          BY <3>4, <4>2
        <5>2. c[j - 1] = chain[a][j]
          BY <3>4, <5>1
        <5>. QED
          BY <3>1, <5>1, <5>2 DEF Has
      <4>. QED
        BY <3>2, <4>1, <4>2
    <3>6. chain'[a] = c
      BY <1>2, <1>3, <3>3
    <3>. QED
      BY <1>6, <2>1, <2>3, <3>5, <3>6 DEF Waits
  <2>. QED
    BY <2>2, <2>3
<1>9. Reachable'
  BY <1>7, <1>8 DEF QInv, Reachable
<1>. QED
  BY <1>7, <1>9 DEF QInv

\* An iteration that finds nothing drops only a task that waits.
LEMMA SpinKeeps ==
  ASSUME QInv, Spin
  PROVE  QInv'
<1>1. /\ idle /\ ReadyQueue = <<>> /\ current' = NoTask
      /\ UNCHANGED <<status, idle, ready, hanging, waiting, pid2tcb, fqKeys, chain, pending, frame, now, panicked>>
  BY DEF Spin, InLoop, queues, futexes
<1>2. \A u \in Tasks : ~ (u = current /\ status[u] = "Ready") /\ u # NoTask
  <2>1. \A u \in Tasks : ~ Holds(<<>>, u)
    BY DEF Holds
  <2>2. \A u \in Tasks : Holds(<<>>, u) <=> Holds(ready, u) \/ (u = current /\ status[u] = "Ready")
    BY <1>1, ReadyQueueHolds
  <2>. QED
    BY <2>1, <2>2, TasksAssumption
<1>3. QueueTypes'
  BY <1>1 DEF QInv, QueueTypes
<1>4. Seated'
  BY <1>1, <1>2 DEF QInv, Seated, Apart
<1>5. Reachable'
  BY <1>1, SameReachable DEF QInv
<1>. QED
  BY <1>3, <1>4, <1>5 DEF QInv

-----------------------------------------------------------------------------

LEMMA InitQInv == Init => QInv
<1>. SUFFICES ASSUME Init PROVE QInv
  OBVIOUS
<1>1. QueueTypes
  <2>1. status \in [Tasks -> Statuses] /\ frame \in [Tasks -> Frames]
    BY DEF Init, Statuses, Frames
  <2>2. pending \in [Tasks -> SUBSET Signals] /\ hanging \subseteq [task : Tasks, wake_up_time : Nat]
    BY DEF Init
  <2>3. now \in 0..MaxTime
    BY TimeAssumption DEF Init
  <2>4. current \in Tasks \union {NoTask} /\ idle \in BOOLEAN /\ panicked \in BOOLEAN /\ pid2tcb \subseteq Tasks
    BY TasksAssumption DEF Init
  <2>. QED
    BY <2>1, <2>2, <2>3, <2>4 DEF QueueTypes
<1>2. ready \in Seq(Tasks) /\ waiting \in Seq(Tasks) /\ Len(ready) = 1 /\ ready[1] = INITPROC /\ Len(waiting) = 0
  BY TasksAssumption DEF Init
<1>3. \A u : Holds(ready, u) <=> u = INITPROC
  BY <1>2 DEF Holds
<1>4. \A u : ~ Holds(waiting, u)
  BY <1>2 DEF Holds
<1>5. Distinct(ready) /\ Distinct(waiting)
  BY <1>2 DEF Distinct
<1>6. Apart(waiting, ready)
  BY <1>2, <1>4, <1>5 DEF Apart
<1>7. Seated
  BY <1>3, <1>4, <1>6, TasksAssumption DEF Init, Seated
<1>8. Reachable
  BY <1>4 DEF Reachable
<1>. QED
  BY <1>1, <1>7, <1>8 DEF QInv

\* One step per system call and per kind of iteration of the idle loop.
LEMMA StepQInv == IInv /\ QInv /\ [Next]_vars => QInv'
<1>. SUFFICES ASSUME IInv, QInv, [Next]_vars PROVE QInv'
  OBVIOUS
<1>1. CASE UNCHANGED vars
  <2>1. QueueTypes'
    BY <1>1 DEF vars, QInv, QueueTypes
  <2>. QED
    BY <1>1, <2>1, PlacesSame DEF vars
<1>2. CASE run_tasks
  BY <1>2, RunHangingKeeps, InterruptKeeps, ExpireSeats, RunReadyKeeps, SpinKeeps DEF run_tasks
<1>3. CASE Tick
  <2>1. QueueTypes'
    BY <1>3, TimeAssumption DEF Tick, queues, QInv, QueueTypes
  <2>. QED
    BY <1>3, <2>1, PlacesSame DEF Tick, queues, futexes
<1>4. CASE Panicked
  BY <1>1, <1>4 DEF Panicked
<1>5. ASSUME NEW t \in Tasks, Kernel(t) PROVE QInv'
  BY <1>5, KernelKeeps
<1>6. ASSUME NEW t \in Tasks, Yield(t) PROVE QInv'
  <2>1. OnCpu(t) /\ "ret" \in Frames /\ Suspend(t, "ret")
    BY <1>6 DEF Yield, InUser, Frames
  <2>. QED
    BY <2>1, SuspendKeeps
<1>7. ASSUME NEW t \in Tasks, LoopSuspend(t) PROVE QInv'
  <2>1. OnCpu(t) /\ "loop" \in Frames /\ Suspend(t, "loop")
    BY <1>7 DEF LoopSuspend, Frames
  <2>. QED
    BY <2>1, SuspendKeeps
<1>8. ASSUME NEW t \in Tasks, Exit(t) PROVE QInv'
  <2>1. ~idle /\ current = t /\ ExitCurrent(t) /\ pending' = pending
    BY <1>8 DEF Exit, InUser, OnCpu
  <2>2. pending' \in [Tasks -> SUBSET Signals]
    BY <2>1 DEF QInv, QueueTypes
  <2>. QED
    BY <2>1, <2>2, ExitSeats, ExitTypes DEF QInv
<1>9. ASSUME NEW t \in Tasks, User(t) PROVE QInv'
  <2>1. \A nr \in 0..2 : nr \in Nat
    OBVIOUS
  <2>2. \A nr \in 0..1 : nr \in Nat
    OBVIOUS
  <2>3. (\E a \in Addrs, nr \in 0..2 : FutexWake(t, a, nr)) => QInv'
    BY <2>1, OtherCallsKeep
  <2>4. (\E a, b \in Addrs, nr \in 0..1, limit \in 0..2 : FutexRequeue(t, a, nr, b, limit)) => QInv'
    BY <2>1, <2>2, OtherCallsKeep
  <2>5. (\E a \in Addrs : FutexWaitAgain(t, a)) => QInv'
    BY OtherCallsKeep
  <2>6. ASSUME NEW p \in Tasks, NEW sig \in Sigs, Kill(t, p, sig) PROVE QInv'
    <3>1. pending' \in [Tasks -> SUBSET Signals]
      BY <2>6, SignalsAssumption DEF Kill, QInv, QueueTypes
    <3>2. QueueTypes'
      BY <2>6, <3>1 DEF Kill, queues, QInv, QueueTypes, Frames
    <3>. QED
      BY <2>6, <3>2, PlacesSame DEF Kill, queues, futexes
  <2>. QED
    BY <1>6, <1>7, <1>8, <1>9, <2>3, <2>4, <2>5, <2>6, NanosleepKeeps, ForkKeeps, FutexWaitSeats DEF User
<1>. QED
  BY <1>1, <1>2, <1>3, <1>4, <1>5, <1>9 DEF Next

\* Every variable of the scheduler keeps its type: in particular no queue ever holds
\* anything but tasks, and the processor is never put back when it has no task.
THEOREM TypesAreKept == Spec => []TypeOK
<1>1. IInv /\ QInv => TypeOK
  BY QInvMeans
<1>. QED
  BY <1>1, InitIInv, StepIInv, InitQInv, StepQInv, PTL DEF Spec

\* However a futex waiter is found (by a wake-up, a requeue, its timeout, a signal, or by
\* several of them), and whoever suspends, sleeps, forks or exits in between, a live task
\* is in exactly one place from which it can be scheduled, and any other task in none.
THEOREM OnePlaceEach == Spec => []ExactlyOnePlace
<1>1. IInv /\ QInv => ExactlyOnePlace
  BY QInvMeans
<1>. QED
  BY <1>1, InitIInv, StepIInv, InitQInv, StepQInv, PTL DEF Spec

\* A task that is blocked in futex_wait always has a FutexWaiter in a queue that
\* FUTEX_QUEUE still knows, so no wake-up is lost for good: futex_wake and futex_requeue
\* forget a key only with its last waiter.
THEOREM BlockedCanBeWoken == Spec => []BlockedHasWaiter
<1>1. IInv /\ QInv => BlockedHasWaiter
  BY QInvMeans
<1>. QED
  BY <1>1, InitIInv, StepIInv, InitQInv, StepQInv, PTL DEF Spec

==============================================================================

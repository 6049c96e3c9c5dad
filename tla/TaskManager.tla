----------------------------- MODULE TaskManager -----------------------------
(***************************************************************************)
(* The scheduler of the kernel: the idle loop run_tasks, the three queues  *)
(* of TASK_MANAGER (ready, hanging, waiting), the global FUTEX_QUEUE and   *)
(* the system calls that move a task between them.                         *)
(*                                                                         *)
(* One hart runs the kernel and the kernel is not preemptible: control     *)
(* changes hands only in schedule(), so one action is everything a task    *)
(* (or the idle loop) does between two context switches or between two     *)
(* clock readings that matter.  The clock may advance between any two      *)
(* actions.                                                                *)
(*                                                                         *)
(* Signals are the ones not in the task's sigmask (a masked signal does    *)
(* not affect the scheduler): KILL has the default disposition and ends    *)
(* the task, USR stands for one that exec_signal_handlers consumes.        *)
(***************************************************************************)
EXTENDS Naturals, Sequences, FiniteSets, SequencesExt

CONSTANTS
  Tasks,      \* the tasks that may ever exist
  INITPROC,   \* the first of them
  NoTask,     \* Option::None for a task
  Addrs,      \* user addresses used as futex words
  NoAddr,     \* clear_child_tid = 0
  Ctids,      \* the clear_child_tid values a task may be created with
  Sigs,       \* the signals tasks send
  Durations,  \* the lengths a task may ask nanosleep for
  Timeouts,   \* the timeouts a task may give futex_wait
  MaxTime,    \* bound on the clock (get_time_ns)
  MaxWaiters, \* bound on the waiters in all chains together
  UsizeMax    \* usize::MAX, the timeout that stands for "no timeout"

ASSUME TasksAssumption == INITPROC \in Tasks /\ NoTask \notin Tasks
ASSUME AddrsAssumption == NoAddr \notin Addrs /\ Ctids \subseteq Addrs \union {NoAddr}
ASSUME TimeAssumption ==
  /\ MaxTime \in Nat /\ MaxWaiters \in Nat /\ UsizeMax \in Nat /\ MaxTime < UsizeMax
  /\ Durations \subseteq 0..MaxTime
  /\ Timeouts \subseteq (0..MaxTime) \union {UsizeMax}

VARIABLES
  status,     \* TaskControlBlockInner.task_status ("Absent": not created)
  current,    \* Processor.current
  idle,       \* TRUE iff the hart is in run_tasks, not in a task
  ready,      \* TaskManager.ready_queue
  hanging,    \* TaskManager.hanging_queue: a heap, so a set of entries
  waiting,    \* TaskManager.waiting_queue
  pid2tcb,    \* PID2TCB
  fqKeys,     \* the keys of FUTEX_QUEUE
  waiters,    \* FutexQueue.waiters
  chain,      \* FutexQueue.chain
  pending,    \* pending_signals \ sigmask
  frame,      \* where the task is: see Frames
  clearTid,   \* clear_child_tid
  now,        \* the clock
  panicked    \* the kernel has panicked

queues == <<ready, hanging, waiting, pid2tcb>>
futexes == <<fqKeys, waiters, chain>>
vars == <<status, current, idle, ready, hanging, waiting, pid2tcb, fqKeys, waiters,
          chain, pending, frame, clearTid, now, panicked>>

Statuses == {"Absent", "Ready", "Running", "Blocking", "Hanging", "Zombie"}

\* Where the kernel stack of a task will continue:
\*   user  - in user mode (a new task's first switch goes straight to trap_return);
\*   ret   - after the body of a trap, before exec_signal_handlers and trap_return;
\*   loop  - inside a system call that suspends until its condition holds;
\*   futex - in futex_wait, after schedule().
Frames == {"user", "ret", "loop", "futex"}

Signals == {"KILL", "USR"}

ASSUME SignalsAssumption == Sigs \subseteq Signals

Waiter == [task : Tasks, expire_time : Nat]

\* The types of the state.
TypeOK ==
  /\ status \in [Tasks -> Statuses]
  /\ current \in Tasks \union {NoTask}
  /\ idle \in BOOLEAN
  /\ ready \in Seq(Tasks) /\ waiting \in Seq(Tasks)
  /\ hanging \subseteq [task : Tasks, wake_up_time : Nat]
  /\ pid2tcb \subseteq Tasks
  /\ fqKeys \subseteq Addrs
  /\ waiters \in [Addrs -> Nat]
  /\ chain \in [Addrs -> Seq(Waiter)]
  /\ pending \in [Tasks -> SUBSET Signals]
  /\ frame \in [Tasks -> Frames]
  /\ clearTid \in [Tasks -> Addrs \union {NoAddr}]
  /\ now \in 0..MaxTime
  /\ panicked \in BOOLEAN

\* add_initproc: the first task is ready and the idle loop is about to start.
Init ==
  /\ status = [t \in Tasks |-> IF t = INITPROC THEN "Ready" ELSE "Absent"]
  /\ current = NoTask
  /\ idle = TRUE
  /\ ready = <<INITPROC>>
  /\ hanging = {}
  /\ waiting = <<>>
  /\ pid2tcb = {INITPROC}
  /\ fqKeys = {}
  /\ waiters = [a \in Addrs |-> 0]
  /\ chain = [a \in Addrs |-> <<>>]
  /\ pending = [t \in Tasks |-> {}]
  /\ frame = [t \in Tasks |-> "user"]
  /\ clearTid = [t \in Tasks |-> NoAddr]
  /\ now = 0
  /\ panicked = FALSE

-----------------------------------------------------------------------------
(* Helpers on the queues *)

\* Every waiter of every chain, by its place.
AllWaiters == {w \in Addrs \X (1..MaxWaiters) : w[2] <= Len(chain[w[1]])}

\* usize::saturating_add
SaturatingAdd(x, y) == IF x <= UsizeMax - y THEN x + y ELSE UsizeMax

AtMost(m, n) == IF m <= n THEN m ELSE n

\* The first place of a task in a queue.
IndexOf(s, t) == CHOOSE i \in 1..Len(s) : s[i] = t /\ \A j \in 1..(i - 1) : s[j] # t

\* Mutant of unblock_task: the task is queued without being found in the waiting queue.
unblock_task_unchecked(q, t) ==
  [waiting |-> SelectSeq(q.waiting, LAMBDA u : u # t), ready |-> Append(q.ready, t)]

\* TaskManager::unblock_task, on a pair of waiting and ready queues: a task that is
\* not in the waiting queue is left alone.
unblock_task(q, t) ==
  IF t \in ToSet(q.waiting)
  THEN [waiting |-> RemoveAt(q.waiting, IndexOf(q.waiting, t)), ready |-> Append(q.ready, t)]
  ELSE q

\* unblock_task for each task of a list, in order.
UnblockAll(q, ts) ==
  LET after[n \in 0..Len(ts)] == IF n = 0 THEN q ELSE unblock_task(after[n - 1], ts[n])
  IN  after[Len(ts)]

\* The tasks of the first n waiters of a chain.
FrontTasks(c, n) == [i \in 1..n |-> c[i].task]

\* Mutant of DropFront: one waiter too many is popped.
DropFrontOneMore(c, n) == SubSeq(c, n + 2, Len(c))

\* What pop_front leaves of a chain after n calls.
DropFront(c, n) == SubSeq(c, n + 1, Len(c))

\* futex_wake(a, nr): pop min(nr, waiters) from the front, forget the key when no
\* waiter is left, then unblock the popped tasks.
FutexWakeEffect(a, nr) ==
  LET n == AtMost(nr, waiters[a])
      q == UnblockAll([waiting |-> waiting, ready |-> ready], FrontTasks(chain[a], n))
  IN  IF a \notin fqKeys \/ waiters[a] = 0
      THEN UNCHANGED <<waiting, ready, fqKeys, waiters, chain>>
      ELSE /\ chain' = [chain EXCEPT ![a] = DropFront(@, n)]
           /\ waiters' = [waiters EXCEPT ![a] = @ - n]
           /\ fqKeys' = IF waiters[a] = n THEN fqKeys \ {a} ELSE fqKeys
           /\ waiting' = q.waiting
           /\ ready' = q.ready

-----------------------------------------------------------------------------
(* The tasks *)

OnCpu(t) == ~panicked /\ ~idle /\ current = t
InUser(t) == OnCpu(t) /\ frame[t] = "user"

\* schedule(): back to the idle loop.
Schedule == idle' = TRUE

\* exit_current_and_run_next: the task leaves the processor and PID2TCB, wakes one
\* waiter of its clear_child_tid word and becomes a zombie.  Called by the exit system
\* calls and by exec_signal_handlers.  initproc must not exit.
ExitCurrent(t) ==
  /\ current' = NoTask
  /\ pid2tcb' = pid2tcb \ {t}
  /\ status' = [status EXCEPT ![t] = "Zombie"]
  /\ panicked' = (t = INITPROC)
  /\ IF clearTid[t] # NoAddr
     THEN FutexWakeEffect(clearTid[t], 1)
     ELSE UNCHANGED <<waiting, ready, fqKeys, waiters, chain>>
  /\ Schedule
  /\ UNCHANGED <<hanging, frame, clearTid, now>>

\* suspend_current_and_run_next called from a frame that continues as f:
\* exec_signal_handlers first, then Ready and schedule().  With both signals pending,
\* KILL is taken, or it stays behind a USR with a lower number that has a handler.
Suspend(t, f) ==
  \/ /\ "KILL" \in pending[t]
     /\ pending' = [pending EXCEPT ![t] = @ \ {"KILL"}]
     /\ ExitCurrent(t)
  \/ /\ pending[t] # {"KILL"}
     /\ pending' = [pending EXCEPT ![t] = @ \ {"USR"}]
     /\ status' = [status EXCEPT ![t] = "Ready"]
     /\ frame' = [frame EXCEPT ![t] = f]
     /\ Schedule
     /\ UNCHANGED <<current, queues, futexes, clearTid, now, panicked>>

\* A timer interrupt in user mode, or sched_yield.
Yield(t) == InUser(t) /\ Suspend(t, "ret")

\* A system call that loops around suspend_current_and_run_next until its condition
\* holds (wait4, pipe and stdin reads, pselect): its first suspension, each further
\* one, and the return.
LoopSuspend(t) == OnCpu(t) /\ frame[t] \in {"user", "loop"} /\ Suspend(t, "loop")

LoopReturn(t) ==
  /\ OnCpu(t)
  /\ frame[t] = "loop"
  /\ frame' = [frame EXCEPT ![t] = "ret"]
  /\ UNCHANGED <<status, current, idle, queues, futexes, pending, clearTid,
                 now, panicked>>

\* The tail of user_trap_handler: exec_signal_handlers, then trap_return.
TrapReturn(t) ==
  /\ OnCpu(t)
  /\ frame[t] = "ret"
  /\ \/ /\ "KILL" \in pending[t]
        /\ pending' = [pending EXCEPT ![t] = @ \ {"KILL"}]
        /\ ExitCurrent(t)
     \/ /\ pending[t] # {"KILL"}
        /\ pending' = [pending EXCEPT ![t] = @ \ {"USR"}]
        /\ frame' = [frame EXCEPT ![t] = "user"]
        /\ UNCHANGED <<status, current, idle, queues, futexes, clearTid, now, panicked>>

\* sys_exit, sys_exit_group
Exit(t) == InUser(t) /\ ExitCurrent(t) /\ UNCHANGED pending

\* sys_nanosleep and sys_clock_nanosleep: hanging_current_and_run_next.
Nanosleep(t, d) ==
  /\ InUser(t)
  /\ now + d <= MaxTime
  /\ status' = [status EXCEPT ![t] = "Hanging"]
  /\ hanging' = hanging \union {[task |-> t, wake_up_time |-> now + d]}
  /\ current' = NoTask
  /\ frame' = [frame EXCEPT ![t] = "ret"]
  /\ Schedule
  /\ UNCHANGED <<ready, waiting, pid2tcb, futexes, pending, clearTid, now,
                 panicked>>

\* add_task
add_task(c) ==
  /\ pid2tcb' = pid2tcb \union {c}
  /\ ready' = Append(ready, c)

\* sys_do_fork up to add_task(new_task); ctid is NoAddr without CLONE_CHILD_CLEARTID.
Fork(t, c, ctid) ==
  /\ InUser(t)
  /\ status[c] = "Absent"
  /\ status' = [status EXCEPT ![c] = "Ready"]
  /\ clearTid' = [clearTid EXCEPT ![c] = ctid]
  /\ add_task(c)
  /\ frame' = [frame EXCEPT ![t] = "ret"]
  /\ UNCHANGED <<current, idle, hanging, waiting, futexes, pending, now,
                 panicked>>

\* sys_kill, sys_tkill: a pid that is not in PID2TCB is not an error.
Kill(t, p, sig) ==
  /\ InUser(t)
  /\ pending' = IF p \in pid2tcb THEN [pending EXCEPT ![p] = @ \union {sig}] ELSE pending
  /\ frame' = [frame EXCEPT ![t] = "ret"]
  /\ UNCHANGED <<status, current, idle, queues, futexes, clearTid, now,
                 panicked>>

-----------------------------------------------------------------------------
(* Futexes *)

\* Mutant of FutexWaitAgain: EAGAIN without waiters_decrease.
FutexWaitAgainCounted(t, a) ==
  /\ InUser(t)
  /\ fqKeys' = fqKeys \union {a}
  /\ waiters' = [waiters EXCEPT ![a] = @ + 1]
  /\ frame' = [frame EXCEPT ![t] = "ret"]
  /\ UNCHANGED <<status, current, idle, queues, chain, pending, clearTid, now, panicked>>

\* futex_wait when the word no longer holds val: the key is created if missing, the
\* waiter count goes up and down again, and the key goes when the count is 0: EAGAIN.
FutexWaitAgain(t, a) ==
  /\ InUser(t)
  /\ fqKeys' = IF a \in fqKeys /\ waiters[a] > 0 THEN fqKeys ELSE fqKeys \ {a}
  /\ frame' = [frame EXCEPT ![t] = "ret"]
  /\ UNCHANGED <<status, current, idle, queues, waiters, chain, pending,
                 clearTid, now, panicked>>

\* futex_wait when the word holds val: a new FutexWaiter at the back of the chain (of a
\* fresh FutexQueue if the key is missing), Blocking, waiting_queue, schedule().
FutexWait(t, a, timeout) ==
  LET fresh == a \notin fqKeys
      w == [task |-> t, expire_time |-> SaturatingAdd(now, timeout)]
  IN  /\ InUser(t)
      /\ timeout # UsizeMax => now + timeout <= MaxTime
      /\ Cardinality(AllWaiters) < MaxWaiters
      /\ fqKeys' = fqKeys \union {a}
      /\ waiters' = [waiters EXCEPT ![a] = IF fresh THEN 1 ELSE @ + 1]
      /\ chain' = [chain EXCEPT ![a] = IF fresh THEN <<w>> ELSE Append(@, w)]
      /\ status' = [status EXCEPT ![t] = "Blocking"]
      /\ waiting' = Append(waiting, t)
      /\ frame' = [frame EXCEPT ![t] = "futex"]
      /\ Schedule
      /\ UNCHANGED <<current, ready, hanging, pid2tcb, pending, clearTid, now, panicked>>

\* The rest of futex_wait: it picks ETIMEDOUT, EINTR or 0 and returns; what the caller
\* does with the value is up to the program.
FutexWaitReturn(t) ==
  /\ OnCpu(t)
  /\ frame[t] = "futex"
  /\ frame' = [frame EXCEPT ![t] = "ret"]
  /\ UNCHANGED <<status, current, idle, queues, futexes, pending, clearTid,
                 now, panicked>>

FutexWake(t, a, nr) ==
  /\ InUser(t)
  /\ FutexWakeEffect(a, nr)
  /\ frame' = [frame EXCEPT ![t] = "ret"]
  /\ UNCHANGED <<status, current, idle, hanging, pid2tcb, pending, clearTid,
                 now, panicked>>

\* futex_requeue: wake nr from the front of a, move the next limit waiters to the back
\* of b, creating b's queue when it is missing.
FutexRequeue(t, a, nr, b, limit) ==
  LET n == AtMost(nr, waiters[a])
      m == AtMost(limit, waiters[a] - n)
      q == UnblockAll([waiting |-> waiting, ready |-> ready], FrontTasks(chain[a], n))
      moved == SubSeq(chain[a], n + 1, n + m)
      keys1 == IF waiters[a] = n + m THEN fqKeys \ {a} ELSE fqKeys
      chain1 == [chain EXCEPT ![a] = DropFront(@, n + m)]
      waiters1 == [waiters EXCEPT ![a] = @ - (n + m)]
  IN  /\ InUser(t)
      /\ frame' = [frame EXCEPT ![t] = "ret"]
      /\ IF a \notin fqKeys \/ waiters[a] = 0
         THEN UNCHANGED <<waiting, ready, futexes>>
         ELSE /\ waiting' = q.waiting
              /\ ready' = q.ready
              /\ IF m = 0
                 THEN /\ fqKeys' = keys1 /\ chain' = chain1 /\ waiters' = waiters1
                 ELSE /\ fqKeys' = keys1 \union {b}
                      /\ chain' = [chain1 EXCEPT
                           ![b] = IF b \in keys1 THEN @ \o moved ELSE moved]
                      /\ waiters' = [waiters1 EXCEPT
                           ![b] = IF b \in keys1 THEN @ + m ELSE m]
      /\ UNCHANGED <<status, current, idle, hanging, pid2tcb, pending,
                     clearTid, now, panicked>>

-----------------------------------------------------------------------------
(* One iteration of run_tasks.  It first takes the last task off the processor and
   puts it back into the ready queue if it was suspended.  Then it tries, in this
   order: a sleeper that is due, a futex waiter that is interrupted or expired, the
   front of the ready queue. *)

InLoop == ~panicked /\ idle

Requeued == current # NoTask /\ status[current] = "Ready"

\* Mutants of ReadyQueue: a processor without a task is not noticed; the suspended task
\* goes to the front of the queue.
ReadyQueueUnchecked == Append(ready, current)
ReadyQueueLifo == IF Requeued THEN <<current>> \o ready ELSE ready

\* The ready queue after the last task was put back.
ReadyQueue == IF Requeued THEN Append(ready, current) ELSE ready
Pid2Tcb == IF Requeued THEN pid2tcb \union {current} ELSE pid2tcb

\* check_hanging: the heap's least wake_up_time has passed.
Due(h) == /\ h \in hanging
          /\ h.wake_up_time <= now
          /\ \A g \in hanging : h.wake_up_time <= g.wake_up_time
SomeDue == \E h \in hanging : Due(h)

\* check_futex_interupt_or_expire, first half: the first waiting task with a signal.
Interrupted(i) == /\ i \in 1..Len(waiting)
                  /\ pending[waiting[i]] # {}
                  /\ \A j \in 1..(i - 1) : pending[waiting[j]] = {}
SomeInterrupted == \E i \in 1..Len(waiting) : Interrupted(i)

\* Mutant of Expired: only the front of a chain is looked at.
ExpiredFrontOnly(a, i) ==
  a \in fqKeys /\ i = 1 /\ chain[a] # <<>> /\ chain[a][1].expire_time <= now

\* Second half, pop_expire_waiter: the first expired waiter of a queue.
Expired(a, i) == /\ a \in fqKeys
                 /\ i \in 1..Len(chain[a])
                 /\ chain[a][i].expire_time <= now
                 /\ \A j \in 1..(i - 1) : chain[a][j].expire_time > now
SomeExpired == \E a \in Addrs : \E i \in 1..Len(chain[a]) : Expired(a, i)

\* run_task
RunTask(t) ==
  /\ status' = [status EXCEPT ![t] = "Running"]
  /\ current' = t
  /\ idle' = FALSE

\* Mutant of RunHanging: every sleeper that is due leaves the heap, one is run.
RunHangingDrain ==
  /\ InLoop
  /\ \E h \in hanging : Due(h) /\ RunTask(h.task)
  /\ hanging' = {h \in hanging : h.wake_up_time > now}
  /\ ready' = ReadyQueue
  /\ pid2tcb' = Pid2Tcb
  /\ UNCHANGED <<waiting, futexes, pending, frame, clearTid, now, panicked>>

RunHanging ==
  /\ InLoop
  /\ \E h \in hanging : /\ Due(h)
                        /\ hanging' = hanging \ {h}
                        /\ RunTask(h.task)
  /\ ready' = ReadyQueue
  /\ pid2tcb' = Pid2Tcb
  /\ UNCHANGED <<waiting, futexes, pending, frame, clearTid, now, panicked>>

\* unblock_task on the task that was found, and on to the next iteration.
Unblock(t) ==
  LET q == unblock_task([waiting |-> waiting, ready |-> ReadyQueue], t)
  IN  /\ waiting' = q.waiting
      /\ ready' = q.ready
      /\ pid2tcb' = Pid2Tcb
      /\ current' = NoTask
      /\ UNCHANGED <<status, idle, hanging, pending, frame, clearTid, now,
                     panicked>>

UnblockInterrupted ==
  /\ InLoop
  /\ ~SomeDue
  /\ \E i \in 1..Len(waiting) : Interrupted(i) /\ Unblock(waiting[i])
  /\ UNCHANGED futexes

\* The queues of FUTEX_QUEUE are visited in the order of a hash map: any.
UnblockExpired ==
  /\ InLoop
  /\ ~SomeDue
  /\ ~SomeInterrupted
  /\ \E a \in Addrs : \E i \in 1..Len(chain[a]) :
       /\ Expired(a, i)
       /\ chain' = [chain EXCEPT ![a] = RemoveAt(@, i)]
       /\ waiters' = [waiters EXCEPT ![a] = @ - 1]
       /\ Unblock(chain[a][i].task)
  /\ UNCHANGED fqKeys

RunReady ==
  /\ InLoop
  /\ ~SomeDue
  /\ ~SomeInterrupted
  /\ ~SomeExpired
  /\ ReadyQueue # <<>>
  /\ RunTask(Head(ReadyQueue))
  /\ ready' = Tail(ReadyQueue)
  /\ pid2tcb' = Pid2Tcb
  /\ UNCHANGED <<hanging, waiting, futexes, pending, frame, clearTid, now,
                 panicked>>

\* An iteration that finds nothing to do.
Spin ==
  /\ InLoop
  /\ ~SomeDue
  /\ ~SomeInterrupted
  /\ ~SomeExpired
  /\ ReadyQueue = <<>>
  /\ current' = NoTask
  /\ UNCHANGED <<status, idle, queues, futexes, pending, frame, clearTid, now,
                 panicked>>

run_tasks == RunHanging \/ UnblockInterrupted \/ UnblockExpired \/ RunReady \/ Spin

\* The clock.
Tick ==
  /\ ~panicked
  /\ now < MaxTime
  /\ now' = now + 1
  /\ UNCHANGED <<status, current, idle, queues, futexes, pending, frame,
                 clearTid, panicked>>

\* After a panic nothing runs any more.
Panicked == panicked /\ UNCHANGED vars

Kernel(t) == TrapReturn(t) \/ LoopReturn(t) \/ FutexWaitReturn(t)

User(t) ==
  \/ Yield(t)
  \/ LoopSuspend(t)
  \/ Exit(t)
  \/ \E d \in Durations : Nanosleep(t, d)
  \/ \E c \in Tasks, ctid \in Ctids : Fork(t, c, ctid)
  \/ \E p \in Tasks, sig \in Sigs : Kill(t, p, sig)
  \/ \E a \in Addrs : FutexWaitAgain(t, a)
  \/ \E a \in Addrs, timeout \in Timeouts : FutexWait(t, a, timeout)
  \/ \E a \in Addrs, nr \in 0..2 : FutexWake(t, a, nr)
  \/ \E a, b \in Addrs, nr \in 0..1, limit \in 0..2 : FutexRequeue(t, a, nr, b, limit)

Next == run_tasks \/ Tick \/ Panicked \/ \E t \in Tasks : Kernel(t) \/ User(t)

Spec == Init /\ [][Next]_vars

\* The idle loop never stops, time passes, and a task leaves the kernel again.  A task
\* that keeps returning to user mode is interrupted by the timer (strong fairness of
\* Yield): trap_return arms the timer again only after a timer interrupt, so however
\* many system calls come between, it stays armed, or its interrupt pending, until it is
\* taken in user mode.  A system call that loops around suspend is not assumed to end,
\* and a task is not assumed to make any particular system call.
Fairness ==
  /\ WF_vars(run_tasks)
  /\ WF_vars(Tick)
  /\ \A t \in Tasks : /\ WF_vars(TrapReturn(t) \/ FutexWaitReturn(t))
                      /\ WF_vars(LoopSuspend(t) \/ LoopReturn(t))
                      /\ SF_vars(Yield(t))

FairSpec == Spec /\ Fairness

-----------------------------------------------------------------------------
(* Properties *)

Live == {t \in Tasks : status[t] \notin {"Absent", "Zombie"}}

\* How often a task is in a sequence.
Count(s, t) == Cardinality({i \in 1..Len(s) : s[i] = t})

\* How many places a task can be scheduled from: the processor, the ready queue, the
\* sleepers' heap, the waiting queue.  Between futex_wait's schedule() and the next
\* iteration of run_tasks the processor still names the blocked task, which run_tasks
\* then drops.
Places(t) == (IF current = t /\ status[t] \in {"Running", "Ready"} THEN 1 ELSE 0)
             + Count(ready, t) + Count(waiting, t)
             + Cardinality({h \in hanging : h.task = t})

\* Every live task can be scheduled from exactly one place: it is neither lost (it would
\* never run again) nor queued twice (it would run on one kernel stack twice); a zombie
\* or a task not created yet from none.  This is what unblock_task's search of the
\* waiting queue is for: a futex waiter may be found by a signal, its timeout and a
\* wake-up.
ExactlyOnePlace == \A t \in Tasks : Places(t) = IF t \in Live THEN 1 ELSE 0

\* A task blocked in futex_wait still has a waiter in some chain: whatever wake-ups,
\* requeues, timeouts and signals came between, somebody can still wake it.
BlockedHasWaiter ==
  \A i \in 1..Len(waiting) :
    \E a \in fqKeys : \E j \in 1..Len(chain[a]) : chain[a][j].task = waiting[i]

\* The counter of a futex queue is the length of its chain.  futex_wake and futex_requeue
\* pop as many waiters as the counter says with pop_front().unwrap(), and they and
\* futex_wait forget a key when it is 0.
WaitersCounted ==
  \A a \in fqKeys : waiters[a] = Len(chain[a])

\* A sleeper is run once its time has come (or the kernel panics).
SleeperRuns ==
  \A t \in Tasks : status[t] = "Hanging" ~> (status[t] = "Running" \/ panicked)

\* A task in the ready queue is run.
ReadyRuns ==
  \A t \in Tasks : t \in ToSet(ready) ~> (status[t] = "Running" \/ panicked)

\* A task blocked in futex_wait is run again if a signal is pending for it or one of its
\* waiters has a timeout.
FutexWaitEnds ==
  \A t \in Tasks :
    (/\ t \in ToSet(waiting)
     /\ \/ pending[t] # {}
        \/ \E a \in fqKeys : \E j \in 1..Len(chain[a]) :
             chain[a][j].task = t /\ chain[a][j].expire_time <= MaxTime)
    ~> (status[t] = "Running" \/ panicked)

\* futex_wake(a, nr) wakes nr of the tasks that wait on a, or all of them if there are
\* fewer.
BlockedOn(a) == {t \in ToSet(waiting) : \E j \in 1..Len(chain[a]) : chain[a][j].task = t}

WakeReachesWaiters ==
  [][\A t \in Tasks, a \in Addrs, nr \in 0..2 :
       FutexWake(t, a, nr) /\ a \in fqKeys =>
         Cardinality(ToSet(waiting) \ ToSet(waiting')) = AtMost(nr, Cardinality(BlockedOn(a)))]_vars

=============================================================================

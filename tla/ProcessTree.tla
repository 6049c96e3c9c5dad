----------------------------- MODULE ProcessTree -----------------------------
(***************************************************************************)
(* The life of task control blocks: clone, exit, wait4 and kill, the       *)
(* parent and children links, PID2TCB, and who holds an Arc to a TCB.      *)
(*                                                                         *)
(* Scheduling is left to TaskManager: here any live task may take the next *)
(* step, which is what it does between two calls of schedule().  What      *)
(* matters is who refers to whom when a task is freed: wait4 and the exit  *)
(* of a thread assert that the Arc they hold is the last one.              *)
(***************************************************************************)
EXTENDS Integers, Sequences, FiniteSets, SequencesExt

CONSTANTS
  MaxPid,       \* bound on PID_ALLOCATOR: pids are 0..MaxPid
  Threads,      \* may clone be called with CLONE_THREAD?
  Sigs,         \* the signals tasks send: a subset of {"KILL", "USR"}
  WaitPids      \* the pid arguments wait4 is called with

Pids == 0..MaxPid
INITPROC == 0
AnyChild == -1      \* wait4's pid argument for any child
NoWait == -2        \* the task is not in wait4
Signals == {"KILL", "USR"}

ASSUME PidsAssumption == MaxPid \in Nat
ASSUME InputsAssumption ==
  /\ Threads \in BOOLEAN
  /\ Sigs \subseteq Signals
  /\ WaitPids \subseteq Pids \union {AnyChild}

VARIABLES
  nextPid,    \* PidAllocator.current
  state,      \* "none", "live", "zombie" or "freed" (the TCB was dropped)
  tgid,       \* TaskControlBlock.tgid
  parent,     \* TaskControlBlockInner.parent
  children,   \* TaskControlBlockInner.children
  pid2tcb,    \* PID2TCB
  pending,    \* pending_signals
  frame,      \* "new": in user mode, not to look at signals before it is back in the
              \* kernel; "user"; "wait": suspended in wait4
  waitFor,    \* the pid argument of the wait4 call the task is in
  leaked,     \* Arcs on kernel stacks that will never be unwound
  panicked    \* the assertion that ended the kernel, or "no"

vars == <<nextPid, state, tgid, parent, children, pid2tcb, pending, frame, waitFor,
          leaked, panicked>>

Panics == {"initproc return", "thread with children", "thread still referenced",
           "child still referenced"}

\* The types of the state.
TypeOK ==
  /\ nextPid \in 0..(MaxPid + 1)
  /\ state \in [Pids -> {"none", "live", "zombie", "freed"}]
  /\ tgid \in [Pids -> Pids]
  /\ parent \in [Pids -> Pids]
  /\ children \in [Pids -> Seq(Pids)]
  /\ pid2tcb \subseteq Pids
  /\ pending \in [Pids -> SUBSET Signals]
  /\ frame \in [Pids -> {"new", "user", "wait"}]
  /\ waitFor \in [Pids -> Pids \union {AnyChild, NoWait}]
  /\ leaked \in [Pids -> Nat]
  /\ panicked \in Panics \union {"no"}

\* INITPROC and add_initproc.
Init ==
  /\ nextPid = 1
  /\ state = [p \in Pids |-> IF p = INITPROC THEN "live" ELSE "none"]
  /\ tgid = [p \in Pids |-> p]
  /\ parent = [p \in Pids |-> INITPROC]
  /\ children = [p \in Pids |-> <<>>]
  /\ pid2tcb = {INITPROC}
  /\ pending = [p \in Pids |-> {}]
  /\ frame = [p \in Pids |-> "new"]
  /\ waitFor = [p \in Pids |-> NoWait]
  /\ leaked = [p \in Pids |-> 0]
  /\ panicked = "no"

-----------------------------------------------------------------------------
(* References to a task control block *)

\* How many children vectors of existing TCBs list p, each as often as it does.
Listings(ch, p) ==
  Cardinality({e \in Pids \X (1..(2 * (MaxPid + 1))) :
                 /\ state[e[1]] \in {"live", "zombie"}
                 /\ e[2] <= Len(ch[e[1]])
                 /\ ch[e[1]][e[2]] = p})

\* Arc::strong_count of a task that has left the scheduler and PID2TCB, as seen by the
\* one who holds the last legitimate Arc: that one, the children vectors and whatever
\* dead kernel stacks still hold.  The Arc in a futex chain that a signalled waiter
\* leaves behind (syscall/futex.rs) is left out: it makes the assertions fail more often,
\* and has no other effect here.
StrongCount(ch, lk, p) == 1 + Listings(ch, p) + lk[p]

IndexOf(s, p) == CHOOSE i \in 1..Len(s) : s[i] = p /\ \A j \in 1..(i - 1) : s[j] # p

-----------------------------------------------------------------------------
(* exit *)

Running(p) == panicked = "no" /\ state[p] = "live"

\* In user mode.  A task that comes back from a suspension delivers its signals before
\* it gets there; a new one, or one whose round of delivery left KILL, is there already.
InUser(p) == /\ Running(p)
             /\ \/ frame[p] = "new"
                \/ frame[p] = "user" /\ "KILL" \notin pending[p]

IsThread(p) == tgid[p] # p

\* Mutant of Adopted: the orphans are not pushed to initproc's vector.
AdoptedLost(p) == children

\* The children of p are handed to initproc; p's own vector is not touched.
Adopted(p) == [children EXCEPT ![INITPROC] = @ \o children[p]]

\* The thread p leaves its parent's vector.
Detached(ch, p) ==
  LET q == parent[p] IN [ch EXCEPT ![q] = RemoveAt(@, IndexOf(@, p))]

\* Mutant of Reparented: only the first child learns of its new parent.
ReparentedFirst(p) ==
  [c \in Pids |-> IF children[p] # <<>> /\ c = Head(children[p]) THEN INITPROC ELSE parent[c]]

\* The parent links after p's children were handed over.
Reparented(p) ==
  [c \in Pids |-> IF c \in ToSet(children[p]) THEN INITPROC ELSE parent[c]]

remove_from_pid2task(p) == pid2tcb \ {p}

\* exit_current_and_run_next, called with lost Arcs to the task still on its kernel
\* stack: the frames above it are never unwound.
ExitCurrent(p, lost) ==
  LET lk == [leaked EXCEPT ![p] = @ + lost]
      ch == Detached(Adopted(p), p)
  IN  /\ pid2tcb' = remove_from_pid2task(p)
      /\ leaked' = lk
      /\ \/ /\ p = INITPROC
            /\ panicked' = "initproc return"
            /\ state' = [state EXCEPT ![p] = "zombie"]
            /\ UNCHANGED <<parent, children>>
         \/ /\ p # INITPROC /\ IsThread(p) /\ children[p] # <<>>
            /\ panicked' = "thread with children"
            /\ state' = [state EXCEPT ![p] = "zombie"]
            /\ UNCHANGED <<parent, children>>
         \/ /\ p # INITPROC /\ IsThread(p) /\ children[p] = <<>>
            /\ children' = ch
            /\ IF StrongCount(ch, lk, p) = 1
               THEN state' = [state EXCEPT ![p] = "freed"] /\ UNCHANGED panicked
               ELSE /\ state' = [state EXCEPT ![p] = "zombie"]
                    /\ panicked' = "thread still referenced"
            /\ UNCHANGED parent
         \/ /\ p # INITPROC /\ ~IsThread(p)
            /\ state' = [state EXCEPT ![p] = "zombie"]
            /\ parent' = Reparented(p)
            /\ children' = Adopted(p)
            /\ UNCHANGED panicked
      /\ UNCHANGED <<nextPid, tgid>>

\* sys_exit, sys_exit_group: only the calling task ends.
Exit(p) ==
  /\ InUser(p)
  /\ ExitCurrent(p, 0)
  /\ UNCHANGED <<pending, frame, waitFor>>

-----------------------------------------------------------------------------
(* clone, kill *)

\* Mutant of PidAfterAlloc: the task and its kernel stack draw a pid each.
PidAfterAllocTwice(pid) == pid + 2

\* PidAllocator::alloc: pids are never reused.
PidAfterAlloc(pid) == pid + 1

\* sys_do_fork and TaskControlBlock::fork.
Fork(p, thread) ==
  LET c == nextPid
  IN  /\ InUser(p)
      /\ nextPid <= MaxPid
      /\ nextPid' = PidAfterAlloc(nextPid)
      /\ tgid' = [tgid EXCEPT ![c] = IF thread THEN p ELSE c]
      /\ state' = [state EXCEPT ![c] = "live"]
      /\ parent' = [parent EXCEPT ![c] = p]
      /\ children' = [children EXCEPT ![p] = Append(@, c)]
      /\ pid2tcb' = pid2tcb \union {c}
      /\ frame' = [frame EXCEPT ![p] = "user"]
      /\ UNCHANGED <<pending, waitFor, leaked, panicked>>

\* sys_kill, sys_tkill
Kill(p, q, sig) ==
  /\ InUser(p)
  /\ pending' = IF q \in pid2tcb THEN [pending EXCEPT ![q] = @ \union {sig}] ELSE pending
  /\ frame' = [frame EXCEPT ![p] = "user"]
  /\ UNCHANGED <<nextPid, state, tgid, parent, children, pid2tcb, waitFor, leaked, panicked>>

\* exec_signal_handlers on the way back to user mode: KILL ends the task, or it
\* stays until the task is back in the kernel, behind a USR with a lower number that has a
\* handler.
Deliver(p) ==
  /\ Running(p)
  /\ frame[p] = "user"
  /\ \E sig \in pending[p] :
       IF sig = "KILL"
       THEN ExitCurrent(p, 0) /\ UNCHANGED <<pending, frame>>
       ELSE /\ pending' = [pending EXCEPT ![p] = @ \ {sig}]
            /\ frame' = [frame EXCEPT ![p] = IF "KILL" \in pending[p] THEN "new" ELSE @]
            /\ UNCHANGED <<nextPid, state, tgid, parent, children, pid2tcb, leaked, panicked>>
  /\ UNCHANGED waitFor

-----------------------------------------------------------------------------
(* wait4 *)

Matches(pid, c) == pid \in {AnyChild, c}

\* Mutant of Zombies: only the first child is looked at.
ZombiesFirst(p, pid) ==
  {i \in 1..Len(children[p]) :
     i = 1 /\ state[children[p][i]] = "zombie" /\ Matches(pid, children[p][i])}

\* The places in p's vector of the zombies that match; wait4 takes the first.
Zombies(p, pid) ==
  {i \in 1..Len(children[p]) : state[children[p][i]] = "zombie" /\ Matches(pid, children[p][i])}

\* A matching zombie leaves the vector; the assertion; the TCB is dropped at the end of
\* the block, and with it the Arcs in its own children vector.
Reap(p, pid) ==
  LET i == CHOOSE i \in Zombies(p, pid) : \A j \in Zombies(p, pid) : i <= j
      c == children[p][i]
      ch == [children EXCEPT ![p] = RemoveAt(@, i)]
  IN  /\ Zombies(p, pid) # {}
      /\ IF StrongCount(ch, leaked, c) = 1
         THEN /\ state' = [state EXCEPT ![c] = "freed"]
              /\ children' = [ch EXCEPT ![c] = <<>>]
              /\ UNCHANGED panicked
         ELSE /\ children' = ch
              /\ panicked' = "child still referenced"
              /\ UNCHANGED state
      /\ frame' = [frame EXCEPT ![p] = "user"]
      /\ waitFor' = [waitFor EXCEPT ![p] = NoWait]
      /\ UNCHANGED <<nextPid, tgid, parent, pid2tcb, pending, leaked>>

\* Nothing to reap: suspend_current_and_run_next, with the Arc `task` of sys_wait4 on
\* the stack.  It delivers signals first: KILL ends the task in there; after a USR
\* the loop goes on, also if KILL is still pending.
SuspendInWait(p, pid) ==
  /\ Zombies(p, pid) = {}
  /\ \/ "KILL" \in pending[p] /\ ExitCurrent(p, 1) /\ UNCHANGED <<pending, frame, waitFor>>
     \/ /\ pending[p] # {"KILL"}
        /\ pending' = [pending EXCEPT ![p] = @ \ {"USR"}]
        /\ frame' = [frame EXCEPT ![p] = "wait"]
        /\ waitFor' = [waitFor EXCEPT ![p] = pid]
        /\ UNCHANGED <<nextPid, state, tgid, parent, children, pid2tcb, leaked, panicked>>

\* sys_wait4 without any child that matches: 0 or ECHILD.
WaitNoChild(p, pid) ==
  /\ InUser(p)
  /\ \A i \in 1..Len(children[p]) : ~Matches(pid, children[p][i])
  /\ frame' = [frame EXCEPT ![p] = "user"]
  /\ UNCHANGED <<nextPid, state, tgid, parent, children, pid2tcb, pending, waitFor,
                 leaked, panicked>>

\* sys_wait4: the first turn of its loop, and every later one.
Wait(p, pid) ==
  /\ InUser(p)
  /\ \E i \in 1..Len(children[p]) : Matches(pid, children[p][i])
  /\ Reap(p, pid) \/ SuspendInWait(p, pid)

WaitAgain(p) ==
  /\ Running(p)
  /\ frame[p] = "wait"
  /\ Reap(p, waitFor[p]) \/ SuspendInWait(p, waitFor[p])

\* After a panic nothing runs any more.
Panicked == panicked # "no" /\ UNCHANGED vars

Next ==
  \/ Panicked
  \/ \E p \in Pids :
       \/ \E thread \in {FALSE, Threads} : Fork(p, thread)
       \/ Exit(p)
       \/ \E q \in Pids, sig \in Sigs : Kill(p, q, sig)
       \/ Deliver(p)
       \/ \E pid \in WaitPids : WaitNoChild(p, pid) \/ Wait(p, pid)
       \/ WaitAgain(p)

Spec == Init /\ [][Next]_vars

\* The scheduler comes back to every suspended task (TaskManager's ReadyRuns), so a wait4
\* makes its next turn.  Nothing else is assumed to happen.
FairSpec == Spec /\ \A p \in Pids : WF_vars(WaitAgain(p))

-----------------------------------------------------------------------------
(* Properties *)

Exists == {p \in Pids : state[p] \in {"live", "zombie"}}

\* Every task but initproc has a live parent that lists it exactly once: whatever order
\* parents and children exit in, somebody can still wait for it, and a thread that exits
\* finds its parent and itself in the parent's vector (both are unwrapped).
ParentListsChild ==
  panicked = "no" =>
    \A p \in Exists \ {INITPROC} :
      /\ state[parent[p]] = "live"
      /\ Cardinality({i \in 1..Len(children[parent[p]]) : children[parent[p]][i] = p}) = 1

\* A child whose vector entry survives elsewhere than with its parent is listed by a
\* zombie only: a second living task never believes it owns the child.
OneLiveOwner ==
  panicked = "no" =>
    \A p \in Pids, q \in Pids :
      state[q] = "live" /\ p \in ToSet(children[q]) => parent[p] = q

\* wait4 returns once a child it waits for is a zombie, wherever that is in the vector.
WaitReturns ==
  \A p \in Pids :
    (/\ state[p] = "live" /\ frame[p] = "wait"
     /\ \E c \in Pids : waitFor[p] \in {AnyChild, c} /\ state[c] = "zombie" /\ parent[c] = p)
      ~> (frame[p] # "wait" \/ panicked # "no")

\* wait4 never finds another Arc to the child it frees.
ReapedIsUnreferenced == panicked # "child still referenced"

=============================================================================

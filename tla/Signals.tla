------------------------------ MODULE Signals ------------------------------
(***************************************************************************)
(* Signals: sending, masks, handlers and their frames on the user stack,   *)
(* sigreturn, fork and exec, the signals that faults raise and the one of  *)
(* the interval timer.                                                     *)
(*                                                                         *)
(* The kernel is not preempted, so what a task does between two points     *)
(* where it may lose the processor is one action: a trap from user mode to *)
(* its return, or to a suspension, or from there on.  Pending signals are  *)
(* looked at by exec_signal_handlers, at every suspension and at the end   *)
(* of every trap but that of sigreturn.  Programs keep the frames on their *)
(* stacks as the kernel wrote them.                                        *)
(***************************************************************************)
EXTENDS Naturals, Sequences

CONSTANTS
  Tasks,
  First,       \* the task of the first process
  Signals,     \* the signals programs use
  Tables,      \* the actions that the first process may have installed to begin with
  MAX_SIGNUM,
  Installs,    \* bound: the signal and action of the sigaction calls
  Sets,        \* bound: the sets given to sigprocmask
  Timers,      \* bound: the it_value and it_interval given to setitimer
  MaxAge,      \* bound: ages of timers above it need not be told apart
  MaxCalls,    \* bound: calls that change the signal state, and faults
  NoTimer

SIGILL == 4
SIGKILL == 9
SIGSEGV == 11
SIGALRM == 14
SIGSTOP == 19
Critical == {SIGKILL, SIGSTOP, SIGILL, SIGSEGV}

Handlers == {"SIG_DFL", "SIG_IGN", "function"}
SigAction == [sa_handler : Handlers, sa_mask : SUBSET Signals, nodefer : BOOLEAN]
Default == [sa_handler |-> "SIG_DFL", sa_mask |-> {}, nodefer |-> FALSE]

\* Mutant: the set is taken as it comes.
SettableAll(S) == S

\* What sigaction and sigprocmask leave of a set of signals.
Settable(S) == S \ Critical

\* Tables as sigaction makes them, from the one that has the default actions only.
Installable ==
  {acts \in [Signals -> SigAction] :
     \A s \in Signals :
       /\ acts[s].sa_mask \cap Critical = {}
       /\ s \in {SIGKILL, SIGSTOP} => acts[s] = Default}

ASSUME SignalsAssumption ==
  /\ First \in Tasks
  /\ MAX_SIGNUM \in Nat \ {0} /\ Signals \subseteq 1 .. (MAX_SIGNUM - 1) /\ SIGALRM \in Signals
  /\ Tables \subseteq Installable
  /\ Installs \subseteq Signals \X SigAction
  /\ Sets \subseteq SUBSET Signals
  /\ MaxAge \in Nat /\ Timers \subseteq (0 .. (MaxAge - 1)) \X (0 .. (MaxAge - 1))
  /\ MaxCalls \in Nat
  /\ NoTimer \notin Nat \X Nat \X Nat

VARIABLES
  tcb,         \* per task: mode, pending_signals, sigmask, trap context, frames, timer
  sigactions,  \* the tables of actions, named by the task they were made for
  table,       \* the table that a task uses
  calls,       \* MaxCalls counts down to zero
  base,        \* history: the mask a task asked for outside its handlers
  opened       \* history: the signals a handler may be interrupted by itself

vars == <<tcb, sigactions, table, calls, base, opened>>

\* Lowest member of a set of numbers.
Lowest(S) == CHOOSE s \in S : \A r \in S : s <= r

Live(t) == tcb[t].mode \notin {"none", "dead"}
InUser(t) == tcb[t].mode = "user"
Acts(t) == sigactions[table[t]]
-----------------------------------------------------------------------------
(* A trap context: the signal whose handler it runs (0 for the main        *)
(* program), whether it stands at the first instruction of the handler,    *)
(* behind an ecall, or elsewhere, and register a0.                         *)
Main == [sig |-> 0, at |-> "body", a0 |-> "own"]
Called(cx) == [cx EXCEPT !.at = "ecall", !.a0 = "own"]
Entry(s) == [sig |-> s, at |-> "entry", a0 |-> "signum"]

\* Mutant: the old mask is forgotten while the handler runs.
HandlerMaskAlone(b, s, act) == act.sa_mask \cup (IF act.nodefer THEN {} ELSE {s})

\* The mask in force while the handler of signal s runs.
HandlerMask(b, s, act) ==
  b.sigmask \cup act.sa_mask \cup (IF act.nodefer THEN {} ELSE {s})

\* Mutant: the frame has the mask of the handler, not the one before it.
ToHandlerNewMask(b, s, act) ==
  [b EXCEPT !.sigmask = HandlerMask(b, s, act),
            !.frames = Append(@, [sig |-> s, context |-> b.cx, mask |-> HandlerMask(b, s, act)]),
            !.cx = Entry(s)]

\* The trap context and the mask go to the user stack; the task goes to the handler.
ToHandler(b, s, act) ==
  [b EXCEPT !.sigmask = HandlerMask(b, s, act),
            !.frames = Append(@, [sig |-> s, context |-> b.cx, mask |-> b.sigmask]),
            !.cx = Entry(s)]

\* exec_signal_handlers: signals are taken in the order of their numbers up to
\* the first that is not ignored; a default action is fatal or nothing.
exec_signal_handlers(b, acts) ==
  LET ready == b.pending_signals \ b.sigmask
      caught == {s \in ready : acts[s].sa_handler # "SIG_IGN"} IN
  IF caught = {} THEN [b EXCEPT !.pending_signals = @ \ ready]
  ELSE LET s == Lowest(caught)
           c == [b EXCEPT !.pending_signals = @ \ {r \in ready : r <= s}] IN
       IF acts[s].sa_handler = "function" THEN ToHandler(c, s, acts[s])
       ELSE IF s \in {SIGKILL, SIGSEGV} THEN [c EXCEPT !.mode = "dead"] ELSE c

\* Mutant: a timer that is up is taken away without its signal.
check_interval_timer_silent(b) ==
  IF b.itimer = NoTimer \/ b.itimer.age <= b.itimer.it_value THEN b
  ELSE [b EXCEPT !.itimer = IF b.itimer.it_interval = 0 THEN NoTimer
                            ELSE [b.itimer EXCEPT !.it_value = b.itimer.it_interval]]

\* Mutant: the interval is added to the value.
check_interval_timer_adding(b) ==
  IF b.itimer = NoTimer \/ b.itimer.age <= b.itimer.it_value THEN b
  ELSE [b EXCEPT !.pending_signals = @ \cup {SIGALRM},
                 !.itimer = IF b.itimer.it_interval = 0 THEN NoTimer
                            ELSE [b.itimer EXCEPT !.it_value = @ + b.itimer.it_interval]]

\* check_interval_timer: a timer with an interval keeps its creation time.
check_interval_timer(b) ==
  IF b.itimer = NoTimer \/ b.itimer.age <= b.itimer.it_value THEN b
  ELSE [b EXCEPT !.pending_signals = @ \cup {SIGALRM},
                 !.itimer = IF b.itimer.it_interval = 0 THEN NoTimer
                            ELSE [b.itimer EXCEPT !.it_value = b.itimer.it_interval]]

\* The signals that their own handlers may meet, when a task for which they were op
\* looks at its signals in state b and so comes to state c: SA_NODEFER adds one, and
\* a program that runs no handler has none.
Opened(op, b, c, acts) ==
  (IF b.frames = <<>> THEN {} ELSE op)
    \cup {s \in Signals : c.frames # b.frames /\ s = c.cx.sig /\ acts[s].nodefer}

\* Task t is now in state b, and may meet the signals in op in their own handlers.
Becomes(t, b, op) ==
  /\ tcb' = [tcb EXCEPT ![t] = b]
  /\ opened' = [opened EXCEPT ![t] = op]

\* user_trap_handler after its match: the way back to user mode.  In a handler, what
\* the system call took out of the mask is open from now on.
Leave(t, b, acts) ==
  LET c == check_interval_timer([b EXCEPT !.mode = "user"])
      d == exec_signal_handlers(c, acts) IN
  Becomes(t, d, Opened(opened[t] \cup (tcb[t].sigmask \ b.sigmask), c, d, acts))

\* A system call that does not suspend ends: the result goes to a0.
Return(t, b, acts) == Leave(t, [b EXCEPT !.cx = [Called(@) EXCEPT !.a0 = "result"]], acts)

Call == calls > 0 /\ calls' = calls - 1
-----------------------------------------------------------------------------
\* sys_kill and sys_tkill, by a task that is on its way through the kernel; the
\* sender's own way is left out.  A task that is gone takes no signal.
Kill(t, s) ==
  /\ Call
  /\ Live(t)
  /\ tcb' = [tcb EXCEPT ![t].pending_signals = @ \cup {s}]
  /\ UNCHANGED <<sigactions, table, base, opened>>

\* sys_sigaction.
Sigaction(t, s, act) ==
  LET sa == [act EXCEPT !.sa_mask = Settable(@)]
      acts == IF s \in {SIGKILL, SIGSTOP} THEN Acts(t) ELSE [Acts(t) EXCEPT ![s] = sa] IN
  /\ Call
  /\ InUser(t)
  /\ sigactions' = [sigactions EXCEPT ![table[t]] = acts]
  /\ Return(t, tcb[t], acts)
  /\ UNCHANGED <<table, base>>

NewMask(how, mask, set) ==
  CASE how = "SIG_BLOCK" -> mask \cup set
    [] how = "SIG_UNBLOCK" -> mask \ set
    [] how = "SIG_SETMASK" -> set

\* sys_sigprocmask.
Sigprocmask(t, how, set) ==
  LET mask == NewMask(how, tcb[t].sigmask, Settable(set)) IN
  /\ Call
  /\ InUser(t)
  /\ Return(t, [tcb[t] EXCEPT !.sigmask = mask], Acts(t))
  /\ base' = IF tcb[t].frames = <<>> THEN [base EXCEPT ![t] = mask] ELSE base
  /\ UNCHANGED <<sigactions, table>>

\* Mutant: the mask stays that of the handler.
SigreturnMaskKept(t) ==
  LET b == tcb[t]
      frame == b.frames[Len(b.frames)]
      c == check_interval_timer([b EXCEPT !.cx = frame.context, 
                                          !.frames = SubSeq(@, 1, Len(@) - 1)]) IN
  /\ InUser(t) /\ b.cx.sig # 0
  /\ Becomes(t, c, Opened(opened[t], c, c, Acts(t)))
  /\ UNCHANGED <<sigactions, table, calls, base>>

\* Mutant: the result of sys_sigreturn goes to a0, as that of every other call.
SigreturnResult(t) ==
  LET b == tcb[t]
      frame == b.frames[Len(b.frames)]
      c == check_interval_timer([b EXCEPT !.cx = [frame.context EXCEPT !.a0 = "result"], !.sigmask = frame.mask,
                                          !.frames = SubSeq(@, 1, Len(@) - 1)]) IN
  /\ InUser(t) /\ b.cx.sig # 0
  /\ Becomes(t, c, Opened(opened[t], c, c, Acts(t)))
  /\ UNCHANGED <<sigactions, table, calls, base>>

\* The handler returns to the trampoline: sys_sigreturn.
Sigreturn(t) ==
  LET b == tcb[t]
      frame == b.frames[Len(b.frames)]
      c == check_interval_timer([b EXCEPT !.cx = frame.context, !.sigmask = frame.mask,
                                          !.frames = SubSeq(@, 1, Len(@) - 1)]) IN
  /\ InUser(t) /\ b.cx.sig # 0
  /\ Becomes(t, c, Opened(opened[t], c, c, Acts(t)))
  /\ UNCHANGED <<sigactions, table, calls, base>>

\* sys_setitimer for ITIMER_REAL: two zeros take the timer away.
Setitimer(t, value, interval) ==
  /\ Call
  /\ InUser(t)
  /\ Return(t, [tcb[t] EXCEPT !.itimer =
       IF value = 0 /\ interval = 0 THEN NoTimer
       ELSE [it_value |-> value, it_interval |-> interval, age |-> 0]], Acts(t))
  /\ UNCHANGED <<sigactions, table, base>>
-----------------------------------------------------------------------------
\* Mutant: signals wait until the task returns to user mode.
SuspendDeaf(t, b, mode) == Becomes(t, [b EXCEPT !.mode = mode], opened[t])

\* suspend_current_and_run_next in state b.
Suspend(t, b, mode) ==
  LET c == exec_signal_handlers(b, Acts(t)) IN
  Becomes(t, IF c.mode = "dead" THEN c ELSE [c EXCEPT !.mode = mode], Opened(opened[t], b, c, Acts(t)))

\* A system call that has to wait, a read of a pipe say, looks and suspends.
Wait(t) ==
  /\ InUser(t)
  /\ Suspend(t, [tcb[t] EXCEPT !.cx = Called(@)], "syscall")
  /\ UNCHANGED <<sigactions, table, calls, base>>

\* It has the processor again and has to go on waiting.
WaitAgain(t) ==
  /\ tcb[t].mode = "syscall"
  /\ Suspend(t, tcb[t], "syscall")
  /\ UNCHANGED <<sigactions, table, calls, base>>

\* Its wait is over: whatever the trap context is now, its a0 gets the result.
WaitOver(t) ==
  /\ tcb[t].mode = "syscall"
  /\ Leave(t, [tcb[t] EXCEPT !.cx.a0 = "result"], Acts(t))
  /\ UNCHANGED <<sigactions, table, calls, base>>

\* The timer interrupt, and the way back when the task has the processor again.
Interrupt(t) ==
  /\ InUser(t)
  /\ Suspend(t, tcb[t], "interrupt")
  /\ UNCHANGED <<sigactions, table, calls, base>>

Resume(t) ==
  /\ tcb[t].mode = "interrupt"
  /\ Leave(t, tcb[t], Acts(t))
  /\ UNCHANGED <<sigactions, table, calls, base>>

\* A page fault that check_lazy cannot mend, or an illegal instruction.
Fault(t, s) ==
  /\ Call
  /\ InUser(t)
  /\ Leave(t, [tcb[t] EXCEPT !.pending_signals = @ \cup {s}], Acts(t))
  /\ UNCHANGED <<sigactions, table, base>>

\* Time passes for every timer.
Tick ==
  /\ \E t \in Tasks : tcb[t].itimer # NoTimer /\ tcb[t].itimer.age < MaxAge
  /\ tcb' = [t \in Tasks |-> IF tcb[t].itimer = NoTimer \/ tcb[t].itimer.age = MaxAge THEN tcb[t]
                             ELSE [tcb[t] EXCEPT !.itimer.age = @ + 1]]
  /\ UNCHANGED <<sigactions, table, calls, base, opened>>
-----------------------------------------------------------------------------
\* The tcb that fork makes: a process has a copy of the stack, a thread a new one.
Forked(b, thread) ==
  [b EXCEPT !.mode = "user", !.pending_signals = {}, !.itimer = NoTimer,
            !.cx = IF thread THEN Main ELSE [Called(@) EXCEPT !.a0 = "result"],
            !.frames = IF thread THEN <<>> ELSE @]

\* sys_do_fork: CLONE_SIGHAND shares the table, else it is copied.
Fork(t, u, thread) ==
  LET b == check_interval_timer([tcb[t] EXCEPT !.cx = [Called(@) EXCEPT !.a0 = "result"]])
      c == exec_signal_handlers(b, Acts(t)) IN
  /\ Call
  /\ InUser(t) /\ tcb[u].mode = "none"
  /\ tcb' = [tcb EXCEPT ![t] = c, ![u] = Forked(tcb[t], thread)]
  /\ opened' = [opened EXCEPT ![t] = Opened(opened[t], b, c, Acts(t)), ![u] = IF thread THEN {} ELSE opened[t]]
  /\ table' = [table EXCEPT ![u] = IF thread THEN table[t] ELSE u]
  /\ sigactions' = IF thread THEN sigactions ELSE [sigactions EXCEPT ![u] = Acts(t)]
  /\ base' = [base EXCEPT ![u] = IF thread THEN tcb[t].sigmask ELSE base[t]]

\* exec of a process without threads: mask, pending signals, timer and actions stay.
Exec(t) ==
  /\ Call
  /\ InUser(t) /\ table[t] = t /\ \A u \in Tasks \ {t} : table[u] = t => ~ Live(u)
  /\ Leave(t, [tcb[t] EXCEPT !.cx = [Called(Main) EXCEPT !.a0 = "result"], !.frames = <<>>], Acts(t))
  /\ base' = [base EXCEPT ![t] = tcb[t].sigmask]
  /\ UNCHANGED <<sigactions, table>>

\* sys_exit and sys_exit_group.
Exit(t) ==
  /\ InUser(t)
  /\ tcb' = [tcb EXCEPT ![t].mode = "dead", ![t].cx = Called(@)]
  /\ UNCHANGED <<sigactions, table, calls, base, opened>>

Unborn == [mode |-> "none", pending_signals |-> {}, sigmask |-> {}, cx |-> Main,
           frames |-> <<>>, itimer |-> NoTimer]

Init ==
  /\ tcb = [t \in Tasks |-> IF t = First THEN [Unborn EXCEPT !.mode = "user"] ELSE Unborn]
  /\ \E acts \in Tables :
       sigactions = [t \in Tasks |-> IF t = First THEN acts ELSE [s \in Signals |-> Default]]
  /\ table = [t \in Tasks |-> t]
  /\ calls = MaxCalls
  /\ base = [t \in Tasks |-> {}]
  /\ opened = [t \in Tasks |-> {}]

Next ==
  \/ Tick
  \/ \E t \in Tasks :
       \/ \E s \in Signals : Kill(t, s)
       \/ \E p \in Installs : Sigaction(t, p[1], p[2])
       \/ \E how \in {"SIG_BLOCK", "SIG_UNBLOCK", "SIG_SETMASK"}, set \in Sets : Sigprocmask(t, how, set)
       \/ \E p \in Timers : Setitimer(t, p[1], p[2])
       \/ \E s \in Signals \cap {SIGSEGV, SIGILL} : Fault(t, s)
       \/ \E u \in Tasks, thread \in BOOLEAN : Fork(t, u, thread)
       \/ Sigreturn(t) \/ Exec(t) \/ Exit(t)
       \/ Wait(t) \/ WaitAgain(t) \/ WaitOver(t) \/ Interrupt(t) \/ Resume(t)

\* Time passes; in user mode the timer interrupt comes, and a task that gave the
\* processor away gets it again.  What a system call waits for may never happen.
Step(t) == Interrupt(t) \/ Resume(t) \/ WaitAgain(t)
Fairness == WF_vars(Tick) /\ \A t \in Tasks : WF_vars(Step(t))

Spec == Init /\ [][Next]_vars /\ Fairness
-----------------------------------------------------------------------------
Context == [sig : {0} \cup Signals, at : {"body", "ecall", "entry"}, a0 : {"own", "result", "signum"}]
Frame == [sig : Signals, context : Context, mask : SUBSET Signals]
Itimer == [it_value : 0 .. (MaxAge - 1), it_interval : 0 .. (MaxAge - 1), age : 0 .. MaxAge]

\* The types of the state.
TypeOK ==
  /\ tcb \in [Tasks -> [mode : {"none", "user", "syscall", "interrupt", "dead"},
                        pending_signals : SUBSET Signals, sigmask : SUBSET Signals,
                        cx : Context, frames : Seq(Frame), itimer : Itimer \cup {NoTimer}]]
  /\ sigactions \in [Tasks -> [Signals -> SigAction]]
  /\ table \in [Tasks -> Tasks]
  /\ calls \in 0 .. MaxCalls
  /\ base \in [Tasks -> SUBSET Signals] /\ opened \in [Tasks -> SUBSET Signals]

\* Every mask a task has or will have again when its handlers return.
Masks(t) == {tcb[t].sigmask} \cup {tcb[t].frames[i].mask : i \in 1 .. Len(tcb[t].frames)}

\* Nothing blocks SIGKILL and SIGSTOP, whatever sigaction, sigprocmask, handlers,
\* sigreturn, fork and exec make of the masks, and SIGSEGV and SIGILL are in a mask only
\* while a frame of the task runs their own handler, or if the mask outside its handlers
\* has them (that of a task which such a handler forked or exec'ed).
KillStaysOpen ==
  \A t \in Tasks : \A mask \in Masks(t) :
    /\ mask \cap {SIGKILL, SIGSTOP} = {}
    /\ mask \cap Critical \subseteq base[t] \cup {tcb[t].frames[i].sig : i \in 1 .. Len(tcb[t].frames)}

\* When the last handler has returned the mask is the one that the program asked
\* for outside its handlers, however they nested and whatever they did to it.
MaskComesBack ==
  \A t \in Tasks :
    base[t] = IF tcb[t].frames = <<>> THEN tcb[t].sigmask ELSE tcb[t].frames[1].mask

\* A handler is not interrupted by its own signal, however many others come in
\* between, unless it was opened for it by SA_NODEFER or by sigprocmask.
NoReentry ==
  \A t \in Tasks : \A i, j \in 1 .. Len(tcb[t].frames) :
    i < j /\ tcb[t].frames[i].sig = tcb[t].frames[j].sig => tcb[t].frames[i].sig \in opened[t]

\* A handler starts with its signal number in a0.  The one exception is the topmost of
\* the handlers that were entered one on the other, none having run yet, while a system
\* call waited: the result of that call is in its a0, and not in the context that the
\* program will go on with.
HandlerArgument ==
  \A t \in Tasks :
    LET b == tcb[t] IN
    b.mode = "user" /\ b.cx.at = "entry" /\ b.cx.a0 # "signum" =>
      \E i \in 1 .. Len(b.frames) :
        /\ b.frames[i].context.at = "ecall" /\ b.frames[i].context.a0 = "own"
        /\ \A j \in (i + 1) .. Len(b.frames) : b.frames[j].context.at = "entry"

\* A signal that is pending at the first task and not masked is taken, and SIGKILL
\* ends the task, whatever it is doing or waiting for and whatever else is pending.
SignalIsTaken ==
  \A s \in Signals :
    (Live(First) /\ s \in tcb[First].pending_signals \ tcb[First].sigmask)
      ~> (~ Live(First) \/ (s # SIGKILL /\ s \notin tcb[First].pending_signals \ tcb[First].sigmask))

\* SIGALRM is pending at t after the step, or exec_signal_handlers has taken it in the
\* same step: its handler stands at its first instruction or, without a handler and
\* unmasked, it was discarded.
AlarmRaised(t) ==
  LET b == tcb'[t] IN
  \/ b.mode = "dead" \/ SIGALRM \in b.pending_signals
  \/ IF sigactions'[table'[t]][SIGALRM].sa_handler = "function" THEN b.cx = Entry(SIGALRM)
     ELSE SIGALRM \notin b.sigmask

OneShot(t) == tcb[t].itimer # NoTimer /\ tcb[t].itimer.it_interval = 0

\* Task t has a timer that is up, and the step takes the timer away, though not by a call
\* of setitimer, or brings t back to user mode.
TimerGoes(t) ==
  /\ tcb[t].itimer # NoTimer /\ tcb[t].itimer.age > tcb[t].itimer.it_value
  /\ \/ tcb'[t].itimer = NoTimer /\ ~ \E p \in Timers : Setitimer(t, p[1], p[2])
     \/ tcb[t].mode \in {"syscall", "interrupt"} /\ tcb'[t].mode = "user"

\* A timer never goes without its SIGALRM becoming pending, one with an interval rings
\* as well, and one without an interval does go, unless its task waits in a system call:
\* timers are looked at only on the way back to user mode.
AlarmComes ==
  /\ [][\A t \in Tasks : TimerGoes(t) => AlarmRaised(t)]_vars
  /\ (Live(First) /\ OneShot(First)) ~> (tcb[First].mode \in {"dead", "syscall"} \/ ~ OneShot(First))
=============================================================================
